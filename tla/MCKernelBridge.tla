--------------------------- MODULE MCKernelBridge ---------------------------
(* KernelBridge on a document with one of everything: a model at 1, a       *)
(* setting of it at 2, a prob at 3, a layout claim at 4, a kernel cell at   *)
(* 5, and two execs after it, of which the second reads the first.  A cfg   *)
(* chooses the documents.                                                   *)
EXTENDS KernelBridge

MCModels == {1}
MCSettings == {2}
MCProbs == {3}
MCLayouts == {4}
MCExecs == {5, 6, 7}
MCKernels == {5}
MCUnnamed == <<>>
MCPipeFrom == [s \in {7} |-> 6]
MCBad == {"bad"}
MCConditional == {"n0 given n1"}
MCRejects == {<<"rejected", {}>>, <<"rejected", {<<2, "fock">>}>>}

No == "absent"
MCDocs ==
  {<<"a", r, p, No, No, No, No>> : r \in {No, "fock"}, p \in {No, "n0", "n0 given n1"}}
    \cup {<<"rejected", No, "n0", No, No, No, No>>, <<No, "fock", "n0", No, No, No, No>>,
          <<"bad", "bad", "bad", "swizzle", No, No, No>>}
    \cup {<<No, No, No, No, No, e, "cat">> : e \in {No, "echo x"}}
    \cup {<<No, No, No, No, "cell", "echo y", "cat">>}
PlainDocs == {<<"a", r, "n0", No, No, No, No>> : r \in {No, "fock"}}
=============================================================================
