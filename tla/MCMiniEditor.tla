----------------------------- MODULE MCMiniEditor -----------------------------
(* Instances of MiniEditor.  Text "ab" is "a" with a byte typed in after it; *)
(* "p" has a \prob, "m" a \model, "s" styles what "k" marks.  Results 1 and 2 *)
(* are pictures of one size, which no fingerprint tells apart; 0 is an error. *)
EXTENDS MiniEditor

SizeDef == [a |-> 1, ab |-> 2, abc |-> 3, p |-> 2, m |-> 1, k |-> 1, s |-> 1, bad |-> 2]

DocsDef == {<<"a", "p">>, <<"ab", "p">>, <<"bad", "p">>, <<"m", "a">>, <<"p">>, <<>>, <<"k", "s">>, <<"k", "a">>}

FingerprintDef == (0 :> "error" @@ 1 :> "lengths" @@ 2 :> "lengths")

AnnotationDef == (0 :> "name" @@ 1 :> "picture 1" @@ 2 :> "picture 2")

GrowsDef == {<<"a", "ab", 1>>, <<"a", "bad", 1>>}
=============================================================================
