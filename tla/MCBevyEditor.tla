----------------------------- MODULE MCBevyEditor -----------------------------
(* BevyEditor for TLC: prose p, and q with a character less; widgets w, and   *)
(* v with a character less; x does not compile; b has no source.             *)
EXTENDS BevyEditor

MCSize == [t \in {"p", "q", "w", "v", "x", "b"} |->
             CASE t = "p" -> 3 [] t = "q" -> 2 [] t \in {"w", "x"} -> 5 [] OTHER -> 4]
MCDocs == {<<"w">>, <<"v">>, <<"p", "w">>, <<"b", "x">>}
=============================================================================
