----------------------------- MODULE MCTextEditing -----------------------------
EXTENDS TextEditing
Between(kind, dollar) == [kind |-> kind, from |-> "#1", to |-> "#2", dollar |-> dollar]
StmtsDef == [bold |-> Between("bold", FALSE), prob |-> Between("prob", FALSE),
             cite |-> Between("cite", FALSE),
             outer |-> [Between("code", FALSE) EXCEPT !.to = "#3"],
             inner |-> [Between("code", FALSE) EXCEPT !.from = "#2", !.to = "#3"],
             price |-> Between("prob", TRUE)]
TextsDef == {<<"#1", "#2", "price">>, <<"#1", "#2", "cite">>,
             <<"#1", "#2", "bold", "prob">>,
             <<"#1", "#2", "#3", "outer", "inner">>, <<"$", "w", "$">>}
=============================================================================
