-------------------------------- MODULE Markers --------------------------------
(***************************************************************************)
(* What the text of a document means before it is drawn: the markers and   *)
(* statements in it and the segments between markers                       *)
(* (crates/mathed_core/src/markers.rs), the blocks it is cut into          *)
(* (blocks.rs), and the part that a caret opens (mathed_mini/render.rs).   *)
(*                                                                         *)
(* A text is a sequence of pieces; an offset is the place before a piece.  *)
(* Pieces are a letter "w", a space, a newline "nl", "_", "$", "<" (which  *)
(* stands for "@" too), a backslash "bs", markers and whole statements.  A *)
(* range is a pair of offsets.                                             *)
(***************************************************************************)
EXTENDS Integers, SequencesExt

CONSTANTS
  Ids,    \* markers, "#" and an id
  Stmts   \* statements: the kind, the two markers, whether a literal has a "$"

Kinds == {"bold", "prob", "code", "cite"}

ASSUME StmtsAssumption ==
  \A s \in DOMAIN Stmts : Stmts[s].kind \in Kinds /\ Stmts[s].from \in Ids /\ Stmts[s].to \in Ids

\* No piece is two things, nor one that only the transform writes.
Characters == {"w", " ", "nl", "_", "$", "<", "bs"}
Additions == {"esc", "splice", "nbsp", "fence", "open", "close", "break"}

ASSUME PiecesAssumption ==
  /\ Ids \cap DOMAIN Stmts = {}
  /\ (Characters \cup Additions) \cap (Ids \cup DOMAIN Stmts) = {}

Pieces == Characters \cup Ids \cup DOMAIN Stmts

End(text) == Len(text) + 1
White == {" ", "nl"}

\* A backslash takes the next piece with it.
Escaped(text, i) ==
  LET esc[k \in 1 .. i] == k > 1 /\ text[k - 1] = "bs" /\ ~ esc[k - 1] IN esc[i]

\* try_parse_marker: letters after a marker belong to its id.
MarkersOf(text) ==
  LET at == {i \in DOMAIN text : text[i] \in Ids /\ ~ Escaped(text, i)}
      end(i) == CHOOSE j \in i + 1 .. End(text) :
                  /\ \A k \in i + 1 .. j - 1 : text[k] = "w"
                  /\ j = End(text) \/ text[j] # "w"
  IN  {[id |-> IF end(i) = i + 1 THEN text[i] ELSE "other", lo |-> i, hi |-> end(i)] : i \in at}

\* scan: the offsets of statements.
StmtsOf(text) == {i \in DOMAIN text : text[i] \in DOMAIN Stmts /\ ~ Escaped(text, i)}

\* marker_index: the first marker with an id is meant by it.
Named(markers, id) ==
  LET alike == {m \in markers : m.id = id}
  IN  {m \in alike : \A n \in alike : m.lo <= n.lo}

\* resolve_segments: the text between a statement's markers, if they are there
\* and in order.
SpanOf(markers, stmt) ==
  LET ends == Named(markers, Stmts[stmt].from) \X Named(markers, Stmts[stmt].to)
  IN  {<<e[1].hi, e[2].lo>> : e \in {p \in ends : p[1].hi <= p[2].lo}}

Segments(text) ==
  LET markers == MarkersOf(text)
  IN  UNION {{[at |-> i, kind |-> Stmts[text[i]].kind, lo |-> s[1], hi |-> s[2]] :
                s \in SpanOf(markers, text[i])} : i \in StmtsOf(text)}

\* reveal_span_in: from a statement's first marker to its end, for the first
\* statement that this holds the caret.
OpenedBy(text, caret) ==
  LET markers == MarkersOf(text)
      full(i) == LET starts == {m.lo : m \in Named(markers, Stmts[text[i]].from)}
                 IN  <<IF starts = {} THEN i ELSE CHOOSE lo \in starts : TRUE, i + 1>>
      at == {i \in StmtsOf(text) : full(i)[1] <= caret /\ caret <= full(i)[2]}
  IN  {full(i) : i \in {j \in at : \A k \in at : j <= k}}

\* split_blocks: a blank line ends a block unless a formula is open, which any
\* "$" opens or closes that is not escaped.
Breaks(text) ==
  LET dollars == {i \in DOMAIN text : /\ ~ Escaped(text, i)
                                      /\ \/ text[i] = "$"
                                         \/ text[i] \in DOMAIN Stmts /\ Stmts[text[i]].dollar}
      blankAfter(i) == \A j \in i + 1 .. Len(text) :
                         text[j] \in White \/ \E k \in i + 1 .. j : text[k] = "nl"
  IN  {i \in DOMAIN text : /\ text[i] = "nl" /\ ~ Escaped(text, i) /\ blankAfter(i)
                           /\ Cardinality({d \in dollars : d < i}) % 2 = 0}

Blocks(text) ==
  LET solid == {i \in DOMAIN text : text[i] \notin White}
      joined(i, j) == \A b \in Breaks(text) : ~ (i < b /\ b < j)
      first == {i \in solid : \A j \in solid : j < i => ~ joined(j, i)}
      last(i) == CHOOSE j \in solid : i <= j /\ joined(i, j)
                                      /\ \A k \in solid : k > j => ~ joined(i, k)
  IN  {<<i, last(i) + 1>> : i \in first}
=============================================================================
