------------------------------ MODULE TextEditing ------------------------------
(***************************************************************************)
(* A document that is typed, the caret in it, and what a frontend has the  *)
(* transform make of it: the Android engine of the whole document, the     *)
(* Bevy editor and the mini editor of block after block.                   *)
(***************************************************************************)
EXTENDS Transform

CONSTANTS
  Texts,    \* the documents that editing begins with
  Keys,     \* what is typed
  MaxTyped  \* bound

VARIABLES text, caret, editor, typed

ASSUME TextsAssumption == Texts \subseteq Seq(Pieces)
ASSUME KeysAssumption == Keys \subseteq Pieces
ASSUME MaxTypedAssumption == MaxTyped \in Nat

typingVars == <<text, caret, editor, typed>>

Editors == {"android", "bevy", "mini"}

TypingInit ==
  /\ text \in Texts /\ caret = End(text)
  /\ editor \in Editors /\ typed = 0

\* MathDoc::insert.  (A statement after a lone backslash would be text with
\* markers in it; such documents are left out.)
Type ==
  /\ typed < MaxTyped /\ typed' = typed + 1
  /\ \E k \in Keys :
       /\ ~ (k = "bs" /\ caret \in DOMAIN text /\ text[caret] \in DOMAIN Stmts)
       /\ text' = InsertAt(text, caret, k)
  /\ caret' = caret + 1 /\ UNCHANGED editor

Move == caret' \in 1 .. End(text) /\ UNCHANGED <<text, editor, typed>>

TypingNext == Type \/ Move

TypingSpec == TypingInit /\ [][TypingNext]_typingVars

-----------------------------------------------------------------------------
\* What a frontend asks of the transform, and for which ranges.
Ranges == IF editor = "android" THEN {<<1, End(text)>>} ELSE Blocks(text)

Clamped(s, r) == <<IF s[1] < r[1] THEN r[1] ELSE s[1], IF s[2] > r[2] THEN r[2] ELSE s[2]>>

Options(r) ==
  [reveal |-> IF editor = "mini"
              THEN {c \in {Clamped(s, r) : s \in OpenedBy(text, caret)} : c[1] <= c[2]}
              ELSE {<<c, c>> : c \in {caret} \cap r[1] .. r[2]},
   expand |-> IF editor = "android" THEN OpenedBy(text, caret) ELSE {},
   labels |-> editor = "android",
   results |-> editor # "android"]

-----------------------------------------------------------------------------
(* Properties.                                                             *)

\* The text is made of pieces and the caret is in it.
TypingOK ==
  /\ text \in Seq(Pieces) /\ caret \in 1 .. End(text)
  /\ editor \in Editors /\ typed \in 0 .. MaxTyped

Sorted(w) ==
  \A k \in 1 .. Len(w.spans) - 1 :
    /\ w.spans[k].doc + w.spans[k].len <= w.spans[k + 1].doc
    /\ w.spans[k].out + w.spans[k].len <= w.spans[k + 1].out

\* Formulas and code that are shown raw are written whole: what is spliced in
\* inside of one comes after all of it, and code that begins there is copied twice.
Overtakes(plan, o) ==
  LET raw == {m \in plan.math : Revealed(o, m[1], m[2])}
             \cup {<<c.lo, c.hi>> : c \in {d \in plan.code : Expanded(o, d.lo, d.hi)}}
      splices == plan.results \cup plan.labels \cup plan.titles
      inside == {s[1] : s \in splices \cup {p \in raw : p[1] < p[2]}}
  IN  \E i \in inside, p \in raw : p[1] < i /\ i < p[2]

Copied(w) == UNION {s.doc .. s.doc + s.len - 1 : s \in Range(w.spans)}

\* A caret is where it is drawn: to the rendered text and back it passes nothing
\* that is shown, of two carets the later one is not drawn first, and a click on
\* a backslash that the transform adds is one on what it escapes.  The map is in
\* order for this (transform.rs, line 32), unless a splice or code overtakes.
Stays(r, w) ==
  LET back(p) == RenderToDoc(w, text, DocToRender(w, p))
      passed(p, q) == Copied(w) \cap (p .. q - 1 \cup q .. p - 1)
  IN  /\ Sorted(w)
      /\ \A p \in r[1] .. r[2] - 1 : DocToRender(w, p) <= DocToRender(w, p + 1)
      /\ \A p \in r[1] .. r[2] : passed(p, back(p)) = {}
      /\ \A q \in DOMAIN w.out :
           w.out[q] = "esc" => RenderToDoc(w, text, q) = RenderToDoc(w, text, q + 1)

CaretStays ==
  \A r \in Ranges :
    \/ Stays(r, Render(text, r, Options(r)))
    \/ Overtakes(Plan(text, r, Options(r)), Options(r))

\* How Typst reads what is written, item after item.  A backslash of the
\* document's takes what the transform writes after it.  A statement with a "$"
\* has it escaped in a formula that is shown raw, and not where it is shown
\* itself, after "esc".
WithDollar(item) == item \in DOMAIN Stmts /\ Stmts[item].dollar

ReadItem(s, item) ==
  IF s.code THEN [s EXCEPT !.code = item # "fence"]
  ELSE IF s.esc # "" THEN
    [s EXCEPT !.esc = "", !.taken = @ \/ (s.esc = "bs" /\ item \in Additions),
              !.math = IF WithDollar(item) THEN ~ @ ELSE @, !.angle = FALSE]
  ELSE [s EXCEPT !.code = item = "fence",
                 !.esc = IF item \in {"esc", "bs"} THEN item ELSE "",
                 !.math = IF item = "$" THEN ~ @ ELSE @,
                 !.marker = @ \/ item \in Ids,
                 !.mark = @ \/ (item = "_" /\ ~ s.math),
                 !.angle = item = "<" /\ ~ s.math,
                 !.label = @ \/ (s.angle /\ item \in {"w", "_"})]

Read(out) ==
  LET after[n \in 0 .. Len(out)] ==
        IF n = 0 THEN [code |-> FALSE, esc |-> "", math |-> FALSE, marker |-> FALSE,
                       mark |-> FALSE, taken |-> FALSE, angle |-> FALSE, label |-> FALSE]
        ELSE ReadItem(after[n - 1], out[n])
  IN  after[Len(out)]

\* A "<" that the transform lets stand before what may be a letter in the end: in a
\* formula that is shown raw, or before a token that it hides.
LeftBare(doc, plan, o) ==
  {i \in DOMAIN doc :
     /\ doc[i] = "<" /\ ~ Escaped(doc, i)
     /\ \/ Within(plan.hidden, i + 1)
        \/ \E m \in plan.math : Revealed(o, m[1], m[2]) /\ m[1] <= i /\ i < m[2]}

Accepted(out, end, bared) ==
  LET bare(i) == text[i] = "bs" /\ ~ Escaped(text, i)
      dollar == \E item \in Range(out) : WithDollar(item)
  IN  /\ ~ end.code /\ ~ end.marker
      /\ end.math \/ end.mark => dollar
      /\ end.label => dollar \/ bared # {}
      /\ end.taken => \E i \in 1 .. Len(text) - 1 : bare(i) /\ text[i + 1] \in White

\* What the transform writes around the document's text it closes, and what would
\* open something of Typst's it escapes: no code and no formula is left open, no
\* marker, no "_" and no label is read as Typst's own outside of formulas, and
\* nothing that the transform writes is taken by a backslash.  It may be so only
\* where a statement with a "$" is shown, or a backslash stands before a newline or
\* a space.  What a formula that stays one has in it is copied as it is, and whether
\* Typst accepts that is not said here: it refuses "$_$".
\*
\* Labels have two exceptions more.  emit_revealed_math_span escapes markers, "$" and
\* marks but no "<" (transform.rs 1441), of which is_label_or_ref_opener says that it
\* "opened a live label and failed the whole paged compile" (1281-1290); and a "<"
\* before a hidden token is looked at without what comes behind the token.
Closed ==
  \A r \in Ranges :
    LET o == Options(r)
        bared == LeftBare(text, Plan(text, r, o), o)
        accepted(out) == Accepted(out, Read(out), bared)
    IN  accepted(Render(text, r, o).out)
=============================================================================
