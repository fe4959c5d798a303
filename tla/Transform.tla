------------------------------- MODULE Transform -------------------------------
(***************************************************************************)
(* How a part of a document becomes text for Typst                         *)
(* (crates/mathed_core/src/transform.rs): which tokens are hidden, which   *)
(* are shown raw since the caret touches them, what is spliced in, and the *)
(* map between the offsets of both texts.                                  *)
(*                                                                         *)
(* A part is a pair of offsets, r.  An item of the rendered text is a      *)
(* piece of the document or something the transform writes: "bs" is a      *)
(* backslash of the document's, "esc" one of the transform's.  Bold stands *)
(* for all styles, "_" for all marks that Typst pairs, the result of a     *)
(* prob for all that is spliced in behind a segment.  Figures, outputs of  *)
(* blocks and errors of translators are left out.                          *)
(***************************************************************************)
EXTENDS Markers

Touches(spots, lo, hi) == \E s \in spots : s[1] <= hi /\ lo <= s[2]
Within(parts, i) == \E p \in parts : p[1] <= i /\ i < p[2]

\* What the frontends ask for: reveal shows tokens raw, expand does so but for
\* markers; labels are given for citations, results for probs.
Revealed(o, lo, hi) == Touches(o.reveal, lo, hi)
Expanded(o, lo, hi) == Revealed(o, lo, hi) \/ Touches(o.expand, lo, hi)

Inside(lo, hi, r) == r[1] <= lo /\ hi <= r[2]

\* Tokens of the range are hidden, with one space after them unless a label
\* takes their place, or shown.  Code is hidden or shown as a whole.
MarkersIn(text, r) == {m \in MarkersOf(text) : Inside(m.lo, m.hi, r)}
StmtsIn(text, r) == {i \in StmtsOf(text) : Inside(i, i + 1, r)}

Cites(text, o) == IF o.labels THEN {i \in StmtsOf(text) : Stmts[text[i]].kind = "cite"} ELSE {}

Code(text, r) ==
  {s \in Segments(text) : s.kind = "code" /\ s.lo < r[2] /\ r[1] < s.hi}

Hidden(text, r, o) ==
  LET space(hi) == IF hi < r[2] /\ text[hi] = " " THEN hi + 1 ELSE hi
  IN  {<<m.lo, space(m.hi)>> : m \in {n \in MarkersIn(text, r) : ~ Revealed(o, n.lo, n.hi)}}
      \cup {<<i, IF i \in Cites(text, o) THEN i + 1 ELSE space(i + 1)>> :
              i \in {j \in StmtsIn(text, r) : ~ Expanded(o, j, j + 1)}}
      \cup {<<c.lo, c.hi>> : c \in {s \in Code(text, r) : ~ Expanded(o, s.lo, s.hi)}}

Opened(text, r, o) ==
  {<<m.lo, m.hi>> : m \in {n \in MarkersIn(text, r) : Revealed(o, n.lo, n.hi)}}
  \cup {<<i, i + 1>> : i \in {j \in StmtsIn(text, r) : Expanded(o, j, j + 1)}}
  \cup {<<c.lo, c.hi>> : c \in {s \in Code(text, r) : Expanded(o, s.lo, s.hi)}}

SlipDollars(text, r, tokens) ==  \* slip: a "$" in code or a token counts
  {i \in r[1] .. r[2] - 1 : text[i] = "$" /\ ~ Escaped(text, i)}

\* math_toggles: the "$" of the range that are in no token and not escaped.
Dollars(text, r, tokens) ==
  {i \in r[1] .. r[2] - 1 : text[i] = "$" /\ ~ Escaped(text, i) /\ ~ Within(tokens, i)}

\* blank_line_anchors, space_run_ranges.
Anchors(text, r) ==
  {i \in r[1] .. r[2] : /\ i = r[1] \/ text[i - 1] = "nl"
                        /\ i = r[2] \/ text[i] = "nl"}

SpaceRuns(text, r) ==
  LET edge(i) == i < r[1] \/ i >= r[2] \/ text[i] # " "
  IN  {s \in (r[1] .. r[2]) \X (r[1] .. r[2]) :
         /\ s[1] + 2 <= s[2] /\ edge(s[1] - 1) /\ edge(s[2])
         /\ \A i \in s[1] .. s[2] - 1 : text[i] = " "}

\* A result comes after the segment of a prob, or after the first segment that
\* begins where the prob's does.  A label takes the place of a citation, and a
\* title that of hidden code.
Results(text, r, o) ==
  LET open == {s \in Segments(text) : Inside(s.lo, s.hi, r) /\ ~ Expanded(o, s.lo, s.hi)}
      keys == {s.lo : s \in {t \in Segments(text) : t.kind = "prob"}}
      first(k) == {s \in open : s.lo = k /\ \A t \in open : t.lo = k => s.at <= t.at}
  IN  IF o.results THEN UNION {{<<s.hi, s.at>> : s \in first(k)} : k \in keys} ELSE {}

Labels(text, r, o) ==
  {<<i, i>> : i \in {j \in Cites(text, o) \cap StmtsIn(text, r) : ~ Expanded(o, j, j + 1)}}

Titles(text, r, o) ==
  {<<c.lo, c.at>> : c \in {s \in Code(text, r) : ~ Expanded(o, s.lo, s.hi)}}

\* Every other "$" opens a formula, which the next one closes.  One without a next
\* is stray.
Opens(dollars) == {i \in dollars : Cardinality({j \in dollars : j < i}) % 2 = 0}
Nexts(offsets, i) == {j \in offsets : i < j /\ \A k \in offsets : i < k => j <= k}

Pairs(dollars) == UNION {{<<i, j + 1>> : j \in Nexts(dollars, i)} : i \in Opens(dollars)}
Stray(dollars) == {i \in Opens(dollars) : Nexts(dollars, i) = {}}

\* All that is decided before anything is written.
Decided(text, r, o, hidden, shown, dollars) ==
  [hidden |-> hidden, shown |-> shown, math |-> Pairs(dollars), stray |-> Stray(dollars),
   bold |-> {s \in Segments(text) : s.kind = "bold"}, code |-> Code(text, r),
   runs |-> SpaceRuns(text, r), anchors |-> Anchors(text, r),
   results |-> Results(text, r, o), labels |-> Labels(text, r, o),
   titles |-> Titles(text, r, o)]

Plan(text, r, o) ==
  LET decided(hidden, shown) ==
        Decided(text, r, o, hidden, shown, Dollars(text, r, hidden \cup shown))
  IN  decided(Hidden(text, r, o), Opened(text, r, o))

\* Where windows begin and end.
Bounds(text, r, plan) ==
  LET clamp(i) == IF i < r[1] THEN r[1] ELSE IF i > r[2] THEN r[2] ELSE i
      alone == plan.stray \cup {i \in r[1] .. r[2] - 1 : text[i] = "nl"}
      parts == plan.hidden \cup plan.shown \cup plan.math \cup plan.runs
      bold == {s \in plan.bold : s.lo < r[2] /\ r[1] < s.hi}
  IN  {r[1], r[2]} \cup plan.anchors \cup (UNION {{i, i + 1} : i \in alone})
      \cup (UNION {{p[1], p[2]} : p \in parts})
      \cup (UNION {{clamp(s.lo), clamp(s.hi)} : s \in bold})
      \cup {p[1] : p \in plan.results \cup plan.labels}

-----------------------------------------------------------------------------
(* Writing.                                                                *)

Unwritten == [out |-> <<>>, spans |-> <<>>, done |-> {}]

Put(w, item) == [w EXCEPT !.out = Append(@, item)]

SlipPin(w, i) == w  \* slip: nothing is pinned

\* pin_splice_point, push_blank_line_anchor and the escapes: a span of no length
\* puts what is written next at offset i.
Pin(w, i) == [w EXCEPT !.spans = Append(@, [doc |-> i, out |-> Len(w.out) + 1, len |-> 0])]

Splice(w, i) == Put(Pin(w, i), "splice")

\* push_copy: copies that follow each other in both texts are one span.
Copy(w, text, i) ==
  LET n == Len(w.spans)
      joins == n > 0 /\ w.spans[n].doc + w.spans[n].len = i
                     /\ w.spans[n].out + w.spans[n].len = Len(w.out) + 1
      longer == [w.spans EXCEPT ![n].len = @ + 1]
      more == Append(w.spans, [doc |-> i, out |-> Len(w.out) + 1, len |-> 1])
  IN  Put([w EXCEPT !.spans = IF joins THEN longer ELSE more], text[i])

Literally(w, text, i) == Copy(Put(Pin(w, i), "esc"), text, i)

\* Copy a range, with a backslash before the pieces that need one.
CopyAll(w, text, lo, hi, needs) ==
  LET after[n \in 0 .. hi - lo] ==
        IF n = 0 THEN w
        ELSE LET i == lo + n - 1
             IN  IF i \in needs THEN Literally(after[n - 1], text, i)
                 ELSE Copy(after[n - 1], text, i)
  IN  after[hi - lo]

\* is_label_or_ref_opener: a "<" with a letter or "_" next to it, as far as the range
\* that is copied shows.
Openers(text, lo, hi) ==
  {i \in lo .. hi - 2 : text[i] = "<" /\ text[i + 1] \in {"w", "_"}}

\* emit_escaped, emit_plain_text and emit_revealed_math_span.  The last two let
\* backslashes of the document be, and the last one lets openers be.
Raw(w, text, lo, hi) ==
  CopyAll(w, text, lo, hi,
          {i \in lo .. hi - 1 : text[i] \in Ids \cup DOMAIN Stmts \cup {"_", "bs"}}
          \cup Openers(text, lo, hi))

Unescaped(text, lo, hi, pieces) ==
  {i \in lo .. hi - 1 : text[i] \in pieces /\ ~ Escaped(text, i)}

Plain(w, text, lo, hi) ==
  CopyAll(w, text, lo, hi,
          Unescaped(text, lo, hi, Ids \cup {"_"})
          \cup {i \in Openers(text, lo, hi) : ~ Escaped(text, i)})

RawMath(w, text, lo, hi) ==
  CopyAll(w, text, lo, hi, Unescaped(text, lo, hi, Ids \cup {"_", "$"}))

\* emit_translator_code: between fences, without the blanks around it.
Fenced(w, text, lo, hi) ==
  LET solid == {i \in lo .. hi - 1 : text[i] \notin White}
      from == IF solid = {} THEN hi ELSE CHOOSE i \in solid : \A j \in solid : i <= j
      to == IF solid = {} THEN hi ELSE 1 + CHOOSE i \in solid : \A j \in solid : j <= i
  IN  Put(CopyAll(Put(w, "fence"), text, from, to, {}), "fence")

\* emit_expanded_space_run, emit_collapsed_space_run.
Spaces(w, text, run, whole) ==
  LET after[n \in 0 .. run[2] - run[1] - 1] ==
        IF n = 0 THEN Copy(w, text, run[1]) ELSE Put(Pin(after[n - 1], run[1] + n), "nbsp")
  IN  after[IF whole THEN run[2] - run[1] - 1 ELSE 0]

\* Once for all the windows of a part that is written as a whole.
Once(w, part, written) ==
  IF part \in w.done THEN w ELSE [written EXCEPT !.done = @ \cup {part}]

Anchored(w, plan, i) == IF i \in plan.anchors THEN Put(Pin(w, i), "nbsp") ELSE w

\* Styled text is wrapped, but for formulas and blanks.
Styled(w, text, plan, lo, hi) ==
  LET bold == {<<s.lo, s.hi>> : s \in plan.bold}
      wrap == Within(bold, lo) /\ \E i \in lo .. hi - 1 : text[i] \notin White
  IN  IF Within(plan.math, lo) THEN CopyAll(w, text, lo, hi, {})
      ELSE IF wrap THEN Put(Plain(Put(w, "open"), text, lo, hi), "close")
      ELSE Plain(w, text, lo, hi)

\* What is written of one window, by the first of these that holds of it.
Writes(w, text, plan, o, lo, hi) ==
  LET runs == {s \in plan.runs : s[1] <= lo /\ lo < s[2]}
      run == CHOOSE s \in runs : TRUE
  IN  IF Within(plan.shown, lo) THEN Raw(w, text, lo, hi)
      ELSE IF runs # {} /\ ~ Within(plan.math, lo) THEN
        Once(w, <<"run", run[1]>>, Spaces(w, text, run, Revealed(o, run[1], run[2])))
      ELSE IF lo \in plan.stray THEN Literally(w, text, lo)
      ELSE IF text[lo] = "nl" /\ hi = lo + 1 THEN Put(w, "break")
      ELSE Styled(w, text, plan, lo, hi)

WritesWhole(w, text, plan, o, lo, hi) ==
  LET codes == {c \in plan.code : c.lo <= lo /\ lo < c.hi}
      code == CHOOSE c \in codes : \A d \in codes : c.at <= d.at
      maths == {m \in plan.math : m[1] <= lo /\ lo < m[2] /\ Revealed(o, m[1], m[2])}
      math == CHOOSE m \in maths : TRUE
  IN  IF Within(plan.hidden, lo) THEN w
      ELSE IF codes # {} THEN
        Once(w, <<"code", code.lo>>, Fenced(w, text, code.lo, code.hi))
      ELSE IF maths # {} THEN
        Once(w, <<"math", math[1]>>, RawMath(w, text, math[1], math[2]))
      ELSE Writes(Anchored(w, plan, lo), text, plan, o, lo, hi)

SplicedAt(w, i, splices) ==
  LET after[n \in 0 .. Cardinality({p \in splices : p[1] = i})] ==
        IF n = 0 THEN w ELSE Splice(after[n - 1], i)
  IN  after[Cardinality({p \in splices : p[1] = i})]

\* Window by window, each after what is spliced in at its start, and then what
\* comes at the end.
Written(text, r, o, plan, bounds) ==
  LET splices == plan.results \cup plan.labels \cup plan.titles
      window(w, lo, hi) == WritesWhole(SplicedAt(w, lo, splices), text, plan, o, lo, hi)
      after[i \in 0 .. Len(text)] ==
        IF i = 0 THEN Unwritten
        ELSE IF i \in bounds /\ Nexts(bounds, i) # {} THEN
          window(after[i - 1], i, CHOOSE j \in Nexts(bounds, i) : TRUE)
        ELSE after[i - 1]
  IN  Anchored(SplicedAt(after[Len(text)], r[2], plan.results), plan, r[2])

\* to_render_text_range.
Render(text, r, o) ==
  LET written(plan) == Written(text, r, o, plan, Bounds(text, r, plan))
  IN  written(Plan(text, r, o))

\* OffsetMap::lookup, of spans in order: in the last one that begins at an
\* offset or before it, and at most at its end.
Lookup(spans, pos, from(_), to(_), default) ==
  LET before == {k \in DOMAIN spans : from(spans[k]) <= pos}
      s == spans[CHOOSE k \in before : \A j \in before : j <= k]
      off == pos - from(s)
  IN  IF spans = <<>> THEN default
      ELSE IF before = {} THEN to(spans[1])
      ELSE to(s) + IF off <= s.len THEN off ELSE s.len

DocToRender(w, pos) ==
  Lookup(w.spans, pos, LAMBDA s : s.doc, LAMBDA s : s.out, Len(w.out) + 1)

RenderToDoc(w, text, pos) ==
  Lookup(w.spans, pos, LAMBDA s : s.out, LAMBDA s : s.doc, End(text))
=============================================================================
