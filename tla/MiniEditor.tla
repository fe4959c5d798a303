------------------------------ MODULE MiniEditor ------------------------------
(***************************************************************************)
(* The window of the mini editor (crates/mathed_mini/src/app.rs): a caret  *)
(* in a document, and a layout and an output region for each of its blocks *)
(* that frames keep under a key for as long as they can.  The caret moves  *)
(* by the glyphs of the layouts that are kept.                             *)
(*                                                                         *)
(* What a layout or a region is made of is a record; a key, what of it is  *)
(* hashed.  All of a block is on one line of glyphs.  A selection is the   *)
(* whole document or nothing.                                              *)
(***************************************************************************)
EXTENDS BlockIndex

CONSTANTS
  Docs,       \* documents
  Grows,      \* <<t, u, k>>: text u is t with something typed in at byte k
  Probs,      \* texts with a statement that the kernel answers with a result
  Models,     \* texts with a statement that it only acknowledges
  Marked,     \* texts with a span for a statement elsewhere to refer to
  Stylers,    \* texts with a statement that styles such a span
  Hidden,     \* texts of which no glyph is drawn unless they are revealed
  Broken,     \* texts that do not compile
  Values,     \* results
  Lost,       \* the result of a request that got no answer
  Fingerprint, \* what result_fingerprint makes of a result: not all of it
  Annotation, \* what annotations_markup makes of one
  Widths,
  MaxActs,    \* bound: what the user does
  MaxReplies  \* bound: what the kernel answers

ASSUME TextsAssumption ==
  /\ \A d \in Docs : /\ d \in Seq(DOMAIN Size)
                       /\ \A i \in DOMAIN d : Size[d[i]] \in Nat \ {0}
  /\ \A g \in Grows : Size[g[1]] < Size[g[2]] /\ g[3] \in 0 .. Size[g[1]]

VARIABLES
  doc, rev,     \* the document and its revision
  caret, all,   \* the caret's offset, and whether everything is selected
  blocks,       \* block_index
  notes,        \* the bridge's results, by offset
  due,          \* the offsets it waits for an answer for
  fresh,        \* the offsets whose result is of what is asked there now
  ver,          \* its content version
  width,
  menu,         \* media_menu: closed, or its rows and what they were made from
  panel,        \* references_panel
  front,        \* front_rev, front_scan: the document of the last scan
  noteCache,    \* annotations_cache
  layouts,      \* block_layouts
  regions,      \* region_cache
  lastPass, regionPass, lastFrame,
  offsets,      \* block_offsets: the blocks that the last frame drew
  redraw,       \* a redraw is requested
  silent,       \* history: the results moved and the content version did not
  misled,       \* history: the caret was put where a layout or a row no longer is
  acts, replies

docVars == <<doc, rev, blocks>>
caretVars == <<caret, all, misled>>
bridgeVars == <<notes, due, fresh, ver, silent>>
uiVars == <<width, menu, panel>>
cacheVars == <<noteCache, layouts, regions, lastPass, regionPass, lastFrame, offsets>>
vars == <<docVars, caretVars, bridgeVars, uiVars, front, cacheVars, redraw, acts, replies>>

None == <<>>
Empty == [x \in {} |-> {}]
Closed == [open |-> FALSE, of |-> None, rows |-> {}]

\* The parts of documents by their offsets.
Stop(d, i) == Start(d, i) + Size[d[i]]
AtOf(d, texts) == {Start(d, i) : i \in {j \in DOMAIN d : d[j] \in texts}}
Asked(d) == AtOf(d, Probs \cup Models)
Only(f, S) == [x \in DOMAIN f \cap S |-> f[x]]
Least(a, b) == IF a <= b THEN a ELSE b

\* App::new and resumed: the kernel is asked, and the index is not made yet.
Init ==
  /\ doc \in Docs /\ rev = 0 /\ blocks = <<>>
  /\ caret = BytesOf(doc) /\ all = FALSE /\ misled = FALSE
  /\ notes = Empty /\ due = Asked(doc) /\ fresh = {} /\ ver = 1 /\ silent = FALSE
  /\ width \in Widths /\ menu = Closed /\ panel = FALSE
  /\ front = None /\ noteCache = None /\ layouts = Empty /\ regions = Empty
  /\ lastPass = None /\ regionPass = None /\ lastFrame = None /\ offsets = {}
  /\ redraw = TRUE
  /\ acts = 0 /\ replies = 0

-----------------------------------------------------------------------------
(* What the blocks of a document show.                                     *)

\* reveal_span_in: the special part that a position is in, the first one of
\* which a statement says so; it may begin in an earlier block.
SpanOf(d, i) ==
  LET spanned == {j \in DOMAIN d : d[j] \in Marked}
  IN  IF d[i] \in Stylers /\ spanned # {}
      THEN <<Start(d, CHOOSE j \in spanned : \A k \in spanned : j <= k), Stop(d, i)>>
      ELSE <<Start(d, i), Stop(d, i)>>

RevealSpan(d, pos) ==
  LET at == {i \in DOMAIN d : /\ d[i] \in Probs \cup Models \cup Stylers
                              /\ SpanOf(d, i)[1] <= pos /\ pos <= SpanOf(d, i)[2]}
  IN  {SpanOf(d, i) : i \in {j \in at : \A k \in at : j <= k}}

\* clamp_reveal_to_block.
Clamped(spans, lo, hi) ==
  {s \in {<<IF s[1] >= lo THEN s[1] ELSE lo, Least(s[2], hi)>> : s \in spans} : s[1] <= s[2]}

\* block_layout_key: the text, the reveal, the annotations inside and the width.
LayoutKey(i, spans, noted, w) ==
  [text |-> doc[i], reveal |-> Clamped(spans, Start(doc, i), Stop(doc, i)),
   noted |-> Only(noted, Start(doc, i) .. Stop(doc, i) - 1), width |-> w]

\* layout_block: what is hashed, and beside it the place that the glyphs map to
\* and whether a statement anywhere styles the text.
Styled(d, i) == d[i] \in Marked /\ \E j \in DOMAIN d : d[j] \in Stylers

Layout(i, key) == [key |-> key, at |-> Start(doc, i), styled |-> Styled(doc, i)]

\* result_annotations.
Annotations == [x \in DOMAIN notes |-> Annotation[notes[x]]]

\* The blocks' output regions: the results inside, and a banner if any is stale.
Outputs(i) == Only(notes, Start(doc, i) .. Stop(doc, i) - 1)
Stale(i) == (due \cup (AtOf(doc, Probs) \ fresh)) \cap (Start(doc, i) .. Stop(doc, i) - 1) # {}
Region(i) == [outs |-> Outputs(i), stale |-> Stale(i), width |-> width]

\* region_key_from, of a region: of a result no more than the fingerprint, which
\* has a value to six decimals, of a table the lengths of its text and payloads, of
\* an error the name and the length of its message.
Fingerprints(outs) == [x \in DOMAIN outs |-> Fingerprint[outs[x]]]
RegionKey(r) == [outs |-> Fingerprints(r.outs), stale |-> r.stale, width |-> r.width]

-----------------------------------------------------------------------------
(* A frame.                                                                *)

Frame == <<rev, ver, width, caret, menu.open>>

SlipSkipAnyReveal(pass, spans) ==  \* slip: a reveal that is left is not seen
  /\ pass # None
  /\ pass.rev = rev /\ pass.ver = ver /\ pass.width = width
  /\ spans = {}

\* can_skip_layout_pass.
CanSkip(pass, spans) ==
  /\ pass # None
  /\ pass.rev = rev /\ pass.ver = ver /\ pass.width = width
  /\ spans = {} /\ pass.revealEmpty

\* The reveal is taken from the last scan when the last pass was of this
\* document, and else is not known yet.
EarlyReveal ==
  IF lastPass # None /\ lastPass.rev = rev /\ lastPass.ver = ver /\ lastPass.width = width
  THEN RevealSpan(front.of, caret) ELSE {}

\* refresh_front, bridge_annotations.
Scanned == IF front # None /\ front.rev = rev THEN front ELSE [rev |-> rev, of |-> doc]
Noted == IF noteCache # None /\ noteCache.ver = ver THEN noteCache
         ELSE [ver |-> ver, of |-> Annotations]

Live(f) == Only(f, IdsOf(blocks))
Put(f, id, entry) == [x \in DOMAIN f \cup {id} |-> IF x = id THEN entry ELSE f[x]]

\* The layout pass: block after block, what has its key already is kept, and
\* what does not compile leaves what was there; entries of no block go.
Laid(kept, i, spans, noted) ==
  LET id == blocks[i].id
      key == LayoutKey(i, spans, noted, width)
  IN  IF (id \in DOMAIN kept /\ kept[id].key = key) \/ doc[i] \in Broken THEN kept
      ELSE Put(kept, id, Layout(i, key))

LaidOut(spans, noted) ==
  LET laid[n \in 0 .. Len(blocks)] ==
        IF n = 0 THEN layouts ELSE Laid(laid[n - 1], n, spans, noted)
  IN  Live(laid[Len(blocks)])

RegionsFresh == regionPass = <<rev, ver, width>>

\* refresh_region_cache: block after block; what has its key already is kept, of
\* whatever results it was made.
Regioned(kept, i) ==
  LET id == blocks[i].id IN
  IF id \in DOMAIN kept /\ RegionKey(kept[id]) = RegionKey(Region(i)) THEN kept
  ELSE IF Outputs(i) = Empty /\ ~ Stale(i) THEN Only(kept, DOMAIN kept \ {id})
  ELSE Put(kept, id, Region(i))

Regions ==
  LET made[n \in 0 .. Len(blocks)] == IF n = 0 THEN regions ELSE Regioned(made[n - 1], n)
  IN  IF RegionsFresh THEN regions ELSE Live(made[Len(blocks)])

\* redraw: nothing but the drawing if nothing moved since the last frame; the
\* layout pass is left out when no key can have moved.
Redraw ==
  /\ redraw /\ redraw' = FALSE
  /\ IF lastFrame = Frame
     THEN UNCHANGED <<front, noteCache, layouts, regions, lastPass, regionPass>>
     ELSE LET skips == CanSkip(lastPass, EarlyReveal)
              spans == IF skips THEN EarlyReveal ELSE RevealSpan(Scanned.of, caret)
          IN /\ IF skips THEN UNCHANGED <<front, noteCache, layouts>>
                ELSE /\ front' = Scanned /\ noteCache' = Noted
                     /\ layouts' = LaidOut(spans, Noted.of)
             /\ lastPass' = [rev |-> rev, ver |-> ver, width |-> width,
                             revealEmpty |-> spans = {}]
             /\ regions' = Regions
             /\ regionPass' = <<rev, ver, width>>
  /\ lastFrame' = Frame
  /\ offsets' = IdsOf(blocks) \cap DOMAIN layouts'
  /\ UNCHANGED <<docVars, caretVars, bridgeVars, uiVars, acts, replies>>

-----------------------------------------------------------------------------
(* Editing.                                                                *)

Act == acts < MaxActs /\ acts' = acts + 1 /\ redraw' = TRUE /\ UNCHANGED replies

\* caret_changed: an open panel looks at the document, and so scans it.
CaretChanged == front' = IF panel THEN [rev |-> rev', of |-> doc'] ELSE front

\* The program ends, with an error, when it uses a caret outside of the text.
InText == caret <= BytesOf(doc)

\* invalidate_doc and refresh_kernel: the index is updated; the bridge keeps the
\* results of statements that are where they were, and asks what it has to.
Edited(d) ==
  /\ Act
  /\ doc' = d /\ rev' = rev + 1
  /\ blocks' = Update(blocks, d)
  /\ notes' = Only(notes, Asked(d))
  /\ \E again \in SUBSET Asked(d) :
       /\ due' = again \cup (due \cap Asked(d)) \cup (Asked(d) \ Asked(doc))
       /\ fresh' = (fresh \cap AtOf(d, Probs)) \ again
  /\ ver' = ver + 1 /\ silent' = FALSE
  /\ CaretChanged
  /\ UNCHANGED <<cacheVars, uiVars>>

With(d, i, t) == [d EXCEPT ![i] = t]

\* insert, with nothing selected and no completion pending: inside of a block, or
\* a block before the first.
Insert ==
  /\ ~ all /\ InText
  /\ \/ \E i \in DOMAIN doc, g \in Grows :
          /\ doc[i] = g[1] /\ caret = Start(doc, i) + g[3]
          /\ With(doc, i, g[2]) \in Docs /\ Edited(With(doc, i, g[2]))
          /\ caret' = caret + Size[g[2]] - Size[g[1]]
     \/ \E t \in DOMAIN Size :
          /\ caret = 0 /\ <<t>> \o doc \in Docs /\ Edited(<<t>> \o doc)
          /\ caret' = Size[t] + IF doc = <<>> THEN 0 ELSE 1
  /\ all' = FALSE /\ UNCHANGED misled

SlipCaretStays == caret  \* slip: the caret stays where the selection ended

\* delete_selection: the caret goes to where the selection began.
AfterSelection == 0

\* backspace and delete_forward, of the selection or of what is beside the caret.
Delete ==
  /\ InText
  /\ IF all THEN <<>> \in Docs /\ Edited(<<>>) /\ caret' = AfterSelection
     ELSE \E i \in DOMAIN doc, g \in Grows :
            /\ doc[i] = g[2] /\ With(doc, i, g[1]) \in Docs
            /\ LET at == Start(doc, i) + g[3]
                   n == Size[g[2]] - Size[g[1]]
               IN  caret \in {at, at + n} /\ caret' = at
            /\ Edited(With(doc, i, g[1]))
  /\ all' = FALSE /\ UNCHANGED misled

\* insert over a selection, which is deleted first: index and bridge see both.
Replace ==
  /\ Act
  /\ all /\ all' = FALSE
  /\ \E t \in DOMAIN Size :
       /\ <<t>> \in Docs /\ doc' = <<t>>
       /\ caret' = AfterSelection + Size[t]
  /\ rev' = rev + 2
  /\ blocks' = Update(Update(blocks, <<>>), doc')
  /\ notes' = Empty /\ due' = Asked(doc') /\ fresh' = {}
  /\ ver' = ver + 2 /\ silent' = FALSE
  /\ CaretChanged
  /\ UNCHANGED <<cacheVars, uiVars, misled>>

-----------------------------------------------------------------------------
(* Moving.                                                                 *)

Moved(to) ==
  /\ Act
  /\ caret' = to /\ all' = FALSE
  /\ UNCHANGED <<docVars, bridgeVars, cacheVars, width, panel>>
  /\ CaretChanged

MoveLeft == InText /\ Moved(IF caret > 0 THEN caret - 1 ELSE 0) /\ UNCHANGED <<menu, misled>>

MoveRight ==
  /\ Moved(IF caret < BytesOf(doc) THEN caret + 1 ELSE caret)
  /\ UNCHANGED <<menu, misled>>

SelectAll ==
  /\ Act
  /\ doc # <<>>
  /\ caret' = BytesOf(doc) /\ all' = TRUE
  /\ UNCHANGED <<docVars, bridgeVars, cacheVars, uiVars, misled>>
  /\ CaretChanged

\* user_event: an accessibility client goes to a segment, of this document or of
\* an earlier one, but not beyond the text.
GoToSegment ==
  /\ Act
  /\ caret' \in {Least(at, BytesOf(doc)) : at \in UNION {AtOf(d, Probs) : d \in Docs}}
  /\ all' = FALSE
  /\ UNCHANGED <<docVars, bridgeVars, cacheVars, uiVars, front, misled>>

\* resolve_hit: the right half of a glyph is past it, but never past the end of
\* a line.  (Beyond the text the program ends.)
Resolved(byte, after) ==
  LET newline == \E i \in 1 .. Len(doc) - 1 : byte = Stop(doc, i)
  IN  IF ~ after \/ newline \/ byte >= BytesOf(doc) THEN byte ELSE byte + 1

Hits(layout) ==
  LET text == layout.key.text
      bytes == IF text \in Hidden /\ layout.key.reveal = {} THEN {}
               ELSE layout.at .. layout.at + Size[text] - 1
  IN  {Resolved(b, after) : b \in bytes, after \in BOOLEAN}

\* block_for_byte: the first block that the caret is in or beside.
Here == LET at == {i \in DOMAIN blocks : blocks[i].start <= caret /\ caret <= blocks[i].stop}
        IN  {i \in at : \A j \in at : i <= j}

IsCurrent(id) ==
  \E b \in Range(blocks) : b.id = id /\ layouts[id].at = b.start /\ layouts[id].key.text = b.hash

\* A click goes to a block as the last frame drew it (the first block when it
\* drew none), Home and End to the caret's block, Up and Down to its neighbours.
MoveByGlyph ==
  LET near == (UNION {{i - 1, i, i + 1} : i \in Here}) \cap DOMAIN blocks
      clicked == IF offsets # {} THEN offsets
                 ELSE IF blocks = <<>> THEN {} ELSE {blocks[1].id}
  IN \E id \in (clicked \cup {blocks[i].id : i \in near}) \cap DOMAIN layouts :
       \E to \in Hits(layouts[id]) :
         /\ Moved(to)
         /\ misled' = (misled \/ ~ IsCurrent(id))
         /\ UNCHANGED menu

\* Home and End where there is no layout: by the lines of the text.
MoveByText ==
  /\ InText
  /\ \A i \in Here : blocks[i].id \notin DOMAIN layouts
  /\ \E i \in DOMAIN doc :
       /\ Start(doc, i) <= caret /\ caret <= Stop(doc, i)
       /\ \E to \in {Start(doc, i), Stop(doc, i)} : Moved(to)
  /\ UNCHANGED <<menu, misled>>

-----------------------------------------------------------------------------
(* The media menu, the references panel, running statements.               *)

Rows == [open |-> TRUE, of |-> <<rev, ver>>, rows |-> DOMAIN notes \cap AtOf(doc, Probs)]

OpenMenu ==
  /\ Act
  /\ ~ menu.open /\ menu' = Rows
  /\ UNCHANGED <<docVars, caretVars, bridgeVars, cacheVars, front, width, panel>>

\* jump_media_menu_selected: typing goes on under an open menu, whose rows are
\* made anew when results come.
Jump ==
  /\ menu.open /\ menu' = Closed
  /\ \E row \in menu.rows : Moved(row)
  /\ misled' = (misled \/ menu.of[1] # rev)

CloseMenu ==
  /\ Act
  /\ menu.open /\ menu' = Closed
  /\ UNCHANGED <<docVars, caretVars, bridgeVars, cacheVars, front, width, panel>>

\* toggle_references_panel: opened, it scans the document and makes the index.
TogglePanel ==
  /\ Act
  /\ panel' = ~ panel
  /\ IF panel THEN UNCHANGED <<front, blocks>>
     ELSE front' = Scanned /\ blocks' = Update(blocks, doc)
  /\ UNCHANGED <<doc, rev, caretVars, bridgeVars, cacheVars, width, menu>>

Resize(w) ==
  /\ Act
  /\ width' = w
  /\ UNCHANGED <<docVars, caretVars, bridgeVars, cacheVars, front, menu, panel>>

\* run_current_block, and clear_outputs, which forgets what the results are of.
Run ==
  /\ Act
  /\ \E i \in Here : due' = due \cup (Asked(doc) \cap {Start(doc, i)})
  /\ ver' = ver + 1 /\ silent' = FALSE
  /\ UNCHANGED <<docVars, caretVars, notes, fresh, cacheVars, front, uiVars>>

ClearOutputs ==
  /\ Act
  /\ notes' = Empty /\ fresh' = {}
  /\ ver' = ver + 1 /\ silent' = FALSE
  /\ UNCHANGED <<docVars, caretVars, due, cacheVars, front, uiVars>>

-----------------------------------------------------------------------------
(* The kernel.                                                             *)

Reply(at) ==
  /\ replies < MaxReplies /\ replies' = replies + 1
  /\ at \in due /\ due' = due \ {at}
  /\ UNCHANGED <<docVars, caretVars, cacheVars, front, width, panel, acts>>

\* poll in about_to_wait, when it tells of a change.
Noticed ==
  /\ ver' = ver + 1 /\ silent' = FALSE
  /\ menu' = IF menu.open THEN [open |-> TRUE, of |-> <<rev, ver'>>,
                                rows |-> DOMAIN notes' \cap AtOf(doc, Probs)] ELSE menu
  /\ redraw' = TRUE

Unnoticed == silent' = TRUE /\ UNCHANGED <<ver, menu, redraw>>

\* An answer to a prob is a result; a model is acknowledged and shows nothing.
Answer ==
  \E at \in due :
    /\ Reply(at)
    /\ IF at \in AtOf(doc, Probs)
       THEN /\ \E v \in Values : notes' = Put(notes, at, v)
            /\ fresh' = fresh \cup {at}
            /\ Noticed
       ELSE UNCHANGED <<notes, fresh>> /\ Unnoticed

\* expire_lost: noticed by the number of results alone.
Expire ==
  \E at \in due :
    /\ Reply(at)
    /\ notes' = Put(notes, at, Lost) /\ UNCHANGED fresh
    /\ IF at \in DOMAIN notes THEN Unnoticed ELSE Noticed

Next ==
  \/ Redraw
  \/ Insert \/ Delete \/ Replace
  \/ MoveLeft \/ MoveRight \/ SelectAll \/ GoToSegment \/ MoveByGlyph \/ MoveByText
  \/ OpenMenu \/ Jump \/ CloseMenu \/ TogglePanel \/ (\E w \in Widths \ {width} : Resize(w))
  \/ Run \/ ClearOutputs
  \/ Answer \/ Expire

Spec == Init /\ [][Next]_vars

-----------------------------------------------------------------------------
(* Properties.                                                             *)

\* A block that shares its id with no other.
Alone(i) == \A j \in DOMAIN blocks : blocks[j].id = blocks[i].id => j = i

\* There is an index since the first edit, and all that was told of is drawn.
AtRest == rev > 0 /\ ~ redraw /\ ~ silent

\* Once a frame is drawn and nothing is left to redraw, each block is drawn from
\* what block_layout_key sees of it now, and the output region below it shows
\* results with the fingerprints of those it has now and goes when they do: neither
\* the idle frame nor the pass left out by can_skip_layout_pass has passed over a
\* change, of the text, a result's fingerprint, the width or the caret that enters
\* or leaves a special part.  The results shown need not be those of now: one that
\* differs from what is shown only in what result_fingerprint leaves out stays
\* undrawn below the block, although the comment at region_key_from calls the key
\* precise (app.rs 305-310) and the annotation beside the statement, a picture in
\* full, does follow it.
DrawnCurrent ==
  AtRest => \A i \in DOMAIN blocks : Alone(i) =>
    /\ doc[i] \notin Broken =>
         /\ blocks[i].id \in DOMAIN layouts
         /\ layouts[blocks[i].id].key
              = LayoutKey(i, RevealSpan(doc, caret), Annotations, width)
    /\ IF Outputs(i) = Empty /\ ~ Stale(i) THEN blocks[i].id \notin DOMAIN regions
       ELSE /\ blocks[i].id \in DOMAIN regions
            /\ RegionKey(regions[blocks[i].id]) = RegionKey(Region(i))

\* The caret is in the text, where every use of it takes it to be, unless a
\* layout or a menu row of an earlier document has put it elsewhere.
CaretInText == caret > BytesOf(doc) => misled
=============================================================================
