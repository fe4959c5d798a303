------------------------------ MODULE BevyEditor ------------------------------
(***************************************************************************)
(* The frames of the Bevy editor (crates/mathed/src/main.rs): sync_blocks  *)
(* under the update scheduler (scheduler.rs), render_slint_blocks and      *)
(* handle_slint_input, with the browser client's calls (slint_blocks.rs)   *)
(* as steps beside the helper's.                                           *)
(*                                                                         *)
(* A frame runs the three systems in order; keys and mouse come before it. *)
(* Time is a choice: the scheduler's bounds have passed or not, and a call *)
(* has waited RENDER_TIMEOUT or not.                                       *)
(***************************************************************************)
EXTENDS BlockIndex, SlintHelper, FiniteSetsExt

CONSTANTS
  Docs,        \* bound: the documents
  Widgets,     \* texts that are \slint blocks
  Blank,       \* those with no source after the marker
  Budget,      \* MAX_BLOCKS_PER_FIRE
  MaxActs,     \* bound: edits, moves of the caret, kernel results
  MaxInputs    \* bound: events sent to widgets

VARIABLES
  doc, index,   \* the text; the blocks of the text last indexed
  entities,     \* by block id: a Typst view, or a SlintBlock with its image
  doc_changed, dirty, armed,  \* Scheduler: and whether its timers are set
  moved,        \* the caret's key is not the one last revealed
  phase,        \* idle, render, sweep, drop, input, panicked
  todo,         \* render: blocks to visit; drop: ids to destroy
  live, created, known_count,  \* locals of render_slint_blocks
  call,         \* the request the editor waits for, Nothing for none
  acts, inputs, \* how many so far
  timed_out     \* history: some call has timed out

schedulerVars == <<doc_changed, dirty, armed, moved>>
renderVars == <<live, created, known_count>>
countVars == <<acts, inputs, timed_out>>
vars == <<doc, index, entities, schedulerVars, phase, todo, renderVars, call, countVars,
          helperVars>>

NoSource == [text |-> "none", whole |-> FALSE]
NoImage == [kind |-> "none"]
View(text) == [kind |-> "typst", shown |-> text]
Widget(synced, inst, image) ==
  [kind |-> "slint", synced |-> synced, instantiated |-> inst, image |-> image]


\* The file has been read; nothing has told the scheduler.
Init ==
  /\ doc \in Docs
  /\ index = <<>> /\ entities = <<>>
  /\ doc_changed = FALSE /\ dirty = {} /\ armed = FALSE /\ moved = FALSE
  /\ phase = "idle" /\ todo = <<>>
  /\ live = {} /\ created = FALSE /\ known_count = 0
  /\ call = Nothing
  /\ acts = 0 /\ inputs = 0 /\ timed_out = FALSE
  /\ HelperInit

--------------------------------------------------------------------------------
\* Before the frame: keys, mouse, and answers of the kernel.

Acts ==
  /\ phase = "idle" /\ acts < MaxActs /\ acts' = acts + 1
  /\ UNCHANGED <<index, entities, phase, todo, renderVars, call, inputs, timed_out, helperVars>>

\* notify_doc_changed: note_blocks without a block sets the timers and no more.
NotifyDocChanged == doc_changed' = TRUE /\ armed' = TRUE /\ UNCHANGED dirty

\* insert_text, delete_range of what is selected or before the caret, undo, redo.
Edit ==
  /\ Acts
  /\ \E d \in Docs \ {doc} : doc' = d
  /\ NotifyDocChanged /\ moved' = TRUE

\* DeleteForward of one character inside a block: the caret stays where it is.
DeleteForward ==
  /\ Acts
  /\ \E d \in Docs, i \in DOMAIN doc :
       /\ Len(d) = Len(doc) /\ \A j \in DOMAIN doc \ {i} : d[j] = doc[j]
       /\ Size[d[i]] = Size[doc[i]] - 1
       /\ doc' = d
  /\ NotifyDocChanged /\ UNCHANGED moved

MoveCaret == Acts /\ moved' = TRUE /\ UNCHANGED <<doc, doc_changed, dirty, armed>>

\* dirty_prob_blocks: blocks that own a result are noted.
KernelResult ==
  /\ Acts
  /\ \E ids \in (SUBSET IdsOf(index)) \ {{}} : dirty' = dirty \cup ids
  /\ armed' = TRUE /\ UNCHANGED <<doc, doc_changed, moved>>

--------------------------------------------------------------------------------
\* sync_blocks.

\* The text that a transform of id shows: the last block of that id in the loop.
TextOf(blocks, id) == blocks[Max({k \in DOMAIN blocks : blocks[k].id = id})].hash

Transformed(e, text) == IF e.kind = "typst" THEN View(text) ELSE e

\* A spawned view is empty: it is not yet among the entities that the pass draws.
Spawned(text) == IF text \in Widgets THEN Widget(NoSource, FALSE, NoImage) ELSE View("empty")

\* An entity goes with its block; one is spawned, by what its text is now, for
\* a block that has none; and every view that was there is drawn again.
Resynced(new) ==
  [id \in IdsOf(new) |->
     IF id \in DOMAIN entities THEN Transformed(entities[id], TextOf(new, id))
     ELSE Spawned(TextOf(new, id))]

\* With the text unchanged only these are drawn.
Redrawn(ids) ==
  [id \in DOMAIN entities |->
     IF id \in ids THEN Transformed(entities[id], TextOf(index, id)) ELSE entities[id]]

\* The blocks the caret left and came to, if it moved.
CaretBlocks == IF moved THEN {ids \in SUBSET IdsOf(index) : Cardinality(ids) <= 2} ELSE {{}}

\* Scheduler::take, when its bounds have passed: a batch of the dirty blocks.
Ready == armed /\ dirty # {}

Batches == kSubset(Min({Budget, Cardinality(dirty)}), dirty)

TakeBatch(batch) == dirty' = dirty \ batch /\ armed' = (dirty' # {})

ToRender == phase' = "render" /\ todo' = index' /\ live' = {} /\ created' = FALSE

SyncRest ==
  /\ phase = "idle"
  /\ UNCHANGED <<doc, known_count, call, countVars, helperVars>>

Fires(batch) ==
  /\ IF doc_changed
     THEN index' = Update(index, doc) /\ entities' = Resynced(index')
     ELSE /\ UNCHANGED index
          /\ \E ids \in CaretBlocks : entities' = Redrawn(batch \cup ids)
  /\ doc_changed' = FALSE /\ moved' = FALSE

\* The bounds have passed, or the caret has moved, or there is nothing to do.
SyncDue ==
  /\ SyncRest /\ Ready
  /\ \E batch \in Batches : TakeBatch(batch) /\ Fires(batch)
  /\ ToRender
SyncReveal == SyncRest /\ moved /\ UNCHANGED <<dirty, armed>> /\ Fires({}) /\ ToRender
SyncNothing ==
  SyncRest /\ ~moved /\ UNCHANGED <<index, entities, schedulerVars>> /\ ToRender

--------------------------------------------------------------------------------
\* The browser client.

\* Requests are sent unless the worker is gone; then the caller is told at once.
Ask(op, id, source) ==
  LET r == [op |-> op, id |-> id, source |-> source, sent |-> worker = "up"]
  IN  /\ call' = r
      /\ requests' = IF worker = "up" THEN Append(requests, r) ELSE requests
      /\ UNCHANGED <<worker, served, replies, instances>>

Transacts(op) == op \in {"create", "event", "key"}

SlipAccepts(c, r) == c.op \in {"create", "event", "key"} /\ r.kind = "frame"  \* slip: whoever it is for

\* transact takes its own frame; an Empty of anyone, or its own failure, ends it.
Accepts(c, r) == Transacts(c.op) /\ r.kind = "frame" /\ r.id = c.id

\* Any other reply is discarded, and the wait goes on.
Ends(c, r) ==
  CASE c.op = "list" -> r.kind = "ids"
    [] c.op = "destroy" -> r.kind = "ids" \/ r.id = c.id
    [] OTHER -> Accepts(c, r) \/ r.kind = "empty" \/ (r.kind = "failed" /\ r.id = c.id)

\* What the caller does with a reply, Nothing when there was none.
Returned(r) ==
  /\ call' = Nothing
  /\ created' = (created \/ call.op = "create")
  /\ entities' =
       IF r # Nothing /\ Accepts(call, r)
       THEN [entities EXCEPT ![call.id] =
               Widget(@.synced, @.instantiated \/ call.op = "create", r)]
       ELSE entities
  /\ IF call.op = "list"
     THEN phase' = "drop" /\ todo' = IF r = Nothing THEN <<>> ELSE SetToSeq(r.ids \ live)
     ELSE UNCHANGED <<phase, todo>>
  /\ UNCHANGED <<doc, index, schedulerVars, live, known_count, acts, inputs,
                 worker, requests, served, instances>>

Receive ==
  /\ call # Nothing /\ call.sent /\ replies # <<>>
  /\ replies' = Tail(replies) /\ UNCHANGED timed_out
  /\ LET r == Head(replies)
     IN  IF Ends(call, r) THEN Returned(r)
         ELSE UNCHANGED <<doc, index, entities, schedulerVars, phase, todo, renderVars, call,
                          acts, inputs, worker, requests, served, instances>>

SlipTimeOut ==  \* slip: await_reply of a destroy has no deadline
  /\ call # Nothing /\ call.sent /\ call.op # "destroy"
  /\ timed_out' = TRUE /\ Returned(Nothing) /\ UNCHANGED replies

\* RENDER_TIMEOUT: the reply, if there ever is one, stays in the channel.
TimeOut ==
  /\ call # Nothing /\ call.sent
  /\ timed_out' = TRUE /\ Returned(Nothing) /\ UNCHANGED replies

\* The send failed, or the channel is empty and its worker gone.
Disconnected ==
  /\ call # Nothing /\ worker = "gone" /\ (call.sent => replies = <<>>)
  /\ Returned(Nothing) /\ UNCHANGED <<replies, timed_out>>

--------------------------------------------------------------------------------
\* render_slint_blocks, block by block, over the blocks last indexed.

Rendering == phase = "render" /\ call = Nothing
RenderRest == UNCHANGED <<doc, index, schedulerVars, known_count, countVars>>

\* slint_block(&text[range]): the block of the text that starts there, and
\* whether the range ends where it does.
Source(b) ==
  LET at == {i \in DOMAIN doc : Start(doc, i) = b.start /\ doc[i] \in Widgets}
  IN  IF at = {} THEN NoSource
      ELSE LET i == CHOOSE i \in at : TRUE
           IN  [text |-> doc[i], whole |-> b.stop = b.start + Size[doc[i]]]

IsWidget(id) == id \in DOMAIN entities /\ entities[id].kind = "slint"

\* The range is not one of the text any more.
RenderPanics ==
  /\ Rendering /\ todo # <<>> /\ IsWidget(Head(todo).id)
  /\ Head(todo).stop > BytesOf(doc)
  /\ phase' = "panicked"
  /\ RenderRest /\ UNCHANGED <<entities, todo, live, created, call, helperVars>>

Visited(b) ==
  /\ todo' = Tail(todo)
  /\ live' = IF IsWidget(b.id) /\ Source(b) # NoSource THEN live \cup {b.id} ELSE live

\* Not a widget, or one whose source has been handed over, or nobody to ask.
NeedsCreate(b) ==
  /\ IsWidget(b.id) /\ Source(b) # NoSource
  /\ entities[b.id].synced # Source(b) /\ worker # "absent"

RenderSkips ==
  /\ Rendering /\ todo # <<>>
  /\ (IsWidget(Head(todo).id) => Head(todo).stop <= BytesOf(doc))
  /\ ~NeedsCreate(Head(todo)) /\ Visited(Head(todo))
  /\ RenderRest /\ UNCHANGED <<entities, phase, created, call, helperVars>>

\* mark_synced comes before the round trip, and before the check for a source.
RenderCreates ==
  /\ Rendering /\ todo # <<>> /\ Head(todo).stop <= BytesOf(doc)
  /\ NeedsCreate(Head(todo)) /\ Visited(Head(todo))
  /\ LET b == Head(todo)
     IN  /\ entities' = [entities EXCEPT ![b.id] = Widget(Source(b), @.instantiated, @.image)]
         /\ IF Source(b).text \in Blank
            THEN UNCHANGED <<call, helperVars>>
            ELSE Ask("create", b.id, Source(b))
  /\ RenderRest /\ UNCHANGED <<phase, created>>

\* Widgets whose block has left are looked for when the blocks can have changed.
RenderSweeps ==
  /\ Rendering /\ todo = <<>> /\ (created \/ known_count # Len(index))
  /\ known_count' = Len(index)
  /\ IF worker = "absent"
     THEN phase' = "input" /\ UNCHANGED <<call, helperVars>>
     ELSE phase' = "sweep" /\ Ask("list", 0, NoSource)
  /\ UNCHANGED <<doc, index, entities, schedulerVars, todo, live, created, countVars>>

RenderDone ==
  /\ Rendering /\ todo = <<>> /\ ~created /\ known_count = Len(index)
  /\ phase' = "input"
  /\ RenderRest /\ UNCHANGED <<entities, todo, live, created, call, helperVars>>

SlipDrop ==  \* slip: destroy does not wait for the acknowledgement
  /\ phase = "drop" /\ call = Nothing
  /\ IF todo = <<>>
     THEN phase' = "input" /\ UNCHANGED <<todo, requests>>
     ELSE /\ UNCHANGED phase /\ todo' = Tail(todo)
          /\ requests' = Append(requests, [op |-> "destroy", id |-> Head(todo)])
  /\ RenderRest /\ UNCHANGED <<entities, live, created, call, worker, served, replies, instances>>

\* Each is destroyed, and its acknowledgement waited for.
Drop ==
  /\ phase = "drop" /\ call = Nothing
  /\ IF todo = <<>>
     THEN phase' = "input" /\ UNCHANGED <<todo, call, helperVars>>
     ELSE /\ UNCHANGED phase /\ todo' = Tail(todo)
          /\ Ask("destroy", Head(todo), NoSource)
  /\ RenderRest /\ UNCHANGED <<entities, live, created>>

--------------------------------------------------------------------------------
\* handle_slint_input: pointer and key events for widgets with an instance.

Input(op) ==
  /\ phase = "input" /\ call = Nothing /\ worker # "absent"
  /\ inputs < MaxInputs /\ inputs' = inputs + 1
  /\ \E id \in DOMAIN entities :
       /\ entities[id].kind = "slint" /\ entities[id].instantiated
       /\ Ask(op, id, NoSource)
  /\ UNCHANGED <<doc, index, entities, schedulerVars, phase, todo, renderVars, acts, timed_out>>

FrameDone ==
  /\ phase = "input" /\ call = Nothing
  /\ phase' = "idle"
  /\ RenderRest /\ UNCHANGED <<entities, todo, live, created, call, helperVars>>

--------------------------------------------------------------------------------
EditorRest ==
  UNCHANGED <<doc, index, entities, schedulerVars, phase, todo, renderVars, call, countVars>>

HelperStep == (Take \/ Serve) /\ EditorRest
HelperDies == Die /\ EditorRest

EditorStep ==
  \/ SyncDue \/ SyncReveal \/ SyncNothing
  \/ RenderPanics \/ RenderSkips \/ RenderCreates \/ RenderSweeps \/ RenderDone \/ Drop
  \/ FrameDone \/ Disconnected

Next ==
  \/ Edit \/ DeleteForward \/ MoveCaret \/ KernelResult
  \/ EditorStep \/ Receive \/ TimeOut
  \/ Input("event") \/ Input("key")
  \/ HelperStep \/ HelperDies

Spec == Init /\ [][Next]_vars

\* The editor's thread runs, and no wait lasts longer than RENDER_TIMEOUT.
EditorFair == Spec /\ WF_vars(EditorStep \/ Receive \/ TimeOut)

--------------------------------------------------------------------------------
Healthy == ~timed_out /\ worker = "up"

\* A widget shows frames that were drawn for it, whatever times out and comes late
\* (SlintBrowser::transact).
OwnFrames ==
  \A id \in DOMAIN entities :
    IsWidget(id) /\ entities[id].image # NoImage => entities[id].image.id = id

\* As long as no call has timed out, what an instantiated widget shows at the end
\* of a frame is what its instance looks like now, however many sweeps, sources
\* that do not compile and events lie between (render_slint_blocks,
\* handle_slint_input).
ShowsInstance ==
  phase = "idle" /\ Healthy =>
    \A id \in DOMAIN entities \cap DOMAIN instances :
      IsWidget(id) /\ entities[id].instantiated =>
        entities[id].image = Frame(id, instances[id].source, instances[id].events)

\* A sweep that was not cut short leaves no instance whose block has left
\* (render_slint_blocks: it "would otherwise leave its widget alive in the browser
\* for the life of the session").
SweepsClean ==
  [][phase = "drop" /\ phase' = "input" /\ Healthy => DOMAIN instances \subseteq live]_vars

\* The editor never freezes: a frame ends whatever the helper does (recv's
\* RENDER_TIMEOUT).
FrameEnds == (phase # "idle") ~> (phase \in {"idle", "panicked"})
================================================================================
