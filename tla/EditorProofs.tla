----------------------------- MODULE EditorProofs -----------------------------
(***************************************************************************)
(* What holds of the editors for every document, and every number of edits *)
(* and events: of the Bevy editor and its helper, for every source that    *)
(* fails to compile, and of the text that a caret is drawn in, for every   *)
(* set of markers and statements.                                          *)
(*                                                                         *)
(* That a widget shows its own frames is inductive as it stands.  That it  *)
(* shows what its instance looks like is not: it needs that, as long as no *)
(* call has timed out, the channel holds exactly the request the editor    *)
(* waits for, or its reply.                                                *)
(*                                                                         *)
(* That the caret stays holds of every text.  It rests on an invariant of  *)
(* the writing of one part of it, window after window: the spans of the    *)
(* offset map follow each other in both texts, none reaches an offset that *)
(* is still to be written, and what the transform escapes is copied behind *)
(* a span of no length.                                                    *)
(*                                                                         *)
(* That nothing is left open in what is drawn, but in the cases that       *)
(* Closed names, holds of every text, too.  It rests on an invariant of    *)
(* reading it: up to each bound nothing is wrong, one is in a formula just *)
(* where the document is in one that is not shown raw, and a backslash is  *)
(* read last only where it escapes what comes next.                        *)
(***************************************************************************)
EXTENDS BevyEditor, TextEditing, NaturalLemmas, FiniteSetTheorems, FunctionTheorems,
        SequenceTheorems, TLAPS

-----------------------------------------------------------------------------
(* Whose frames a widget shows.                                            *)

OwnImage(id, e) == e.image = NoImage \/ e.image.id = id

Shape(id, e) ==
  \/ e = View(e.shown)
  \/ e = Widget(e.synced, e.instantiated, e.image) /\ OwnImage(id, e)

Own == \A id \in DOMAIN entities : Shape(id, entities[id])

\* A view that is drawn again is a view, and a widget stays as it is.
LEMMA TransformedShape ==
  ASSUME NEW id, NEW e, Shape(id, e), NEW shown
  PROVE  Shape(id, Transformed(e, shown))
<1>1. CASE e.kind = "typst"
  BY <1>1 DEF Transformed, Shape, View
<1>2. CASE e.kind # "typst"
  BY <1>2 DEF Transformed
<1> QED BY <1>1, <1>2

\* What is spawned for a block shows nothing yet.
LEMMA SpawnedShape ==
  ASSUME NEW id, NEW shown
  PROVE  Shape(id, Spawned(shown))
BY DEF Spawned, Shape, OwnImage, View, Widget

\* sync_blocks keeps the shape of what it draws, keeps and spawns.
LEMMA FiresOwn ==
  ASSUME Own, NEW batch, Fires(batch)
  PROVE  Own'
<1>1. CASE doc_changed
  <2>1. entities' = Resynced(index')
    BY <1>1 DEF Fires
  <2> SUFFICES ASSUME NEW id \in DOMAIN entities'
               PROVE  Shape(id, entities'[id])
    BY DEF Own
  <2>2. entities'[id] = IF id \in DOMAIN entities
                        THEN Transformed(entities[id], TextOf(index', id))
                        ELSE Spawned(TextOf(index', id))
    BY <2>1 DEF Resynced
  <2> QED BY <2>2, TransformedShape, SpawnedShape DEF Own
<1>2. CASE ~ doc_changed
  <2>1. PICK ids \in CaretBlocks : entities' = Redrawn(batch \cup ids)
    BY <1>2 DEF Fires
  <2> SUFFICES ASSUME NEW id \in DOMAIN entities'
               PROVE  Shape(id, entities'[id])
    BY DEF Own
  <2>2. /\ id \in DOMAIN entities
        /\ \/ entities'[id] = Transformed(entities[id], TextOf(index, id))
           \/ entities'[id] = entities[id]
    BY <2>1 DEF Redrawn
  <2> QED BY <2>2, TransformedShape DEF Own
<1> QED BY <1>1, <1>2

\* A caller takes only a frame of its own, or nothing.
LEMMA ReturnedOwn ==
  ASSUME Own, NEW r, Returned(r)
  PROVE  Own'
<1>1. CASE r # Nothing /\ Accepts(call, r)
  <2>1. entities' = [entities EXCEPT ![call.id] =
                       Widget(@.synced, @.instantiated \/ call.op = "create", r)]
    BY <1>1 DEF Returned
  <2>2. r.id = call.id
    BY <1>1 DEF Accepts
  <2> SUFFICES ASSUME NEW id \in DOMAIN entities'
               PROVE  Shape(id, entities'[id])
    BY DEF Own
  <2>3. id \in DOMAIN entities /\ Shape(id, entities[id])
    BY <2>1 DEF Own
  <2>4. CASE id # call.id
    BY <2>1, <2>3, <2>4
  <2>5. CASE id = call.id
    <3>1. PICK s, v : entities'[id] = Widget(s, v, r)
      BY <2>1, <2>3, <2>5
    <3> QED BY <3>1, <2>2, <2>5 DEF Shape, Widget, OwnImage
  <2> QED BY <2>4, <2>5
<1>2. CASE ~ (r # Nothing /\ Accepts(call, r))
  BY <1>2 DEF Returned, Own
<1> QED BY <1>1, <1>2

\* Handing a source over marks the widget and touches nothing else of it.
LEMMA CreatesOwn ==
  ASSUME Own, RenderCreates
  PROVE  Own'
<1> DEFINE b == Head(todo)
<1>1. /\ entities' = [entities EXCEPT ![b.id] = Widget(Source(b), @.instantiated, @.image)]
      /\ IsWidget(b.id)
  BY DEF RenderCreates, NeedsCreate
<1> SUFFICES ASSUME NEW id \in DOMAIN entities'
             PROVE  Shape(id, entities'[id])
  BY DEF Own
<1>2. id \in DOMAIN entities /\ Shape(id, entities[id])
  BY <1>1 DEF Own
<1>3. CASE id # b.id
  BY <1>1, <1>2, <1>3
<1>4. CASE id = b.id
  <2>1. OwnImage(id, entities[id])
    BY <1>1, <1>2, <1>4 DEF IsWidget, Shape, View
  <2>2. PICK s, v : entities'[id] = Widget(s, v, entities[id].image)
    BY <1>1, <1>2, <1>4
  <2> QED BY <2>1, <2>2 DEF Shape, Widget, OwnImage
<1> QED BY <1>3, <1>4

\* Every step keeps a widget's frames its own.
LEMMA OwnStep ==
  ASSUME Own, [Next]_vars
  PROVE  Own'
<1>1. CASE Edit \/ DeleteForward \/ MoveCaret \/ KernelResult
  BY <1>1 DEF Edit, DeleteForward, MoveCaret, KernelResult, Acts, Own
<1>2. CASE SyncDue \/ SyncReveal
  BY <1>2, FiresOwn DEF SyncDue, SyncReveal
<1>3. CASE SyncNothing
  BY <1>3 DEF SyncNothing, Own
<1>4. CASE RenderPanics \/ RenderSkips \/ RenderSweeps \/ RenderDone \/ Drop \/ FrameDone
  BY <1>4 DEF RenderPanics, RenderSkips, RenderSweeps, RenderDone, Drop, FrameDone, Own
<1>5. CASE RenderCreates
  BY <1>5, CreatesOwn
<1>6. CASE Receive \/ TimeOut \/ Disconnected
  BY <1>6, ReturnedOwn DEF Receive, TimeOut, Disconnected, Own
<1>7. CASE Input("event") \/ Input("key")
  BY <1>7 DEF Input, Own
<1>8. CASE HelperStep \/ HelperDies \/ UNCHANGED vars
  BY <1>8 DEF HelperStep, HelperDies, EditorRest, vars, Own
<1> QED BY <1>1, <1>2, <1>3, <1>4, <1>5, <1>6, <1>7, <1>8 DEF Next, EditorStep

\* A widget shows frames that were drawn for it, whatever times out, comes late
\* or is drawn for another (SlintBrowser::transact).
THEOREM OwnFramesAlways == Spec => []OwnFrames
<1>1. Init => Own
  BY DEF Init, Own
<1>2. Own /\ [Next]_vars => Own'
  BY OwnStep
<1>3. Own => OwnFrames
  BY DEF Own, OwnFrames, IsWidget, Shape, OwnImage, View, Widget
<1> QED BY <1>1, <1>2, <1>3, PTL DEF Spec

-----------------------------------------------------------------------------
(* The channel.                                                            *)

Asked(c) ==
  /\ c = [op |-> c.op, id |-> c.id, source |-> c.source, sent |-> c.sent]
  /\ c.op \in {"create", "event", "key", "list", "destroy"}

\* Each phase has its calls.
Stage ==
  /\ call = Nothing \/ Asked(call)
  /\ call # Nothing =>
       \/ phase = "render" /\ call.op = "create"
       \/ phase = "sweep" /\ call.op = "list"
       \/ phase = "drop" /\ call.op = "destroy"
       \/ phase = "input" /\ call.op \in {"event", "key"}

FrameOf(id) == Frame(id, instances[id].source, instances[id].events)

\* What the helper may have answered to the call.
Answer(r) ==
  \/ Transacts(call.op) /\ call.id \in DOMAIN instances /\ r = FrameOf(call.id)
  \/ Transacts(call.op) /\ r = Failed(call.id)
  \/ call.op = "destroy" /\ call.id \notin DOMAIN instances /\ r = Empty(call.id)
  \/ call.op = "list" /\ r = IdList(DOMAIN instances)

\* The channel holds what the editor waits for, or the reply to it.
InStep ==
  \/ call = Nothing /\ requests = <<>> /\ served = Nothing /\ replies = <<>>
  \/ /\ call # Nothing /\ call.sent
     /\ \/ requests = <<call>> /\ served = Nothing /\ replies = <<>>
        \/ requests = <<>> /\ served = call /\ replies = <<>>
        \/ requests = <<>> /\ served = Nothing /\ replies = <<replies[1]>> /\ Answer(replies[1])

\* An instantiated widget shows its instance, or is about to.
Shown ==
  \A id \in DOMAIN entities \cap DOMAIN instances :
    IsWidget(id) /\ entities[id].instantiated =>
      \/ entities[id].image = FrameOf(id)
      \/ call # Nothing /\ call.id = id /\ Transacts(call.op) /\ replies = <<FrameOf(id)>>

\* What has no block is on the sweep's list, or being destroyed.
Swept ==
  phase = "drop" =>
    /\ todo \in Seq(ToSet(todo))
    /\ \A id \in DOMAIN instances :
         id \in live \/ id \in ToSet(todo) \/ (call # Nothing /\ call.id = id /\ replies = <<>>)

Tracks == Healthy => InStep /\ Shown /\ Swept

IInv == Own /\ Stage /\ IsFiniteSet(DOMAIN instances) /\ Tracks

\* A step that leaves the channel, the widgets and the sweep alone keeps them.
LEMMA TracksUnmoved ==
  ASSUME Tracks, UNCHANGED <<call, helperVars, entities, timed_out>>,
         phase' = "drop" => UNCHANGED <<phase, todo, live>>
  PROVE  Tracks'
<1>1. Healthy' = Healthy
  BY DEF Healthy, helperVars
<1>2. InStep => InStep'
  BY DEF InStep, Answer, FrameOf, helperVars
<1>3. Shown => Shown'
  BY DEF Shown, FrameOf, IsWidget, helperVars
<1>4. Swept => Swept'
  BY DEF Swept, helperVars
<1> QED BY <1>1, <1>2, <1>3, <1>4 DEF Tracks

\* Between two calls sync_blocks may keep, draw and spawn what it likes: a kept
\* widget is as it was, and a spawned one has no instance of its own.
LEMMA TracksSynced ==
  ASSUME Tracks, Own, call = Nothing, phase' = "render",
         UNCHANGED <<call, helperVars, timed_out>>,
         \A id \in DOMAIN entities' :
           \/ id \in DOMAIN entities /\ entities'[id] = entities[id]
           \/ entities'[id].kind = "typst"
           \/ entities'[id] = Widget(NoSource, FALSE, NoImage)
  PROVE  Tracks'
<1>1. Healthy' = Healthy
  BY DEF Healthy, helperVars
<1>2. InStep => InStep'
  BY DEF InStep, Answer, FrameOf, helperVars
<1>3. Shown => Shown'
  <2> SUFFICES ASSUME Shown, NEW id \in DOMAIN entities' \cap DOMAIN instances,
                      IsWidget(id)', entities'[id].instantiated
               PROVE  entities'[id].image = FrameOf(id)
    BY DEF Shown, FrameOf, IsWidget, helperVars
  <2>1. entities'[id].kind = "slint"
    BY DEF IsWidget
  <2>2. id \in DOMAIN entities /\ entities'[id] = entities[id]
    BY <2>1 DEF Widget
  <2> QED BY <2>1, <2>2 DEF Shown, IsWidget
<1>4. Swept'
  BY DEF Swept
<1> QED BY <1>1, <1>2, <1>3, <1>4 DEF Tracks

\* A request that is sent when the channel is empty is all there is in it.
LEMMA AskInStep ==
  ASSUME InStep, call = Nothing, Healthy', UNCHANGED timed_out,
         NEW op \in {"create", "event", "key", "list", "destroy"}, NEW id, NEW source,
         Ask(op, id, source)
  PROVE  /\ InStep' /\ Asked(call') /\ call' # Nothing
         /\ call'.op = op /\ call'.id = id /\ replies' = <<>>
<1> DEFINE r == [op |-> op, id |-> id, source |-> source, sent |-> worker = "up"]
<1>1. /\ call' = r /\ worker = "up"
      /\ requests' = Append(requests, r) /\ served' = served /\ replies' = replies
  BY DEF Ask, Healthy
<1>2. requests = <<>> /\ served = Nothing /\ replies = <<>>
  BY DEF InStep
<1>3. requests' = <<r>>
  BY <1>1, <1>2
<1>4. r.sent /\ r.op = op /\ r.id = id /\ Asked(r) /\ r # Nothing
  BY <1>1 DEF Asked, Nothing
<1> QED BY <1>1, <1>2, <1>3, <1>4 DEF InStep

\* A widget whose source is handed over keeps its image.
LEMMA CreatesTracks ==
  ASSUME Tracks, Own, RenderCreates, Healthy'
  PROVE  InStep' /\ Shown' /\ Swept'
<1> DEFINE b == Head(todo)
<1>1. Tracks /\ Healthy /\ InStep /\ Shown /\ UNCHANGED <<timed_out, instances, phase>>
      /\ call = Nothing /\ phase = "render"
  BY DEF Tracks, Healthy, RenderCreates, Rendering, RenderRest, countVars, Ask, helperVars
<1>2. entities' = [entities EXCEPT ![b.id] = Widget(Source(b), @.instantiated, @.image)]
      /\ IsWidget(b.id)
  BY DEF RenderCreates, NeedsCreate
<1>3. InStep'
  <2>1. CASE Source(b).text \in Blank
    BY <1>1, <2>1 DEF RenderCreates, helperVars, InStep, Answer, FrameOf
  <2>2. CASE Source(b).text \notin Blank
    <3>1. Ask("create", b.id, Source(b))
      BY <2>2 DEF RenderCreates
    <3> QED BY <1>1, <3>1, AskInStep
  <2> QED BY <2>1, <2>2
<1>4. Shown'
  <2> SUFFICES ASSUME NEW id \in DOMAIN entities' \cap DOMAIN instances',
                      IsWidget(id)', entities'[id].instantiated
               PROVE  entities'[id].image = FrameOf(id)'
    BY DEF Shown
  <2>1. id \in DOMAIN entities \cap DOMAIN instances /\ FrameOf(id)' = FrameOf(id)
    BY <1>1, <1>2 DEF FrameOf
  <2>2. /\ entities'[id].instantiated = entities[id].instantiated
        /\ entities'[id].image = entities[id].image
        /\ IsWidget(id)
    BY <1>2, <2>1 DEF IsWidget, Widget
  <2>3. entities[id].image = FrameOf(id)
    <3>1. replies = <<>>
      BY <1>1 DEF InStep
    <3> QED BY <1>1, <2>1, <2>2, <3>1 DEF Shown
  <2> QED BY <2>1, <2>2, <2>3
<1>5. Swept'
  BY <1>1 DEF Swept
<1> QED BY <1>3, <1>4, <1>5

\* A request that hands no source over leaves the widgets and instances alone.
LEMMA AskTracks ==
  ASSUME InStep, Shown, call = Nothing, Healthy', UNCHANGED <<timed_out, entities>>,
         NEW op \in {"event", "key", "list", "destroy"}, NEW id, NEW source,
         Ask(op, id, source)
  PROVE  InStep' /\ Shown'
<1>1. InStep' /\ replies = <<>> /\ UNCHANGED instances
  BY AskInStep DEF InStep, Ask
<1>2. Shown'
  <2> SUFFICES ASSUME NEW x \in DOMAIN entities \cap DOMAIN instances,
                      IsWidget(x), entities[x].instantiated
               PROVE  entities[x].image = FrameOf(x)
    BY <1>1 DEF Shown, IsWidget, FrameOf
  <2> QED BY <1>1 DEF Shown
<1> QED BY <1>1, <1>2

\* A finite set put in a sequence is in it, all of it and nothing else.
LEMMA SetToSeqComplete ==
  ASSUME NEW S, IsFiniteSet(S)
  PROVE  SetToSeq(S) \in Seq(S) /\ ToSet(SetToSeq(S)) = S
<1> DEFINE n == Cardinality(S)
           f == SetToSeq(S)
<1>1. n \in Nat /\ ExistsBijection(1 .. n, S)
  BY FS_CardinalityType
<1>2. PICK g : g \in Bijection(1 .. n, S)
  BY <1>1 DEF ExistsBijection
<1> HIDE DEF n
<1>3. g \in [1 .. n -> S] /\ IsInjective(g)
  BY <1>2 DEF Bijection, Injection
<1> USE DEF n
<1>4. f \in [1 .. n -> S] /\ IsInjective(f)
  BY <1>3 DEF SetToSeq
<1>5. f \in Injection(1 .. n, S)
  BY <1>4, Fun_IsInj DEF IsInjective
<1>6. IsFiniteSet(1 .. n) /\ Cardinality(1 .. n) = n
  BY <1>1, FS_Interval
<1>7. f \in Surjection(1 .. n, S)
  BY <1>5, <1>6, FS_Injection
<1> HIDE DEF n, f
<1>8. \A t \in S : \E k \in 1 .. n : f[k] = t
  BY <1>7 DEF Surjection
<1>9. f \in Seq(S)
  BY <1>1, <1>4
<1>10. ToSet(f) = S
  BY <1>4, <1>8 DEF ToSet
<1> QED BY <1>9, <1>10 DEF f

\* The reply that arrives is the one that is waited for, and ends the wait.
LEMMA ReceiveTracks ==
  ASSUME Tracks, Stage, IsFiniteSet(DOMAIN instances), Receive, Healthy'
  PROVE  InStep' /\ Shown' /\ Swept'
<1> DEFINE r == replies[1]
<1>1. Healthy /\ InStep /\ Shown /\ Swept /\ UNCHANGED timed_out
  BY DEF Tracks, Healthy, Receive, Returned
<1>2. /\ call # Nothing /\ requests = <<>> /\ served = Nothing
      /\ replies = <<r>> /\ Answer(r) /\ Head(replies) = r
  BY <1>1 DEF InStep, Receive
<1> HIDE DEF r
<1>3. Ends(call, r)
  BY <1>2 DEF Answer, Ends, Accepts, Transacts, FrameOf, Frame, Failed, Empty, IdList
<1>4. Returned(r) /\ replies' = <<>>
  BY <1>2, <1>3 DEF Receive
<1>5. UNCHANGED <<instances, requests, served, live>> /\ call' = Nothing
  BY <1>4 DEF Returned
<1>6. InStep'
  BY <1>2, <1>4, <1>5 DEF InStep
<1>7. Shown'
  <2> SUFFICES ASSUME NEW id \in DOMAIN entities' \cap DOMAIN instances,
                      IsWidget(id)', entities'[id].instantiated
               PROVE  entities'[id].image = FrameOf(id)
    BY <1>5 DEF Shown, FrameOf
  <2>1. CASE r # Nothing /\ Accepts(call, r) /\ id = call.id
    <3>1. r = FrameOf(id)
      BY <1>2, <2>1 DEF Answer, Accepts, Failed, Empty, IdList
    <3>2. PICK s, v : entities'[id] = Widget(s, v, r)
      BY <1>4, <2>1 DEF Returned
    <3> QED BY <3>1, <3>2 DEF Widget
  <2>2. CASE ~ (r # Nothing /\ Accepts(call, r) /\ id = call.id)
    <3>1. id \in DOMAIN entities /\ entities'[id] = entities[id]
      BY <1>4, <2>2 DEF Returned
    <3>2. ~ (call.id = id /\ Transacts(call.op) /\ replies = <<FrameOf(id)>>)
      BY <1>2, <2>2 DEF Accepts, FrameOf, Frame, Nothing
    <3> QED BY <1>1, <3>1, <3>2 DEF Shown, IsWidget
  <2> QED BY <2>1, <2>2
<1>8. Swept'
  <2>1. CASE call.op = "list"
    <3>1. r = IdList(DOMAIN instances) /\ r # Nothing
      BY <1>2, <2>1 DEF Answer, Transacts, IdList, Nothing
    <3>2. todo' = SetToSeq(DOMAIN instances \ live)
      BY <1>4, <2>1, <3>1 DEF Returned, IdList
    <3>3. IsFiniteSet(DOMAIN instances \ live)
      BY FS_Subset
    <3>4. todo' \in Seq(DOMAIN instances \ live) /\ ToSet(todo') = DOMAIN instances \ live
      BY <3>2, <3>3, SetToSeqComplete
    <3> QED BY <1>5, <3>4 DEF Swept
  <2>2. CASE call.op # "list"
    <3>1. UNCHANGED <<phase, todo>>
      BY <1>4, <2>2 DEF Returned
    <3> QED BY <1>1, <1>2, <1>5, <3>1 DEF Swept
  <2> QED BY <2>1, <2>2
<1> QED BY <1>6, <1>7, <1>8

\* The helper's answer finds the channel otherwise empty.
LEMMA ServeAnswers ==
  ASSUME InStep, Serve
  PROVE  /\ call # Nothing /\ call.sent /\ served = call /\ replies = <<>>
         /\ requests' = <<>> /\ served' = Nothing
         /\ replies' = <<replies'[1]>>
<1>1. served # Nothing
  BY DEF Serve, Create, Event, Destroy, List, Nothing
<1>2. call # Nothing /\ call.sent /\ served = call /\ replies = <<>> /\ requests = <<>>
  BY <1>1 DEF InStep
<1>3. UNCHANGED requests /\ \E x : Reply(x)
  BY DEF Serve, Create, Event, Destroy, List
<1>4. PICK x : Reply(x)
  BY <1>3
<1>5. replies' = <<x>>
  BY <1>2, <1>4 DEF Reply
<1> QED BY <1>2, <1>3, <1>4, <1>5 DEF Reply

\* Whatever the helper does is what the editor waits for: the new instance or
\* its next frame is in the reply, a destroyed one is gone when it says so.
LEMMA ServeTracks ==
  ASSUME InStep, Shown, Swept, Stage, Serve,
         UNCHANGED <<call, entities, phase, todo, live>>
  PROVE  InStep' /\ Shown' /\ Swept'
<1>1. /\ call # Nothing /\ call.sent /\ served = call /\ replies = <<>>
      /\ requests' = <<>> /\ served' = Nothing /\ replies' = <<replies'[1]>>
  BY ServeAnswers
<1>2. \A id \in DOMAIN entities \cap DOMAIN instances :
        IsWidget(id) /\ entities[id].instantiated => entities[id].image = FrameOf(id)
  BY <1>1 DEF Shown
<1>3. CASE Create
  <2>0. call.op = "create" /\ Transacts(call.op)
    BY <1>1, <1>3 DEF Create, Transacts
  <2>1. Swept'
    BY <1>1, <2>0 DEF Swept, Stage
  <2>2. CASE served.source.text \in Broken
    <3>1. UNCHANGED instances /\ replies' = <<Failed(call.id)>>
      BY <1>1, <1>3, <2>2 DEF Create, Reply
    <3>2. InStep'
      BY <1>1, <2>0, <3>1 DEF InStep, Answer
    <3>3. Shown'
      BY <1>2, <3>1 DEF Shown, IsWidget, FrameOf
    <3> QED BY <2>1, <3>2, <3>3
  <2>3. CASE served.source.text \notin Broken
    <3>1. /\ replies' = <<Frame(call.id, call.source, 0)>>
          /\ instances' = With(instances, call.id, [source |-> call.source, events |-> 0])
      BY <1>1, <1>3, <2>3 DEF Create, Reply
    <3>2. /\ call.id \in DOMAIN instances' /\ FrameOf(call.id)' = Frame(call.id, call.source, 0)
          /\ \A id \in DOMAIN instances' \ {call.id} :
               id \in DOMAIN instances /\ FrameOf(id)' = FrameOf(id)
      BY <1>1, <3>1 DEF With, FrameOf
    <3>3. InStep'
      BY <1>1, <2>0, <3>1, <3>2 DEF InStep, Answer
    <3>4. Shown'
      BY <1>1, <1>2, <2>0, <3>1, <3>2 DEF Shown, IsWidget
    <3> QED BY <2>1, <3>3, <3>4
  <2> QED BY <2>2, <2>3
<1>4. CASE Event
  <2>0. Transacts(call.op) /\ call.op # "destroy" /\ call.op = "event"
    BY <1>1, <1>4 DEF Transacts, Event
  <2>1. Swept'
    BY <1>1, <2>0 DEF Swept, Stage
  <2>2. CASE call.id \notin DOMAIN instances
    <3>1. UNCHANGED instances /\ replies' = <<Failed(call.id)>>
      BY <1>1, <1>4, <2>2 DEF Event, Reply
    <3>2. InStep'
      BY <1>1, <2>0, <3>1 DEF InStep, Answer
    <3>3. Shown'
      BY <1>2, <3>1 DEF Shown, IsWidget, FrameOf
    <3> QED BY <2>1, <3>2, <3>3
  <2>3. CASE call.id \in DOMAIN instances
    <3>1. /\ replies' = <<Frame(call.id, instances[call.id].source,
                               instances[call.id].events + 1)>>
          /\ instances' = [instances EXCEPT ![call.id] =
                             [source |-> @.source, events |-> @.events + 1]]
      BY <1>1, <1>4, <2>3 DEF Event, Reply
    <3>2. /\ DOMAIN instances' = DOMAIN instances
          /\ replies' = <<FrameOf(call.id)'>>
          /\ \A id \in DOMAIN instances \ {call.id} : FrameOf(id)' = FrameOf(id)
      BY <1>1, <2>3, <3>1 DEF FrameOf
    <3>3. InStep'
      BY <1>1, <2>0, <2>3, <3>2 DEF InStep, Answer
    <3>4. Shown'
      BY <1>1, <1>2, <2>0, <3>2 DEF Shown, IsWidget
    <3> QED BY <2>1, <3>3, <3>4
  <2> QED BY <2>2, <2>3
<1>5. CASE Destroy
  <2>1. /\ call.op = "destroy" /\ replies' = <<Empty(call.id)>>
        /\ instances' = Without(instances, call.id)
    BY <1>1, <1>5 DEF Destroy, Reply
  <2>2. /\ DOMAIN instances' = DOMAIN instances \ {call.id}
        /\ \A id \in DOMAIN instances' : FrameOf(id)' = FrameOf(id)
    BY <2>1 DEF Without, FrameOf
  <2>3. InStep'
    BY <1>1, <2>1, <2>2 DEF InStep, Answer
  <2>4. Shown'
    BY <1>2, <2>2 DEF Shown, IsWidget
  <2>5. Swept'
    BY <2>2 DEF Swept
  <2> QED BY <2>3, <2>4, <2>5
<1>6. CASE List
  <2>1. call.op = "list" /\ UNCHANGED instances /\ replies' = <<IdList(DOMAIN instances)>>
    BY <1>1, <1>6 DEF List, Reply
  <2>2. InStep'
    BY <1>1, <2>1 DEF InStep, Answer
  <2>3. Shown'
    BY <1>2, <2>1 DEF Shown, IsWidget, FrameOf
  <2>4. Swept'
    BY <1>1, <2>1 DEF Swept, Stage
  <2> QED BY <2>2, <2>3, <2>4
<1> QED BY <1>3, <1>4, <1>5, <1>6 DEF Serve

\* Taking the request moves it from one end of the pipe to the other.
LEMMA TakeTracks ==
  ASSUME InStep, Shown, Swept, Take, UNCHANGED <<call, entities, phase, todo, live>>
  PROVE  InStep' /\ Shown' /\ Swept'
<1>1. call # Nothing /\ call.sent /\ requests = <<call>> /\ replies = <<>>
  BY DEF InStep, Take
<1>2. requests' = <<>> /\ served' = call /\ UNCHANGED <<replies, instances>>
  BY <1>1 DEF Take
<1> QED BY <1>1, <1>2 DEF InStep, Shown, Swept, IsWidget, FrameOf

\* sync_blocks does what TracksSynced allows it.
LEMMA FiresTracks ==
  ASSUME Tracks, Own, call = Nothing, phase' = "render",
         UNCHANGED <<call, helperVars, timed_out>>, NEW batch, Fires(batch)
  PROVE  Tracks'
<1> SUFFICES ASSUME NEW id \in DOMAIN entities'
             PROVE  \/ id \in DOMAIN entities /\ entities'[id] = entities[id]
                    \/ entities'[id].kind = "typst"
                    \/ entities'[id] = Widget(NoSource, FALSE, NoImage)
  BY TracksSynced
<1>1. CASE doc_changed
  <2>1. entities'[id] = IF id \in DOMAIN entities
                        THEN Transformed(entities[id], TextOf(index', id))
                        ELSE Spawned(TextOf(index', id))
    BY <1>1 DEF Fires, Resynced
  <2>2. \A e, shown : Transformed(e, shown) = e \/ Transformed(e, shown).kind = "typst"
    BY DEF Transformed, View
  <2>3. \A shown : \/ Spawned(shown).kind = "typst"
                 \/ Spawned(shown) = Widget(NoSource, FALSE, NoImage)
    BY DEF Spawned, View
  <2> QED BY <2>1, <2>2, <2>3
<1>2. CASE ~ doc_changed
  <2>1. PICK ids \in CaretBlocks : entities' = Redrawn(batch \cup ids)
    BY <1>2 DEF Fires
  <2> QED BY <2>1 DEF Redrawn, Transformed, View
<1> QED BY <1>1, <1>2

\* The head of a sweep's list is handed to the helper, the rest stays on it.
LEMMA DropTracks ==
  ASSUME Tracks, Drop, Healthy'
  PROVE  InStep' /\ Shown' /\ Swept'
<1>1. UNCHANGED <<timed_out, entities, live>> /\ call = Nothing /\ phase = "drop"
  BY DEF Drop, RenderRest, countVars
<1>2. Healthy
  BY <1>1 DEF Drop, Healthy, Ask, helperVars
<1>3. InStep /\ Shown /\ Swept
  BY <1>2 DEF Tracks
<1>4. CASE todo = <<>>
  <2>1. UNCHANGED <<call, helperVars>> /\ phase' = "input"
    BY <1>4 DEF Drop
  <2>2. Tracks'
    BY <1>1, <2>1, TracksUnmoved
  <2> QED BY <2>2 DEF Tracks
<1>5. CASE todo # <<>>
  <2>1. Ask("destroy", Head(todo), NoSource) /\ todo' = Tail(todo)
    BY <1>5 DEF Drop
  <2>2. InStep' /\ Shown'
    BY <1>1, <1>3, <2>1, AskTracks
  <2>3. call' # Nothing /\ call'.id = Head(todo) /\ replies' = <<>> /\ UNCHANGED instances
    BY <1>1, <1>3, <2>1, AskInStep DEF Ask
  <2>4. /\ todo \in Seq(ToSet(todo))
        /\ \A id \in DOMAIN instances : id \in live \/ id \in ToSet(todo)
    BY <1>1, <1>3 DEF Swept
  <2>5. todo' \in Seq(ToSet(todo')) /\ ToSet(todo) \subseteq ToSet(todo') \cup {Head(todo)}
    <3> DEFINE T == ToSet(todo)
    <3>1. todo \in Seq(T) /\ todo # <<>>
      BY <1>5, <2>4
    <3>2. /\ Len(todo) \in Nat \ {0} /\ DOMAIN todo = 1 .. Len(todo)
          /\ DOMAIN todo' = 1 .. Len(todo) - 1 /\ todo' \in Seq(T)
          /\ \A k \in 1 .. Len(todo) - 1 : todo'[k] = todo[k + 1]
          /\ Head(todo) = todo[1]
      <4> HIDE DEF T
      <4> QED BY <3>1, <2>1
    <3>3. ToSet(todo) \subseteq ToSet(todo') \cup {Head(todo)}
      <4> SUFFICES ASSUME NEW k \in DOMAIN todo, k # 1
                   PROVE  \E j \in DOMAIN todo' : todo'[j] = todo[k]
        BY <3>2 DEF ToSet
      <4>1. k - 1 \in DOMAIN todo' /\ todo'[k - 1] = todo[k]
        BY <3>2
      <4> QED BY <4>1
    <3>4. todo' \in Seq(ToSet(todo'))
      <4> DEFINE U == ToSet(todo')
      <4>1. \A k \in 1 .. Len(todo) - 1 : todo'[k] \in U
        BY <3>2 DEF ToSet
      <4>2. todo' = [k \in 1 .. Len(todo) - 1 |-> todo'[k]]
        <5> HIDE DEF T
        <5> QED BY <3>2
      <4> HIDE DEF U
      <4>3. todo' \in [1 .. Len(todo) - 1 -> U] /\ Len(todo) - 1 \in Nat
        BY <3>2, <4>1, <4>2
      <4>4. todo' \in Seq(U)
        BY <4>3
      <4> QED BY <4>4 DEF U
    <3> QED BY <3>3, <3>4
  <2>6. Swept'
    BY <1>1, <2>3, <2>4, <2>5 DEF Swept
  <2> QED BY <2>2, <2>6
<1> QED BY <1>4, <1>5

\* Looking for what has no block starts with an empty channel and changes nothing.
LEMMA SweepsTracks ==
  ASSUME Tracks, RenderSweeps, Healthy'
  PROVE  InStep' /\ Shown' /\ Swept'
<1>1. UNCHANGED <<timed_out, entities>> /\ call = Nothing
  BY DEF RenderSweeps, Rendering, countVars
<1>2. worker = "up" /\ Healthy
  BY <1>1 DEF RenderSweeps, Healthy, Ask, helperVars
<1>3. Ask("list", 0, NoSource) /\ phase' = "sweep"
  BY <1>2 DEF RenderSweeps
<1>4. InStep /\ Shown
  BY <1>2 DEF Tracks
<1>5. InStep' /\ Shown'
  BY <1>1, <1>3, <1>4, AskTracks
<1> QED BY <1>3, <1>5 DEF Swept

\* An event goes to the instance that the widget shows.
LEMMA InputTracks ==
  ASSUME Tracks, Healthy', NEW op \in {"event", "key"}, Input(op)
  PROVE  InStep' /\ Shown' /\ Swept'
<1>1. PICK id : Ask(op, id, NoSource)
  BY DEF Input
<1>2. UNCHANGED <<timed_out, entities, phase>> /\ call = Nothing /\ phase = "input"
  BY DEF Input
<1>3. Healthy
  BY <1>1, <1>2 DEF Healthy, Ask
<1>4. InStep /\ Shown
  BY <1>3 DEF Tracks
<1>5. InStep' /\ Shown'
  BY <1>1, <1>2, <1>4, AskTracks
<1> QED BY <1>2, <1>5 DEF Swept

-----------------------------------------------------------------------------
(* The inductive invariant.                                                *)

\* A step either leaves the channel to its one request, or is a failure after
\* which nothing is promised.
LEMMA TracksStep ==
  ASSUME IInv, [Next]_vars
  PROVE  Tracks'
<1> USE DEF IInv
<1> SUFFICES ASSUME Healthy'
             PROVE  InStep' /\ Shown' /\ Swept'
  BY DEF Tracks
<1>1. CASE Edit \/ DeleteForward \/ MoveCaret \/ KernelResult
  <2>1. UNCHANGED <<phase, todo, renderVars, entities, call, timed_out, helperVars>>
    BY <1>1 DEF Edit, DeleteForward, MoveCaret, KernelResult, Acts
  <2>2. Tracks'
    BY <2>1, TracksUnmoved DEF renderVars
  <2> QED BY <2>2 DEF Tracks
<1>2. CASE SyncDue \/ SyncReveal
  <2>1. PICK batch : Fires(batch)
    BY <1>2 DEF SyncDue, SyncReveal
  <2>2. /\ UNCHANGED <<call, helperVars, timed_out>> /\ phase' = "render" /\ phase = "idle"
    BY <1>2 DEF SyncDue, SyncReveal, SyncRest, ToRender, countVars
  <2>3. call = Nothing
    BY <2>2 DEF Stage
  <2>4. Tracks'
    BY <2>1, <2>2, <2>3, FiresTracks
  <2> QED BY <2>4 DEF Tracks
<1>3. CASE SyncNothing \/ RenderPanics \/ RenderSkips \/ RenderDone \/ FrameDone
  <2>1. UNCHANGED <<entities, call, timed_out, helperVars>> /\ phase' # "drop"
    BY <1>3 DEF SyncNothing, SyncRest, ToRender, RenderPanics, RenderSkips, RenderDone,
                FrameDone, Rendering, RenderRest, countVars
  <2>2. Tracks'
    BY <2>1, TracksUnmoved
  <2> QED BY <2>2 DEF Tracks
<1>4. CASE RenderCreates
  BY <1>4, CreatesTracks
<1>5. CASE RenderSweeps
  BY <1>5, SweepsTracks
<1>6. CASE Drop
  BY <1>6, DropTracks
<1>7. CASE Receive
  BY <1>7, ReceiveTracks
<1>8. CASE TimeOut \/ Disconnected \/ HelperDies
  BY <1>8 DEF TimeOut, Disconnected, Returned, HelperDies, Die, Healthy
<1>9. CASE Input("event") \/ Input("key")
  BY <1>9, InputTracks
<1>10. CASE HelperStep
  <2>1. UNCHANGED <<call, entities, phase, todo, live, timed_out, worker>>
    BY <1>10 DEF HelperStep, EditorRest, renderVars, countVars, Take, Serve, Create, Event,
                 Destroy, List
  <2>2. InStep /\ Shown /\ Swept
    BY <2>1 DEF Healthy, Tracks
  <2> QED BY <1>10, <2>1, <2>2, ServeTracks, TakeTracks DEF HelperStep
<1>11. CASE UNCHANGED vars
  <2>1. UNCHANGED <<phase, todo, live, entities, call, timed_out, helperVars>>
    BY <1>11 DEF vars, renderVars, countVars
  <2>2. Tracks'
    BY <2>1, TracksUnmoved
  <2> QED BY <2>2 DEF Tracks
<1> QED BY <1>1, <1>2, <1>3, <1>4, <1>5, <1>6, <1>7, <1>8, <1>9, <1>10, <1>11
        DEF Next, EditorStep

\* The editor waits for a reply only where it asked.
LEMMA StageStep ==
  ASSUME Stage, [Next]_vars
  PROVE  Stage'
<1>1. CASE Edit \/ DeleteForward \/ MoveCaret \/ KernelResult
  BY <1>1 DEF Edit, DeleteForward, MoveCaret, KernelResult, Acts, Stage, Asked
<1>2. CASE SyncDue \/ SyncReveal \/ SyncNothing
  BY <1>2 DEF SyncDue, SyncReveal, SyncNothing, SyncRest, Stage, Asked
<1>3. CASE RenderPanics \/ RenderSkips \/ RenderDone \/ FrameDone
  BY <1>3 DEF RenderPanics, RenderSkips, RenderDone, FrameDone, Rendering, Stage, Asked
<1>4. CASE RenderCreates
  <2>1. phase' = "render" /\ (call' = Nothing \/ \E id, source : Ask("create", id, source))
    BY <1>4 DEF RenderCreates, Rendering
  <2>2. CASE call' = Nothing
    BY <2>2 DEF Stage
  <2>3. CASE \E id, source : Ask("create", id, source)
    <3>1. PICK id, source : Ask("create", id, source)
      BY <2>3
    <3> QED BY <2>1, <3>1 DEF Ask, Stage, Asked, Nothing
  <2> QED BY <2>1, <2>2, <2>3
<1>5. CASE RenderSweeps
  BY <1>5 DEF RenderSweeps, Rendering, Ask, Stage, Asked, Nothing
<1>6. CASE Drop
  BY <1>6 DEF Drop, Ask, Stage, Asked, Nothing
<1>7. CASE Receive \/ TimeOut \/ Disconnected
  <2>1. call' = Nothing \/ UNCHANGED <<call, phase>>
    BY <1>7 DEF Receive, TimeOut, Disconnected, Returned
  <2> QED BY <2>1 DEF Stage, Asked
<1>8. CASE Input("event") \/ Input("key")
  <2>1. \E op \in {"event", "key"} : \E id : Ask(op, id, NoSource) /\ phase' = "input"
    BY <1>8 DEF Input
  <2>2. PICK op \in {"event", "key"} : \E id : Ask(op, id, NoSource) /\ phase' = "input"
    BY <2>1
  <2> PICK id : Ask(op, id, NoSource) /\ phase' = "input"
    BY <2>2
  <2>3. /\ call' = [op |-> op, id |-> id, source |-> NoSource, sent |-> worker = "up"]
        /\ phase' = "input"
    BY <2>2 DEF Ask
  <2> QED BY <2>3 DEF Stage, Asked, Nothing
<1>9. CASE HelperStep \/ HelperDies \/ UNCHANGED vars
  BY <1>9 DEF HelperStep, HelperDies, EditorRest, vars, Stage, Asked
<1> QED BY <1>1, <1>2, <1>3, <1>4, <1>5, <1>6, <1>7, <1>8, <1>9 DEF Next, EditorStep

\* The helper holds finitely many instances.
LEMMA FiniteStep ==
  ASSUME IsFiniteSet(DOMAIN instances), [Next]_vars
  PROVE  IsFiniteSet(DOMAIN instances')
<1> SUFFICES \E id : DOMAIN instances' \subseteq DOMAIN instances \cup {id}
  BY FS_AddElement, FS_Subset
<1>1. CASE Edit \/ DeleteForward \/ MoveCaret \/ KernelResult
  BY <1>1 DEF Edit, DeleteForward, MoveCaret, KernelResult, Acts, helperVars
<1>2. CASE SyncDue \/ SyncReveal \/ SyncNothing
  BY <1>2 DEF SyncDue, SyncReveal, SyncNothing, SyncRest, helperVars
<1>3. CASE RenderPanics \/ RenderSkips \/ RenderDone \/ FrameDone \/ RenderCreates
            \/ RenderSweeps \/ Drop
  BY <1>3 DEF RenderPanics, RenderSkips, RenderDone, FrameDone, RenderCreates, RenderSweeps,
              Drop, Ask, helperVars
<1>4. CASE Receive \/ TimeOut \/ Disconnected \/ Input("event") \/ Input("key")
  BY <1>4 DEF Receive, TimeOut, Disconnected, Returned, Input, Ask
<1>5. CASE Take \/ List \/ HelperDies \/ UNCHANGED vars
  BY <1>5 DEF Take, List, HelperDies, Die, vars, helperVars
<1>6. CASE Create
  BY <1>6 DEF Create, With
<1>7. CASE Event
  BY <1>7 DEF Event
<1>8. CASE Destroy
  BY <1>8 DEF Destroy, Without
<1> QED BY <1>1, <1>2, <1>3, <1>4, <1>5, <1>6, <1>7, <1>8 DEF Next, EditorStep, HelperStep, Serve

\* The invariant holds in every state.
THEOREM EditorInductive == Spec => []IInv
<1>1. Init => IInv
  <2> SUFFICES ASSUME Init
               PROVE  IInv
    OBVIOUS
  <2>1. call = Nothing /\ requests = <<>> /\ served = Nothing /\ replies = <<>> /\ phase = "idle"
        /\ DOMAIN entities = {} /\ DOMAIN instances = {}
    BY DEF Init, HelperInit
  <2>2. Own /\ Stage /\ Tracks
    BY <2>1 DEF Own, Stage, Tracks, InStep, Shown, Swept
  <2> QED BY <2>1, <2>2, FS_EmptySet DEF IInv
<1>2. IInv /\ [Next]_vars => IInv'
  BY OwnStep, StageStep, FiniteStep, TracksStep DEF IInv
<1> QED BY <1>1, <1>2, PTL DEF Spec

\* As long as no call has timed out, what an instantiated widget shows at the end
\* of a frame is what its instance looks like now (render_slint_blocks,
\* handle_slint_input).
THEOREM ShowsInstanceAlways == Spec => []ShowsInstance
<1>1. IInv => ShowsInstance
  <2> SUFFICES ASSUME IInv, phase = "idle", Healthy
               PROVE  \A id \in DOMAIN entities \cap DOMAIN instances :
                        IsWidget(id) /\ entities[id].instantiated =>
                          entities[id].image = FrameOf(id)
    BY DEF ShowsInstance, FrameOf
  <2>1. call = Nothing /\ Shown
    BY DEF IInv, Stage, Tracks
  <2> QED BY <2>1 DEF Shown
<1> QED BY <1>1, EditorInductive, PTL

\* A sweep that was not cut short leaves no instance whose block has left
\* (render_slint_blocks).
THEOREM SweepsCleanAlways == Spec => SweepsClean
<1>1. IInv /\ [Next]_vars =>
        [phase = "drop" /\ phase' = "input" /\ Healthy => DOMAIN instances \subseteq live]_vars
  <2> SUFFICES ASSUME IInv, [Next]_vars, phase = "drop", phase' = "input", Healthy
               PROVE  DOMAIN instances \subseteq live
    OBVIOUS
  <2>1. Drop /\ todo = <<>> /\ call = Nothing
    <3>1. CASE Edit \/ DeleteForward \/ MoveCaret \/ KernelResult
      BY <3>1 DEF Edit, DeleteForward, MoveCaret, KernelResult, Acts
    <3>2. CASE SyncDue \/ SyncReveal \/ SyncNothing
      BY <3>2 DEF SyncDue, SyncReveal, SyncNothing, SyncRest
    <3>3. CASE RenderPanics \/ RenderSkips \/ RenderDone \/ FrameDone \/ RenderCreates
                \/ RenderSweeps
      BY <3>3 DEF RenderPanics, RenderSkips, RenderDone, FrameDone, RenderCreates,
                  RenderSweeps, Rendering
    <3>4. CASE Drop
      BY <3>4 DEF Drop
    <3>5. CASE Receive \/ TimeOut \/ Disconnected
      BY <3>5 DEF Receive, TimeOut, Disconnected, Returned
    <3>6. CASE Input("event") \/ Input("key")
      BY <3>6 DEF Input
    <3>7. CASE HelperStep \/ HelperDies \/ UNCHANGED vars
      BY <3>7 DEF HelperStep, HelperDies, EditorRest, vars
    <3> QED BY <3>1, <3>2, <3>3, <3>4, <3>5, <3>6, <3>7 DEF Next, EditorStep
  <2>2. Swept
    BY DEF IInv, Tracks
  <2>3. ToSet(todo) = {}
    BY <2>1 DEF ToSet
  <2> QED BY <2>1, <2>2, <2>3 DEF Swept
<1> QED BY <1>1, EditorInductive, PTL DEF Spec, SweepsClean

-----------------------------------------------------------------------------
(* The lookups of the offset map, for any list of spans.                   *)

Span == [doc : Nat, out : Nat, len : Nat]

Ordered(spans) ==
  \A k \in 1 .. Len(spans) - 1 :
    /\ spans[k].doc + spans[k].len <= spans[k + 1].doc
    /\ spans[k].out + spans[k].len <= spans[k + 1].out

Apart(spans) ==
  \A j, k \in DOMAIN spans :
    j < k => /\ spans[j].doc + spans[j].len <= spans[k].doc
             /\ spans[j].out + spans[j].len <= spans[k].out

\* Ends that follow each other.
LEMMA Chained ==
  ASSUME NEW a \in Nat, NEW b \in Nat, NEW c \in Nat, NEW d \in Nat, NEW e \in Nat,
         a + b <= c, c + d <= e
  PROVE  a + b <= e
OBVIOUS

\* What holds of spans that follow each other holds of any two.
LEMMA OrderedApart ==
  ASSUME NEW spans \in Seq(Span), Ordered(spans)
  PROVE  Apart(spans)
<1> DEFINE n == Len(spans)
           clear(j, k) == /\ spans[j].doc + spans[j].len <= spans[k].doc
                          /\ spans[j].out + spans[j].len <= spans[k].out
           T == {k \in Nat : k \in 1 .. n => \A j \in 1 .. k - 1 : clear(j, k)}
<1>0. n \in Nat /\ DOMAIN spans = 1 .. n /\ \A k \in 1 .. n : spans[k] \in Span
  BY LenProperties, ElementOfSeq
<1>1. 0 \in T
  OBVIOUS
<1>2. ASSUME NEW k \in 1 .. n, k - 1 \in T
      PROVE  k \in T
  <2>1. \A j \in 1 .. k - 2 : clear(j, k - 1)
    BY <1>0, <1>2
  <2>2. k > 1 => clear(k - 1, k)
    BY <1>0 DEF Ordered
  <2>3. \A j \in 1 .. k : /\ spans[j].doc \in Nat /\ spans[j].len \in Nat
                          /\ spans[j].out \in Nat
    BY <1>0 DEF Span
  <2>4. ASSUME NEW j \in 1 .. k - 1
        PROVE  clear(j, k)
    <3>1. CASE j = k - 1
      BY <2>2, <3>1
    <3>2. CASE j # k - 1
      <4>1. j \in 1 .. k - 2 /\ k - 1 \in 1 .. k /\ j \in 1 .. k /\ k \in 1 .. k /\ k > 1
        BY <3>2
      <4>2. clear(j, k - 1) /\ clear(k - 1, k)
        BY <2>1, <2>2, <4>1
      <4>3. /\ spans[j].doc \in Nat /\ spans[j].len \in Nat /\ spans[j].out \in Nat
            /\ spans[k - 1].doc \in Nat /\ spans[k - 1].len \in Nat /\ spans[k - 1].out \in Nat
            /\ spans[k].doc \in Nat /\ spans[k].out \in Nat
        BY <2>3, <4>1
      <4>4. spans[j].doc + spans[j].len <= spans[k].doc
        BY <4>2, <4>3, Chained
      <4>5. spans[j].out + spans[j].len <= spans[k].out
        BY <4>2, <4>3, Chained
      <4> QED BY <4>4, <4>5
    <3> QED BY <3>1, <3>2
  <2> QED BY <1>0, <2>4
<1>3. \A k \in 0 .. n : k \in T
  <2> HIDE DEF T
  <2> QED BY <1>0, <1>1, <1>2, StepByStep
<1> QED BY <1>0, <1>3 DEF Apart

\* k is the last of the spans that begin at p or before it.
LastAt(at, p, k) ==
  k \in DOMAIN at /\ at[k] <= p /\ \A j \in DOMAIN at : at[j] <= p => j <= k

DocAt(spans) == [k \in DOMAIN spans |-> spans[k].doc]
OutAt(spans) == [k \in DOMAIN spans |-> spans[k].out]

\* There is one, unless all begin behind p.
LEMMA LastAtExists ==
  ASSUME NEW n \in Nat, NEW at \in [1 .. n -> Nat], NEW p \in Nat
  PROVE  (\A k \in 1 .. n : at[k] > p) \/ \E k \in 1 .. n : LastAt(at, p, k)
<1> DEFINE before == {k \in 1 .. n : at[k] <= p}
<1> SUFFICES ASSUME before # {}
             PROVE  \E k \in 1 .. n : LastAt(at, p, k)
  OBVIOUS
<1>1. before \in SUBSET Nat /\ \A k \in before : k <= n
  OBVIOUS
<1>2. PICK k \in before : \A j \in before : j <= k
  <2> HIDE DEF before
  <2> QED BY <1>1, GreatestExists
<1> QED BY <1>2 DEF LastAt

Offset(p, from, len) == IF p - from <= len THEN p - from ELSE len

\* What a lookup from the document finds.
LEMMA DocLookup ==
  ASSUME NEW w, w.spans \in Seq(Span), w.spans # <<>>, NEW p \in Nat
  PROVE  /\ \A k : LastAt(DocAt(w.spans), p, k) =>
                    DocToRender(w, p) = w.spans[k].out + Offset(p, w.spans[k].doc, w.spans[k].len)
         /\ (\A k \in DOMAIN w.spans : w.spans[k].doc > p) => DocToRender(w, p) = w.spans[1].out
<1> DEFINE before == {k \in DOMAIN w.spans : w.spans[k].doc <= p}
           last == CHOOSE k \in before : \A j \in before : j <= k
<1>0. DocToRender(w, p) =
        IF before = {} THEN w.spans[1].out
        ELSE w.spans[last].out + Offset(p, w.spans[last].doc, w.spans[last].len)
  BY DEF DocToRender, Lookup, Offset
<1>1. ASSUME NEW k, LastAt(DocAt(w.spans), p, k)
      PROVE  DocToRender(w, p) = w.spans[k].out + Offset(p, w.spans[k].doc, w.spans[k].len)
  <2>1. k \in before /\ \A j \in before : j <= k
    BY <1>1 DEF LastAt, DocAt
  <2>2. before \in SUBSET Nat
    BY LenProperties
  <2> HIDE DEF before
  <2>3. last \in before /\ k <= last /\ last <= k
    BY <2>1
  <2> HIDE DEF last
  <2>4. last = k
    BY <2>2, <2>3, <2>1
  <2> QED BY <1>0, <2>1, <2>4
<1>2. ASSUME \A k \in DOMAIN w.spans : w.spans[k].doc > p
      PROVE  before = {}
  <2>1. ASSUME NEW k \in DOMAIN w.spans
        PROVE  ~ (w.spans[k].doc <= p)
    <3>1. w.spans[k] \in Span /\ w.spans[k].doc > p
      BY <1>2, ElementOfSeq
    <3>2. w.spans[k].doc \in Nat
      BY <3>1 DEF Span
    <3> QED BY <3>1, <3>2
  <2> QED BY <2>1
<1> QED BY <1>0, <1>1, <1>2

\* What a lookup from the rendered text finds.
LEMMA OutLookup ==
  ASSUME NEW w, w.spans \in Seq(Span), w.spans # <<>>, NEW t, NEW q \in Nat
  PROVE  /\ \A k : LastAt(OutAt(w.spans), q, k) =>
                    RenderToDoc(w, t, q)
                      = w.spans[k].doc + Offset(q, w.spans[k].out, w.spans[k].len)
         /\ (\A k \in DOMAIN w.spans : w.spans[k].out > q)
              => RenderToDoc(w, t, q) = w.spans[1].doc
<1> DEFINE before == {k \in DOMAIN w.spans : w.spans[k].out <= q}
           last == CHOOSE k \in before : \A j \in before : j <= k
<1>0. RenderToDoc(w, t, q) =
        IF before = {} THEN w.spans[1].doc
        ELSE w.spans[last].doc + Offset(q, w.spans[last].out, w.spans[last].len)
  BY DEF RenderToDoc, Lookup, Offset
<1>1. ASSUME NEW k, LastAt(OutAt(w.spans), q, k)
      PROVE  RenderToDoc(w, t, q)
                      = w.spans[k].doc + Offset(q, w.spans[k].out, w.spans[k].len)
  <2>1. k \in before /\ \A j \in before : j <= k
    BY <1>1 DEF LastAt, OutAt
  <2>2. before \in SUBSET Nat
    BY LenProperties
  <2> HIDE DEF before
  <2>3. last \in before /\ k <= last /\ last <= k
    BY <2>1
  <2> HIDE DEF last
  <2>4. last = k
    BY <2>2, <2>3, <2>1
  <2> QED BY <1>0, <2>1, <2>4
<1>2. ASSUME \A k \in DOMAIN w.spans : w.spans[k].out > q
      PROVE  before = {}
  <2>1. ASSUME NEW k \in DOMAIN w.spans
        PROVE  ~ (w.spans[k].out <= q)
    <3>1. w.spans[k] \in Span /\ w.spans[k].out > q
      BY <1>2, ElementOfSeq
    <3>2. w.spans[k].out \in Nat
      BY <3>1 DEF Span
    <3> QED BY <3>1, <3>2
  <2> QED BY <2>1
<1> QED BY <1>0, <1>1, <1>2

\* Spans in order.
Mapped(w) == w.spans \in Seq(Span) /\ Ordered(w.spans)

\* What spans are made of.
LEMMA SpanFields ==
  ASSUME NEW spans \in Seq(Span)
  PROVE  /\ Len(spans) \in Nat /\ DOMAIN spans = 1 .. Len(spans)
         /\ \A k \in DOMAIN spans : /\ spans[k].doc \in Nat /\ spans[k].out \in Nat
                                    /\ spans[k].len \in Nat
         /\ DocAt(spans) \in [1 .. Len(spans) -> Nat] /\ OutAt(spans) \in [1 .. Len(spans) -> Nat]
<1>1. Len(spans) \in Nat /\ DOMAIN spans = 1 .. Len(spans)
  BY LenProperties
<1>2. \A k \in DOMAIN spans : spans[k] \in Span
  BY ElementOfSeq, <1>1
<1>3. \A k \in DOMAIN spans : /\ spans[k].doc \in Nat /\ spans[k].out \in Nat
                              /\ spans[k].len \in Nat
  BY <1>2 DEF Span
<1> QED BY <1>1, <1>3 DEF DocAt, OutAt

\* An offset in a span grows with the place and is at most its length.
LEMMA OffsetBounds ==
  ASSUME NEW p \in Nat, NEW from \in Nat, NEW len \in Nat, from <= p
  PROVE  /\ Offset(p, from, len) \in Nat /\ Offset(p, from, len) <= len
         /\ Offset(p, from, len) <= p - from
         /\ Offset(p, from, len) <= Offset(p + 1, from, len)
BY DEF Offset

\* Of two offsets the later one is not drawn first.
LEMMA DrawnInOrder ==
  ASSUME NEW w, Mapped(w), NEW p \in Nat
  PROVE  DocToRender(w, p) <= DocToRender(w, p + 1) \/ w.spans = <<>>
<1> DEFINE spans == w.spans
           n == Len(spans)
<1> SUFFICES ASSUME spans # <<>>
             PROVE  DocToRender(w, p) <= DocToRender(w, p + 1)
  OBVIOUS
<1>0. /\ spans \in Seq(Span) /\ n \in Nat /\ DOMAIN spans = 1 .. n /\ 1 \in DOMAIN spans
      /\ p + 1 \in Nat
      /\ DocAt(spans) \in [1 .. n -> Nat] /\ \A k \in 1 .. n : DocAt(spans)[k] = spans[k].doc
      /\ \A k \in DOMAIN spans : /\ spans[k].doc \in Nat /\ spans[k].out \in Nat
                                 /\ spans[k].len \in Nat
  BY SpanFields, EmptySeq DEF Mapped, DocAt
<1>1. Apart(spans)
  BY OrderedApart DEF Mapped
<1>2. ASSUME NEW k \in 1 .. n
      PROVE  spans[1].out <= spans[k].out
  <2>1. CASE k = 1
    BY <1>0, <2>1
  <2>2. CASE k # 1
    <3>1. spans[1].out + spans[1].len <= spans[k].out
      BY <1>0, <1>1, <2>2 DEF Apart
    <3>2. /\ spans[1].out \in Nat /\ spans[1].len \in Nat /\ spans[k].out \in Nat
      BY <1>0
    <3> QED BY <3>1, <3>2
  <2> QED BY <2>1, <2>2
<1>3. CASE \A k \in 1 .. n : spans[k].doc > p + 1
  <2>1. \A k \in 1 .. n : spans[k].doc > p
    <3>1. \A k \in 1 .. n : spans[k].doc \in Nat
      BY <1>0
    <3> QED BY <1>3, <3>1
  <2>2. DocToRender(w, p) = spans[1].out /\ DocToRender(w, p + 1) = spans[1].out
    BY <1>0, <1>3, <2>1, DocLookup
  <2> QED BY <1>0, <2>2
<1>4. ASSUME NEW k \in 1 .. n, LastAt(DocAt(spans), p + 1, k)
      PROVE  DocToRender(w, p) <= DocToRender(w, p + 1)
  <2>1. DocToRender(w, p + 1) = spans[k].out + Offset(p + 1, spans[k].doc, spans[k].len)
    BY <1>0, <1>4, DocLookup
  <2>2. /\ spans[k].doc <= p + 1 /\ spans[k].doc \in Nat /\ spans[k].out \in Nat
        /\ spans[k].len \in Nat
    BY <1>0, <1>4 DEF LastAt
  <2>3. Offset(p + 1, spans[k].doc, spans[k].len) \in Nat
    BY <1>0, <2>2, OffsetBounds
  <2>4. CASE \A j \in 1 .. n : spans[j].doc > p
    <3>1. DocToRender(w, p) = spans[1].out
      BY <1>0, <2>4, DocLookup
    <3>2. spans[1].out <= spans[k].out /\ spans[1].out \in Nat
      BY <1>0, <1>2
    <3> QED BY <2>1, <2>2, <2>3, <3>1, <3>2
  <2>5. ASSUME NEW j \in 1 .. n, LastAt(DocAt(spans), p, j)
        PROVE  DocToRender(w, p) <= DocToRender(w, p + 1)
    <3>1. DocToRender(w, p) = spans[j].out + Offset(p, spans[j].doc, spans[j].len)
      BY <1>0, <2>5, DocLookup
    <3>2. /\ spans[j].doc <= p /\ spans[j].doc \in Nat /\ spans[j].out \in Nat
          /\ spans[j].len \in Nat
      BY <1>0, <2>5 DEF LastAt
    <3>3. /\ Offset(p, spans[j].doc, spans[j].len) \in Nat
          /\ Offset(p, spans[j].doc, spans[j].len) <= spans[j].len
          /\ Offset(p, spans[j].doc, spans[j].len) <= Offset(p + 1, spans[j].doc, spans[j].len)
      BY <3>2, OffsetBounds
    <3>4. j <= k
      <4>1. DocAt(spans)[j] <= p + 1
        BY <1>0, <3>2
      <4> QED BY <1>0, <1>4, <4>1 DEF LastAt
    <3>5. CASE j = k
      BY <2>1, <2>2, <2>3, <3>1, <3>2, <3>3, <3>5
    <3>6. CASE j # k
      <4>0. j < k /\ j \in DOMAIN spans /\ k \in DOMAIN spans
        BY <1>0, <3>4, <3>6
      <4>1. spans[j].out + spans[j].len <= spans[k].out
        BY <1>1, <4>0 DEF Apart
      <4> QED BY <2>1, <2>2, <2>3, <3>1, <3>2, <3>3, <4>1, SMTT(60)
    <3> QED BY <3>4, <3>5, <3>6
  <2>6. (\A j \in 1 .. n : DocAt(spans)[j] > p) \/ \E j \in 1 .. n : LastAt(DocAt(spans), p, j)
    BY <1>0, LastAtExists
  <2> QED BY <1>0, <2>4, <2>5, <2>6
<1>5. \/ \A k \in 1 .. n : DocAt(spans)[k] > p + 1
      \/ \E k \in 1 .. n : LastAt(DocAt(spans), p + 1, k)
  BY <1>0, LastAtExists
<1> QED BY <1>0, <1>3, <1>4, <1>5

\* The arithmetic of it: span k is looked up from p, span j from what k makes of p,
\* and i is copied by span m.
Passing(p, q, b, i, k, dk, ok, lk, j, dj, oj, lj, m, dm, om, lm) ==
  /\ dk <= p /\ q = ok + Offset(p, dk, lk) /\ oj <= q /\ b = dj + Offset(q, oj, lj) /\ k <= j
  /\ j = k => dj = dk /\ oj = ok /\ lj = lk
  /\ m = k => dm = dk /\ om = ok /\ lm = lk
  /\ m = j => dm = dj /\ om = oj /\ lm = lj
  /\ k < j => dk + lk <= dj /\ ok + lk <= oj /\ dj > p
  /\ m < k => dm + lm <= dk /\ om + lm <= ok
  /\ k < m => dk + lk <= dm /\ ok + lk <= om /\ dm > p
  /\ m < j => dm + lm <= dj /\ om + lm <= oj
  /\ j < m => dj + lj <= dm /\ oj + lj <= om
  /\ dm <= i /\ i < dm + lm

\* Then none of i lies between p and b.
LEMMA Passed ==
  ASSUME NEW p \in Nat, NEW q \in Nat, NEW b \in Nat, NEW i \in Nat,
         NEW k \in Nat, NEW dk \in Nat, NEW ok \in Nat, NEW lk \in Nat,
         NEW j \in Nat, NEW dj \in Nat, NEW oj \in Nat, NEW lj \in Nat,
         NEW m \in Nat, NEW dm \in Nat, NEW om \in Nat, NEW lm \in Nat,
         Passing(p, q, b, i, k, dk, ok, lk, j, dj, oj, lj, m, dm, om, lm)
  PROVE  ~ (p <= i /\ i < b) /\ ~ (b <= i /\ i < p)
BY SMTT(60) DEF Passing, Offset

\* The same when p is before the first span.
PassingFirst(p, q, b, i, d1, l1, j, dj, oj, lj, m, dm, om, lm) ==
  /\ oj <= q /\ b = dj + Offset(q, oj, lj) /\ p < dj
  /\ j = 1 => dj = d1 /\ oj = q /\ lj = l1
  /\ m = 1 => dm = d1 /\ om = q /\ lm = l1
  /\ m = j => dm = dj /\ om = oj /\ lm = lj
  /\ 1 < j => d1 + l1 <= dj /\ q + l1 <= oj
  /\ 1 < m => d1 + l1 <= dm /\ q + l1 <= om
  /\ m < j => dm + lm <= dj /\ om + lm <= oj
  /\ j < m => dj + lj <= dm /\ oj + lj <= om
  /\ 1 <= j /\ 1 <= m /\ dm <= i /\ i < dm + lm

\* Then, too, none lies between them.
LEMMA PassedFirst ==
  ASSUME NEW p \in Nat, NEW q \in Nat, NEW b \in Nat, NEW i \in Nat,
         NEW d1 \in Nat, NEW l1 \in Nat,
         NEW j \in Nat, NEW dj \in Nat, NEW oj \in Nat, NEW lj \in Nat,
         NEW m \in Nat, NEW dm \in Nat, NEW om \in Nat, NEW lm \in Nat,
         PassingFirst(p, q, b, i, d1, l1, j, dj, oj, lj, m, dm, om, lm)
  PROVE  ~ (p <= i /\ i < b) /\ ~ (b <= i /\ i < p)
BY SMTT(60) DEF PassingFirst, Offset

\* To the rendered text and back an offset passes nothing that is copied.
LEMMA BackAgain ==
  ASSUME NEW w, Mapped(w), NEW t, NEW p \in Nat, NEW i \in Copied(w)
  PROVE  LET b == RenderToDoc(w, t, DocToRender(w, p))
         IN  b \in Nat /\ ~ (p <= i /\ i < b) /\ ~ (b <= i /\ i < p)
<1> DEFINE spans == w.spans
           n == Len(spans)
           q == DocToRender(w, p)
           b == RenderToDoc(w, t, q)
<1>0. /\ spans \in Seq(Span) /\ n \in Nat /\ DOMAIN spans = 1 .. n
      /\ DocAt(spans) \in [1 .. n -> Nat] /\ \A k \in 1 .. n : DocAt(spans)[k] = spans[k].doc
      /\ OutAt(spans) \in [1 .. n -> Nat] /\ \A k \in 1 .. n : OutAt(spans)[k] = spans[k].out
      /\ \A k \in DOMAIN spans : /\ spans[k].doc \in Nat /\ spans[k].out \in Nat
                                 /\ spans[k].len \in Nat
  BY SpanFields DEF Mapped, DocAt, OutAt
<1>1. \A j, k \in 1 .. n :
        j < k => /\ spans[j].doc + spans[j].len <= spans[k].doc
                 /\ spans[j].out + spans[j].len <= spans[k].out
  BY <1>0, OrderedApart DEF Mapped, Apart
<1>2. PICK m \in 1 .. n : i \in spans[m].doc .. spans[m].doc + spans[m].len - 1
  BY <1>0 DEF Copied, Range
<1>3. /\ spans[m].doc \in Nat /\ spans[m].len \in Nat /\ spans[m].out \in Nat
      /\ i \in Nat /\ spans[m].doc <= i /\ i < spans[m].doc + spans[m].len
  <2>1. spans[m].doc \in Nat /\ spans[m].len \in Nat /\ spans[m].out \in Nat
    BY <1>0
  <2>2. \A a, l \in Nat : i \in a .. a + l - 1 => i \in Nat /\ a <= i /\ i < a + l
    OBVIOUS
  <2> QED BY ONLY <1>2, <2>1, <2>2
<1>4. n # 0 /\ spans # <<>> /\ 1 \in 1 .. n /\ spans[1].doc \in Nat /\ spans[1].out \in Nat
      /\ spans[1].len \in Nat
  BY <1>0, EmptySeq
<1>5. ASSUME NEW k \in 1 .. n, LastAt(DocAt(spans), p, k)
      PROVE  b \in Nat /\ ~ (p <= i /\ i < b) /\ ~ (b <= i /\ i < p)
  <2>1. /\ spans[k].doc \in Nat /\ spans[k].out \in Nat /\ spans[k].len \in Nat
        /\ spans[k].doc <= p /\ k \in Nat
    BY <1>0, <1>5 DEF LastAt
  <2>2. q = spans[k].out + Offset(p, spans[k].doc, spans[k].len)
    BY <1>0, <1>4, <1>5, DocLookup
  <2>3. q \in Nat /\ spans[k].out <= q
    <3>1. Offset(p, spans[k].doc, spans[k].len) \in Nat
      BY <2>1, OffsetBounds
    <3> QED BY <2>1, <2>2, <3>1
  <2>4. PICK j \in 1 .. n : LastAt(OutAt(spans), q, j)
    <3>1. ~ (OutAt(spans)[k] > q)
      BY <1>0, <2>1, <2>3
    <3> QED BY <1>0, <2>3, <3>1, LastAtExists
  <2>5. b = spans[j].doc + Offset(q, spans[j].out, spans[j].len)
    BY <1>0, <1>4, <2>3, <2>4, OutLookup
  <2>6. k <= j
    BY <1>0, <2>3, <2>4 DEF LastAt
  <2>7. /\ spans[j].doc \in Nat /\ spans[j].out \in Nat /\ spans[j].len \in Nat
        /\ spans[j].out <= q /\ j \in Nat
    BY <1>0, <2>4 DEF LastAt
  <2>8. b \in Nat
    <3>1. Offset(q, spans[j].out, spans[j].len) \in Nat
      BY <2>3, <2>7, OffsetBounds
    <3> QED BY <2>5, <2>7, <3>1
  <2>9. \A h \in 1 .. n : k < h => spans[h].doc > p
    <3> SUFFICES ASSUME NEW h \in 1 .. n, k < h
                 PROVE  ~ (spans[h].doc <= p)
      <4>1. \A h \in 1 .. n : spans[h].doc \in Nat
        BY <1>0
      <4> QED BY <4>1
    <3>1. DocAt(spans)[h] = spans[h].doc /\ h \in DOMAIN DocAt(spans) /\ k \in Nat /\ h \in Nat
      BY <1>0
    <3> QED BY <1>5, <3>1 DEF LastAt
  <2>10. /\ k < j => /\ spans[k].doc + spans[k].len <= spans[j].doc
                     /\ spans[k].out + spans[k].len <= spans[j].out /\ spans[j].doc > p
         /\ k < m => /\ spans[k].doc + spans[k].len <= spans[m].doc
                     /\ spans[k].out + spans[k].len <= spans[m].out /\ spans[m].doc > p
         /\ m < k => /\ spans[m].doc + spans[m].len <= spans[k].doc
                     /\ spans[m].out + spans[m].len <= spans[k].out
         /\ m < j => /\ spans[m].doc + spans[m].len <= spans[j].doc
                     /\ spans[m].out + spans[m].len <= spans[j].out
         /\ j < m => /\ spans[j].doc + spans[j].len <= spans[m].doc
                     /\ spans[j].out + spans[j].len <= spans[m].out
    BY <1>1, <2>9
  <2>11. m \in Nat
    OBVIOUS
  <2> HIDE DEF b, q, n
  <2>12. ~ (p <= i /\ i < b) /\ ~ (b <= i /\ i < p)
    <3>1. Passing(p, q, b, i, k, spans[k].doc, spans[k].out, spans[k].len,
                  j, spans[j].doc, spans[j].out, spans[j].len,
                  m, spans[m].doc, spans[m].out, spans[m].len)
      BY <1>3, <2>1, <2>2, <2>5, <2>6, <2>7, <2>10 DEF Passing
    <3> QED BY <1>3, <2>1, <2>3, <2>7, <2>8, <2>11, <3>1, Passed
  <2> QED BY <2>8, <2>12
<1>6. ASSUME \A k \in 1 .. n : DocAt(spans)[k] > p
      PROVE  b \in Nat /\ ~ (p <= i /\ i < b) /\ ~ (b <= i /\ i < p)
  <2>1. q = spans[1].out /\ q \in Nat
    <3>1. \A k \in DOMAIN spans : spans[k].doc > p
      BY <1>0, <1>6
    <3> QED BY <1>0, <1>4, <3>1, DocLookup
  <2>2. PICK j \in 1 .. n : LastAt(OutAt(spans), q, j)
    <3>1. ~ (OutAt(spans)[1] > q)
      BY <1>0, <1>4, <2>1
    <3> QED BY <1>0, <1>4, <2>1, <3>1, LastAtExists
  <2>3. /\ spans[j].doc \in Nat /\ spans[j].out \in Nat /\ spans[j].len \in Nat
        /\ spans[j].out <= q /\ spans[j].doc > p /\ j \in Nat /\ 1 <= j /\ 1 <= m /\ m \in Nat
    BY <1>0, <1>4, <1>6, <2>2 DEF LastAt
  <2>4. b = spans[j].doc + Offset(q, spans[j].out, spans[j].len)
    BY <1>0, <1>4, <2>1, <2>2, OutLookup
  <2>5. b \in Nat
    <3>1. Offset(q, spans[j].out, spans[j].len) \in Nat
      BY <2>1, <2>3, OffsetBounds
    <3> QED BY <2>3, <2>4, <3>1
  <2>6. /\ 1 < j => /\ spans[1].doc + spans[1].len <= spans[j].doc
                    /\ spans[1].out + spans[1].len <= spans[j].out
        /\ 1 < m => /\ spans[1].doc + spans[1].len <= spans[m].doc
                    /\ spans[1].out + spans[1].len <= spans[m].out
        /\ m < j => /\ spans[m].doc + spans[m].len <= spans[j].doc
                    /\ spans[m].out + spans[m].len <= spans[j].out
        /\ j < m => /\ spans[j].doc + spans[j].len <= spans[m].doc
                    /\ spans[j].out + spans[j].len <= spans[m].out
    BY <1>1, <1>4
  <2> HIDE DEF b, q, n
  <2>7. ~ (p <= i /\ i < b) /\ ~ (b <= i /\ i < p)
    <3>1. PassingFirst(p, q, b, i, spans[1].doc, spans[1].len,
                       j, spans[j].doc, spans[j].out, spans[j].len,
                       m, spans[m].doc, spans[m].out, spans[m].len)
      BY <1>3, <2>1, <2>3, <2>4, <2>6 DEF PassingFirst
    <3> QED BY <1>3, <1>4, <2>1, <2>3, <2>5, <3>1, PassedFirst
  <2> QED BY <2>5, <2>7
<1>7. (\A k \in 1 .. n : DocAt(spans)[k] > p) \/ \E k \in 1 .. n : LastAt(DocAt(spans), p, k)
  BY <1>0, LastAtExists
<1> HIDE DEF b, q
<1>8. b \in Nat /\ ~ (p <= i /\ i < b) /\ ~ (b <= i /\ i < p)
  BY <1>5, <1>6, <1>7
<1> QED BY <1>8 DEF b, q

-----------------------------------------------------------------------------
(* What is written.                                                        *)

Items == Pieces \cup {"splice", "esc", "open", "close", "nbsp", "break", "fence"}

Writers == [out : Seq(Items), spans : Seq(Span), done : SUBSET ({"run", "code", "math"} \X Nat)]

\* The spans lie before offset p of the document and before the end of what is
\* written, and what is written begins at 1.
Reaches(w, p) ==
  \A k \in DOMAIN w.spans : /\ w.spans[k].doc + w.spans[k].len <= p
                            /\ w.spans[k].out + w.spans[k].len <= Len(w.out) + 1

\* A backslash at q of the transform's has a span for itself, and the one after it
\* is for what it escapes.
Pinned(w, q) ==
  \E k \in DOMAIN w.spans :
    /\ k + 1 \in DOMAIN w.spans
    /\ w.spans[k].out = q /\ w.spans[k].len = 0
    /\ w.spans[k + 1].out = q + 1 /\ w.spans[k + 1].len >= 1
    /\ w.spans[k + 1].doc = w.spans[k].doc

Tidy(w, p, done) ==
  /\ w \in Writers /\ Ordered(w.spans) /\ Reaches(w, p) /\ w.done = done
  /\ \A q \in DOMAIN w.out : w.out[q] = "esc" => Pinned(w, q)

Typed(t) == t \in Seq(Pieces)

\* The fields of a writer.
LEMMA WriterFields ==
  ASSUME NEW w \in Writers
  PROVE  /\ w.out \in Seq(Items) /\ w.spans \in Seq(Span)
         /\ Len(w.out) \in Nat /\ DOMAIN w.out = 1 .. Len(w.out)
         /\ Len(w.spans) \in Nat /\ DOMAIN w.spans = 1 .. Len(w.spans)
         /\ \A k \in DOMAIN w.spans : /\ w.spans[k] \in Span /\ w.spans[k].doc \in Nat
                                      /\ w.spans[k].out \in Nat /\ w.spans[k].len \in Nat
<1>1. w.out \in Seq(Items) /\ w.spans \in Seq(Span)
  BY DEF Writers
<1>2. \A k \in DOMAIN w.spans : w.spans[k] \in Span
  BY <1>1, ElementOfSeq, LenProperties
<1> QED BY <1>1, <1>2, LenProperties, SpanFields

\* What is tidy up to p is so up to a later offset.
LEMMA TidyLater ==
  ASSUME NEW w, NEW done, NEW p \in Nat, NEW q \in Nat, p <= q, Tidy(w, p, done)
  PROVE  Tidy(w, q, done)
<1>1. ASSUME NEW k \in DOMAIN w.spans
      PROVE  w.spans[k].doc + w.spans[k].len <= q
  <2>1. w.spans[k].doc \in Nat /\ w.spans[k].len \in Nat
    BY WriterFields DEF Tidy
  <2>2. w.spans[k].doc + w.spans[k].len <= p
    BY DEF Tidy, Reaches
  <2> QED BY <2>1, <2>2
<1> QED BY <1>1 DEF Tidy, Reaches

\* A writer that goes on from another, and what it wrote meanwhile.
Follows(v, w) ==
  v \in Writers /\ Ordered(v.spans) /\ v.done = w.done /\ \A q : Pinned(w, q) => Pinned(v, q)

Wrote(v, w, item) ==
  /\ Len(v.out) = Len(w.out) + 1 /\ v.out[Len(w.out) + 1] = item
  /\ \A q \in DOMAIN w.out : v.out[q] = w.out[q]

Extended(w, span) == [w EXCEPT !.spans = Append(@, span)]

\* A span behind the others keeps them in order, and the backslashes pinned.
LEMMA SpanAdded ==
  ASSUME NEW w \in Writers, Ordered(w.spans), NEW p \in Nat, Reaches(w, p),
         NEW s \in Span, p <= s.doc, s.out = Len(w.out) + 1
  PROVE  /\ Follows(Extended(w, s), w)
         /\ Extended(w, s).out = w.out /\ Extended(w, s).spans = Append(w.spans, s)
         /\ Len(Extended(w, s).spans) = Len(w.spans) + 1
         /\ Extended(w, s).spans[Len(w.spans) + 1] = s
         /\ \A k \in DOMAIN w.spans : Extended(w, s).spans[k] = w.spans[k]
<1> DEFINE v == Extended(w, s)
           n == Len(w.spans)
<1>0. /\ w.spans \in Seq(Span) /\ n \in Nat /\ DOMAIN w.spans = 1 .. n /\ Len(w.out) \in Nat
      /\ \A k \in 1 .. n : /\ w.spans[k].doc \in Nat /\ w.spans[k].out \in Nat
                           /\ w.spans[k].len \in Nat
  BY WriterFields
<1>1. v \in Writers /\ v.done = w.done /\ v.out = w.out /\ v.spans = Append(w.spans, s)
  BY <1>0, AppendProperties DEF Writers, Extended
<1> HIDE DEF v, n
<1>2. /\ Len(v.spans) = n + 1 /\ v.spans[n + 1] = s /\ \A k \in 1 .. n : v.spans[k] = w.spans[k]
      /\ DOMAIN v.spans = 1 .. n + 1
  BY <1>0, <1>1, AppendProperties, LenProperties, WriterFields DEF n
<1>3. ASSUME NEW k \in 1 .. Len(v.spans) - 1
      PROVE  /\ v.spans[k].doc + v.spans[k].len <= v.spans[k + 1].doc
             /\ v.spans[k].out + v.spans[k].len <= v.spans[k + 1].out
  <2>0. k \in 1 .. n /\ v.spans[k] = w.spans[k]
    BY <1>0, <1>2
  <2>1. CASE k = n
    <3>1. /\ w.spans[n].doc + w.spans[n].len <= p
          /\ w.spans[n].out + w.spans[n].len <= Len(w.out) + 1
      BY <1>0, <2>0, <2>1 DEF Reaches
    <3>2. s.doc \in Nat
      BY DEF Span
    <3>3. v.spans[k + 1] = s /\ v.spans[k] = w.spans[n] /\ n \in 1 .. n
      BY <1>2, <2>0, <2>1
    <3>4. /\ w.spans[n].doc \in Nat /\ w.spans[n].out \in Nat /\ w.spans[n].len \in Nat
      BY <1>0, <3>3
    <3>5. \A a, l, b, c \in Nat : a + l <= b /\ b <= c => a + l <= c
      OBVIOUS
    <3>6. w.spans[n].doc + w.spans[n].len <= s.doc
      BY <3>1, <3>2, <3>4, <3>5
    <3>7. w.spans[n].out + w.spans[n].len <= s.out
      BY <3>1
    <3> HIDE DEF v, n
    <3> QED BY <3>3, <3>6, <3>7
  <2>2. CASE k # n
    <3>1. k \in 1 .. n - 1 /\ k + 1 \in 1 .. n
      BY <1>0, <2>0, <2>2
    <3> QED BY <1>2, <2>0, <3>1 DEF Ordered, n
  <2> QED BY <2>1, <2>2
<1>4. ASSUME NEW q, Pinned(w, q)
      PROVE  Pinned(v, q)
  <2>1. PICK k \in DOMAIN w.spans :
           /\ k + 1 \in DOMAIN w.spans
           /\ w.spans[k].out = q /\ w.spans[k].len = 0
           /\ w.spans[k + 1].out = q + 1 /\ w.spans[k + 1].len >= 1
           /\ w.spans[k + 1].doc = w.spans[k].doc
    BY <1>4 DEF Pinned
  <2>2. k \in 1 .. n /\ k + 1 \in 1 .. n
    BY <1>0, <2>1
  <2>3. k \in DOMAIN v.spans /\ k + 1 \in DOMAIN v.spans
    BY <1>0, <1>2, <2>2
  <2> QED BY <1>2, <2>1, <2>2, <2>3 DEF Pinned
<1>5. Ordered(v.spans)
  BY <1>3 DEF Ordered
<1>6. Follows(v, w)
  BY <1>1, <1>4, <1>5 DEF Follows
<1> QED BY <1>0, <1>1, <1>2, <1>6 DEF v, n

\* An item behind the others changes nothing in the map.
LEMMA ItemAdded ==
  ASSUME NEW w \in Writers, Ordered(w.spans), NEW item \in Items
  PROVE  /\ Follows(Put(w, item), w) /\ Put(w, item).spans = w.spans
         /\ Wrote(Put(w, item), w, item)
         /\ \A p : Reaches(w, p) => Reaches(Put(w, item), p)
<1> DEFINE v == Put(w, item)
<1>1. v \in Writers /\ v.spans = w.spans /\ v.done = w.done /\ v.out = Append(w.out, item)
  BY WriterFields, AppendProperties DEF Writers, Put
<1>2. /\ Len(v.out) = Len(w.out) + 1 /\ v.out[Len(w.out) + 1] = item
      /\ \A q \in DOMAIN w.out : v.out[q] = w.out[q]
  BY <1>1, WriterFields, AppendProperties
<1> HIDE DEF v
<1>3. ASSUME NEW p, Reaches(w, p)
      PROVE  Reaches(v, p)
  <2>1. ASSUME NEW k \in DOMAIN w.spans
        PROVE  w.spans[k].out + w.spans[k].len <= Len(v.out) + 1
    <3>1. /\ w.spans[k].out \in Nat /\ w.spans[k].len \in Nat /\ Len(w.out) \in Nat
      BY WriterFields
    <3>2. w.spans[k].out + w.spans[k].len <= Len(w.out) + 1
      BY <1>3 DEF Reaches
    <3> QED BY <1>2, <3>1, <3>2
  <2> QED BY <1>1, <1>3, <2>1 DEF Reaches
<1>4. \A q : Pinned(w, q) => Pinned(v, q)
  BY <1>1 DEF Pinned
<1>5. Follows(v, w) /\ Wrote(v, w, item)
  BY <1>1, <1>2, <1>4 DEF Follows, Wrote
<1> QED BY <1>1, <1>3, <1>5 DEF v

\* One that wrote an item, not a backslash, is as tidy as before.
LEMMA StillTidy ==
  ASSUME NEW v, NEW w, NEW done, NEW p, NEW r, Tidy(w, p, done), Follows(v, w), Reaches(v, r),
         NEW item, item # "esc", Wrote(v, w, item)
  PROVE  Tidy(v, r, done)
<1>1. ASSUME NEW q \in DOMAIN v.out, v.out[q] = "esc"
      PROVE  Pinned(v, q)
  <2>0. w \in Writers /\ v \in Writers /\ Len(v.out) = Len(w.out) + 1
    BY DEF Tidy, Follows, Wrote
  <2>1. q \in 1 .. Len(w.out) + 1 /\ q # Len(w.out) + 1 /\ Len(w.out) \in Nat
    BY <1>1, <2>0, WriterFields DEF Wrote
  <2>2. q \in DOMAIN w.out
    BY <2>0, <2>1, WriterFields
  <2>3. w.out[q] = "esc"
    BY <1>1, <2>2 DEF Wrote
  <2> QED BY <2>2, <2>3 DEF Tidy, Follows
<1> QED BY <1>1 DEF Tidy, Follows

\* What the transform puts between what it copies.
LEMMA PutTidy ==
  ASSUME NEW w, NEW done, NEW p \in Nat, Tidy(w, p, done), NEW item \in Items, item # "esc"
  PROVE  Tidy(Put(w, item), p, done)
<1>1. /\ Follows(Put(w, item), w) /\ Wrote(Put(w, item), w, item)
      /\ Reaches(Put(w, item), p)
  BY ItemAdded DEF Tidy
<1> QED BY <1>1, StillTidy

\* A pin at an offset that is not behind what is copied.
LEMMA PinAdds ==
  ASSUME NEW w, NEW done, NEW p \in Nat, Tidy(w, p, done), NEW i \in Nat, p <= i
  PROVE  /\ Follows(Pin(w, i), w) /\ Reaches(Pin(w, i), i)
         /\ Pin(w, i).out = w.out
         /\ Pin(w, i).spans = Append(w.spans, [doc |-> i, out |-> Len(w.out) + 1, len |-> 0])
<1> DEFINE s == [doc |-> i, out |-> Len(w.out) + 1, len |-> 0]
           v == Extended(w, s)
           n == Len(w.spans)
<1>0. /\ w \in Writers /\ Len(w.out) \in Nat /\ n \in Nat /\ Ordered(w.spans) /\ Reaches(w, p)
      /\ DOMAIN w.spans = 1 .. n
  BY WriterFields DEF Tidy
<1>1. s \in Span /\ s.doc = i /\ s.out = Len(w.out) + 1 /\ s.len = 0
  BY <1>0 DEF Span
<1>2. Pin(w, i) = v
  BY DEF Pin, Extended
<1> HIDE DEF s
<1>3. /\ Follows(v, w) /\ v.out = w.out /\ v.spans = Append(w.spans, s)
      /\ Len(v.spans) = n + 1 /\ v.spans[n + 1] = s
      /\ \A k \in 1 .. n : v.spans[k] = w.spans[k]
  BY <1>0, <1>1, SpanAdded
<1> HIDE DEF v
<1>4. ASSUME NEW k \in DOMAIN v.spans
      PROVE  /\ v.spans[k].doc + v.spans[k].len <= i
             /\ v.spans[k].out + v.spans[k].len <= Len(v.out) + 1
  <2>1. k \in 1 .. n + 1
    BY <1>3, WriterFields DEF Follows
  <2>2. CASE k = n + 1
    BY <1>0, <1>1, <1>3, <2>2
  <2>3. CASE k # n + 1
    <3>1. k \in 1 .. n /\ v.spans[k] = w.spans[k]
      BY <1>0, <1>3, <2>1, <2>3
    <3>2. /\ w.spans[k].doc + w.spans[k].len <= p
          /\ w.spans[k].out + w.spans[k].len <= Len(w.out) + 1
      BY <1>0, <3>1 DEF Reaches
    <3>3. w.spans[k].doc \in Nat /\ w.spans[k].len \in Nat
      BY <1>0, <3>1, WriterFields
    <3> QED BY <1>3, <3>1, <3>2, <3>3
  <2> QED BY <2>2, <2>3
<1>5. Reaches(v, i)
  BY <1>4 DEF Reaches
<1> QED BY <1>2, <1>3, <1>5 DEF s

\* It is tidy up to that offset.
LEMMA PinTidy ==
  ASSUME NEW w, NEW done, NEW p \in Nat, Tidy(w, p, done), NEW i \in Nat, p <= i
  PROVE  Tidy(Pin(w, i), i, done)
<1>1. Follows(Pin(w, i), w) /\ Reaches(Pin(w, i), i) /\ Pin(w, i).out = w.out
  BY PinAdds
<1> QED BY <1>1 DEF Tidy, Follows

\* No piece of a text is one that only the transform writes.
LEMMA TextItems ==
  ASSUME NEW t, Typed(t), NEW i \in DOMAIN t
  PROVE  t[i] \in Items /\ t[i] # "esc" /\ i \in Nat /\ i >= 1
<1>1. t[i] \in Pieces /\ i \in 1 .. Len(t)
  BY ElementOfSeq, LenProperties DEF Typed
<1>2. "esc" \notin Pieces
  BY PiecesAssumption DEF Pieces, Characters, Additions
<1> QED BY <1>1, <1>2 DEF Items

\* A span that ends in time does so when it is one longer.
EndsBy(d, o, len, p, m) == d + len <= p /\ o + len <= m + 1

\* One longer, it ends one later.
LEMMA OneMore ==
  ASSUME NEW d \in Nat, NEW o \in Nat, NEW l \in Nat, NEW m \in Nat, NEW p \in Nat, NEW i \in Nat,
         EndsBy(d, o, l, p, m), p <= i
  PROVE  d + l <= i + 1 /\ o + l <= m + 2 /\ d + (l + 1) <= i + 1 /\ o + (l + 1) <= m + 2
BY DEF EndsBy

\* One span longer.
LEMMA LongerSpan ==
  ASSUME NEW s \in Span
  PROVE  LET last == [s EXCEPT !.len = @ + 1]
         IN  last \in Span /\ last.doc = s.doc /\ last.out = s.out /\ last.len = s.len + 1
<1>1. s.len + 1 \in Nat
  BY DEF Span
<1> QED BY <1>1 DEF Span

\* The last span longer.
LEMMA SpanLonger ==
  ASSUME NEW spans \in Seq(Span), NEW n, n = Len(spans), n > 0
  PROVE  LET longer == [spans EXCEPT ![n].len = @ + 1]
         IN  /\ longer \in Seq(Span) /\ DOMAIN longer = 1 .. n /\ Len(longer) = n
             /\ \A k \in 1 .. n : /\ longer[k].doc = spans[k].doc /\ longer[k].out = spans[k].out
                                  /\ k # n => longer[k].len = spans[k].len
                                  /\ k = n => longer[k].len = spans[k].len + 1
<1> DEFINE last == [spans[n] EXCEPT !.len = @ + 1]
           longer == [spans EXCEPT ![n] = last]
<1>1. n \in 1 .. n /\ DOMAIN spans = 1 .. n /\ n \in Nat
  BY LenProperties
<1>2. last \in Span /\ last.doc = spans[n].doc /\ last.out = spans[n].out
      /\ last.len = spans[n].len + 1
  <2>1. spans[n] \in Span
    BY <1>1, ElementOfSeq
  <2> QED BY <2>1, LongerSpan
<1> HIDE DEF last
<1>3. /\ longer \in Seq(Span) /\ Len(longer) = n /\ longer[n] = last
      /\ DOMAIN longer = 1 .. n
      /\ \A k \in 1 .. n : k # n => longer[k] = spans[k]
  BY <1>1, <1>2, ExceptSeq, LenProperties
<1>4. longer = [spans EXCEPT ![n].len = @ + 1]
  BY DEF last
<1> HIDE DEF longer
<1>5. \A k \in 1 .. n : /\ longer[k].doc = spans[k].doc /\ longer[k].out = spans[k].out
                        /\ k # n => longer[k].len = spans[k].len
                        /\ k = n => longer[k].len = spans[k].len + 1
  BY <1>2, <1>3
<1> QED BY <1>3, <1>4, <1>5, Zenon

\* The spans when a copy joins the last of them.
LEMMA CopyJoins ==
  ASSUME NEW w \in Writers, Ordered(w.spans), NEW p \in Nat, Reaches(w, p), NEW i \in Nat, p <= i,
         NEW n, n = Len(w.spans), n > 0,
         w.spans[n].doc + w.spans[n].len = i, w.spans[n].out + w.spans[n].len = Len(w.out) + 1
  PROVE  LET u == [w EXCEPT !.spans = [w.spans EXCEPT ![n].len = @ + 1]]
         IN  /\ Follows(u, w) /\ u.out = w.out
             /\ \A k \in DOMAIN u.spans : /\ u.spans[k].doc + u.spans[k].len <= i + 1
                                          /\ u.spans[k].out + u.spans[k].len <= Len(w.out) + 2
<1> DEFINE longer == [w.spans EXCEPT ![n].len = @ + 1]
           u == [w EXCEPT !.spans = longer]
<1>1. /\ w.spans \in Seq(Span) /\ n \in Nat /\ DOMAIN w.spans = 1 .. n /\ Len(w.out) \in Nat
      /\ \A k \in 1 .. n : /\ w.spans[k].doc \in Nat /\ w.spans[k].out \in Nat
                           /\ w.spans[k].len \in Nat
  BY WriterFields
<1>2. /\ longer \in Seq(Span) /\ DOMAIN longer = 1 .. n /\ Len(longer) = n
      /\ \A k \in 1 .. n : /\ longer[k].doc = w.spans[k].doc /\ longer[k].out = w.spans[k].out
                           /\ k # n => longer[k].len = w.spans[k].len
                           /\ k = n => longer[k].len = w.spans[k].len + 1
  BY <1>1, SpanLonger
<1> HIDE DEF longer
<1>3. u \in Writers /\ u.done = w.done /\ u.out = w.out /\ u.spans = longer
  BY <1>2 DEF Writers
<1> HIDE DEF u
<1>4. Ordered(longer)
  <2>1. ASSUME NEW k \in 1 .. n - 1
        PROVE  /\ longer[k].doc + longer[k].len <= longer[k + 1].doc
               /\ longer[k].out + longer[k].len <= longer[k + 1].out
    <3>1. k \in 1 .. n /\ k + 1 \in 1 .. n /\ k # n
      BY <1>1
    <3>2. /\ w.spans[k].doc + w.spans[k].len <= w.spans[k + 1].doc
          /\ w.spans[k].out + w.spans[k].len <= w.spans[k + 1].out
      BY DEF Ordered
    <3> QED BY <1>2, <3>1, <3>2
  <2> QED BY <1>2, <2>1 DEF Ordered
<1>5. ASSUME NEW q, Pinned(w, q)
      PROVE  Pinned(u, q)
  <2>1. PICK k \in DOMAIN w.spans :
           /\ k + 1 \in DOMAIN w.spans
           /\ w.spans[k].out = q /\ w.spans[k].len = 0
           /\ w.spans[k + 1].out = q + 1 /\ w.spans[k + 1].len >= 1
           /\ w.spans[k + 1].doc = w.spans[k].doc
    BY <1>5 DEF Pinned
  <2>2. k \in 1 .. n /\ k + 1 \in 1 .. n /\ k # n
    BY <1>1, <2>1
  <2>3. w.spans[k + 1].len \in Nat
    BY <1>1, <2>2
  <2>4. longer[k + 1].len >= 1
    BY <1>2, <2>1, <2>2, <2>3
  <2>5. k \in DOMAIN longer /\ k + 1 \in DOMAIN longer
    BY <1>2, <2>2
  <2> QED BY <1>2, <1>3, <2>1, <2>2, <2>4, <2>5 DEF Pinned
<1>6. ASSUME NEW k \in 1 .. n
      PROVE  /\ longer[k].doc + longer[k].len <= i + 1
             /\ longer[k].out + longer[k].len <= Len(w.out) + 2
  <2>1. /\ w.spans[k].doc + w.spans[k].len <= p
        /\ w.spans[k].out + w.spans[k].len <= Len(w.out) + 1
    BY <1>1 DEF Reaches
  <2>2. /\ w.spans[k].doc \in Nat /\ w.spans[k].len \in Nat /\ w.spans[k].out \in Nat
    BY <1>1
  <2>3. longer[k].doc = w.spans[k].doc /\ longer[k].out = w.spans[k].out
    BY <1>2
  <2>6. /\ w.spans[k].doc + w.spans[k].len <= i + 1
        /\ w.spans[k].out + w.spans[k].len <= Len(w.out) + 2
        /\ w.spans[k].doc + (w.spans[k].len + 1) <= i + 1
        /\ w.spans[k].out + (w.spans[k].len + 1) <= Len(w.out) + 2
    <3>1. EndsBy(w.spans[k].doc, w.spans[k].out, w.spans[k].len, p, Len(w.out))
      BY <2>1 DEF EndsBy
    <3> QED BY ONLY <1>1, <2>2, <3>1, p \in Nat, i \in Nat, p <= i, OneMore
  <2>4. CASE k = n
    <3>1. longer[k].len = w.spans[k].len + 1
      BY <1>2, <2>4
    <3> QED BY <2>3, <2>6, <3>1
  <2>5. CASE k # n
    <3>1. longer[k].len = w.spans[k].len
      BY <1>2, <2>5
    <3> QED BY <2>3, <2>6, <3>1
  <2> QED BY <2>4, <2>5
<1>7. Follows(u, w)
  BY <1>3, <1>4, <1>5 DEF Follows
<1> QED BY <1>2, <1>3, <1>6, <1>7 DEF u, longer

\* The spans when it does not.
LEMMA CopyAppends ==
  ASSUME NEW w \in Writers, Ordered(w.spans), NEW p \in Nat, Reaches(w, p), NEW i \in Nat, p <= i,
         NEW s, s = [doc |-> i, out |-> Len(w.out) + 1, len |-> 1]
  PROVE  /\ Follows(Extended(w, s), w) /\ Extended(w, s).out = w.out
         /\ \A k \in DOMAIN Extended(w, s).spans :
              /\ Extended(w, s).spans[k].doc + Extended(w, s).spans[k].len <= i + 1
              /\ Extended(w, s).spans[k].out + Extended(w, s).spans[k].len <= Len(w.out) + 2
<1> DEFINE n == Len(w.spans)
           u == Extended(w, s)
<1>1. /\ w.spans \in Seq(Span) /\ n \in Nat /\ DOMAIN w.spans = 1 .. n /\ Len(w.out) \in Nat
      /\ \A k \in 1 .. n : /\ w.spans[k].doc \in Nat /\ w.spans[k].out \in Nat
                           /\ w.spans[k].len \in Nat
  BY WriterFields
<1>2. s \in Span /\ s.doc = i /\ s.out = Len(w.out) + 1 /\ s.len = 1 /\ p <= s.doc
  BY <1>1 DEF Span
<1>3. /\ Follows(u, w) /\ u.out = w.out /\ Len(u.spans) = n + 1 /\ u.spans[n + 1] = s
      /\ \A k \in DOMAIN w.spans : u.spans[k] = w.spans[k]
  BY <1>2, SpanAdded
<1> HIDE DEF u
<1>4. ASSUME NEW k \in DOMAIN u.spans
      PROVE  /\ u.spans[k].doc + u.spans[k].len <= i + 1
             /\ u.spans[k].out + u.spans[k].len <= Len(w.out) + 2
  <2>1. k \in 1 .. n + 1
    BY <1>3, WriterFields DEF Follows
  <2>2. CASE k = n + 1
    BY <1>1, <1>2, <1>3, <2>2
  <2>3. CASE k # n + 1
    <3>1. k \in 1 .. n /\ u.spans[k] = w.spans[k]
      BY <1>1, <1>3, <2>1, <2>3
    <3>2. /\ w.spans[k].doc + w.spans[k].len <= p
          /\ w.spans[k].out + w.spans[k].len <= Len(w.out) + 1
      BY <1>1, <3>1 DEF Reaches
    <3>3. w.spans[k].doc \in Nat /\ w.spans[k].len \in Nat /\ w.spans[k].out \in Nat
      BY <1>1, <3>1
    <3>4. /\ w.spans[k].doc + w.spans[k].len <= i + 1
          /\ w.spans[k].out + w.spans[k].len <= Len(w.out) + 2
      <4>1. EndsBy(w.spans[k].doc, w.spans[k].out, w.spans[k].len, p, Len(w.out))
        BY <3>2 DEF EndsBy
      <4> QED BY <1>1, <3>3, <4>1, OneMore
    <3> QED BY <3>1, <3>4
  <2> QED BY <2>2, <2>3
<1> QED BY <1>3, <1>4 DEF u

\* A copy lengthens the last span or adds one.
LEMMA CopyAdds ==
  ASSUME NEW t, Typed(t), NEW i \in DOMAIN t,
         NEW w \in Writers, Ordered(w.spans), NEW p \in Nat, Reaches(w, p), p <= i
  PROVE  /\ Follows(Copy(w, t, i), w) /\ Reaches(Copy(w, t, i), i + 1)
         /\ Wrote(Copy(w, t, i), w, t[i])
         /\ Len(w.spans) > 0
            /\ w.spans[Len(w.spans)].out + w.spans[Len(w.spans)].len # Len(w.out) + 1 =>
              Copy(w, t, i).spans =
                Append(w.spans, [doc |-> i, out |-> Len(w.out) + 1, len |-> 1])
<1> DEFINE n == Len(w.spans)
           joins == n > 0 /\ w.spans[n].doc + w.spans[n].len = i
                          /\ w.spans[n].out + w.spans[n].len = Len(w.out) + 1
           s == [doc |-> i, out |-> Len(w.out) + 1, len |-> 1]
           longer == [w.spans EXCEPT ![n].len = @ + 1]
           next == IF joins THEN longer ELSE Append(w.spans, s)
           u == [w EXCEPT !.spans = next]
           v == Put(u, t[i])
<1>0. Copy(w, t, i) = v
  BY DEF Copy
<1>1. /\ w.spans \in Seq(Span) /\ n \in Nat /\ DOMAIN w.spans = 1 .. n /\ Len(w.out) \in Nat
      /\ i \in Nat /\ t[i] \in Items
  BY WriterFields, TextItems
<1>3. /\ Follows(u, w) /\ u.out = w.out
      /\ \A k \in DOMAIN u.spans : /\ u.spans[k].doc + u.spans[k].len <= i + 1
                                   /\ u.spans[k].out + u.spans[k].len <= Len(w.out) + 2
  <2>1. CASE ~ joins
    <3>0. next = Append(w.spans, s)
      BY <2>1
    <3> HIDE DEF next
    <3>1. u = Extended(w, s)
      BY <3>0 DEF Extended
    <3>2. s = [doc |-> i, out |-> Len(w.out) + 1, len |-> 1]
      OBVIOUS
    <3> HIDE DEF s, joins, u, n
    <3> QED BY <1>1, <3>1, <3>2, CopyAppends
  <2>2. CASE joins
    <3>0. next = longer
      BY <2>2
    <3>1. n = Len(w.spans) /\ n > 0 /\ w.spans[n].doc + w.spans[n].len = i
          /\ w.spans[n].out + w.spans[n].len = Len(w.out) + 1
      BY <2>2
    <3> HIDE DEF next, joins, n
    <3> QED BY <1>1, <3>0, <3>1, CopyJoins
  <2> QED BY <2>1, <2>2
<1>4. n > 0 /\ w.spans[n].out + w.spans[n].len # Len(w.out) + 1 => u.spans = Append(w.spans, s)
  <2>1. n > 0 /\ w.spans[n].out + w.spans[n].len # Len(w.out) + 1 => next = Append(w.spans, s)
    OBVIOUS
  <2> HIDE DEF next
  <2>2. u.spans = next
    BY DEF Writers
  <2> QED BY <2>1, <2>2
<1> HIDE DEF u, s, joins, n
<1>5. /\ Follows(v, u) /\ v.spans = u.spans /\ Wrote(v, u, t[i])
  BY <1>1, <1>3, ItemAdded DEF Follows
<1> HIDE DEF v
<1>6. Follows(v, w) /\ Wrote(v, w, t[i])
  BY <1>3, <1>5 DEF Follows, Wrote
<1>7. Reaches(v, i + 1)
  <2>1. Len(v.out) + 1 = Len(w.out) + 2
    BY <1>1, <1>6 DEF Wrote
  <2> QED BY <1>3, <1>5, <2>1 DEF Reaches
<1> QED BY <1>0, <1>4, <1>5, <1>6, <1>7 DEF n, s

\* Copying one piece of the text.
LEMMA CopyTidy ==
  ASSUME NEW t, Typed(t), NEW i \in DOMAIN t,
         NEW w, NEW done, NEW p \in Nat, Tidy(w, p, done), p <= i
  PROVE  Tidy(Copy(w, t, i), i + 1, done)
<1>1. /\ Follows(Copy(w, t, i), w) /\ Reaches(Copy(w, t, i), i + 1)
      /\ Wrote(Copy(w, t, i), w, t[i])
  BY CopyAdds DEF Tidy
<1> QED BY <1>1, StillTidy, TextItems

\* Copying one piece behind a backslash of the transform's.
LEMMA LiterallyTidy ==
  ASSUME NEW t, Typed(t), NEW i \in DOMAIN t,
         NEW w, NEW done, NEW p \in Nat, Tidy(w, p, done), p <= i
  PROVE  Tidy(Literally(w, t, i), i + 1, done)
<1> DEFINE a == Pin(w, i)
           b == Put(a, "esc")
           v == Copy(b, t, i)
           n == Len(w.spans)
           m == Len(w.out)
           s == [doc |-> i, out |-> m + 1, len |-> 0]
           e == [doc |-> i, out |-> m + 2, len |-> 1]
<1>0. /\ i \in Nat /\ w \in Writers /\ w.spans \in Seq(Span)
      /\ n \in Nat /\ m \in Nat /\ DOMAIN w.out = 1 .. m /\ "esc" \in Items
      /\ \A q \in 1 .. m : w.out[q] = "esc" => Pinned(w, q)
  BY TextItems, WriterFields DEF Tidy, Items
<1>1. /\ Follows(a, w) /\ Reaches(a, i) /\ a.out = w.out /\ a.spans = Append(w.spans, s)
  BY <1>0, PinAdds
<1> HIDE DEF a
<1>2. /\ Follows(b, a) /\ b.spans = a.spans /\ Wrote(b, a, "esc") /\ Reaches(b, i)
  BY <1>0, <1>1, ItemAdded DEF Follows
<1> HIDE DEF b
<1>3. s \in Span /\ e \in Span /\ s.out + s.len = m + 1
  BY <1>0 DEF Span
<1> HIDE DEF s, e
<1>4. /\ b.spans \in Seq(Span) /\ Len(b.spans) = n + 1 /\ b.spans[n + 1] = s
      /\ Len(b.out) = m + 1 /\ b.out[m + 1] = "esc" /\ \A q \in 1 .. m : b.out[q] = w.out[q]
  BY <1>0, <1>1, <1>2, <1>3, AppendProperties DEF Wrote
<1>5. /\ Follows(v, b) /\ Reaches(v, i + 1) /\ Wrote(v, b, t[i])
      /\ v.spans = Append(b.spans, e)
  <2>1. /\ Len(b.spans) > 0 /\ Len(b.out) + 1 = m + 2 /\ i <= i
        /\ b.spans[Len(b.spans)].out + b.spans[Len(b.spans)].len # Len(b.out) + 1
    BY <1>0, <1>3, <1>4
  <2>2. /\ Follows(v, b) /\ Reaches(v, i + 1) /\ Wrote(v, b, t[i])
        /\ v.spans = Append(b.spans, [doc |-> i, out |-> Len(b.out) + 1, len |-> 1])
    BY <1>0, <1>2, <2>1, CopyAdds DEF Follows
  <2> QED BY <2>1, <2>2 DEF e
<1> HIDE DEF v
<1>6. /\ v \in Writers /\ Ordered(v.spans) /\ v.done = done /\ DOMAIN v.out = 1 .. m + 2
      /\ \A q : Pinned(w, q) => Pinned(v, q)
  <2>1. v \in Writers /\ Ordered(v.spans) /\ v.done = done /\ \A q : Pinned(w, q) => Pinned(v, q)
    BY <1>1, <1>2, <1>5 DEF Follows, Tidy
  <2>2. Len(v.out) = m + 2
    BY <1>0, <1>4, <1>5 DEF Wrote
  <2> QED BY <2>1, <2>2, WriterFields
<1>7. Pinned(v, m + 1)
  <2>1. /\ v.spans[n + 1] = s /\ v.spans[n + 2] = e /\ Len(v.spans) = n + 2
    <3>1. n + 1 \in 1 .. n + 1 /\ (n + 1) + 1 = n + 2
      BY <1>0
    <3> QED BY <1>3, <1>4, <1>5, <3>1, AppendProperties
  <2>2. n + 1 \in DOMAIN v.spans /\ (n + 1) + 1 \in DOMAIN v.spans /\ (n + 1) + 1 = n + 2
    BY <1>0, <1>6, <2>1, WriterFields
  <2>3. (m + 1) + 1 = m + 2
    BY <1>0
  <2>4. /\ s.out = m + 1 /\ s.len = 0 /\ s.doc = i /\ e.out = m + 2 /\ e.len >= 1 /\ e.doc = i
    BY DEF s, e
  <2> HIDE DEF n, m
  <2> QED BY <2>1, <2>2, <2>3, <2>4 DEF Pinned
<1>8. ASSUME NEW q \in DOMAIN v.out, v.out[q] = "esc"
      PROVE  Pinned(v, q)
  <2>1. q \in 1 .. m + 2
    BY <1>6
  <2>2. q # m + 2
    <3>1. v.out[(m + 1) + 1] = t[i] /\ (m + 1) + 1 = m + 2
      BY <1>0, <1>4, <1>5 DEF Wrote
    <3> QED BY <1>8, <3>1, TextItems
  <2>3. CASE q = m + 1
    BY <1>7, <2>3
  <2>4. CASE q # m + 1
    <3>1. q \in 1 .. m /\ q \in DOMAIN b.out
      <4>1. DOMAIN b.out = 1 .. m + 1
        BY <1>4, <1>2, WriterFields DEF Follows
      <4> QED BY <1>0, <2>1, <2>2, <2>4, <4>1
    <3>2. w.out[q] = "esc"
      BY <1>4, <1>5, <1>8, <3>1 DEF Wrote
    <3> QED BY <1>0, <1>6, <3>1, <3>2
  <2> QED BY <2>3, <2>4
<1>9. Tidy(v, i + 1, done)
  BY <1>5, <1>6, <1>8 DEF Tidy
<1> QED BY <1>9 DEF v, b, a, Literally

Loops(f, n, base, inv, step) ==
  /\ f = [k \in 0 .. n |-> f[k]] /\ f[0] = base
  /\ \A k \in 0 .. n : f[k] \in inv[k]
  /\ \A k \in 1 .. n : f[k] = step[<<k, f[k - 1]>>]

\* A loop that keeps inside of inv, whatever its steps would do outside of it.
LEMMA Looped ==
  ASSUME NEW S, NEW n \in Nat, NEW base \in S, NEW inv, NEW step,
         \A k \in 0 .. n : inv[k] \subseteq S,
         base \in inv[0], \A k \in 1 .. n : \A v \in inv[k - 1] : step[<<k, v>>] \in inv[k]
  PROVE  \E f : Loops(f, n, base, inv, step)
<1> DEFINE into == [x \in (1 .. n) \X S |-> IF step[x] \in S THEN step[x] ELSE base]
<1>1. into \in [(1 .. n) \X S -> S]
  OBVIOUS
<1>2. \A k \in 1 .. n, v \in S : step[<<k, v>>] \in S => into[<<k, v>>] = step[<<k, v>>]
  OBVIOUS
<1> HIDE DEF into
<1>3. PICK f \in [0 .. n -> S] : Iterates(f, n, base, into)
  BY <1>1, Iterated
<1> DEFINE T == {k \in 0 .. n : f[k] \in inv[k]}
<1>4. 0 \in T
  BY <1>3 DEF Iterates
<1>5. ASSUME NEW k \in 1 .. n, k - 1 \in 0 .. n, f[k - 1] \in inv[k - 1]
      PROVE  f[k] \in inv[k] /\ f[k] = step[<<k, f[k - 1]>>]
  <2>1. step[<<k, f[k - 1]>>] \in inv[k] /\ f[k] = into[<<k, f[k - 1]>>]
    BY <1>3, <1>5 DEF Iterates
  <2>2. f[k - 1] \in S /\ step[<<k, f[k - 1]>>] \in S
    BY <1>5, <2>1
  <2> QED BY <1>2, <2>1, <2>2
<1>6. \A k \in 0 .. n : f[k] \in inv[k]
  <2>1. ASSUME NEW k \in 1 .. n, k - 1 \in T
        PROVE  k \in T
    <3>1. k - 1 \in 0 .. n /\ f[k - 1] \in inv[k - 1] /\ k \in 0 .. n
      BY <2>1
    <3> QED BY <1>5, <3>1
  <2> HIDE DEF T
  <2>2. \A k \in 0 .. n : k \in T
    BY <1>4, <2>1, StepByStep
  <2> QED BY <2>2 DEF T
<1>7. \A k \in 1 .. n : f[k] = step[<<k, f[k - 1]>>]
  <2>1. \A k \in 1 .. n : k - 1 \in 0 .. n
    OBVIOUS
  <2> QED BY <1>5, <1>6, <2>1
<1>8. f[0] = base
  BY <1>3 DEF Iterates
<1> QED BY <1>3, <1>6, <1>7, <1>8 DEF Loops

\* A range of the text that is copied.
LEMMA CopyAllTidy ==
  ASSUME NEW t, Typed(t), NEW lo \in Nat, NEW hi \in Nat, 1 <= lo, lo <= hi, hi <= End(t),
         NEW needs,
         NEW w, NEW done, NEW p \in Nat, Tidy(w, p, done), p <= lo
  PROVE  Tidy(CopyAll(w, t, lo, hi, needs), hi, done)
<1> DEFINE n == hi - lo
           each(i, v) == IF i \in needs THEN Literally(v, t, i) ELSE Copy(v, t, i)
           body(f) == [k \in 0 .. n |->
                         IF k = 0 THEN w ELSE each(lo + k - 1, f[k - 1])]
           g == CHOOSE f : f = body(f)
           inv == [k \in 0 .. n |-> {v \in Writers : Tidy(v, lo + k, done)}]
           step == [x \in (1 .. n) \X Writers |-> each(lo + x[1] - 1, x[2])]
<1>0. n \in Nat /\ w \in Writers /\ Tidy(w, lo, done)
  BY TidyLater DEF Tidy
<1>1. CopyAll(w, t, lo, hi, needs) = g[n]
  BY DEF CopyAll
<1>2. ASSUME NEW k \in 1 .. n, NEW v \in inv[k - 1]
      PROVE  each(lo + k - 1, v) \in inv[k] /\ step[<<k, v>>] = each(lo + k - 1, v)
  <2>1. k - 1 \in 0 .. n /\ lo + (k - 1) = lo + k - 1 /\ v \in Writers /\ k \in 0 .. n
    BY <1>0
  <2>2. Tidy(v, lo + k - 1, done)
    BY <1>2, <2>1
  <2>3. /\ lo + k - 1 \in DOMAIN t /\ (lo + k - 1) + 1 = lo + k /\ lo + k - 1 \in Nat
        /\ lo + k - 1 <= lo + k - 1
    <3>1. Len(t) \in Nat /\ DOMAIN t = 1 .. Len(t) /\ hi <= Len(t) + 1
      BY LenProperties DEF Typed, End
    <3> QED BY <3>1
  <2>4. Tidy(Literally(v, t, lo + k - 1), lo + k, done)
    BY <2>2, <2>3, LiterallyTidy
  <2>5. Tidy(Copy(v, t, lo + k - 1), lo + k, done)
    BY <2>2, <2>3, CopyTidy
  <2>6. Tidy(each(lo + k - 1, v), lo + k, done)
    BY <2>4, <2>5
  <2> HIDE DEF each
  <2>7. each(lo + k - 1, v) \in Writers
    BY <2>6 DEF Tidy
  <2> QED BY <2>1, <2>6, <2>7
<1>3. w \in inv[0] /\ \A k \in 0 .. n : inv[k] \subseteq Writers
  <2>1. lo + 0 = lo /\ 0 \in 0 .. n
    BY <1>0
  <2> QED BY <1>0, <2>1
<1> HIDE DEF inv, step, each, n
<1>4. PICK f : Loops(f, n, w, inv, step)
  <2>1. \A k \in 1 .. n : \A v \in inv[k - 1] : step[<<k, v>>] \in inv[k]
    BY <1>2
  <2> QED BY <1>0, <1>3, <2>1, Looped
<1>5. f = body(f)
  <2>1. ASSUME NEW k \in 0 .. n
        PROVE  f[k] = IF k = 0 THEN w ELSE each(lo + k - 1, f[k - 1])
    <3>1. k # 0 => k \in 1 .. n /\ k - 1 \in 0 .. n
      BY <1>0
    <3> QED BY <1>2, <1>4, <3>1 DEF Loops
  <2> QED BY <1>4, <2>1 DEF Loops
<1>6. g = body(g)
  BY <1>5
<1> HIDE DEF g
<1>7. g[0] = w /\ \A k \in 1 .. n : g[k] = each(lo + k - 1, g[k - 1])
  <2>1. 0 \in 0 .. n /\ \A k \in 1 .. n : k \in 0 .. n /\ k # 0
    BY <1>0
  <2> QED BY <1>6, <2>1
<1> DEFINE T == {k \in 0 .. n : g[k] \in inv[k]}
<1>8. \A k \in 0 .. n : k \in T
  <2>1. 0 \in T
    BY <1>0, <1>3, <1>7
  <2>2. ASSUME NEW k \in 1 .. n, k - 1 \in T
        PROVE  k \in T
    <3>1. g[k - 1] \in inv[k - 1] /\ k \in 0 .. n
      BY <1>0, <2>2
    <3> QED BY <1>2, <1>7, <3>1
  <2> HIDE DEF T
  <2> QED BY <1>0, <2>1, <2>2, StepByStep
<1>9. g[n] \in inv[n]
  BY <1>0, <1>8
<1> QED BY <1>0, <1>1, <1>9 DEF inv, n

\* A pin and something that the transform puts there.
LEMMA PinnedPut ==
  ASSUME NEW w, NEW done, NEW p \in Nat, Tidy(w, p, done), NEW i \in Nat, p <= i,
         NEW item \in Items, item # "esc"
  PROVE  Tidy(Put(Pin(w, i), item), i, done)
<1>1. Tidy(Pin(w, i), i, done)
  BY PinTidy
<1> QED BY <1>1, PutTidy

\* What is spliced in at an offset, if it is anything.
LEMMA SplicedTidy ==
  ASSUME NEW splices, IsFiniteSet(splices), NEW i \in Nat,
         NEW w, NEW done, NEW p \in Nat, Tidy(w, p, done), p <= i
  PROVE  Tidy(SplicedAt(w, i, splices), i, done)
<1> DEFINE here == {s \in splices : s[1] = i}
           n == Cardinality(here)
           body(f) == [k \in 0 .. n |-> IF k = 0 THEN w ELSE Splice(f[k - 1], i)]
           g == CHOOSE f : f = body(f)
           W == {v \in Writers : Tidy(v, i, done)}
           inv == [k \in 0 .. n |-> W]
           step == [x \in (1 .. n) \X W |-> Splice(x[2], i)]
<1>0. n \in Nat /\ w \in W
  <2>1. IsFiniteSet(here)
    BY FS_Subset
  <2> HIDE DEF here
  <2>2. n \in Nat
    BY <2>1, FS_CardinalityType
  <2>3. Tidy(w, i, done) /\ w \in Writers
    BY TidyLater DEF Tidy
  <2> QED BY <2>2, <2>3
<1>1. SplicedAt(w, i, splices) = g[n]
  BY DEF SplicedAt
<1>2. ASSUME NEW v \in W
      PROVE  Splice(v, i) \in W
  <2>1. "splice" \in Items /\ "splice" # "esc" /\ i <= i
    BY DEF Items
  <2>2. Tidy(Splice(v, i), i, done)
    BY <2>1, PinnedPut DEF Splice
  <2> QED BY <2>2 DEF Tidy
<1> HIDE DEF W, n
<1>3. \A k \in 0 .. n : inv[k] = W
  OBVIOUS
<1>4. \A k \in 1 .. n : \A v \in W : step[<<k, v>>] = Splice(v, i)
  OBVIOUS
<1>5. 0 \in 0 .. n /\ \A k \in 1 .. n : k \in 0 .. n /\ k - 1 \in 0 .. n /\ k # 0
  BY <1>0
<1> HIDE DEF inv, step
<1>6. PICK f : Loops(f, n, w, inv, step)
  <2>1. \A k \in 1 .. n : \A v \in inv[k - 1] : step[<<k, v>>] \in inv[k]
    <3> SUFFICES ASSUME NEW k \in 1 .. n, NEW v \in inv[k - 1]
                 PROVE  step[<<k, v>>] \in inv[k]
      OBVIOUS
    <3>1. k \in 0 .. n /\ k - 1 \in 0 .. n
      BY <1>5
    <3>2. v \in W
      BY <1>3, <3>1
    <3>3. step[<<k, v>>] = Splice(v, i)
      BY <1>4, <3>2
    <3> QED BY <1>2, <1>3, <3>1, <3>2, <3>3
  <2>2. \A k \in 0 .. n : inv[k] \subseteq W
    BY <1>3
  <2>3. w \in inv[0]
    BY <1>0, <1>3, <1>5
  <2> QED BY <1>0, <2>1, <2>2, <2>3, Looped
<1>7. f = body(f)
  <2>1. ASSUME NEW k \in 0 .. n
        PROVE  f[k] = IF k = 0 THEN w ELSE Splice(f[k - 1], i)
    <3>1. k # 0 => k \in 1 .. n /\ k - 1 \in 0 .. n
      BY <1>0
    <3> QED BY <1>3, <1>4, <1>6, <3>1 DEF Loops
  <2> QED BY <1>6, <2>1 DEF Loops
<1>8. g = body(g)
  BY <1>7
<1> HIDE DEF g
<1>9. g[0] = w /\ \A k \in 1 .. n : g[k] = Splice(g[k - 1], i)
  BY <1>5, <1>8
<1> DEFINE T == {k \in 0 .. n : g[k] \in W}
<1>10. \A k \in 0 .. n : k \in T
  <2>1. 0 \in T
    BY <1>0, <1>5, <1>9
  <2>2. ASSUME NEW k \in 1 .. n, k - 1 \in T
        PROVE  k \in T
    BY <1>2, <1>5, <1>9, <2>2
  <2> HIDE DEF T
  <2> QED BY <1>0, <2>1, <2>2, StepByStep
<1>11. g[n] \in W
  BY <1>0, <1>10
<1> QED BY <1>1, <1>11 DEF W

\* And if nothing is.
LEMMA NotSpliced ==
  ASSUME NEW splices, NEW i, \A s \in splices : s[1] # i, NEW w
  PROVE  SplicedAt(w, i, splices) = w
<1> DEFINE here == {s \in splices : s[1] = i}
           n == Cardinality(here)
           body(f) == [k \in 0 .. n |-> IF k = 0 THEN w ELSE Splice(f[k - 1], i)]
           g == CHOOSE f : f = body(f)
<1>0. n = 0
  <2>1. here = {}
    OBVIOUS
  <2> HIDE DEF here
  <2> QED BY <2>1, FS_EmptySet
<1>1. SplicedAt(w, i, splices) = g[n]
  BY DEF SplicedAt
<1> HIDE DEF n
<1>2. [k \in 0 .. n |-> w] = body([k \in 0 .. n |-> w])
  BY <1>0
<1>3. g = body(g)
  BY <1>2
<1> HIDE DEF g
<1>4. g[0] = w
  <2>1. 0 \in 0 .. n
    BY <1>0
  <2> QED BY <1>3, <2>1
<1> QED BY <1>0, <1>1, <1>4

\* A run of spaces.
LEMMA SpacesTidy ==
  ASSUME NEW t, Typed(t), NEW run, run[1] \in DOMAIN t, run[2] \in Nat, run[1] < run[2],
         NEW whole \in BOOLEAN,
         NEW w, NEW done, NEW p \in Nat, Tidy(w, p, done), p <= run[1]
  PROVE  Tidy(Spaces(w, t, run, whole), run[2], done)
<1> DEFINE lo == run[1]
           n == run[2] - run[1] - 1
           each(k, v) == Put(Pin(v, run[1] + k), "nbsp")
           body(f) == [k \in 0 .. n |->
                         IF k = 0 THEN Copy(w, t, run[1]) ELSE each(k, f[k - 1])]
           g == CHOOSE f : f = body(f)
           inv == [k \in 0 .. n |-> {v \in Writers : Tidy(v, lo + k + 1, done)}]
           step == [x \in (1 .. n) \X Writers |-> each(x[1], x[2])]
           base == Copy(w, t, run[1])
<1>0. n \in Nat /\ lo \in Nat /\ 0 \in 0 .. n
  BY TextItems
<1>1. Spaces(w, t, run, whole) = g[IF whole THEN n ELSE 0]
  BY DEF Spaces
<1>2. ASSUME NEW k \in 1 .. n, NEW v \in inv[k - 1]
      PROVE  each(k, v) \in inv[k] /\ step[<<k, v>>] = each(k, v)
  <2>1. /\ k - 1 \in 0 .. n /\ lo + (k - 1) + 1 = lo + k /\ v \in Writers /\ k \in 0 .. n
        /\ lo + k \in Nat /\ lo + k + 1 \in Nat /\ lo + k <= lo + k + 1 /\ lo + k <= lo + k
    <3> HIDE DEF n, lo
    <3>1. v \in Writers
      <4>1. k - 1 \in 0 .. n
        BY <1>0
      <4> QED BY <4>1
    <3> HIDE DEF inv
    <3> QED BY <1>0, <3>1
  <2>2. Tidy(v, lo + k, done)
    BY <1>2, <2>1
  <2>3. "nbsp" \in Items /\ "nbsp" # "esc"
    BY DEF Items
  <2>4. Tidy(each(k, v), lo + k, done)
    BY <2>1, <2>2, <2>3, PinnedPut
  <2> HIDE DEF each
  <2>5. Tidy(each(k, v), lo + k + 1, done)
    BY <2>1, <2>4, TidyLater
  <2>6. each(k, v) \in Writers
    BY <2>5 DEF Tidy
  <2> QED BY <2>1, <2>5, <2>6
<1>3. base \in inv[0] /\ base \in Writers /\ \A k \in 0 .. n : inv[k] \subseteq Writers
  <2>1. lo + 0 + 1 = lo + 1
    BY <1>0
  <2>2. Tidy(base, lo + 1, done)
    BY CopyTidy
  <2> HIDE DEF base, lo
  <2>3. base \in Writers
    BY <2>2 DEF Tidy
  <2> QED BY <1>0, <2>1, <2>2, <2>3
<1>4. g = [k \in 0 .. n |-> IF k = 0 THEN base ELSE each(k, g[k - 1])]
  <2> HIDE DEF inv, step, each, n, base
  <2>1. PICK f : Loops(f, n, base, inv, step)
    <3>1. \A k \in 1 .. n : \A v \in inv[k - 1] : step[<<k, v>>] \in inv[k]
      BY <1>2
    <3> QED BY <1>0, <1>3, <3>1, Looped
  <2>2. f = [k \in 0 .. n |-> IF k = 0 THEN base ELSE each(k, f[k - 1])]
    <3>1. ASSUME NEW k \in 0 .. n
          PROVE  f[k] = IF k = 0 THEN base ELSE each(k, f[k - 1])
      <4>1. k # 0 => k \in 1 .. n /\ k - 1 \in 0 .. n
        BY <1>0
      <4> QED BY <1>2, <2>1, <4>1 DEF Loops
    <3> QED BY <2>1, <3>1 DEF Loops
  <2>3. f = body(f)
    BY <2>2 DEF base, each, n
  <2> QED BY <2>3 DEF base, each, n
<1> HIDE DEF inv, step, each, n, base, g
<1>5. g[0] = base /\ \A k \in 1 .. n : g[k] = each(k, g[k - 1])
  <2>1. \A k \in 1 .. n : k \in 0 .. n /\ k # 0
    BY <1>0
  <2> QED BY <1>0, <1>4, <2>1
<1> DEFINE T == {k \in 0 .. n : g[k] \in inv[k]}
<1>6. \A k \in 0 .. n : k \in T
  <2>1. 0 \in T
    BY <1>0, <1>3, <1>5
  <2>2. ASSUME NEW k \in 1 .. n, k - 1 \in T
        PROVE  k \in T
    <3>1. g[k - 1] \in inv[k - 1] /\ k \in 0 .. n
      BY <1>0, <2>2
    <3> QED BY <1>2, <1>5, <3>1
  <2> HIDE DEF T
  <2> QED BY <1>0, <2>1, <2>2, StepByStep
<1>7. Tidy(g[n], lo + n + 1, done) /\ Tidy(g[0], lo + 0 + 1, done)
  BY <1>0, <1>6 DEF inv
<1>8. /\ lo + n + 1 = run[2] /\ lo + 0 + 1 \in Nat /\ lo + 0 + 1 <= run[2]
  BY <1>0 DEF n
<1> HIDE DEF lo
<1>9. Tidy(g[n], run[2], done) /\ Tidy(g[0], run[2], done)
  BY <1>7, <1>8, TidyLater
<1> QED BY <1>1, <1>9

\* An anchor, if there is one.
LEMMA AnchoredTidy ==
  ASSUME NEW plan, NEW w, NEW done, NEW p \in Nat, Tidy(w, p, done), NEW i \in Nat, p <= i
  PROVE  Tidy(Anchored(w, plan, i), i, done)
<1>1. "nbsp" \in Items /\ "nbsp" # "esc"
  BY DEF Items
<1>2. Tidy(Put(Pin(w, i), "nbsp"), i, done)
  BY <1>1, PinnedPut
<1>3. Tidy(w, i, done)
  BY TidyLater
<1> QED BY <1>2, <1>3 DEF Anchored

\* A range of offsets of the text.
IsRange(t, lo, hi) == lo \in Nat /\ hi \in Nat /\ 1 <= lo /\ lo <= hi /\ hi <= End(t)

\* The ways to write a range: as it is, or with a backslash before some pieces.
LEMMA RangeTidy ==
  ASSUME NEW t, Typed(t), NEW lo, NEW hi, IsRange(t, lo, hi),
         NEW w, NEW done, NEW p \in Nat, Tidy(w, p, done), p <= lo
  PROVE  /\ Tidy(Raw(w, t, lo, hi), hi, done) /\ Tidy(Plain(w, t, lo, hi), hi, done)
         /\ Tidy(RawMath(w, t, lo, hi), hi, done) /\ Tidy(CopyAll(w, t, lo, hi, {}), hi, done)
<1>1. \A needs : Tidy(CopyAll(w, t, lo, hi, needs), hi, done)
  BY CopyAllTidy DEF IsRange
<1> QED BY <1>1 DEF Raw, Plain, RawMath

\* Code between its fences.
LEMMA FencedTidy ==
  ASSUME NEW t, Typed(t), NEW lo, NEW hi, IsRange(t, lo, hi),
         NEW w, NEW done, NEW p \in Nat, Tidy(w, p, done), p <= lo
  PROVE  Tidy(Fenced(w, t, lo, hi), hi, done)
<1> DEFINE solid == {i \in lo .. hi - 1 : t[i] \notin White}
           from == IF solid = {} THEN hi ELSE CHOOSE i \in solid : \A j \in solid : i <= j
           to == IF solid = {} THEN hi ELSE 1 + CHOOSE i \in solid : \A j \in solid : j <= i
<1>0. lo \in Nat /\ hi \in Nat /\ 1 <= lo /\ lo <= hi /\ hi <= End(t) /\ hi <= hi
  BY DEF IsRange
<1>1. solid \in SUBSET Nat /\ \A i \in solid : lo <= i /\ i <= hi - 1
  BY <1>0
<1>2. from \in Nat /\ to \in Nat /\ lo <= from /\ from <= to /\ to <= hi
  <2>1. CASE solid = {}
    BY <1>0, <2>1
  <2>2. CASE solid # {}
    <3> DEFINE a == CHOOSE i \in solid : \A j \in solid : i <= j
               b == CHOOSE i \in solid : \A j \in solid : j <= i
    <3>0. from = a /\ to = 1 + b
      BY <2>2
    <3> HIDE DEF solid
    <3>1. \E i \in solid : \A j \in solid : i <= j
      BY <1>1, <2>2, LeastExists
    <3>2. \E i \in solid : \A j \in solid : j <= i
      <4>1. hi - 1 \in Nat
        BY <1>0, <1>1, <2>2
      <4> QED BY <1>1, <2>2, <4>1, GreatestExists
    <3>3. a \in solid /\ \A j \in solid : a <= j
      BY <3>1
    <3>4. b \in solid
      BY <3>2
    <3> HIDE DEF a, b, from, to
    <3> QED BY <1>0, <1>1, <3>0, <3>3, <3>4
  <2> QED BY <2>1, <2>2
<1>3. Fenced(w, t, lo, hi) = Put(CopyAll(Put(w, "fence"), t, from, to, {}), "fence")
  BY DEF Fenced
<1> HIDE DEF from, to, solid
<1>4. "fence" \in Items /\ "fence" # "esc"
  BY DEF Items
<1>5. Tidy(Put(w, "fence"), p, done)
  BY <1>4, PutTidy
<1>6. Tidy(CopyAll(Put(w, "fence"), t, from, to, {}), to, done)
  <2>1. 1 <= from /\ to <= End(t) /\ p <= from
    <3>1. End(t) \in Nat
      BY LenProperties DEF Typed, End
    <3> QED BY <1>0, <1>2, <3>1
  <2> QED BY <1>2, <1>5, <2>1, CopyAllTidy
<1>7. Tidy(Put(CopyAll(Put(w, "fence"), t, from, to, {}), "fence"), to, done)
  BY <1>2, <1>4, <1>6, PutTidy
<1> QED BY <1>0, <1>2, <1>3, <1>7, TidyLater

\* Styled text.
LEMMA StyledTidy ==
  ASSUME NEW t, Typed(t), NEW lo, NEW hi, IsRange(t, lo, hi), NEW plan,
         NEW w, NEW done, NEW p \in Nat, Tidy(w, p, done), p <= lo
  PROVE  Tidy(Styled(w, t, plan, lo, hi), hi, done)
<1>1. {"open", "close"} \subseteq Items /\ "open" # "esc" /\ "close" # "esc" /\ hi \in Nat
  BY DEF Items, IsRange
<1>2. Tidy(Put(w, "open"), p, done)
  BY <1>1, PutTidy
<1>3. Tidy(Plain(Put(w, "open"), t, lo, hi), hi, done)
  BY <1>2, RangeTidy
<1>4. Tidy(Put(Plain(Put(w, "open"), t, lo, hi), "close"), hi, done)
  BY <1>1, <1>3, PutTidy
<1>5. Tidy(Plain(w, t, lo, hi), hi, done) /\ Tidy(CopyAll(w, t, lo, hi, {}), hi, done)
  BY RangeTidy
<1> QED BY <1>4, <1>5 DEF Styled

-----------------------------------------------------------------------------
(* Windows.                                                                *)

\* A part is what it is, where it begins and where it ends.
Tag(h) == <<h[1], h[2]>>
Holds(h, i) == h[2] <= i /\ i < h[3]

\* Parts do not overlap, windows begin and end where they do, and none begins behind
\* the range.
Layout(parts, bounds, end) ==
  /\ bounds \subseteq Nat /\ end \in bounds
  /\ \A h \in parts : h[2] \in bounds /\ h[3] \in bounds /\ h[2] < h[3] /\ h[2] < end
  /\ \A h, g \in parts, i \in Nat : Holds(h, i) /\ Holds(g, i) => Tag(h) = Tag(g)

Clear(parts, end) == \A h \in parts : ~ (h[2] < end /\ end < h[3])

\* What is copied before the window at b: nothing behind b but a part that b is in,
\* nothing of a part that is still to be written, and nothing behind the range.
PreparedTo(w, b, parts, end, p) ==
  /\ Tidy(w, p, w.done)
  /\ p <= b \/ \E h \in parts : Tag(h) \in w.done /\ h[2] < b /\ b < h[3] /\ p <= h[3]
  /\ \A h \in parts : Holds(h, b) /\ Tag(h) \notin w.done => p <= h[2]
  /\ b > end /\ Clear(parts, end) => p <= end

Prepared(w, b, parts, end) == \E p \in Nat : PreparedTo(w, b, parts, end, p)

\* Bounds that follow each other.
LEMMA NextBounds ==
  ASSUME NEW bounds, bounds \subseteq Nat, NEW lo \in Nat, NEW hi \in Nexts(bounds, lo)
  PROVE  hi \in bounds /\ hi \in Nat /\ lo < hi /\ \A b \in bounds : b <= lo \/ hi <= b
<1>1. hi \in bounds /\ lo < hi /\ \A b \in bounds : lo < b => hi <= b
  BY DEF Nexts
<1> QED BY <1>1

\* A window is before the end of the range or behind it.
LEMMA WindowBounds ==
  ASSUME NEW parts, NEW bounds, NEW end, Layout(parts, bounds, end),
         NEW lo \in bounds, NEW hi \in Nexts(bounds, lo)
  PROVE  lo \in Nat /\ hi \in Nat /\ lo < hi /\ end \in Nat /\ (end < hi => end <= lo)
<1>1. lo \in Nat /\ hi \in Nat /\ lo < hi /\ \A b \in bounds : b <= lo \/ hi <= b
  BY NextBounds DEF Layout
<1>2. end \in bounds /\ end \in Nat
  BY DEF Layout
<1>3. end <= lo \/ hi <= end
  BY <1>1, <1>2
<1> QED BY <1>1, <1>2, <1>3

\* A part that a window touches holds its start.
LEMMA PartsAndWindows ==
  ASSUME NEW parts, NEW bounds, NEW end, Layout(parts, bounds, end),
         NEW lo \in bounds, NEW hi \in Nexts(bounds, lo), NEW h \in parts
  PROVE  /\ h[2] \in Nat /\ h[3] \in Nat /\ end \in Nat /\ h[2] < end /\ h[2] < h[3]
         /\ h[2] < hi /\ lo < h[3] => Holds(h, lo)
         /\ Holds(h, lo) => hi <= h[3]
         /\ end < hi => end <= lo
<1>1. lo \in Nat /\ hi \in Nat /\ \A b \in bounds : b <= lo \/ hi <= b
  BY NextBounds DEF Layout
<1>2. h[2] \in bounds /\ h[3] \in bounds /\ end \in bounds /\ bounds \subseteq Nat
      /\ h[2] < end /\ h[2] < h[3]
  BY DEF Layout
<1>3. h[2] \in Nat /\ h[3] \in Nat /\ end \in Nat
  BY <1>2
<1>4. (h[2] <= lo \/ hi <= h[2]) /\ (h[3] <= lo \/ hi <= h[3]) /\ (end <= lo \/ hi <= end)
  BY <1>1, <1>2
<1> QED BY <1>1, <1>2, <1>3, <1>4 DEF Holds

\* A window that writes nothing.
LEMMA PreparedIdle ==
  ASSUME NEW parts, NEW bounds, NEW end, Layout(parts, bounds, end),
         NEW lo \in bounds, NEW hi \in Nexts(bounds, lo),
         NEW w, Prepared(w, lo, parts, end)
  PROVE  Prepared(w, hi, parts, end)
<1>0. lo \in Nat /\ hi \in Nat /\ lo < hi /\ end \in Nat /\ (end < hi => end <= lo)
  BY WindowBounds
<1>1. PICK p \in Nat : PreparedTo(w, lo, parts, end, p)
  BY DEF Prepared
<1>2. CASE p <= lo
  <2>1. ASSUME NEW h \in parts, Holds(h, hi), Tag(h) \notin w.done
        PROVE  p <= h[2]
    <3>1. /\ h[2] \in Nat /\ h[3] \in Nat
          /\ h[2] < hi /\ lo < h[3] => Holds(h, lo)
      BY PartsAndWindows
    <3>2. h[2] <= hi /\ hi < h[3]
      BY <2>1 DEF Holds
    <3>3. Holds(h, lo) => p <= h[2]
      BY <1>1, <2>1 DEF PreparedTo
    <3> QED BY <1>0, <1>2, <3>1, <3>2, <3>3
  <2>2. ASSUME hi > end, Clear(parts, end)
        PROVE  p <= end
    <3>1. lo > end => p <= end
      BY <1>1, <2>2 DEF PreparedTo
    <3>2. end <= lo
      BY <1>0, <2>2
    <3> QED BY <1>0, <1>2, <3>1, <3>2
  <2>3. p <= hi
    BY <1>0, <1>2
  <2>4. PreparedTo(w, hi, parts, end, p)
    BY <1>1, <2>1, <2>2, <2>3 DEF PreparedTo
  <2> QED BY <2>4 DEF Prepared
<1>3. ASSUME NEW g \in parts, Tag(g) \in w.done, g[2] < lo, lo < g[3], p <= g[3]
      PROVE  Prepared(w, hi, parts, end)
  <2>0. g[2] \in Nat /\ g[3] \in Nat /\ g[2] < end /\ hi <= g[3] /\ Holds(g, lo)
    <3>1. /\ g[2] \in Nat /\ g[3] \in Nat /\ g[2] < end
          /\ Holds(g, lo) => hi <= g[3]
      BY PartsAndWindows
    <3>2. Holds(g, lo)
      BY <1>0, <1>3, <3>1 DEF Holds
    <3> QED BY <3>1, <3>2
  <2>1. ASSUME NEW h \in parts, Holds(h, hi), Tag(h) \notin w.done
        PROVE  p <= h[2]
    <3>1. /\ h[2] \in Nat /\ h[3] \in Nat
          /\ h[2] < hi /\ lo < h[3] => Holds(h, lo)
      BY PartsAndWindows
    <3>2. h[2] <= hi /\ hi < h[3]
      BY <2>1 DEF Holds
    <3>3. ~ Holds(h, lo)
      BY <1>0, <1>3, <2>0, <2>1 DEF Layout
    <3>4. h[2] = hi
      BY <1>0, <3>1, <3>2, <3>3
    <3>5. ~ Holds(g, hi)
      BY <1>0, <1>3, <2>1 DEF Layout
    <3>6. g[3] <= hi
      BY <1>0, <1>3, <2>0, <3>5 DEF Holds
    <3> QED BY <1>3, <2>0, <3>4, <3>6, <1>0
  <2>2. ASSUME hi > end, Clear(parts, end)
        PROVE  p <= end
    <3>1. lo > end => p <= end
      BY <1>1, <2>2 DEF PreparedTo
    <3>2. end <= lo
      BY <1>0, <2>2
    <3>3. ~ (g[2] < end /\ end < g[3])
      BY <2>2 DEF Clear
    <3> QED BY <1>0, <1>3, <2>0, <3>1, <3>2, <3>3
  <2>3. p <= hi \/ (Tag(g) \in w.done /\ g[2] < hi /\ hi < g[3] /\ p <= g[3])
    <3>1. hi = g[3] \/ hi < g[3]
      BY <1>0, <2>0
    <3>2. CASE hi = g[3]
      BY <1>3, <3>2
    <3>3. CASE hi < g[3]
      <4>1. g[2] < hi
        BY <1>0, <1>3, <2>0
      <4> QED BY <1>3, <3>3, <4>1
    <3> QED BY <3>1, <3>2, <3>3
  <2>4. PreparedTo(w, hi, parts, end, p)
    BY <1>1, <2>1, <2>2, <2>3 DEF PreparedTo
  <2> QED BY <2>4 DEF Prepared
<1> QED BY <1>1, <1>2, <1>3 DEF PreparedTo

\* A window that writes a part as a whole.
LEMMA PreparedPart ==
  ASSUME NEW parts, NEW bounds, NEW end, Layout(parts, bounds, end),
         NEW lo \in bounds, NEW hi \in Nexts(bounds, lo),
         NEW g \in parts, Holds(g, lo),
         NEW w, Tidy(w, g[3], w.done), Tag(g) \in w.done
  PROVE  Prepared(w, hi, parts, end)
<1>0. lo \in Nat /\ hi \in Nat /\ lo < hi /\ end \in Nat /\ (end < hi => end <= lo)
  BY WindowBounds
<1>1. g[2] \in Nat /\ g[3] \in Nat /\ g[2] < end /\ hi <= g[3] /\ g[2] <= lo /\ lo < g[3]
  BY PartsAndWindows DEF Holds
<1>2. ASSUME NEW h \in parts, Holds(h, hi), Tag(h) \notin w.done
      PROVE  g[3] <= h[2]
  <2>1. /\ h[2] \in Nat /\ h[3] \in Nat
        /\ h[2] < hi /\ lo < h[3] => Holds(h, lo)
    BY PartsAndWindows
  <2>2. h[2] <= hi /\ hi < h[3]
    BY <1>2 DEF Holds
  <2>3. ~ Holds(h, lo) /\ ~ Holds(g, hi)
    BY <1>0, <1>2 DEF Layout
  <2>4. h[2] = hi
    BY <1>0, <2>1, <2>2, <2>3
  <2>5. g[3] <= hi
    BY <1>0, <1>1, <2>3 DEF Holds
  <2> QED BY <2>4, <2>5
<1>3. ~ (hi > end /\ Clear(parts, end))
  <2> SUFFICES ASSUME hi > end, Clear(parts, end)
               PROVE  FALSE
    OBVIOUS
  <2>1. end <= lo
    BY <1>0
  <2>2. ~ (g[2] < end /\ end < g[3])
    BY DEF Clear
  <2> QED BY <1>0, <1>1, <2>1, <2>2
<1>4. g[3] <= hi \/ (g[2] < hi /\ hi < g[3] /\ g[3] <= g[3])
  BY <1>0, <1>1
<1>5. PreparedTo(w, hi, parts, end, g[3])
  BY <1>2, <1>3, <1>4 DEF PreparedTo
<1> QED BY <1>1, <1>5 DEF Prepared

\* A window that is in no part and not behind the range.
LEMMA PreparedFree ==
  ASSUME NEW parts, NEW bounds, NEW end, Layout(parts, bounds, end),
         NEW lo \in bounds, NEW hi \in Nexts(bounds, lo),
         \A h \in parts : ~ Holds(h, lo), hi <= end,
         NEW w, NEW p \in Nat, p <= hi, Tidy(w, p, w.done)
  PROVE  Prepared(w, hi, parts, end)
<1>0. lo \in Nat /\ hi \in Nat /\ lo < hi /\ end \in Nat /\ (end < hi => end <= lo)
  BY WindowBounds
<1>1. ASSUME NEW h \in parts, Holds(h, hi)
      PROVE  p <= h[2]
  <2>1. /\ h[2] \in Nat /\ h[3] \in Nat
        /\ h[2] < hi /\ lo < h[3] => Holds(h, lo)
    BY PartsAndWindows
  <2>2. h[2] <= hi /\ hi < h[3]
    BY <1>1 DEF Holds
  <2> QED BY <1>0, <2>1, <2>2
<1>2. PreparedTo(w, hi, parts, end, p)
  BY <1>0, <1>1 DEF PreparedTo
<1> QED BY <1>2 DEF Prepared

\* What has been written before such a window lies before it.
LEMMA PreparedOutside ==
  ASSUME NEW parts, NEW bounds, NEW end, Layout(parts, bounds, end), NEW lo \in bounds,
         \A h \in parts : ~ Holds(h, lo), NEW w, Prepared(w, lo, parts, end)
  PROVE  Tidy(w, lo, w.done)
<1>1. PICK p \in Nat : PreparedTo(w, lo, parts, end, p)
  BY DEF Prepared
<1>2. lo \in Nat
  BY DEF Layout
<1>3. p <= lo
  <2>1. ASSUME NEW h \in parts, h[2] < lo, lo < h[3]
        PROVE  FALSE
    <3>1. h[2] \in Nat
      BY DEF Layout
    <3> QED BY <1>2, <2>1, <3>1 DEF Holds
  <2> QED BY <1>1, <2>1 DEF PreparedTo
<1> QED BY <1>1, <1>2, <1>3, TidyLater DEF PreparedTo

\* And nothing of a part that is still to be written.
LEMMA PreparedInside ==
  ASSUME NEW parts, NEW bounds, NEW end, Layout(parts, bounds, end), NEW lo,
         NEW g \in parts, Holds(g, lo), NEW w, Prepared(w, lo, parts, end), Tag(g) \notin w.done
  PROVE  Tidy(w, g[2], w.done)
<1>1. PICK p \in Nat : PreparedTo(w, lo, parts, end, p)
  BY DEF Prepared
<1>2. g[2] \in Nat
  BY DEF Layout
<1>3. p <= g[2]
  BY <1>1 DEF PreparedTo
<1> QED BY <1>1, <1>2, <1>3, TidyLater DEF PreparedTo

\* What is spliced in at the start of a window is not in the middle of a part.
LEMMA PreparedSpliced ==
  ASSUME NEW parts, NEW bounds, NEW end, Layout(parts, bounds, end), NEW lo \in bounds,
         NEW splices, IsFiniteSet(splices),
         \A s \in splices, h \in parts : ~ (h[2] < s[1] /\ s[1] < h[3]),
         \A s \in splices : s[1] <= end,
         NEW w, Prepared(w, lo, parts, end)
  PROVE  Prepared(SplicedAt(w, lo, splices), lo, parts, end)
<1>1. CASE \A s \in splices : s[1] # lo
  <2>1. SplicedAt(w, lo, splices) = w
    BY <1>1, NotSpliced
  <2> QED BY <2>1
<1>2. ASSUME NEW s \in splices, s[1] = lo
      PROVE  Prepared(SplicedAt(w, lo, splices), lo, parts, end)
  <2> DEFINE v == SplicedAt(w, lo, splices)
  <2>0. lo \in Nat /\ end \in Nat /\ lo <= end
    BY <1>2 DEF Layout
  <2>1. PICK p \in Nat : PreparedTo(w, lo, parts, end, p)
    BY DEF Prepared
  <2>2. p <= lo
    BY <1>2, <2>1 DEF PreparedTo
  <2>3. Tidy(v, lo, w.done)
    BY <2>0, <2>1, <2>2, SplicedTidy DEF PreparedTo
  <2> HIDE DEF v
  <2>4. v.done = w.done
    BY <2>3 DEF Tidy
  <2>5. ASSUME NEW h \in parts, Holds(h, lo)
        PROVE  lo <= h[2]
    <3>1. h[2] \in Nat /\ lo < h[3]
      BY <2>5 DEF Layout, Holds
    <3>2. ~ (h[2] < lo /\ lo < h[3])
      BY <1>2
    <3> QED BY <2>0, <3>1, <3>2
  <2>6. PreparedTo(v, lo, parts, end, lo)
    BY <2>0, <2>3, <2>4, <2>5 DEF PreparedTo
  <2>7. Prepared(v, lo, parts, end)
    BY <2>0, <2>6 DEF Prepared
  <2> QED BY <2>7 DEF v
<1> QED BY <1>1, <1>2

InCode(plan, i) == \E c \in plan.code : c.lo <= i /\ i < c.hi

\* The parts that are written as a whole: code that is shown, formulas that are
\* revealed, and runs of spaces in neither code nor a formula.
CodeParts(plan, o) ==
  {<<"code", c.lo, c.hi>> : c \in {d \in plan.code : Expanded(o, d.lo, d.hi) /\ d.lo < d.hi}}
MathParts(plan, o) ==
  {<<"math", m[1], m[2]>> : m \in {n \in plan.math : Revealed(o, n[1], n[2])}}
RunParts(plan) ==
  {<<"run", s[1], s[2]>> : s \in {q \in plan.runs : ~ InCode(plan, q[1])
                                                     /\ ~ Within(plan.math, q[1])}}

PartsOf(plan, o) == CodeParts(plan, o) \cup MathParts(plan, o) \cup RunParts(plan)

Splices(plan) == plan.results \cup plan.labels \cup plan.titles

\* What the windows need of a plan.
FitsCode(t, end, o, plan, bounds) ==
  /\ \A c \in plan.code : IsRange(t, c.lo, c.hi) /\ c.at \in Nat
  /\ \A c \in plan.code, i \in Nat :
       c.lo <= i /\ i < c.hi /\ ~ Within(plan.hidden, i) => Expanded(o, c.lo, c.hi)
  /\ \A b \in bounds : b > end => \E c \in plan.code : c.lo < end /\ b = c.hi

FitsRuns(t, plan) ==
  \A s \in plan.runs :
    /\ s[1] \in DOMAIN t /\ s[2] \in Nat /\ s[1] < s[2]
    /\ \A i \in s[1] .. s[2] - 1 :
         /\ i \notin plan.anchors
         /\ InCode(plan, i) <=> InCode(plan, s[1])
         /\ Within(plan.math, i) <=> Within(plan.math, s[1])
         /\ Within(plan.shown, i) => InCode(plan, i)

FitsSplices(end, o, plan) ==
  /\ IsFiniteSet(Splices(plan)) /\ \A s \in Splices(plan) : s[1] <= end
  /\ \A s \in Splices(plan), h \in PartsOf(plan, o) : ~ (h[2] < s[1] /\ s[1] < h[3])

Fits(t, end, o, plan, bounds) ==
  /\ Typed(t) /\ bounds \subseteq 1 .. End(t)
  /\ Layout(PartsOf(plan, o), bounds, end)
  /\ FitsCode(t, end, o, plan, bounds) /\ FitsRuns(t, plan) /\ FitsSplices(end, o, plan)
  /\ \A m \in plan.math : IsRange(t, m[1], m[2])
  /\ plan.stray \subseteq DOMAIN t

\* A part that is written once.
LEMMA PreparedOnce ==
  ASSUME NEW parts, NEW bounds, NEW end, Layout(parts, bounds, end),
         NEW lo \in bounds, NEW hi \in Nexts(bounds, lo),
         NEW g \in parts, Holds(g, lo), g[1] \in {"run", "code", "math"},
         NEW w, Prepared(w, lo, parts, end),
         NEW written, Tidy(w, g[2], w.done) => Tidy(written, g[3], w.done)
  PROVE  Prepared(Once(w, Tag(g), written), hi, parts, end)
<1>1. CASE Tag(g) \in w.done
  <2>1. Once(w, Tag(g), written) = w
    BY <1>1 DEF Once
  <2> QED BY <2>1, PreparedIdle
<1>2. CASE Tag(g) \notin w.done
  <2> DEFINE v == [written EXCEPT !.done = @ \cup {Tag(g)}]
  <2>1. Once(w, Tag(g), written) = v
    BY <1>2 DEF Once
  <2>2. Tidy(written, g[3], w.done)
    BY <1>2, PreparedInside
  <2>3. Tag(g) \in {"run", "code", "math"} \X Nat
    BY DEF Tag, Layout
  <2>4. /\ v \in Writers /\ v.spans = written.spans /\ v.out = written.out
        /\ v.done = w.done \cup {Tag(g)}
    BY <2>2, <2>3 DEF Tidy, Writers
  <2> HIDE DEF v
  <2>5. Tidy(v, g[3], v.done)
    BY <2>2, <2>4 DEF Tidy, Reaches, Pinned
  <2>6. Prepared(v, hi, parts, end)
    BY <2>4, <2>5, PreparedPart
  <2> QED BY <2>1, <2>6
<1> QED BY <1>1, <1>2

\* A window that is not in code that is shown, nor in a formula that is revealed,
\* nor in a run of spaces, is in no part, and before the end of the range.
LEMMA FreeWindow ==
  ASSUME NEW t, NEW end, NEW o, NEW plan, NEW bounds, Fits(t, end, o, plan, bounds),
         NEW lo \in bounds, NEW hi \in Nexts(bounds, lo),
         ~ Within(plan.hidden, lo), ~ InCode(plan, lo),
         \A m \in plan.math : Revealed(o, m[1], m[2]) => ~ (m[1] <= lo /\ lo < m[2]),
         Within(plan.shown, lo) \/ Within(plan.math, lo)
           \/ \A s \in plan.runs : ~ (s[1] <= lo /\ lo < s[2])
  PROVE  hi <= end /\ \A h \in PartsOf(plan, o) : ~ Holds(h, lo)
<1>0. /\ lo \in Nat /\ hi \in Nat /\ lo < hi /\ end \in Nat /\ hi \in bounds
      /\ end < hi => end <= lo
  <2>1. Layout(PartsOf(plan, o), bounds, end)
    BY DEF Fits
  <2> QED BY <2>1, WindowBounds DEF Nexts
<1>1. hi <= end
  <2> SUFFICES ASSUME end < hi
               PROVE  FALSE
    BY <1>0
  <2>1. PICK c \in plan.code : c.lo < end /\ hi = c.hi
    BY <1>0 DEF Fits, FitsCode
  <2>2. c.lo \in Nat
    BY DEF Fits, FitsCode, IsRange
  <2>3. c.lo <= lo /\ lo < c.hi
    BY <1>0, <2>1, <2>2
  <2> QED BY <2>3 DEF InCode
<1>2. ASSUME NEW h \in CodeParts(plan, o), Holds(h, lo)
      PROVE  FALSE
  <2>1. PICK c \in plan.code : h = <<"code", c.lo, c.hi>>
    BY DEF CodeParts
  <2> QED BY <1>2, <2>1 DEF Holds, InCode
<1>3. ASSUME NEW h \in MathParts(plan, o), Holds(h, lo)
      PROVE  FALSE
  <2>1. PICK m \in plan.math : h = <<"math", m[1], m[2]>> /\ Revealed(o, m[1], m[2])
    BY DEF MathParts
  <2> QED BY <1>3, <2>1 DEF Holds
<1>4. ASSUME NEW h \in RunParts(plan), Holds(h, lo)
      PROVE  FALSE
  <2>1. PICK s \in plan.runs : /\ h = <<"run", s[1], s[2]>>
                               /\ ~ InCode(plan, s[1]) /\ ~ Within(plan.math, s[1])
    BY DEF RunParts
  <2>2. s[1] <= lo /\ lo < s[2]
    BY <1>4, <2>1 DEF Holds
  <2>3. s[1] \in Nat /\ s[2] \in Nat
    BY TextItems DEF Fits, FitsRuns
  <2>4. lo \in s[1] .. s[2] - 1
    BY <1>0, <2>2, <2>3
  <2>5. ~ Within(plan.math, lo) /\ (Within(plan.shown, lo) => InCode(plan, lo))
    BY <2>1, <2>4 DEF Fits, FitsRuns
  <2> QED BY <2>2, <2>5
<1> QED BY <1>1, <1>2, <1>3, <1>4 DEF PartsOf

\* What is written of a window.
LEMMA PreparedWindow ==
  ASSUME NEW t, NEW end, NEW o, NEW plan, NEW bounds, Fits(t, end, o, plan, bounds),
         NEW lo \in bounds, NEW hi \in Nexts(bounds, lo),
         NEW w, Prepared(w, lo, PartsOf(plan, o), end)
  PROVE  Prepared(WritesWhole(w, t, plan, o, lo, hi), hi, PartsOf(plan, o), end)
<1> DEFINE parts == PartsOf(plan, o)
           v == Anchored(w, plan, lo)
           codes == {c \in plan.code : c.lo <= lo /\ lo < c.hi}
           code == CHOOSE c \in codes : \A d \in codes : c.at <= d.at
           maths == {m \in plan.math : m[1] <= lo /\ lo < m[2] /\ Revealed(o, m[1], m[2])}
           math == CHOOSE m \in maths : TRUE
           runs == {s \in plan.runs : s[1] <= lo /\ lo < s[2]}
           run == CHOOSE s \in runs : TRUE
           result == WritesWhole(w, t, plan, o, lo, hi)
<1>0. /\ Typed(t) /\ Layout(parts, bounds, end) /\ lo \in Nat /\ hi \in Nat /\ lo < hi
      /\ lo <= lo /\ IsRange(t, lo, hi)
  <2>1. Typed(t) /\ Layout(parts, bounds, end) /\ bounds \subseteq 1 .. End(t)
    BY DEF Fits
  <2>2. lo \in Nat /\ hi \in Nat /\ lo < hi /\ hi \in bounds
    BY <2>1, WindowBounds DEF Nexts
  <2>3. End(t) \in Nat
    BY <2>1, LenProperties DEF End, Typed
  <2> QED BY <2>1, <2>2, <2>3 DEF IsRange
<1>1. CASE Within(plan.hidden, lo)
  <2>1. result = w
    BY <1>1 DEF WritesWhole
  <2> QED BY <1>0, <2>1, PreparedIdle
<1>2. CASE ~ Within(plan.hidden, lo) /\ codes # {}
  <2>1. result = Once(w, <<"code", code.lo>>, Fenced(w, t, code.lo, code.hi))
    BY <1>2 DEF WritesWhole
  <2>2. code \in codes
    <3> DEFINE ats == {c.at : c \in codes}
    <3>1. ats \in SUBSET Nat /\ ats # {}
      BY <1>2 DEF Fits, FitsCode
    <3> HIDE DEF ats
    <3>2. PICK a \in ats : \A b \in ats : a <= b
      BY <3>1, LeastExists
    <3>3. \E c \in codes : \A d \in codes : c.at <= d.at
      BY <3>2 DEF ats
    <3> HIDE DEF codes
    <3> QED BY <3>3
  <2>3. code \in plan.code /\ code.lo <= lo /\ lo < code.hi
    BY <2>2
  <2> HIDE DEF code, codes, result
  <2> DEFINE g == <<"code", code.lo, code.hi>>
  <2>4. /\ IsRange(t, code.lo, code.hi) /\ code.lo \in Nat /\ code.hi \in Nat
        /\ code.lo < code.hi /\ code.lo <= code.lo
    <3>1. IsRange(t, code.lo, code.hi)
      BY <2>3 DEF Fits, FitsCode
    <3> QED BY <1>0, <2>3, <3>1 DEF IsRange
  <2>5. Expanded(o, code.lo, code.hi)
    BY <1>0, <1>2, <2>3 DEF Fits, FitsCode
  <2>6. g \in parts /\ Holds(g, lo) /\ Tag(g) = <<"code", code.lo>>
        /\ g[1] \in {"run", "code", "math"} /\ g[2] = code.lo /\ g[3] = code.hi
    BY <2>3, <2>4, <2>5 DEF PartsOf, CodeParts, Holds, Tag
  <2> HIDE DEF g, parts
  <2>7. Tidy(w, g[2], w.done) => Tidy(Fenced(w, t, code.lo, code.hi), g[3], w.done)
    BY <1>0, <2>4, <2>6, FencedTidy
  <2>8. Prepared(Once(w, Tag(g), Fenced(w, t, code.lo, code.hi)), hi, parts, end)
    BY <1>0, <2>6, <2>7, PreparedOnce DEF parts
  <2> QED BY <2>1, <2>6, <2>8 DEF parts, result
<1>3. CASE ~ Within(plan.hidden, lo) /\ codes = {} /\ maths # {}
  <2>1. result = Once(w, <<"math", math[1]>>, RawMath(w, t, math[1], math[2]))
    BY <1>3 DEF WritesWhole
  <2>2. math \in maths
    <3> HIDE DEF maths
    <3> QED BY <1>3
  <2>3. math \in plan.math /\ math[1] <= lo /\ lo < math[2] /\ Revealed(o, math[1], math[2])
    BY <2>2
  <2> HIDE DEF math, maths, result
  <2> DEFINE g == <<"math", math[1], math[2]>>
  <2>4. IsRange(t, math[1], math[2]) /\ math[1] \in Nat /\ math[2] \in Nat /\ math[1] <= math[1]
    BY <2>3 DEF Fits, IsRange
  <2>5. g \in parts /\ Holds(g, lo) /\ Tag(g) = <<"math", math[1]>>
        /\ g[1] \in {"run", "code", "math"} /\ g[2] = math[1] /\ g[3] = math[2]
    BY <2>3 DEF PartsOf, MathParts, Holds, Tag
  <2> HIDE DEF g, parts
  <2>6. Tidy(w, g[2], w.done) => Tidy(RawMath(w, t, math[1], math[2]), g[3], w.done)
    BY <1>0, <2>4, <2>5, RangeTidy
  <2>7. Prepared(Once(w, Tag(g), RawMath(w, t, math[1], math[2])), hi, parts, end)
    BY <1>0, <2>5, <2>6, PreparedOnce DEF parts
  <2> QED BY <2>1, <2>5, <2>7 DEF parts, result
<1>4. CASE ~ Within(plan.hidden, lo) /\ codes = {} /\ maths = {}
  <2>1. result = Writes(v, t, plan, o, lo, hi)
    BY <1>4 DEF WritesWhole
  <2>2. ~ InCode(plan, lo)
    BY <1>4 DEF InCode
  <2>3. \A m \in plan.math : Revealed(o, m[1], m[2]) => ~ (m[1] <= lo /\ lo < m[2])
    BY <1>4
  <2> HIDE DEF codes, maths, result
  <2>4. CASE ~ Within(plan.shown, lo) /\ runs # {} /\ ~ Within(plan.math, lo)
    <3>1. run \in runs
      <4> HIDE DEF runs
      <4> QED BY <2>4
    <3>2. run \in plan.runs /\ run[1] <= lo /\ lo < run[2]
      BY <3>1
    <3>3. result = Once(v, <<"run", run[1]>>, Spaces(v, t, run, Revealed(o, run[1], run[2])))
      BY <2>1, <2>4 DEF Writes
    <3> HIDE DEF run, runs
    <3>4. /\ run[1] \in DOMAIN t /\ run[2] \in Nat /\ run[1] < run[2] /\ run[1] \in Nat
          /\ run[1] <= run[1]
      BY <1>0, <3>2, TextItems DEF Fits, FitsRuns
    <3>5. lo \in run[1] .. run[2] - 1
      BY <1>0, <3>2, <3>4
    <3>6. lo \notin plan.anchors /\ ~ InCode(plan, run[1]) /\ ~ Within(plan.math, run[1])
      BY <2>2, <2>4, <3>2, <3>5 DEF Fits, FitsRuns
    <3>7. v = w
      BY <3>6 DEF Anchored
    <3> DEFINE g == <<"run", run[1], run[2]>>
    <3>8. g \in parts /\ Holds(g, lo) /\ Tag(g) = <<"run", run[1]>>
          /\ g[1] \in {"run", "code", "math"} /\ g[2] = run[1] /\ g[3] = run[2]
      BY <3>2, <3>6 DEF PartsOf, RunParts, Holds, Tag
    <3> HIDE DEF g, parts, v
    <3>9. Revealed(o, run[1], run[2]) \in BOOLEAN
      BY DEF Revealed, Touches
    <3>10. Tidy(w, g[2], w.done) =>
             Tidy(Spaces(w, t, run, Revealed(o, run[1], run[2])), g[3], w.done)
      BY <1>0, <3>4, <3>8, <3>9, SpacesTidy
    <3>11. Prepared(Once(w, Tag(g), Spaces(w, t, run, Revealed(o, run[1], run[2]))), hi,
                    parts, end)
      BY <1>0, <3>8, <3>10, PreparedOnce DEF parts
    <3> QED BY <3>3, <3>7, <3>8, <3>11 DEF parts, result
  <2>5. CASE Within(plan.shown, lo) \/ runs = {} \/ Within(plan.math, lo)
    <3>1. hi <= end /\ \A h \in parts : ~ Holds(h, lo)
      BY <1>4, <2>2, <2>3, <2>5, FreeWindow
    <3>2. Tidy(w, lo, w.done)
      BY <1>0, <3>1, PreparedOutside
    <3>3. Tidy(v, lo, w.done)
      BY <1>0, <3>2, AnchoredTidy
    <3>4. /\ Tidy(Raw(v, t, lo, hi), hi, w.done)
          /\ Tidy(Styled(v, t, plan, lo, hi), hi, w.done)
      BY <1>0, <3>3, RangeTidy, StyledTidy
    <3>5. Tidy(Put(v, "break"), lo, w.done)
      <4>1. "break" \in Items /\ "break" # "esc"
        BY DEF Items
      <4> QED BY <1>0, <3>3, <4>1, PutTidy
    <3>6. lo \in plan.stray => Tidy(Literally(v, t, lo), lo + 1, w.done)
      <4>1. plan.stray \subseteq DOMAIN t
        BY DEF Fits
      <4> QED BY <1>0, <3>3, <4>1, LiterallyTidy
    <3>7. Tidy(result, hi, w.done)
      <4>1. Tidy(Put(v, "break"), hi, w.done)
        BY <1>0, <3>5, TidyLater
      <4>2. lo \in plan.stray => Tidy(Literally(v, t, lo), hi, w.done)
        <5>1. lo + 1 \in Nat /\ lo + 1 <= hi
          BY <1>0
        <5> QED BY <1>0, <3>6, <5>1, TidyLater
      <4>3. /\ Within(plan.shown, lo) => result = Raw(v, t, lo, hi)
            /\ ~ Within(plan.shown, lo) =>
                 \/ lo \in plan.stray /\ result = Literally(v, t, lo)
                 \/ result = Put(v, "break")
                 \/ result = Styled(v, t, plan, lo, hi)
        BY <2>1, <2>5 DEF Writes
      <4> QED BY <3>4, <4>1, <4>2, <4>3
    <3>8. result.done = w.done /\ hi <= hi
      BY <1>0, <3>7 DEF Tidy
    <3>9. Tidy(result, hi, result.done)
      BY <3>7, <3>8
    <3>10. Prepared(result, hi, parts, end)
      BY <1>0, <3>1, <3>8, <3>9, PreparedFree
    <3> QED BY <3>10 DEF result
  <2> QED BY <2>4, <2>5
<1> QED BY <1>1, <1>2, <1>3, <1>4

\* Where the windows go on behind offset i, at the latest at the end of the text.
Ahead(t, bounds, i) == Nexts(bounds \cup {End(t)}, i)

\* Nothing is written yet.
LEMMA PreparedFirst ==
  ASSUME NEW parts, NEW bounds, NEW end, Layout(parts, bounds, end), NEW b \in Nat
  PROVE  Prepared(Unwritten, b, parts, end)
<1>1. Unwritten \in Writers /\ DOMAIN Unwritten.spans = {} /\ DOMAIN Unwritten.out = {}
      /\ Len(Unwritten.spans) = 0
  <2>1. <<>> \in Seq(Items) /\ <<>> \in Seq(Span)
    BY EmptySeq
  <2> QED BY <2>1 DEF Unwritten, Writers
<1>2. Tidy(Unwritten, 0, Unwritten.done)
  <2>1. Ordered(Unwritten.spans)
    BY <1>1 DEF Ordered
  <2> QED BY <1>1, <2>1 DEF Tidy, Reaches
<1>3. ASSUME NEW h \in parts
      PROVE  0 <= h[2]
  <2>1. h[2] \in bounds /\ bounds \subseteq Nat
    BY DEF Layout
  <2>2. h[2] \in Nat
    BY <2>1
  <2> QED BY <2>2
<1>4. 0 <= end /\ 0 <= b
  BY DEF Layout
<1>5. PreparedTo(Unwritten, b, parts, end, 0)
  BY <1>2, <1>3, <1>4 DEF PreparedTo
<1> QED BY <1>5 DEF Prepared

\* Behind the last bound no part is left.
LEMMA PreparedBehind ==
  ASSUME NEW parts, NEW bounds, NEW end, Layout(parts, bounds, end), NEW e \in Nat,
         \A b \in bounds : b <= e,
         NEW lo \in bounds, lo <= e, Nexts(bounds, lo) = {}, NEW w, Prepared(w, lo, parts, end)
  PROVE  Prepared(w, e, parts, end)
<1>0. bounds \subseteq Nat /\ end \in bounds /\ end \in Nat /\ lo \in Nat
  BY DEF Layout
<1>1. \A b \in bounds : b <= lo
  <2> SUFFICES ASSUME NEW a \in bounds, ~ (a <= lo)
               PROVE  FALSE
    OBVIOUS
  <2> DEFINE more == {b \in bounds : lo < b}
  <2>1. more \in SUBSET Nat /\ more # {}
    <3>1. a \in Nat
      BY <1>0
    <3>2. a \in more
      BY <1>0, <3>1
    <3> QED BY <1>0, <3>2
  <2>2. PICK b \in more : \A j \in more : b <= j
    <3> HIDE DEF more
    <3> QED BY <2>1, LeastExists
  <2>3. b \in Nexts(bounds, lo)
    BY <2>2 DEF Nexts
  <2> QED BY <2>3
<1>2. PICK p \in Nat : PreparedTo(w, lo, parts, end, p)
  BY DEF Prepared
<1>3. ASSUME NEW h \in parts
      PROVE  h[2] \in Nat /\ h[3] \in Nat /\ h[2] < h[3] /\ h[3] <= lo
  BY <1>0, <1>1 DEF Layout
<1>4. p <= lo
  <2>1. \A h \in parts : ~ (lo < h[3])
    BY <1>0, <1>3
  <2> QED BY <1>2, <2>1 DEF PreparedTo
<1>5. p <= e
  BY <1>0, <1>4
<1>6. ASSUME NEW h \in parts, Holds(h, e)
      PROVE  FALSE
  BY <1>0, <1>3, <1>6 DEF Holds
<1>7. ASSUME Clear(parts, end)
      PROVE  p <= end
  <2>1. end <= lo
    BY <1>0, <1>1
  <2>2. lo > end => p <= end
    BY <1>2, <1>7 DEF PreparedTo
  <2> QED BY <1>0, <1>4, <2>1, <2>2
<1>8. PreparedTo(w, e, parts, end, p)
  BY <1>2, <1>5, <1>6, <1>7 DEF PreparedTo
<1> QED BY <1>8 DEF Prepared

\* All windows of a plan that fits.
LEMMA WindowsPrepared ==
  ASSUME NEW t, NEW end, NEW o, NEW plan, NEW bounds, Fits(t, end, o, plan, bounds),
         NEW r, r[2] = end
  PROVE  \E w : /\ Prepared(w, End(t), PartsOf(plan, o), end)
                /\ Written(t, r, o, plan, bounds) =
                     Anchored(SplicedAt(w, end, plan.results), plan, end)
<1> DEFINE n == Len(t)
           parts == PartsOf(plan, o)
           splices == plan.results \cup plan.labels \cup plan.titles
           window(v, lo, hi) == WritesWhole(SplicedAt(v, lo, splices), t, plan, o, lo, hi)
           each(i, v) == IF i \in bounds /\ Nexts(bounds, i) # {}
                         THEN window(v, i, CHOOSE j \in Nexts(bounds, i) : TRUE)
                         ELSE v
           body(f) == [k \in 0 .. n |-> IF k = 0 THEN Unwritten ELSE each(k, f[k - 1])]
           g == CHOOSE f : f = body(f)
           inv == [k \in 0 .. n |->
                     {v \in Writers : \A b \in Ahead(t, bounds, k) : Prepared(v, b, parts, end)}]
           step == [x \in (1 .. n) \X Writers |-> each(x[1], x[2])]
<1>0. /\ Typed(t) /\ n \in Nat /\ End(t) = n + 1 /\ bounds \subseteq 1 .. n + 1
      /\ Layout(parts, bounds, end) /\ 0 \in 0 .. n
      /\ \A k \in 1 .. n : k \in 0 .. n /\ k - 1 \in 0 .. n /\ k # 0 /\ k \in Nat
  BY LenProperties DEF Fits, Typed, End
<1>1. Written(t, r, o, plan, bounds) = Anchored(SplicedAt(g[n], end, plan.results), plan, end)
  BY DEF Written
<1>2. ASSUME NEW v, NEW b, Prepared(v, b, parts, end)
      PROVE  v \in Writers
  BY <1>2 DEF Prepared, PreparedTo, Tidy
<1> HIDE DEF n
<1>3. ASSUME NEW k \in 1 .. n, NEW v \in inv[k - 1]
      PROVE  each(k, v) \in inv[k] /\ step[<<k, v>>] = each(k, v)
  <2>0. v \in Writers /\ \A b \in Ahead(t, bounds, k - 1) : Prepared(v, b, parts, end)
    BY <1>0, <1>3
  <2>1. /\ k \in bounds \cup {End(t)} => k \in Ahead(t, bounds, k - 1)
        /\ k \notin bounds => \A b \in Ahead(t, bounds, k) : b \in Ahead(t, bounds, k - 1)
    <3>1. \A b \in bounds \cup {End(t)} : b \in Nat
      BY <1>0
    <3>2. k # End(t)
      BY <1>0
    <3> QED BY <1>0, <3>1, <3>2 DEF Ahead, Nexts
  <2>2. CASE k \notin bounds
    <3>1. each(k, v) = v
      BY <2>2
    <3> HIDE DEF each
    <3>2. each(k, v) \in inv[k]
      BY <1>0, <2>0, <2>1, <2>2, <3>1
    <3> QED BY <2>0, <3>2
  <2>3. CASE k \in bounds /\ Nexts(bounds, k) = {}
    <3>1. each(k, v) = v
      BY <2>3
    <3>2. Prepared(v, k, parts, end)
      BY <2>0, <2>1, <2>3
    <3>3. ASSUME NEW b \in Ahead(t, bounds, k)
          PROVE  Prepared(v, b, parts, end)
      <4>1. b \in bounds \cup {End(t)} /\ k < b /\ \A j \in bounds \cup {End(t)} : k < j => b <= j
        BY DEF Ahead, Nexts
      <4>2. b = End(t)
        <5>1. b \in bounds => b \in Nexts(bounds, k)
          BY <4>1 DEF Nexts
        <5> QED BY <2>3, <4>1, <5>1
      <4>3. /\ \A j \in bounds : j <= End(t)
            /\ End(t) \in Nat /\ k <= End(t)
        BY <1>0
      <4>4. Layout(parts, bounds, end) /\ k \in bounds /\ Nexts(bounds, k) = {}
        BY <1>0, <2>3
      <4> HIDE DEF parts
      <4>5. Prepared(v, End(t), parts, end)
        BY <3>2, <4>3, <4>4, PreparedBehind
      <4> QED BY <4>2, <4>5
    <3> HIDE DEF each
    <3>4. each(k, v) \in inv[k]
      BY <1>0, <2>0, <3>1, <3>3
    <3> QED BY <2>0, <3>4
  <2>4. CASE k \in bounds /\ Nexts(bounds, k) # {}
    <3> DEFINE hi == CHOOSE j \in Nexts(bounds, k) : TRUE
               u == SplicedAt(v, k, splices)
    <3>1. hi \in Nexts(bounds, k) /\ each(k, v) = window(v, k, hi)
      BY <2>4
    <3> HIDE DEF hi
    <3>2. Prepared(v, k, parts, end)
      BY <2>0, <2>1, <2>4
    <3>3. Prepared(u, k, parts, end)
      <4>1. /\ IsFiniteSet(splices) /\ \A s \in splices : s[1] <= end
            /\ \A s \in splices, h \in parts : ~ (h[2] < s[1] /\ s[1] < h[3])
        BY DEF Fits, FitsSplices, Splices
      <4> HIDE DEF splices, parts
      <4> QED BY <1>0, <2>4, <3>2, <4>1, PreparedSpliced
    <3> HIDE DEF u
    <3>4. Prepared(WritesWhole(u, t, plan, o, k, hi), hi, parts, end)
      BY <2>4, <3>1, <3>3, PreparedWindow
    <3>5. ASSUME NEW b \in Ahead(t, bounds, k)
          PROVE  b = hi
      <4>1. b \in bounds \cup {End(t)} /\ k < b /\ \A j \in bounds \cup {End(t)} : k < j => b <= j
        BY DEF Ahead, Nexts
      <4>2. hi \in bounds /\ k < hi /\ \A j \in bounds : k < j => hi <= j
        BY <3>1 DEF Nexts
      <4>3. hi \in Nat /\ hi <= End(t) /\ b \in Nat
        BY <1>0, <4>1, <4>2
      <4>4. b <= hi
        BY <4>1, <4>2
      <4>5. hi <= b
        BY <4>1, <4>2, <4>3
      <4> QED BY <4>3, <4>4, <4>5
    <3>6. each(k, v) = WritesWhole(u, t, plan, o, k, hi)
      BY <3>1 DEF u
    <3>7. /\ each(k, v) \in Writers
          /\ \A b \in Ahead(t, bounds, k) : Prepared(each(k, v), b, parts, end)
      <4> HIDE DEF each
      <4> QED BY <1>2, <3>4, <3>5, <3>6
    <3> HIDE DEF each
    <3>8. each(k, v) \in inv[k]
      BY <1>0, <3>7
    <3> QED BY <2>0, <3>8
  <2> QED BY <2>2, <2>3, <2>4
<1>4. /\ Unwritten \in inv[0] /\ Unwritten \in Writers
      /\ \A k \in 0 .. n : inv[k] \subseteq Writers
  <2>1. ASSUME NEW b \in Ahead(t, bounds, 0)
        PROVE  Prepared(Unwritten, b, parts, end)
    <3>1. b \in Nat
      BY <1>0 DEF Ahead, Nexts
    <3> QED BY <1>0, <3>1, PreparedFirst
  <2>2. Unwritten \in Writers
    <3>1. <<>> \in Seq(Items) /\ <<>> \in Seq(Span)
      BY EmptySeq
    <3> QED BY <3>1 DEF Unwritten, Writers
  <2> QED BY <1>0, <2>1, <2>2
<1>5. g = [k \in 0 .. n |-> IF k = 0 THEN Unwritten ELSE each(k, g[k - 1])]
  <2> HIDE DEF inv, step, each
  <2>1. PICK f : Loops(f, n, Unwritten, inv, step)
    <3>1. \A k \in 1 .. n : \A v \in inv[k - 1] : step[<<k, v>>] \in inv[k]
      BY <1>3
    <3> QED BY <1>0, <1>4, <3>1, Looped
  <2>2. f = body(f)
    <3>1. ASSUME NEW k \in 0 .. n
          PROVE  f[k] = IF k = 0 THEN Unwritten ELSE each(k, f[k - 1])
      <4>1. k # 0 => k \in 1 .. n /\ k - 1 \in 0 .. n
        BY <1>0
      <4> QED BY <1>3, <2>1, <4>1 DEF Loops
    <3> QED BY <2>1, <3>1 DEF Loops
  <2> QED BY <2>2
<1> HIDE DEF inv, step, each, g
<1>6. g[0] = Unwritten /\ \A k \in 1 .. n : g[k] = each(k, g[k - 1])
  BY <1>0, <1>5
<1> DEFINE T == {k \in 0 .. n : g[k] \in inv[k]}
<1>7. \A k \in 0 .. n : k \in T
  <2>1. 0 \in T
    BY <1>0, <1>4, <1>6
  <2>2. ASSUME NEW k \in 1 .. n, k - 1 \in T
        PROVE  k \in T
    <3>1. g[k - 1] \in inv[k - 1] /\ k \in 0 .. n
      BY <1>0, <2>2
    <3> QED BY <1>3, <1>6, <3>1
  <2> HIDE DEF T
  <2> QED BY <1>0, <2>1, <2>2, StepByStep
<1>8. n \in 0 .. n /\ g[n] \in inv[n]
  BY <1>0, <1>7
<1>9. End(t) \in Ahead(t, bounds, n)
  BY <1>0 DEF Ahead, Nexts
<1>10. Prepared(g[n], End(t), parts, end)
  BY <1>8, <1>9 DEF inv
<1> QED BY <1>1, <1>10

\* The map of the rendered text is in order when the plan fits.
LEMMA WrittenTidy ==
  ASSUME NEW t, NEW end, NEW o, NEW plan, NEW bounds, Fits(t, end, o, plan, bounds),
         NEW r, r[2] = end, end = End(t) \/ end \notin plan.anchors
  PROVE  LET w == Written(t, r, o, plan, bounds)
         IN  \E p \in Nat : Tidy(w, p, w.done)
<1> DEFINE parts == PartsOf(plan, o)
<1>0. /\ bounds \subseteq 1 .. End(t) /\ Layout(parts, bounds, end) /\ End(t) \in Nat
      /\ end \in Nat /\ end <= End(t) /\ end <= end
  <2>1. bounds \subseteq 1 .. End(t) /\ Layout(parts, bounds, end) /\ End(t) \in Nat
    BY LenProperties DEF Fits, Typed, End
  <2> QED BY <2>1 DEF Layout
<1>1. PICK w : /\ Prepared(w, End(t), parts, end)
               /\ Written(t, r, o, plan, bounds) =
                    Anchored(SplicedAt(w, end, plan.results), plan, end)
  BY WindowsPrepared
<1>2. PICK p \in Nat : PreparedTo(w, End(t), parts, end, p)
  BY <1>1 DEF Prepared
<1>3. Tidy(w, p, w.done)
  BY <1>2 DEF PreparedTo
<1>4. CASE p <= end
  <2>1. IsFiniteSet(plan.results)
    <3>1. IsFiniteSet(Splices(plan)) /\ plan.results \subseteq Splices(plan)
      BY DEF Fits, FitsSplices, Splices
    <3> QED BY <3>1, FS_Subset
  <2>2. Tidy(SplicedAt(w, end, plan.results), end, w.done)
    BY <1>0, <1>3, <1>4, <2>1, SplicedTidy
  <2>3. Tidy(Anchored(SplicedAt(w, end, plan.results), plan, end), end, w.done)
    BY <1>0, <2>2, AnchoredTidy
  <2> QED BY <1>0, <1>1, <2>3 DEF Tidy
<1>5. CASE ~ (p <= end)
  <2>1. p <= End(t)
    <3>1. ASSUME NEW h \in parts, End(t) < h[3]
          PROVE  FALSE
      BY <1>0, <3>1 DEF Layout
    <3> QED BY <1>2, <3>1 DEF PreparedTo
  <2>2. end # End(t) /\ End(t) > end
    BY <1>0, <1>5, <2>1
  <2>3. ~ Clear(parts, end)
    BY <1>2, <1>5, <2>2 DEF PreparedTo
  <2>4. \A s \in plan.results : s[1] # end
    <3>1. PICK h \in parts : h[2] < end /\ end < h[3]
      BY <2>3 DEF Clear
    <3>2. \A s \in plan.results : ~ (h[2] < s[1] /\ s[1] < h[3])
      BY DEF Fits, FitsSplices, Splices
    <3> QED BY <3>1, <3>2
  <2>5. Written(t, r, o, plan, bounds) = w
    <3>1. SplicedAt(w, end, plan.results) = w
      BY <2>4, NotSpliced
    <3> QED BY <1>1, <2>2, <3>1 DEF Anchored
  <2> QED BY <1>3, <2>5
<1> QED BY <1>4, <1>5

\* A click on a backslash of the transform's is one on what it escapes.
LEMMA ClickedEscape ==
  ASSUME NEW w, w.spans \in Seq(Span), Ordered(w.spans), NEW t, NEW q \in Nat, Pinned(w, q)
  PROVE  RenderToDoc(w, t, q) = RenderToDoc(w, t, q + 1)
<1> DEFINE spans == w.spans
           n == Len(spans)
<1>0. /\ n \in Nat /\ DOMAIN spans = 1 .. n
      /\ \A k \in 1 .. n : spans[k].doc \in Nat /\ spans[k].out \in Nat /\ spans[k].len \in Nat
      /\ \A k \in 1 .. n : OutAt(spans)[k] = spans[k].out
      /\ DOMAIN OutAt(spans) = 1 .. n
  BY SpanFields DEF OutAt
<1>1. \A j, k \in 1 .. n : j < k => spans[j].out + spans[j].len <= spans[k].out
  BY <1>0, OrderedApart DEF Apart
<1>2. PICK k \in 1 .. n : /\ k + 1 \in 1 .. n
                          /\ spans[k].out = q /\ spans[k].len = 0
                          /\ spans[k + 1].out = q + 1 /\ spans[k + 1].len >= 1
                          /\ spans[k + 1].doc = spans[k].doc
  BY <1>0 DEF Pinned
<1>3. spans # <<>> /\ q + 1 \in Nat /\ k \in Nat
  BY <1>0, <1>2, EmptySeq
<1>4. LastAt(OutAt(spans), q, k)
  <2>1. ASSUME NEW j \in 1 .. n, j > k
        PROVE  ~ (spans[j].out <= q)
    <3>1. CASE j = k + 1
      BY <1>2, <3>1
    <3>2. CASE j # k + 1
      <4>1. k + 1 < j /\ k + 1 \in 1 .. n
        BY <1>2, <1>3, <2>1, <3>2
      <4>2. spans[k + 1].out + spans[k + 1].len <= spans[j].out
        BY <1>1, <4>1
      <4>3. spans[k + 1].len \in Nat /\ spans[j].out \in Nat
        BY <1>0, <1>2
      <4> QED BY <1>2, <4>2, <4>3
    <3> QED BY <3>1, <3>2
  <2>2. \A j \in 1 .. n : spans[j].out <= q => j <= k
    BY <1>3, <2>1
  <2>3. OutAt(spans)[k] <= q /\ k \in DOMAIN OutAt(spans)
    BY <1>0, <1>2
  <2>4. \A j \in DOMAIN OutAt(spans) : OutAt(spans)[j] <= q => j <= k
    BY <1>0, <2>2
  <2> QED BY <2>3, <2>4 DEF LastAt
<1>5. LastAt(OutAt(spans), q + 1, k + 1)
  <2>1. ASSUME NEW j \in 1 .. n, j > k + 1
        PROVE  ~ (spans[j].out <= q + 1)
    <3>1. spans[k + 1].out + spans[k + 1].len <= spans[j].out
      BY <1>1, <1>2, <2>1
    <3>2. spans[k + 1].len \in Nat /\ spans[j].out \in Nat
      BY <1>0, <1>2
    <3> QED BY <1>2, <3>1, <3>2
  <2>2. \A j \in 1 .. n : spans[j].out <= q + 1 => j <= k + 1
    BY <1>3, <2>1
  <2> QED BY <1>0, <1>2, <2>2 DEF LastAt
<1>6. RenderToDoc(w, t, q) = spans[k].doc + Offset(q, spans[k].out, spans[k].len)
  BY <1>3, <1>4, OutLookup
<1>7. RenderToDoc(w, t, q + 1) =
        spans[k + 1].doc + Offset(q + 1, spans[k + 1].out, spans[k + 1].len)
  BY <1>3, <1>5, OutLookup
<1>8. Offset(q, spans[k].out, spans[k].len) = 0
  BY <1>2 DEF Offset
<1>9. Offset(q + 1, spans[k + 1].out, spans[k + 1].len) = 0
  <2>1. spans[k + 1].len \in Nat
    BY <1>0, <1>2
  <2> QED BY <1>2, <2>1 DEF Offset
<1> QED BY <1>2, <1>6, <1>7, <1>8, <1>9

\* In a map in order, with its backslashes pinned, the caret stays.
LEMMA TidyStays ==
  ASSUME NEW r, r[1] \in Nat, r[2] \in Nat, NEW w, NEW p, Tidy(w, p, w.done)
  PROVE  Stays(r, w)
<1>0. /\ w \in Writers /\ w.spans \in Seq(Span) /\ Ordered(w.spans) /\ Mapped(w)
      /\ Len(w.out) \in Nat /\ DOMAIN w.out = 1 .. Len(w.out)
  BY WriterFields DEF Tidy, Mapped
<1>1. Sorted(w)
  BY <1>0 DEF Sorted, Ordered
<1>2. ASSUME NEW i \in r[1] .. r[2] - 1
      PROVE  DocToRender(w, i) <= DocToRender(w, i + 1)
  <2>1. i \in Nat
    OBVIOUS
  <2>2. CASE w.spans = <<>>
    <3>1. DocToRender(w, i) = Len(w.out) + 1 /\ DocToRender(w, i + 1) = Len(w.out) + 1
      BY <2>2 DEF DocToRender, Lookup
    <3> QED BY <1>0, <3>1
  <2> QED BY <1>0, <2>1, <2>2, DrawnInOrder
<1>3. ASSUME NEW i \in r[1] .. r[2]
      PROVE  LET b == RenderToDoc(w, text, DocToRender(w, i))
             IN  Copied(w) \cap (i .. b - 1 \cup b .. i - 1) = {}
  <2> DEFINE b == RenderToDoc(w, text, DocToRender(w, i))
  <2>0. i \in Nat
    OBVIOUS
  <2>1. \A k \in Copied(w) : b \in Nat /\ ~ (i <= k /\ k < b) /\ ~ (b <= k /\ k < i)
    BY <1>0, <2>0, BackAgain
  <2> HIDE DEF b
  <2>2. ASSUME NEW k \in Copied(w), k \in i .. b - 1 \/ k \in b .. i - 1
        PROVE  FALSE
    BY <2>0, <2>1, <2>2
  <2>3. Copied(w) \cap (i .. b - 1 \cup b .. i - 1) = {}
    BY <2>2
  <2> QED BY <2>3 DEF b
<1>4. ASSUME NEW q \in DOMAIN w.out, w.out[q] = "esc"
      PROVE  RenderToDoc(w, text, q) = RenderToDoc(w, text, q + 1)
  <2>1. q \in Nat /\ Pinned(w, q)
    BY <1>0, <1>4 DEF Tidy
  <2> QED BY <1>0, <2>1, ClickedEscape
<1> QED BY <1>1, <1>2, <1>3, <1>4 DEF Stays

-----------------------------------------------------------------------------
(* The plan of a part of a text.                                           *)

\* What a text is made of.
LEMMA PieceFacts ==
  /\ \A id \in Ids : id # " " /\ id # "w" /\ id # "$" /\ id # "nl" /\ id \notin DOMAIN Stmts
  /\ \A s \in DOMAIN Stmts : s # " " /\ s # "w" /\ s # "$" /\ s # "nl"
BY PiecesAssumption DEF Characters

\* Where a marker is.
LEMMA MarkerPlace ==
  ASSUME NEW t, Typed(t), NEW m \in MarkersOf(t)
  PROVE  /\ m.lo \in DOMAIN t /\ m.lo \in Nat /\ m.lo >= 1 /\ m.hi \in Nat /\ m.lo < m.hi
         /\ m.hi <= End(t) /\ t[m.lo] \in Ids
         /\ \A k \in m.lo + 1 .. m.hi - 1 : t[k] = "w"
<1> DEFINE at == {i \in DOMAIN t : t[i] \in Ids /\ ~ Escaped(t, i)}
           Stop(i) == {j \in i + 1 .. End(t) : /\ \A k \in i + 1 .. j - 1 : t[k] = "w"
                                               /\ j = End(t) \/ t[j] # "w"}
           end(i) == CHOOSE j \in i + 1 .. End(t) : /\ \A k \in i + 1 .. j - 1 : t[k] = "w"
                                                    /\ j = End(t) \/ t[j] # "w"
<1>1. PICK i \in at : m = [id |-> IF end(i) = i + 1 THEN t[i] ELSE "other",
                           lo |-> i, hi |-> end(i)]
  BY DEF MarkersOf
<1>2. m.lo = i /\ m.hi = end(i)
  BY <1>1
<1>3. /\ i \in DOMAIN t /\ i \in Nat /\ i >= 1 /\ t[i] \in Ids /\ i + 1 \in Nat
      /\ End(t) \in Nat /\ i + 1 <= End(t)
  BY LenProperties, TextItems DEF End, Typed
<1>4. Stop(i) # {}
  <2> DEFINE stops == {j \in i + 1 .. End(t) : j = End(t) \/ t[j] # "w"}
  <2>1. stops \in SUBSET Nat /\ stops # {}
    BY <1>3
  <2>2. PICK j \in stops : \A k \in stops : j <= k
    <3> HIDE DEF stops
    <3> QED BY <2>1, LeastExists
  <2>3. j \in i + 1 .. End(t) /\ (j = End(t) \/ t[j] # "w") /\ j \in Nat
    BY <1>3, <2>2
  <2>4. ASSUME NEW k \in i + 1 .. j - 1
        PROVE  t[k] = "w"
    <3>1. k \in i + 1 .. End(t) /\ ~ (j <= k)
      BY <1>3, <2>3
    <3>2. k \notin stops
      BY <2>2, <3>1
    <3> QED BY <3>1, <3>2
  <2> QED BY <2>3, <2>4
<1>5. end(i) \in Stop(i)
  BY <1>4
<1>6. end(i) \in i + 1 .. End(t) /\ \A k \in i + 1 .. end(i) - 1 : t[k] = "w"
  BY <1>5
<1> HIDE DEF end
<1> QED BY <1>2, <1>3, <1>6

\* Before the end of a marker there is no space.
LEMMA MarkerPieces ==
  ASSUME NEW t, Typed(t), NEW m \in MarkersOf(t), NEW i \in Nat, m.lo <= i, i < m.hi
  PROVE  t[i] # " "
<1>1. /\ m.lo \in Nat /\ m.hi \in Nat /\ t[m.lo] \in Ids
      /\ \A k \in m.lo + 1 .. m.hi - 1 : t[k] = "w"
  BY MarkerPlace
<1>2. CASE i = m.lo
  BY <1>1, <1>2, PieceFacts
<1>3. CASE i # m.lo
  <2>1. i \in m.lo + 1 .. m.hi - 1
    BY <1>1, <1>3
  <2>2. t[i] = "w"
    BY <1>1, <2>1
  <2> QED BY <2>2
<1> QED BY <1>2, <1>3

\* Where a segment is: between two markers.
LEMMA SegmentPlace ==
  ASSUME NEW t, Typed(t), NEW s \in Segments(t)
  PROVE  /\ s.at \in StmtsOf(t) /\ s.at \in Nat /\ s.at <= Len(t)
         /\ s.lo \in Nat /\ s.hi \in Nat /\ 1 < s.lo /\ s.lo <= s.hi
         /\ s.hi \in DOMAIN t /\ s.hi <= Len(t) /\ t[s.hi] \in Ids
         /\ t[s.lo - 1] # " "
<1> DEFINE markers == MarkersOf(t)
<1>0. PICK i \in StmtsOf(t) :
        \E e \in SpanOf(markers, t[i]) :
          s = [at |-> i, kind |-> Stmts[t[i]].kind, lo |-> e[1], hi |-> e[2]]
  BY DEF Segments
<1>1. PICK e \in SpanOf(markers, t[i]) :
         s = [at |-> i, kind |-> Stmts[t[i]].kind, lo |-> e[1], hi |-> e[2]]
  BY <1>0
<1>2. PICK m \in markers, n \in markers : e = <<m.hi, n.lo>> /\ m.hi <= n.lo
  <2>1. \A id : Named(markers, id) \subseteq markers
    BY DEF Named
  <2>2. PICK p \in Named(markers, Stmts[t[i]].from) \X Named(markers, Stmts[t[i]].to) :
           e = <<p[1].hi, p[2].lo>> /\ p[1].hi <= p[2].lo
    BY DEF SpanOf
  <2> HIDE DEF markers
  <2>3. p[1] \in markers /\ p[2] \in markers
    BY <2>1, <2>2
  <2> QED BY <2>2, <2>3
<1>3. s.at = i /\ s.lo = m.hi /\ s.hi = n.lo
  BY <1>1, <1>2
<1>4. i \in DOMAIN t /\ i \in Nat /\ i <= Len(t)
  BY LenProperties, TextItems DEF StmtsOf, Typed
<1>5. /\ m.lo \in Nat /\ m.lo >= 1 /\ m.hi \in Nat /\ m.lo < m.hi
      /\ n.lo \in Nat /\ n.lo \in DOMAIN t /\ t[n.lo] \in Ids /\ n.lo <= Len(t)
  BY MarkerPlace, LenProperties DEF Typed
<1>6. t[m.hi - 1] # " "
  <2>1. m.hi - 1 \in Nat /\ m.lo <= m.hi - 1 /\ m.hi - 1 < m.hi
    BY <1>5
  <2> QED BY <2>1, MarkerPieces
<1>7. 1 < m.hi
  BY <1>5
<1>8. t[s.lo - 1] # " " /\ 1 < s.lo /\ s.lo <= s.hi
  BY <1>2, <1>3, <1>6, <1>7
<1> HIDE DEF markers
<1> QED BY <1>3, <1>4, <1>5, <1>8

\* A part of a text.
InText(t, r) ==
  r[1] \in Nat /\ r[2] \in Nat /\ 1 <= r[1] /\ r[1] <= r[2] /\ r[2] <= End(t)

\* What a plan is made of.
Planned(t, r, o, plan) ==
  /\ Typed(t) /\ InText(t, r)
  /\ plan.hidden = Hidden(t, r, o) /\ plan.shown = Opened(t, r, o)
  /\ plan.math = Pairs(Dollars(t, r, Hidden(t, r, o) \cup Opened(t, r, o)))
  /\ plan.stray = Stray(Dollars(t, r, Hidden(t, r, o) \cup Opened(t, r, o)))
  /\ plan.bold = {s \in Segments(t) : s.kind = "bold"}
  /\ plan.code = Code(t, r) /\ plan.runs = SpaceRuns(t, r) /\ plan.anchors = Anchors(t, r)
  /\ plan.results = Results(t, r, o) /\ plan.labels = Labels(t, r, o)
  /\ plan.titles = Titles(t, r, o)

\* Plan makes such a plan.
LEMMA PlanFields ==
  ASSUME NEW t, Typed(t), NEW r, InText(t, r), NEW o
  PROVE  Planned(t, r, o, Plan(t, r, o))
BY DEF Plan, Decided, Planned

\* Statements are pieces of the text.
LEMMA StatementPlace ==
  ASSUME NEW t, Typed(t), NEW i \in StmtsOf(t)
  PROVE  /\ i \in DOMAIN t /\ i \in Nat /\ 1 <= i /\ i <= Len(t) /\ i + 1 <= End(t)
         /\ t[i] \in DOMAIN Stmts /\ t[i] # " "
<1>1. i \in DOMAIN t /\ t[i] \in DOMAIN Stmts
  BY DEF StmtsOf
<1>2. i \in 1 .. Len(t) /\ Len(t) \in Nat /\ End(t) = Len(t) + 1
  BY <1>1, LenProperties DEF Typed, End
<1>3. i \in Nat /\ 1 <= i /\ i <= Len(t) /\ i + 1 <= End(t)
  BY ONLY <1>2
<1>4. t[i] # " "
  BY <1>1, PieceFacts
<1> QED BY <1>1, <1>3, <1>4

\* An offset that skips a space, unless it is the last one.
LEMMA Skipped ==
  ASSUME NEW hi \in Nat, NEW end \in Nat, hi <= end, NEW e, e = hi \/ (hi < end /\ e = hi + 1)
  PROVE  e \in Nat /\ hi <= e /\ e <= end
OBVIOUS

\* Tokens are in the range, but for code.
LEMMA TokenPlace ==
  ASSUME NEW t, Typed(t), NEW r, InText(t, r), NEW o,
         NEW p \in Hidden(t, r, o) \cup Opened(t, r, o)
  PROVE  /\ p[1] \in Nat /\ p[2] \in Nat /\ 1 <= p[1] /\ 1 <= p[2]
         /\ p[1] <= End(t) /\ p[2] <= End(t) /\ p[1] <= r[2]
         /\ (p[2] <= r[2] \/ \E c \in Code(t, r) : p[2] = c.hi)
<1> DEFINE space(hi) == IF hi < r[2] /\ t[hi] = " " THEN hi + 1 ELSE hi
<1>0. /\ r[1] \in Nat /\ r[2] \in Nat /\ 1 <= r[1] /\ r[1] <= r[2] /\ r[2] <= End(t)
      /\ End(t) \in Nat
  BY LenProperties DEF InText, End, Typed
<1>1. ASSUME NEW hi \in Nat, hi <= r[2]
      PROVE  space(hi) \in Nat /\ hi <= space(hi) /\ space(hi) <= r[2]
  <2>1. space(hi) = hi \/ (hi < r[2] /\ space(hi) = hi + 1)
    OBVIOUS
  <2> HIDE DEF space
  <2> QED BY <1>0, <1>1, <2>1, Skipped
<1>2. ASSUME NEW m \in MarkersIn(t, r), p = <<m.lo, space(m.hi)>> \/ p = <<m.lo, m.hi>>
      PROVE  p[1] \in Nat /\ p[2] \in Nat /\ 1 <= p[1] /\ p[1] < p[2] /\ p[2] <= r[2]
  <2>1. m \in MarkersOf(t) /\ m.hi <= r[2]
    BY DEF MarkersIn, Inside
  <2>2. m.lo \in Nat /\ m.hi \in Nat /\ m.lo >= 1 /\ m.lo < m.hi
    BY <2>1, MarkerPlace
  <2>3. space(m.hi) \in Nat /\ m.hi <= space(m.hi) /\ space(m.hi) <= r[2]
    BY <1>1, <2>1, <2>2
  <2> HIDE DEF space
  <2> QED BY <1>2, <2>1, <2>2, <2>3
<1>3. ASSUME NEW i \in StmtsIn(t, r), p = <<i, space(i + 1)>> \/ p = <<i, i + 1>>
      PROVE  p[1] \in Nat /\ p[2] \in Nat /\ 1 <= p[1] /\ p[1] < p[2] /\ p[2] <= r[2]
  <2>1. i \in StmtsOf(t) /\ i + 1 <= r[2]
    BY DEF StmtsIn, Inside
  <2>2. i \in Nat /\ 1 <= i
    BY <2>1, StatementPlace
  <2> HIDE DEF space
  <2>3. i + 1 \in Nat
    BY <2>2
  <2>4. space(i + 1) \in Nat /\ i + 1 <= space(i + 1) /\ space(i + 1) <= r[2]
    BY <1>1, <2>1, <2>3
  <2>5. i < space(i + 1)
    BY <2>2, <2>4
  <2> QED BY <1>3, <2>1, <2>2, <2>4, <2>5
<1>4. ASSUME NEW c \in Code(t, r), p = <<c.lo, c.hi>>
      PROVE  /\ p[1] \in Nat /\ p[2] \in Nat /\ 1 <= p[1] /\ p[1] <= p[2] /\ p[2] <= End(t)
             /\ p[1] <= r[2] /\ p[2] = c.hi
  <2>1. c \in Segments(t) /\ c.lo < r[2]
    BY DEF Code
  <2>2. c.lo \in Nat /\ c.hi \in Nat /\ 1 < c.lo /\ c.lo <= c.hi /\ c.hi <= Len(t)
    BY <2>1, SegmentPlace
  <2>3. c.hi <= End(t) /\ c.lo <= r[2] /\ 1 <= c.lo
    BY <1>0, <2>1, <2>2, LenProperties DEF End, Typed
  <2> QED BY <1>4, <2>2, <2>3
<1>5. \/ \E m \in MarkersIn(t, r) : p = <<m.lo, space(m.hi)>> \/ p = <<m.lo, m.hi>>
      \/ \E i \in StmtsIn(t, r) : p = <<i, space(i + 1)>> \/ p = <<i, i + 1>>
      \/ \E c \in Code(t, r) : p = <<c.lo, c.hi>>
  <2>1. CASE p \in Hidden(t, r, o)
    BY <2>1 DEF Hidden
  <2>2. CASE p \in Opened(t, r, o)
    BY <2>2 DEF Opened
  <2> QED BY <2>1, <2>2
<1> HIDE DEF space
<1>6. ASSUME p[1] \in Nat, p[2] \in Nat, 1 <= p[1], p[1] < p[2], p[2] <= r[2]
      PROVE  /\ 1 <= p[2] /\ p[1] <= End(t) /\ p[2] <= End(t) /\ p[1] <= r[2]
  BY <1>0, <1>6
<1>7. ASSUME p[1] \in Nat, p[2] \in Nat, 1 <= p[1], p[1] <= p[2], p[2] <= End(t)
      PROVE  1 <= p[2] /\ p[1] <= End(t)
  BY <1>0, <1>7
<1> QED BY <1>2, <1>3, <1>4, <1>5, <1>6, <1>7

\* Offsets below the end of a range.
LEMMA Between ==
  ASSUME NEW a \in Nat, NEW b \in Nat
  PROVE  \A i : i \in a .. b - 1 <=> i \in Nat /\ a <= i /\ i < b
OBVIOUS

\* The offset before one.
LEMMA OneBefore ==
  ASSUME NEW x \in Nat, NEW y \in Nat, NEW i \in Nat, NEW z \in Nat, NEW a \in Nat, NEW b \in Nat,
         x < y, y <= i, i < z, a <= x, y < b
  PROVE  y - 1 \in Nat /\ x <= y - 1 /\ y - 1 < z /\ ~ (y - 1 < a) /\ ~ (y - 1 >= b)
OBVIOUS

\* The ends of a part, and of the text.
LEMMA RangeBounds ==
  ASSUME NEW t, Typed(t), NEW r, InText(t, r)
  PROVE  /\ r[1] \in Nat /\ r[2] \in Nat /\ 1 <= r[1] /\ 1 <= r[2] /\ r[1] <= r[2]
         /\ r[1] <= End(t) /\ r[2] <= End(t) /\ r[2] <= Len(t) + 1 /\ End(t) = Len(t) + 1
         /\ Len(t) \in Nat /\ End(t) \in Nat /\ DOMAIN t = 1 .. Len(t)
<1>1. /\ r[1] \in Nat /\ r[2] \in Nat /\ 1 <= r[1] /\ r[1] <= r[2] /\ r[2] <= End(t)
  BY DEF InText
<1>2. End(t) = Len(t) + 1 /\ Len(t) \in Nat /\ DOMAIN t = 1 .. Len(t) /\ End(t) \in Nat
  BY LenProperties DEF End, Typed
<1> QED BY <1>1, <1>2

\* Runs of spaces.
LEMMA RunPlace ==
  ASSUME NEW t, Typed(t), NEW r, InText(t, r), NEW s \in SpaceRuns(t, r)
  PROVE  /\ s[1] \in Nat /\ s[2] \in Nat /\ s[1] < s[2] /\ r[1] <= s[1] /\ s[2] <= r[2]
         /\ s[1] < r[2] /\ s[1] \in DOMAIN t
         /\ \A i \in s[1] .. s[2] - 1 : t[i] = " "
         /\ s[1] - 1 < r[1] \/ s[1] - 1 >= r[2] \/ t[s[1] - 1] # " "
<1>1. /\ s[1] \in r[1] .. r[2] /\ s[2] \in r[1] .. r[2] /\ s[1] + 2 <= s[2]
      /\ \A i \in s[1] .. s[2] - 1 : t[i] = " "
  BY DEF SpaceRuns
<1>2. s[1] - 1 < r[1] \/ s[1] - 1 >= r[2] \/ t[s[1] - 1] # " "
  BY DEF SpaceRuns
<1>3. /\ s[1] \in Nat /\ s[2] \in Nat /\ s[1] < s[2] /\ r[1] <= s[1] /\ s[2] <= r[2]
      /\ s[1] < r[2] /\ s[1] \in 1 .. Len(t)
  <2>1. /\ r[1] \in Nat /\ r[2] \in Nat /\ 1 <= r[1] /\ r[2] <= Len(t) + 1 /\ Len(t) \in Nat
    BY RangeBounds
  <2> DEFINE a == r[1]
             b == r[2]
             n == Len(t)
             x == s[1]
             y == s[2]
  <2>2. /\ a \in Nat /\ b \in Nat /\ n \in Nat /\ 1 <= a /\ b <= n + 1
        /\ x \in a .. b /\ y \in a .. b /\ x + 2 <= y
    BY <1>1, <2>1
  <2> HIDE DEF a, b, n, x, y
  <2>3. /\ x \in Nat /\ y \in Nat /\ x < y /\ a <= x /\ y <= b /\ x < b /\ x \in 1 .. n
    BY <2>2
  <2> QED BY <2>3 DEF a, b, n, x, y
<1> QED BY <1>1, <1>2, <1>3, RangeBounds

\* Two runs of spaces that overlap begin together.
LEMMA RunsApart ==
  ASSUME NEW t, Typed(t), NEW r, InText(t, r), NEW s \in SpaceRuns(t, r),
         NEW q \in SpaceRuns(t, r), NEW i \in Nat, i < s[2], q[1] <= i
  PROVE  ~ (s[1] < q[1])
<1> SUFFICES ASSUME s[1] < q[1]
             PROVE  FALSE
  OBVIOUS
<1>1. /\ s[1] \in Nat /\ s[2] \in Nat /\ q[1] \in Nat /\ r[1] <= s[1] /\ q[1] < r[2]
      /\ r[1] \in Nat /\ r[2] \in Nat
  BY RunPlace, RangeBounds
<1>2. /\ q[1] - 1 \in Nat /\ s[1] <= q[1] - 1 /\ q[1] - 1 < s[2]
      /\ ~ (q[1] - 1 < r[1]) /\ ~ (q[1] - 1 >= r[2])
  BY <1>1, OneBefore
<1>3. q[1] - 1 \in s[1] .. s[2] - 1
  BY <1>1, <1>2, Between
<1> QED BY <1>2, <1>3, RunPlace

\* Where a "$" of a formula is.
LEMMA DollarPlace ==
  ASSUME NEW t, Typed(t), NEW r, InText(t, r), NEW tokens, NEW i \in Dollars(t, r, tokens)
  PROVE  /\ i \in Nat /\ r[1] <= i /\ i < r[2] /\ 1 <= i /\ i \in DOMAIN t
         /\ i + 1 \in Nat /\ i + 1 <= End(t) /\ i + 1 <= r[2]
         /\ t[i] = "$" /\ ~ Within(tokens, i)
<1>1. i \in r[1] .. r[2] - 1 /\ t[i] = "$" /\ ~ Within(tokens, i)
  BY DEF Dollars
<1>2. i \in Nat /\ r[1] <= i /\ i < r[2]
  BY <1>1, RangeBounds, Between
<1>3. \A a, b, n \in Nat : 1 <= a /\ a <= i /\ i < b /\ b <= n + 1
                          => /\ 1 <= i /\ i \in 1 .. n /\ i + 1 \in Nat
                             /\ i + 1 <= b /\ i + 1 <= n + 1
  BY <1>2
<1>4. 1 <= i /\ i \in 1 .. Len(t) /\ i + 1 \in Nat /\ i + 1 <= r[2] /\ i + 1 <= Len(t) + 1
  BY <1>2, <1>3, RangeBounds
<1> QED BY <1>1, <1>2, <1>4, RangeBounds

\* A formula is from one of them behind another.
LEMMA MathPlace ==
  ASSUME NEW t, Typed(t), NEW r, InText(t, r), NEW tokens,
         NEW m \in Pairs(Dollars(t, r, tokens))
  PROVE  \E a, b \in Dollars(t, r, tokens) : a < b /\ m[1] = a /\ m[2] = b + 1
<1> DEFINE dollars == Dollars(t, r, tokens)
<1> HIDE DEF dollars
<1>1. PICK a \in Opens(dollars) : \E b \in Nexts(dollars, a) : m = <<a, b + 1>>
  BY DEF Pairs, dollars
<1>2. PICK b \in Nexts(dollars, a) : m = <<a, b + 1>>
  BY <1>1
<1>3. a \in dollars /\ b \in dollars /\ a < b
  BY DEF Opens, Nexts
<1> QED BY <1>2, <1>3 DEF dollars

\* Where something is spliced in.
LEMMA SplicePlace ==
  ASSUME NEW t, Typed(t), NEW r, InText(t, r), NEW o
  PROVE  /\ \A x \in Results(t, r, o) :
              \E s \in Segments(t) : x[1] = s.hi /\ s.hi <= r[2] /\ x = <<s.hi, s.at>>
         /\ \A x \in Labels(t, r, o) :
              \E i \in StmtsOf(t) : x[1] = i /\ i + 1 <= r[2] /\ x = <<i, i>>
         /\ \A x \in Titles(t, r, o) :
              \E c \in Code(t, r) : x[1] = c.lo /\ x = <<c.lo, c.at>>
<1>1. ASSUME NEW x \in Results(t, r, o)
      PROVE  \E s \in Segments(t) : x[1] = s.hi /\ s.hi <= r[2] /\ x = <<s.hi, s.at>>
  <2> DEFINE open == {s \in Segments(t) : Inside(s.lo, s.hi, r) /\ ~ Expanded(o, s.lo, s.hi)}
             keys == {s.lo : s \in {u \in Segments(t) : u.kind = "prob"}}
             first(k) == {s \in open : s.lo = k /\ \A u \in open : u.lo = k => s.at <= u.at}
  <2>1. x \in UNION {{<<s.hi, s.at>> : s \in first(k)} : k \in keys}
    BY DEF Results
  <2>2. PICK k \in keys : \E s \in first(k) : x = <<s.hi, s.at>>
    BY <2>1
  <2>3. PICK s \in first(k) : x = <<s.hi, s.at>>
    BY <2>2
  <2>4. s \in Segments(t) /\ s.hi <= r[2]
    BY DEF Inside
  <2> QED BY <2>3, <2>4
<1>2. ASSUME NEW x \in Labels(t, r, o)
      PROVE  \E i \in StmtsOf(t) : x[1] = i /\ i + 1 <= r[2] /\ x = <<i, i>>
  BY DEF Labels, StmtsIn, Inside
<1>3. ASSUME NEW x \in Titles(t, r, o)
      PROVE  \E c \in Code(t, r) : x[1] = c.lo /\ x = <<c.lo, c.at>>
  BY DEF Titles
<1> QED BY <1>1, <1>2, <1>3

\* What is shown raw, and where something begins that must not be in it.
RawParts(plan, o) ==
  {m \in plan.math : Revealed(o, m[1], m[2])}
  \cup {<<c.lo, c.hi>> : c \in {d \in plan.code : Expanded(o, d.lo, d.hi)}}

\* Without overtaking, neither a splice nor a raw part begins inside of a raw part.
LEMMA NotOvertaken ==
  ASSUME NEW plan, NEW o, ~ Overtakes(plan, o), NEW p \in RawParts(plan, o)
  PROVE  /\ \A s \in Splices(plan) : ~ (p[1] < s[1] /\ s[1] < p[2])
         /\ \A q \in RawParts(plan, o) : q[1] < q[2] => ~ (p[1] < q[1] /\ q[1] < p[2])
<1> DEFINE raw == RawParts(plan, o)
           inside == {s[1] : s \in Splices(plan) \cup {q \in raw : q[1] < q[2]}}
<1>1. ~ \E i \in inside, q \in raw : q[1] < i /\ i < q[2]
  BY DEF Overtakes, RawParts, Splices
<1>2. \A s \in Splices(plan) : s[1] \in inside
  OBVIOUS
<1>3. \A q \in raw : q[1] < q[2] => q[1] \in inside
  OBVIOUS
<1> HIDE DEF inside
<1> QED BY <1>1, <1>2, <1>3

\* The code of a plan: it is in a token that is hidden, or shown if it is expanded.
LEMMA PlanCode ==
  ASSUME NEW t, NEW r, NEW o, NEW plan, Planned(t, r, o, plan), NEW c \in plan.code
  PROVE  /\ c \in Segments(t) /\ c.lo \in Nat /\ c.hi \in Nat /\ 1 <= c.lo /\ c.lo <= c.hi
         /\ c.hi <= End(t) /\ c.lo < r[2] /\ c.at \in Nat /\ 1 <= c.at /\ c.at <= Len(t)
         /\ IsRange(t, c.lo, c.hi) /\ t[c.hi] \in Ids /\ t[c.lo - 1] # " "
         /\ Expanded(o, c.lo, c.hi) => <<c.lo, c.hi>> \in plan.shown
         /\ ~ Expanded(o, c.lo, c.hi) => <<c.lo, c.hi>> \in plan.hidden
<1>1. c \in Segments(t) /\ c.lo < r[2] /\ Typed(t)
  BY DEF Planned, Code
<1>2. /\ c.at \in StmtsOf(t) /\ c.lo \in Nat /\ c.hi \in Nat /\ 1 < c.lo /\ c.lo <= c.hi
      /\ c.hi <= Len(t) /\ t[c.hi] \in Ids /\ t[c.lo - 1] # " "
  BY <1>1, SegmentPlace
<1>3. c.at \in Nat /\ 1 <= c.at /\ c.at <= Len(t)
  BY <1>1, <1>2, StatementPlace
<1>4. Len(t) \in Nat /\ End(t) = Len(t) + 1
  BY <1>1, LenProperties DEF Typed, End
<1>5. 1 <= c.lo /\ c.hi <= End(t)
  <2>1. \A a, b, n \in Nat : 1 < a /\ b <= n => 1 <= a /\ b <= n + 1
    OBVIOUS
  <2> QED BY ONLY <1>2, <1>4, <2>1
<1>6. IsRange(t, c.lo, c.hi)
  BY <1>2, <1>5 DEF IsRange
<1>7. /\ Expanded(o, c.lo, c.hi) => <<c.lo, c.hi>> \in plan.shown
      /\ ~ Expanded(o, c.lo, c.hi) => <<c.lo, c.hi>> \in plan.hidden
  BY DEF Planned, Hidden, Opened
<1> QED BY <1>1, <1>2, <1>3, <1>5, <1>6, <1>7

\* The formulas of a plan: their ends are "$" that are in no token.
LEMMA PlanMath ==
  ASSUME NEW t, NEW r, NEW o, NEW plan, Planned(t, r, o, plan), NEW m \in plan.math
  PROVE  /\ m[1] \in Nat /\ m[2] \in Nat /\ 1 <= m[1] /\ m[1] < m[2] /\ m[2] <= r[2]
         /\ m[2] <= End(t) /\ m[1] < r[2] /\ IsRange(t, m[1], m[2])
         /\ t[m[1]] = "$" /\ m[2] - 1 \in Nat /\ t[m[2] - 1] = "$"
         /\ ~ Within(plan.shown, m[1])
<1> DEFINE tokens == Hidden(t, r, o) \cup Opened(t, r, o)
<1>1. /\ Typed(t) /\ InText(t, r) /\ plan.shown \subseteq tokens
      /\ m \in Pairs(Dollars(t, r, tokens))
  BY DEF Planned
<1>2. \A i : Within(plan.shown, i) => Within(tokens, i)
  BY <1>1 DEF Within
<1> HIDE DEF tokens
<1>3. PICK a \in Dollars(t, r, tokens) :
        \E b \in Dollars(t, r, tokens) : a < b /\ m[1] = a /\ m[2] = b + 1
  BY <1>1, MathPlace
<1>4. PICK b \in Dollars(t, r, tokens) : a < b /\ m[1] = a /\ m[2] = b + 1
  BY <1>3
<1>5. a \in Nat /\ 1 <= a /\ a < r[2] /\ t[a] = "$" /\ ~ Within(tokens, a)
  BY <1>1, DollarPlace
<1>6. b \in Nat /\ b + 1 \in Nat /\ b + 1 <= r[2] /\ b + 1 <= End(t) /\ t[b] = "$"
  BY <1>1, DollarPlace
<1>7. a < b + 1 /\ a <= b + 1 /\ (b + 1) - 1 = b
  BY <1>4, <1>5, <1>6
<1>8. m[2] - 1 = b
  BY <1>4, <1>7
<1>9. IsRange(t, a, b + 1)
  BY <1>5, <1>6, <1>7 DEF IsRange
<1> QED BY <1>2, <1>4, <1>5, <1>6, <1>7, <1>8, <1>9

-----------------------------------------------------------------------------
\* Where windows begin and end: in the text, and behind the part only where code
\* that begins in it ends.
LEMMA BoundsPlace ==
  ASSUME NEW t, NEW r, NEW o, NEW plan, Planned(t, r, o, plan)
  PROVE  /\ Bounds(t, r, plan) \subseteq 1 .. End(t) /\ r[2] \in Bounds(t, r, plan)
         /\ \A b \in Bounds(t, r, plan) :
              b > r[2] => \E c \in plan.code : c.lo < r[2] /\ b = c.hi
         /\ \A p \in plan.hidden \cup plan.shown \cup plan.math \cup plan.runs :
              {p[1], p[2]} \subseteq Bounds(t, r, plan)
<1> DEFINE clamp(i) == IF i < r[1] THEN r[1] ELSE IF i > r[2] THEN r[2] ELSE i
           alone == plan.stray \cup {i \in r[1] .. r[2] - 1 : t[i] = "nl"}
           bold == {s \in plan.bold : s.lo < r[2] /\ r[1] < s.hi}
           parts == plan.hidden \cup plan.shown \cup plan.math \cup plan.runs
           ends == {r[1], r[2]} \cup plan.anchors
           places == UNION {{i, i + 1} : i \in alone}
           sides == UNION {{p[1], p[2]} : p \in parts}
           clamps == UNION {{clamp(s.lo), clamp(s.hi)} : s \in bold}
           spots == {p[1] : p \in plan.results \cup plan.labels}
           Good(b) == /\ b \in Nat /\ 1 <= b /\ b <= End(t)
                      /\ b <= r[2] \/ \E c \in plan.code : c.lo < r[2] /\ b = c.hi
<1>0. /\ r[1] \in Nat /\ r[2] \in Nat /\ 1 <= r[1] /\ 1 <= r[2] /\ r[1] <= r[2]
      /\ r[1] <= End(t) /\ r[2] <= End(t) /\ End(t) \in Nat /\ Typed(t) /\ InText(t, r)
  BY RangeBounds DEF Planned
<1>1. Bounds(t, r, plan) = ends \cup places \cup sides \cup clamps \cup spots
  BY DEF Bounds
<1> USE DEF Good
<1>2. ASSUME NEW b \in Nat, 1 <= b, b <= r[2]
      PROVE  Good(b)
  BY <1>0, <1>2
<1>3. ASSUME NEW b \in ends
      PROVE  Good(b)
  <2>1. b \in r[1] .. r[2]
    BY <1>0 DEF Planned, Anchors
  <2>2. b \in Nat /\ 1 <= b /\ b <= r[2]
    BY <1>0, <2>1
  <2> QED BY <1>2, <2>2
<1>4. ASSUME NEW b \in places
      PROVE  Good(b)
  <2>1. PICK i \in alone : b \in {i, i + 1}
    OBVIOUS
  <2>2. i \in Nat /\ 1 <= i /\ i < r[2]
    <3>1. CASE i \in plan.stray
      <4>1. i \in Dollars(t, r, Hidden(t, r, o) \cup Opened(t, r, o))
        BY <3>1 DEF Planned, Stray, Opens
      <4> QED BY <1>0, <4>1, DollarPlace
    <3>2. CASE i \in r[1] .. r[2] - 1
      <4>1. i \in Nat /\ r[1] <= i /\ i < r[2]
        BY <1>0, <3>2, Between
      <4> QED BY <1>0, <4>1
    <3> QED BY <2>1, <3>1, <3>2
  <2>3. i + 1 \in Nat /\ 1 <= i + 1 /\ i + 1 <= r[2] /\ i <= r[2]
    BY <1>0, <2>2
  <2> HIDE DEF Good
  <2> QED BY <1>2, <2>1, <2>2, <2>3
<1>5. ASSUME NEW p \in parts
      PROVE  Good(p[1]) /\ Good(p[2])
  <2>1. CASE p \in plan.hidden \cup plan.shown
    <3>1. p \in Hidden(t, r, o) \cup Opened(t, r, o)
      BY <2>1 DEF Planned
    <3>2. /\ p[1] \in Nat /\ p[2] \in Nat /\ 1 <= p[1] /\ 1 <= p[2]
          /\ p[1] <= End(t) /\ p[2] <= End(t) /\ p[1] <= r[2]
          /\ (p[2] <= r[2] \/ \E c \in Code(t, r) : p[2] = c.hi)
      BY <1>0, <3>1, TokenPlace
    <3>3. p[2] <= r[2] \/ \E c \in plan.code : c.lo < r[2] /\ p[2] = c.hi
      BY <3>2 DEF Planned, Code
    <3> QED BY <3>2, <3>3
  <2>2. CASE p \in plan.math
    <3>1. /\ p[1] \in Nat /\ p[2] \in Nat /\ 1 <= p[1] /\ p[1] < p[2] /\ p[2] <= r[2]
      BY <2>2, PlanMath
    <3>2. 1 <= p[2] /\ p[1] <= r[2]
      BY <1>0, <3>1
    <3> HIDE DEF Good
    <3> QED BY <1>2, <3>1, <3>2
  <2>3. CASE p \in plan.runs
    <3>1. p[1] \in Nat /\ p[2] \in Nat /\ p[1] < p[2] /\ r[1] <= p[1] /\ p[2] <= r[2]
      <4>1. p \in SpaceRuns(t, r)
        BY <2>3 DEF Planned
      <4> QED BY <1>0, <4>1, RunPlace
    <3>2. 1 <= p[1] /\ 1 <= p[2] /\ p[1] <= r[2]
      BY <1>0, <3>1
    <3> HIDE DEF Good
    <3> QED BY <1>2, <3>1, <3>2
  <2> QED BY <2>1, <2>2, <2>3
<1>6. ASSUME NEW b \in clamps
      PROVE  Good(b)
  <2>1. PICK s \in bold : b \in {clamp(s.lo), clamp(s.hi)}
    OBVIOUS
  <2>2. s.lo \in Nat /\ s.hi \in Nat
    BY <1>0, SegmentPlace DEF Planned
  <2>3. \A i \in Nat : clamp(i) \in Nat /\ 1 <= clamp(i) /\ clamp(i) <= r[2]
    BY <1>0
  <2> HIDE DEF Good, clamp
  <2> QED BY <1>2, <2>1, <2>2, <2>3
<1>7. ASSUME NEW b \in spots
      PROVE  Good(b)
  <2>1. PICK p \in plan.results \cup plan.labels : b = p[1]
    OBVIOUS
  <2>2. CASE p \in plan.results
    <3>1. PICK s \in Segments(t) : p[1] = s.hi /\ s.hi <= r[2]
      BY <1>0, <2>2, SplicePlace DEF Planned
    <3>2. s.lo \in Nat /\ s.hi \in Nat /\ 1 < s.lo /\ s.lo <= s.hi
      BY <1>0, SegmentPlace
    <3>3. 1 <= s.hi
      BY <3>2
    <3> HIDE DEF Good
    <3> QED BY <1>2, <2>1, <3>1, <3>2, <3>3
  <2>3. CASE p \in plan.labels
    <3>1. PICK i \in StmtsOf(t) : p[1] = i /\ i + 1 <= r[2]
      BY <1>0, <2>3, SplicePlace DEF Planned
    <3>2. i \in Nat /\ 1 <= i
      BY <1>0, StatementPlace
    <3>3. i <= r[2]
      BY <1>0, <3>1, <3>2
    <3> HIDE DEF Good
    <3> QED BY <1>2, <2>1, <3>1, <3>2, <3>3
  <2> QED BY <2>1, <2>2, <2>3
<1>8. \A b \in sides : Good(b)
  <2> HIDE DEF Good, parts
  <2> QED BY <1>5
<1>9. sides \subseteq Bounds(t, r, plan) /\ r[2] \in Bounds(t, r, plan)
  BY <1>1
<1>10. \A p \in parts : {p[1], p[2]} \subseteq sides
  OBVIOUS
<1>11. \A b \in Bounds(t, r, plan) : Good(b)
  <2> HIDE DEF Good, ends, places, sides, clamps, spots
  <2> QED BY <1>1, <1>3, <1>4, <1>6, <1>7, <1>8
<1>12. ASSUME NEW b \in Bounds(t, r, plan)
       PROVE  b \in 1 .. End(t) /\ (b > r[2] => \E c \in plan.code : c.lo < r[2] /\ b = c.hi)
  BY <1>0, <1>11
<1>13. \A p \in parts : {p[1], p[2]} \subseteq Bounds(t, r, plan)
  <2> HIDE DEF sides, parts
  <2> QED BY <1>9, <1>10
<1> QED BY <1>9, <1>12, <1>13

\* Code of a plan: what of it is in no hidden token is expanded.
LEMMA CodeFits ==
  ASSUME NEW t, NEW r, NEW o, NEW plan, Planned(t, r, o, plan)
  PROVE  FitsCode(t, r[2], o, plan, Bounds(t, r, plan))
<1>1. \A c \in plan.code : IsRange(t, c.lo, c.hi) /\ c.at \in Nat
  BY PlanCode
<1>2. ASSUME NEW c \in plan.code, NEW i \in Nat, c.lo <= i, i < c.hi, ~ Within(plan.hidden, i)
      PROVE  Expanded(o, c.lo, c.hi)
  <2> SUFFICES ASSUME <<c.lo, c.hi>> \in plan.hidden
               PROVE  FALSE
    BY PlanCode
  <2> QED BY <1>2 DEF Within
<1>3. \A b \in Bounds(t, r, plan) : b > r[2] => \E c \in plan.code : c.lo < r[2] /\ b = c.hi
  BY BoundsPlace
<1> QED BY <1>1, <1>2, <1>3 DEF FitsCode

\* Offsets that are not in a run, and ends of a range that are not.
LEMMA Outside ==
  ASSUME NEW a \in Nat, NEW b \in Nat, NEW i \in Nat
  PROVE  /\ i \notin a .. b - 1 => i < a \/ i >= b
         /\ i - 1 \notin a .. b - 1 => i <= a \/ i > b
OBVIOUS

Covers(lo, hi, i) == lo <= i /\ i < hi

\* A range that neither begins nor ends in a run holds all of it or none.
LEMMA SameSide ==
  ASSUME NEW a \in Nat, NEW b \in Nat, NEW i \in Nat, a <= i, i < b,
         NEW lo \in Nat, lo <= a \/ lo >= b, NEW hi \in Nat, hi <= a \/ hi >= b
  PROVE  Covers(lo, hi, i) <=> Covers(lo, hi, a)
BY DEF Covers

\* What orders of offsets imply.
LEMMA Weaker ==
  ASSUME NEW i \in Nat, NEW j \in Nat
  PROVE  /\ i < j => i <= j
         /\ i > j => i >= j
         /\ j <= i /\ i < j + 1 => i = j
OBVIOUS

\* What is not in a run of spaces: another piece, or the offset behind one.
LEMMA NoSpace ==
  ASSUME NEW t, NEW r, NEW o, NEW plan, Planned(t, r, o, plan), NEW s \in plan.runs
  PROVE  /\ s[1] \in Nat /\ s[2] \in Nat /\ s[1] < s[2] /\ s[2] <= r[2] /\ s[1] < r[2]
         /\ s[1] \in DOMAIN t /\ \A i \in s[1] .. s[2] - 1 : t[i] = " "
         /\ \A i \in Nat : t[i] # " " => i < s[1] \/ i >= s[2]
         /\ \A i \in Nat : t[i - 1] # " " => i <= s[1] \/ i > s[2]
<1>1. Typed(t) /\ InText(t, r) /\ s \in SpaceRuns(t, r)
  BY DEF Planned
<1>2. /\ s[1] \in Nat /\ s[2] \in Nat /\ s[1] < s[2] /\ s[2] <= r[2] /\ s[1] < r[2]
      /\ s[1] \in DOMAIN t /\ \A i \in s[1] .. s[2] - 1 : t[i] = " "
  BY <1>1, RunPlace
<1>3. ASSUME NEW i \in Nat, t[i] # " "
      PROVE  i < s[1] \/ i >= s[2]
  <2>1. i \notin s[1] .. s[2] - 1
    BY <1>2, <1>3
  <2> QED BY <1>2, <2>1, Outside
<1>4. ASSUME NEW i \in Nat, t[i - 1] # " "
      PROVE  i <= s[1] \/ i > s[2]
  <2>1. i - 1 \notin s[1] .. s[2] - 1
    BY <1>2, <1>4
  <2> QED BY <1>2, <2>1, Outside
<1> QED BY <1>1, <1>2, <1>3, <1>4

\* Of a run of spaces, all is in the same code, and in the same formula.
LEMMA RunsFit ==
  ASSUME NEW t, NEW r, NEW o, NEW plan, Planned(t, r, o, plan)
  PROVE  FitsRuns(t, plan)
<1> SUFFICES ASSUME NEW s \in plan.runs
             PROVE  /\ s[1] \in DOMAIN t /\ s[2] \in Nat /\ s[1] < s[2]
                    /\ \A i \in s[1] .. s[2] - 1 :
                         /\ i \notin plan.anchors
                         /\ InCode(plan, i) <=> InCode(plan, s[1])
                         /\ Within(plan.math, i) <=> Within(plan.math, s[1])
                         /\ Within(plan.shown, i) => InCode(plan, i)
  BY DEF FitsRuns
<1>1. /\ s[1] \in Nat /\ s[2] \in Nat /\ s[1] < s[2] /\ s[2] <= r[2] /\ s[1] < r[2]
      /\ s[1] \in DOMAIN t /\ Typed(t) /\ InText(t, r) /\ r[1] \in Nat /\ r[2] \in Nat
  BY NoSpace, RangeBounds DEF Planned
<1>2. ASSUME NEW i \in s[1] .. s[2] - 1
      PROVE  /\ i \notin plan.anchors
             /\ InCode(plan, i) <=> InCode(plan, s[1])
             /\ Within(plan.math, i) <=> Within(plan.math, s[1])
             /\ Within(plan.shown, i) => InCode(plan, i)
  <2>1. i \in Nat /\ s[1] <= i /\ i < s[2] /\ t[i] = " "
    BY <1>1, Between, NoSpace
  <2>2. i \notin plan.anchors
    <3>1. i # r[2]
      <4>1. \A a, b, k \in Nat : k < a /\ a <= b => k # b
        OBVIOUS
      <4> QED BY ONLY <1>1, <2>1, <4>1
    <3>2. i = r[2] \/ t[i] = "nl" \/ i \notin plan.anchors
      BY DEF Planned, Anchors
    <3> QED BY <2>1, <3>1, <3>2
  <2>3. ASSUME NEW c \in plan.code
        PROVE  c.lo <= i /\ i < c.hi <=> c.lo <= s[1] /\ s[1] < c.hi
    <3>1. c.lo \in Nat /\ c.hi \in Nat /\ t[c.hi] \in Ids /\ t[c.lo - 1] # " "
      BY PlanCode
    <3>2. t[c.hi] # " "
      BY <3>1, PieceFacts
    <3>3. c.hi <= s[1] \/ c.hi >= s[2]
      <4>1. c.hi < s[1] \/ c.hi >= s[2]
        BY <3>1, <3>2, NoSpace
      <4> QED BY ONLY <1>1, <3>1, <4>1, Weaker
    <3>4. c.lo <= s[1] \/ c.lo >= s[2]
      <4>1. c.lo <= s[1] \/ c.lo > s[2]
        BY <3>1, NoSpace
      <4> QED BY ONLY <1>1, <3>1, <4>1, Weaker
    <3>5. Covers(c.lo, c.hi, i) <=> Covers(c.lo, c.hi, s[1])
      BY ONLY <1>1, <2>1, <3>1, <3>3, <3>4, SameSide
    <3> QED BY <3>5 DEF Covers
  <2>4. ASSUME NEW m \in plan.math
        PROVE  m[1] <= i /\ i < m[2] <=> m[1] <= s[1] /\ s[1] < m[2]
    <3>1. m[1] \in Nat /\ m[2] \in Nat /\ t[m[1]] = "$" /\ m[2] - 1 \in Nat /\ t[m[2] - 1] = "$"
      BY PlanMath
    <3>2. m[1] <= s[1] \/ m[1] >= s[2]
      <4>1. m[1] < s[1] \/ m[1] >= s[2]
        BY <3>1, NoSpace
      <4> QED BY ONLY <1>1, <3>1, <4>1, Weaker
    <3>3. m[2] <= s[1] \/ m[2] >= s[2]
      <4>1. m[2] <= s[1] \/ m[2] > s[2]
        BY <3>1, NoSpace
      <4> QED BY ONLY <1>1, <3>1, <4>1, Weaker
    <3>4. Covers(m[1], m[2], i) <=> Covers(m[1], m[2], s[1])
      <4>1. m[1] \in Nat /\ m[2] \in Nat
        BY <3>1
      <4>2. s[1] \in Nat /\ s[2] \in Nat /\ i \in Nat /\ s[1] <= i /\ i < s[2]
        BY <1>1, <2>1
      <4> DEFINE lo == m[1]
                 hi == m[2]
                 a == s[1]
                 b == s[2]
      <4>3. /\ lo \in Nat /\ hi \in Nat /\ a \in Nat /\ b \in Nat /\ a <= i /\ i < b
            /\ (lo <= a \/ lo >= b) /\ (hi <= a \/ hi >= b)
        BY <3>2, <3>3, <4>1, <4>2
      <4> HIDE DEF lo, hi, a, b
      <4>4. Covers(lo, hi, i) <=> Covers(lo, hi, a)
        BY <4>2, <4>3, SameSide
      <4> QED BY <4>4 DEF lo, hi, a
    <3> QED BY <3>4 DEF Covers
  <2>5. ASSUME NEW p \in plan.shown, p[1] <= i, i < p[2]
        PROVE  InCode(plan, i)
    <3>1. p \in Opened(t, r, o)
      BY DEF Planned
    <3>2. CASE \E m \in MarkersIn(t, r) : p = <<m.lo, m.hi>>
      <4>1. PICK m \in MarkersOf(t) : p = <<m.lo, m.hi>>
        BY <3>2 DEF MarkersIn
      <4>2. m.lo <= i /\ i < m.hi
        BY <2>5, <4>1
      <4> QED BY <1>1, <2>1, <4>2, MarkerPieces
    <3>3. CASE \E j \in StmtsIn(t, r) : p = <<j, j + 1>>
      <4>1. PICK j \in StmtsOf(t) : p = <<j, j + 1>>
        BY <3>3 DEF StmtsIn
      <4>2. j \in Nat /\ t[j] # " "
        BY <1>1, StatementPlace
      <4>3. j <= i /\ i < j + 1
        BY <2>5, <4>1
      <4>4. i = j
        BY ONLY <2>1, <4>2, <4>3, Weaker
      <4> QED BY <2>1, <4>2, <4>4
    <3>4. CASE \E c \in Code(t, r) : p = <<c.lo, c.hi>>
      <4>1. PICK c \in Code(t, r) : p = <<c.lo, c.hi>>
        BY <3>4
      <4>2. c \in plan.code /\ c.lo <= i /\ i < c.hi
        BY <2>5, <4>1 DEF Planned
      <4> QED BY <4>2 DEF InCode
    <3> QED BY <3>1, <3>2, <3>3, <3>4 DEF Opened
  <2>6. InCode(plan, i) <=> InCode(plan, s[1])
    BY <2>3 DEF InCode
  <2>7. Within(plan.math, i) <=> Within(plan.math, s[1])
    BY <2>4 DEF Within
  <2>8. Within(plan.shown, i) => InCode(plan, i)
    BY <2>5 DEF Within
  <2> QED BY <2>2, <2>6, <2>7, <2>8
<1> QED BY <1>1, <1>2

\* The parts of a plan that are written as a whole: raw ones, and runs of spaces
\* that are in none of these.
LEMMA PartPlace ==
  ASSUME NEW t, NEW r, NEW o, NEW plan, Planned(t, r, o, plan), NEW h \in PartsOf(plan, o)
  PROVE  /\ h[2] \in Nat /\ h[3] \in Nat /\ h[2] < h[3] /\ h[2] < r[2]
         /\ h[2] \in Bounds(t, r, plan) /\ h[3] \in Bounds(t, r, plan)
         /\ h[1] \in {"run", "code", "math"}
         /\ h[1] = "run" => /\ <<h[2], h[3]>> \in plan.runs
                            /\ ~ InCode(plan, h[2]) /\ ~ Within(plan.math, h[2])
         /\ h[1] = "code" => /\ <<h[2], h[3]>> \in RawParts(plan, o)
                             /\ <<h[2], h[3]>> \in plan.shown
         /\ h[1] = "math" => <<h[2], h[3]>> \in RawParts(plan, o) /\ <<h[2], h[3]>> \in plan.math
<1>0. \A p \in plan.shown \cup plan.math \cup plan.runs :
        {p[1], p[2]} \subseteq Bounds(t, r, plan)
  BY BoundsPlace
<1>1. ASSUME NEW c \in plan.code, Expanded(o, c.lo, c.hi), c.lo < c.hi, h = <<"code", c.lo, c.hi>>
      PROVE  /\ h[2] \in Nat /\ h[3] \in Nat /\ h[2] < h[3] /\ h[2] < r[2]
             /\ h[2] \in Bounds(t, r, plan) /\ h[3] \in Bounds(t, r, plan)
             /\ h[1] = "code" /\ <<h[2], h[3]>> \in RawParts(plan, o)
             /\ <<h[2], h[3]>> \in plan.shown
  <2>1. c.lo \in Nat /\ c.hi \in Nat /\ c.lo < r[2] /\ <<c.lo, c.hi>> \in plan.shown
    BY <1>1, PlanCode
  <2>2. c.lo \in Bounds(t, r, plan) /\ c.hi \in Bounds(t, r, plan)
    BY <1>0, <2>1
  <2>3. <<c.lo, c.hi>> \in RawParts(plan, o)
    BY <1>1 DEF RawParts
  <2> QED BY <1>1, <2>1, <2>2, <2>3
<1>2. ASSUME NEW m \in plan.math, Revealed(o, m[1], m[2]), h = <<"math", m[1], m[2]>>
      PROVE  /\ h[2] \in Nat /\ h[3] \in Nat /\ h[2] < h[3] /\ h[2] < r[2]
             /\ h[2] \in Bounds(t, r, plan) /\ h[3] \in Bounds(t, r, plan)
             /\ h[1] = "math" /\ <<h[2], h[3]>> \in RawParts(plan, o)
             /\ <<h[2], h[3]>> \in plan.math
  <2>1. m[1] \in Nat /\ m[2] \in Nat /\ m[1] < m[2] /\ m[1] < r[2]
    BY PlanMath
  <2>2. m[1] \in Bounds(t, r, plan) /\ m[2] \in Bounds(t, r, plan)
    BY <1>0
  <2>3. m = <<m[1], m[2]>>
    <3>1. PICK a, b : m = <<a, b>>
      BY DEF Planned, Pairs
    <3> QED BY <3>1
  <2>4. m \in RawParts(plan, o)
    BY <1>2 DEF RawParts
  <2> QED BY <1>2, <2>1, <2>2, <2>3, <2>4
<1>3. ASSUME NEW s \in plan.runs, ~ InCode(plan, s[1]), ~ Within(plan.math, s[1]),
             h = <<"run", s[1], s[2]>>
      PROVE  /\ h[2] \in Nat /\ h[3] \in Nat /\ h[2] < h[3] /\ h[2] < r[2]
             /\ h[2] \in Bounds(t, r, plan) /\ h[3] \in Bounds(t, r, plan)
             /\ h[1] = "run" /\ <<h[2], h[3]>> \in plan.runs
             /\ ~ InCode(plan, h[2]) /\ ~ Within(plan.math, h[2])
  <2>1. s[1] \in Nat /\ s[2] \in Nat /\ s[1] < s[2] /\ s[1] < r[2]
    BY NoSpace
  <2>2. s[1] \in Bounds(t, r, plan) /\ s[2] \in Bounds(t, r, plan)
    BY <1>0
  <2>3. s = <<s[1], s[2]>>
    <3>1. s \in SpaceRuns(t, r)
      BY DEF Planned
    <3>2. s \in (r[1] .. r[2]) \X (r[1] .. r[2])
      BY <3>1 DEF SpaceRuns
    <3> QED BY ONLY <3>2
  <2> QED BY <1>3, <2>1, <2>2, <2>3
<1>4. CASE h \in CodeParts(plan, o)
  <2>1. PICK c \in plan.code : /\ Expanded(o, c.lo, c.hi) /\ c.lo < c.hi
                               /\ h = <<"code", c.lo, c.hi>>
    BY <1>4 DEF CodeParts
  <2>2. h[1] = "code" /\ "code" # "math" /\ "code" # "run"
    BY <2>1
  <2> QED BY <1>1, <2>1, <2>2
<1>5. CASE h \in MathParts(plan, o)
  <2>1. PICK m \in plan.math : Revealed(o, m[1], m[2]) /\ h = <<"math", m[1], m[2]>>
    BY <1>5 DEF MathParts
  <2>2. h[1] = "math" /\ "code" # "math" /\ "math" # "run"
    BY <2>1
  <2> QED BY <1>2, <2>1, <2>2
<1>6. CASE h \in RunParts(plan)
  <2>1. PICK s \in plan.runs : /\ ~ InCode(plan, s[1]) /\ ~ Within(plan.math, s[1])
                               /\ h = <<"run", s[1], s[2]>>
    BY <1>6 DEF RunParts
  <2>2. h[1] = "run" /\ "code" # "run" /\ "math" # "run"
    BY <2>1
  <2> QED BY <1>3, <2>1, <2>2
<1> QED BY <1>4, <1>5, <1>6 DEF PartsOf

\* A run of spaces that is written as a whole has nothing in it of code or formulas.
LEMMA RunAlone ==
  ASSUME NEW t, NEW r, NEW o, NEW plan, Planned(t, r, o, plan),
         NEW h \in PartsOf(plan, o), h[1] = "run", NEW i \in Nat, Holds(h, i)
  PROVE  ~ InCode(plan, i) /\ ~ Within(plan.math, i)
<1>1. /\ <<h[2], h[3]>> \in plan.runs /\ ~ InCode(plan, h[2]) /\ ~ Within(plan.math, h[2])
      /\ h[2] \in Nat /\ h[3] \in Nat
  BY PartPlace
<1>2. i \in h[2] .. h[3] - 1
  BY <1>1, Between DEF Holds
<1>3. PICK s \in plan.runs : s = <<h[2], h[3]>>
  BY <1>1
<1>4. i \in s[1] .. s[2] - 1 /\ ~ InCode(plan, s[1]) /\ ~ Within(plan.math, s[1])
  BY <1>1, <1>2, <1>3
<1>5. FitsRuns(t, plan)
  BY RunsFit
<1> QED BY <1>3, <1>4, <1>5 DEF FitsRuns

\* Where parts overlap, none begins before the other.
LEMMA PartsApart ==
  ASSUME NEW t, NEW r, NEW o, NEW plan, Planned(t, r, o, plan), ~ Overtakes(plan, o),
         NEW h \in PartsOf(plan, o), NEW g \in PartsOf(plan, o),
         NEW i \in Nat, Holds(h, i), Holds(g, i)
  PROVE  ~ (h[2] < g[2]) /\ (h[1] = "run" <=> g[1] = "run")
<1>0. /\ h[2] \in Nat /\ h[3] \in Nat /\ h[2] < h[3]
      /\ g[2] \in Nat /\ g[3] \in Nat /\ g[2] < g[3]
      /\ h[1] \in {"run", "code", "math"} /\ g[1] \in {"run", "code", "math"}
      /\ h[2] <= i /\ i < h[3] /\ g[2] <= i /\ i < g[3]
  BY PartPlace DEF Holds
<1>1. ASSUME NEW e \in PartsOf(plan, o), Holds(e, i), e[1] # "run"
      PROVE  InCode(plan, i) \/ Within(plan.math, i)
  <2>1. CASE e[1] = "code"
    <3>0. e \in CodeParts(plan, o)
      BY <2>1 DEF PartsOf, MathParts, RunParts
    <3>1. PICK c \in plan.code : c.lo = e[2] /\ c.hi = e[3]
      BY <3>0 DEF CodeParts
    <3> QED BY <1>1, <3>1 DEF Holds, InCode
  <2>2. CASE e[1] = "math"
    <3>1. PICK m \in plan.math : m = <<e[2], e[3]>>
      BY <2>2, PartPlace
    <3>2. m[1] <= i /\ i < m[2]
      BY <1>1, <3>1 DEF Holds
    <3> QED BY <3>2 DEF Within
  <2>3. e[1] \in {"run", "code", "math"}
    BY PartPlace
  <2> QED BY <1>1, <2>1, <2>2, <2>3
<1>2. h[1] = "run" <=> g[1] = "run"
  BY <1>1, RunAlone
<1>3. CASE h[1] = "run" /\ g[1] = "run"
  <2>1. PICK s \in plan.runs : s = <<h[2], h[3]>>
    BY <1>3, PartPlace
  <2>2. PICK q \in plan.runs : q = <<g[2], g[3]>>
    BY <1>3, PartPlace
  <2>3. i < s[2] /\ q[1] <= i
    BY <1>0, <2>1, <2>2
  <2>4. ~ (s[1] < q[1])
    BY <2>3, RunsApart DEF Planned
  <2> QED BY <1>2, <2>1, <2>2, <2>4
<1>4. CASE h[1] # "run" /\ g[1] # "run"
  <2> DEFINE p == <<h[2], h[3]>>
             q == <<g[2], g[3]>>
  <2>1. p \in RawParts(plan, o) /\ q \in RawParts(plan, o)
    BY <1>0, <1>4, PartPlace
  <2>2. p[1] = h[2] /\ p[2] = h[3] /\ q[1] = g[2] /\ q[2] = g[3]
    OBVIOUS
  <2> HIDE DEF p, q
  <2>3. ~ (h[2] < g[2] /\ g[2] < h[3])
    BY <1>0, <2>1, <2>2, NotOvertaken
  <2>4. g[2] < h[3]
    BY <1>0
  <2> QED BY <1>2, <2>3, <2>4
<1> QED BY <1>2, <1>3, <1>4

\* So parts that overlap are the same.
LEMMA LayoutFits ==
  ASSUME NEW t, NEW r, NEW o, NEW plan, Planned(t, r, o, plan), ~ Overtakes(plan, o)
  PROVE  Layout(PartsOf(plan, o), Bounds(t, r, plan), r[2])
<1>1. Bounds(t, r, plan) \subseteq Nat /\ r[2] \in Bounds(t, r, plan)
  <2>1. End(t) \in Nat
    BY RangeBounds DEF Planned
  <2> QED BY <2>1, BoundsPlace
<1>2. \A h \in PartsOf(plan, o) : /\ h[2] \in Bounds(t, r, plan) /\ h[3] \in Bounds(t, r, plan)
                                  /\ h[2] < h[3] /\ h[2] < r[2]
  BY PartPlace
<1>3. ASSUME NEW h \in PartsOf(plan, o), NEW g \in PartsOf(plan, o), NEW i \in Nat,
             Holds(h, i), Holds(g, i)
      PROVE  Tag(h) = Tag(g)
  <2>1. h[2] \in Nat /\ g[2] \in Nat /\ ~ (h[2] < g[2]) /\ ~ (g[2] < h[2])
    BY <1>3, PartsApart, PartPlace
  <2>2. h[2] = g[2]
    BY <2>1
  <2>3. h[1] = "run" <=> g[1] = "run"
    BY <1>3, PartsApart
  <2>4. ASSUME NEW e \in PartsOf(plan, o), NEW f \in PartsOf(plan, o), e[1] = "code",
               f[1] = "math", e[2] = f[2]
        PROVE  FALSE
    <3>1. PICK p \in plan.shown : p = <<e[2], e[3]>>
      BY <2>4, PartPlace
    <3>2. PICK m \in plan.math : m = <<f[2], f[3]>>
      BY <2>4, PartPlace
    <3>3. e[2] \in Nat /\ e[2] < e[3]
      BY PartPlace
    <3>4. p[1] <= m[1] /\ m[1] < p[2]
      BY <2>4, <3>1, <3>2, <3>3
    <3> QED BY <3>4, PlanMath DEF Within
  <2>5. h[1] = g[1]
    <3>1. h[1] \in {"run", "code", "math"} /\ g[1] \in {"run", "code", "math"}
      BY PartPlace
    <3>2. ~ (h[1] = "code" /\ g[1] = "math") /\ ~ (g[1] = "code" /\ h[1] = "math")
      BY <2>2, <2>4
    <3> QED BY <2>3, <3>1, <3>2
  <2> QED BY <2>2, <2>5 DEF Tag
<1> QED BY <1>1, <1>2, <1>3 DEF Layout

\* What is spliced in at an offset: before what is no space, or behind it.
LEMMA SpliceOffsets ==
  ASSUME NEW t, NEW r, NEW o, NEW plan, Planned(t, r, o, plan), NEW s \in Splices(plan)
  PROVE  /\ s \in (1 .. End(t)) \X (1 .. Len(t)) /\ s[1] \in Nat /\ s[1] <= r[2]
         /\ t[s[1]] # " " \/ t[s[1] - 1] # " "
<1>1. /\ Typed(t) /\ InText(t, r) /\ r[2] \in Nat /\ r[2] <= End(t)
      /\ End(t) = Len(t) + 1 /\ Len(t) \in Nat /\ End(t) \in Nat
  BY RangeBounds DEF Planned
<1>2. ASSUME NEW i \in Nat, NEW k \in Nat, 1 <= i, i <= r[2], 1 <= k, k <= Len(t), s = <<i, k>>
      PROVE  s \in (1 .. End(t)) \X (1 .. Len(t)) /\ s[1] \in Nat /\ s[1] <= r[2]
  <2>1. i \in 1 .. End(t) /\ k \in 1 .. Len(t)
    BY <1>1, <1>2
  <2> QED BY ONLY <1>2, <2>1
<1>3. CASE s \in plan.results
  <2>1. PICK e \in Segments(t) : e.hi <= r[2] /\ s = <<e.hi, e.at>>
    BY <1>1, <1>3, SplicePlace DEF Planned
  <2>2. /\ e.at \in StmtsOf(t) /\ e.lo \in Nat /\ e.hi \in Nat /\ 1 < e.lo /\ e.lo <= e.hi
        /\ t[e.hi] \in Ids
    BY <1>1, SegmentPlace
  <2>3. e.at \in Nat /\ 1 <= e.at /\ e.at <= Len(t)
    BY <1>1, <2>2, StatementPlace
  <2>4. 1 <= e.hi
    BY <2>2
  <2>5. t[e.hi] # " " /\ s[1] = e.hi
    BY <2>1, <2>2, PieceFacts
  <2> QED BY <1>2, <2>1, <2>2, <2>3, <2>4, <2>5
<1>4. CASE s \in plan.labels
  <2>1. PICK i \in StmtsOf(t) : i + 1 <= r[2] /\ s = <<i, i>>
    BY <1>1, <1>4, SplicePlace DEF Planned
  <2>2. i \in Nat /\ 1 <= i /\ i <= Len(t) /\ t[i] # " "
    BY <1>1, StatementPlace
  <2>3. i <= r[2]
    <3>1. \A a, b \in Nat : a + 1 <= b => a <= b
      OBVIOUS
    <3> QED BY ONLY <1>1, <2>1, <2>2, <3>1
  <2>4. s[1] = i
    BY <2>1
  <2> QED BY <1>2, <2>1, <2>2, <2>3, <2>4
<1>5. CASE s \in plan.titles
  <2>1. PICK c \in plan.code : s = <<c.lo, c.at>>
    BY <1>1, <1>5, SplicePlace DEF Planned
  <2>2. /\ c.lo \in Nat /\ 1 <= c.lo /\ c.lo < r[2] /\ c.at \in Nat /\ 1 <= c.at
        /\ c.at <= Len(t) /\ t[c.lo - 1] # " "
    BY PlanCode
  <2>3. c.lo <= r[2]
    BY ONLY <1>1, <2>2, Weaker
  <2>4. s[1] = c.lo
    BY <2>1
  <2> QED BY <1>2, <2>1, <2>2, <2>3, <2>4
<1> QED BY <1>3, <1>4, <1>5 DEF Splices

\* So nothing is spliced into a part.
LEMMA SplicesFit ==
  ASSUME NEW t, NEW r, NEW o, NEW plan, Planned(t, r, o, plan), ~ Overtakes(plan, o)
  PROVE  FitsSplices(r[2], o, plan)
<1>1. IsFiniteSet(Splices(plan))
  <2>1. Len(t) \in Nat /\ End(t) \in Nat
    BY RangeBounds DEF Planned
  <2>2. IsFiniteSet(1 .. End(t)) /\ IsFiniteSet(1 .. Len(t))
    BY <2>1, FS_Interval
  <2>3. IsFiniteSet((1 .. End(t)) \X (1 .. Len(t)))
    BY <2>2, FS_Product
  <2>4. Splices(plan) \subseteq (1 .. End(t)) \X (1 .. Len(t))
    BY SpliceOffsets
  <2> QED BY <2>3, <2>4, FS_Subset
<1>2. \A s \in Splices(plan) : s[1] <= r[2]
  BY SpliceOffsets
<1>3. ASSUME NEW s \in Splices(plan), NEW h \in PartsOf(plan, o), h[2] < s[1], s[1] < h[3]
      PROVE  FALSE
  <2>1. h[1] \in {"run", "code", "math"}
    BY PartPlace
  <2>2. CASE h[1] = "run"
    <3>1. PICK q \in plan.runs : q = <<h[2], h[3]>>
      BY <2>2, PartPlace
    <3>2. s[1] \in Nat /\ (t[s[1]] # " " \/ t[s[1] - 1] # " ")
      BY SpliceOffsets
    <3>3. q[1] \in Nat /\ q[2] \in Nat
      BY NoSpace
    <3>4. s[1] < q[1] \/ s[1] >= q[2] \/ s[1] <= q[1] \/ s[1] > q[2]
      BY <3>2, NoSpace
    <3>5. q[1] < s[1] /\ s[1] < q[2]
      BY <1>3, <3>1
    <3>6. \A a, b, i \in Nat : a < i /\ i < b => ~ (i < a \/ i >= b \/ i <= a \/ i > b)
      OBVIOUS
    <3> QED BY ONLY <3>2, <3>3, <3>4, <3>5, <3>6
  <2>3. CASE h[1] # "run"
    <3> DEFINE p == <<h[2], h[3]>>
    <3>1. p \in RawParts(plan, o)
      BY <2>1, <2>3, PartPlace
    <3>2. p[1] = h[2] /\ p[2] = h[3]
      OBVIOUS
    <3> HIDE DEF p
    <3> QED BY <1>3, <3>1, <3>2, NotOvertaken
  <2> QED BY <2>2, <2>3
<1> QED BY <1>1, <1>2, <1>3 DEF FitsSplices

\* What is written for a plan is what the writing of its windows needs, unless what
\* is spliced in, or raw, overtakes.
LEMMA PlanFits ==
  ASSUME NEW t, NEW r, NEW o, NEW plan, Planned(t, r, o, plan), ~ Overtakes(plan, o)
  PROVE  Fits(t, r[2], o, plan, Bounds(t, r, plan))
<1>1. plan.stray \subseteq DOMAIN t
  <2> DEFINE dollars == Dollars(t, r, Hidden(t, r, o) \cup Opened(t, r, o))
  <2>1. plan.stray \subseteq dollars
    BY DEF Planned, Stray, Opens
  <2>2. \A i \in dollars : i \in DOMAIN t
    BY DollarPlace DEF Planned
  <2> QED BY <2>1, <2>2
<1>2. \A m \in plan.math : IsRange(t, m[1], m[2])
  BY PlanMath
<1>3. Typed(t) /\ Bounds(t, r, plan) \subseteq 1 .. End(t)
  BY BoundsPlace DEF Planned
<1> QED BY <1>1, <1>2, <1>3, LayoutFits, CodeFits, RunsFit, SplicesFit DEF Fits

\* A part that ends the text, or not at a blank line, is drawn tidily.
LEMMA RenderTidy ==
  ASSUME NEW t, Typed(t), NEW r, InText(t, r), r[2] = End(t) \/ r[2] \notin Anchors(t, r),
         NEW o, ~ Overtakes(Plan(t, r, o), o)
  PROVE  LET w == Render(t, r, o)
         IN  \E p \in Nat : Tidy(w, p, w.done)
<1> DEFINE plan == Plan(t, r, o)
<1>1. Planned(t, r, o, plan) /\ plan.anchors = Anchors(t, r)
  BY PlanFields DEF Planned
<1>2. ~ Overtakes(plan, o)
  OBVIOUS
<1> HIDE DEF plan
<1>3. Fits(t, r[2], o, plan, Bounds(t, r, plan))
  BY <1>1, <1>2, PlanFits
<1>4. Render(t, r, o) = Written(t, r, o, plan, Bounds(t, r, plan))
  BY DEF Render, plan
<1>5. r[2] = End(t) \/ r[2] \notin plan.anchors
  BY <1>1
<1> QED BY <1>3, <1>4, <1>5, WrittenTidy

\* A block is a part of the text that neither begins nor ends with a blank.
LEMMA BlockPlace ==
  ASSUME NEW t, Typed(t), NEW r \in Blocks(t)
  PROVE  InText(t, r) /\ r[2] \notin Anchors(t, r)
<1> DEFINE solid == {i \in DOMAIN t : t[i] \notin White}
           joined(i, j) == \A b \in Breaks(t) : ~ (i < b /\ b < j)
           first == {i \in solid : \A j \in solid : j < i => ~ joined(j, i)}
           Lasts(i) == {j \in solid : i <= j /\ joined(i, j)
                                      /\ \A k \in solid : k > j => ~ joined(i, k)}
           last(i) == CHOOSE j \in solid : i <= j /\ joined(i, j)
                                           /\ \A k \in solid : k > j => ~ joined(i, k)
<1>0. DOMAIN t = 1 .. Len(t) /\ Len(t) \in Nat /\ End(t) = Len(t) + 1
  BY LenProperties DEF Typed, End
<1>1. PICK i \in first : r = <<i, last(i) + 1>>
  BY DEF Blocks
<1>2. i \in solid /\ i \in Nat /\ 1 <= i /\ i <= Len(t)
  BY <1>0, <1>1
<1>3. \A b \in Breaks(t) : b \in Nat
  BY <1>0 DEF Breaks
<1>4. joined(i, i)
  BY <1>2, <1>3
<1>5. Lasts(i) # {}
  <2> DEFINE S == {j \in solid : i <= j /\ joined(i, j)}
  <2>1. S \in SUBSET Nat /\ (\A k \in S : k <= Len(t)) /\ i \in S
    BY <1>0, <1>2, <1>4
  <2>2. PICK j \in S : \A k \in S : k <= j
    <3> HIDE DEF S
    <3>1. S # {}
      BY <2>1
    <3> QED BY <1>0, <2>1, <3>1, GreatestExists
  <2>3. j \in Nat /\ i <= j
    BY <2>1, <2>2
  <2>4. ASSUME NEW k \in solid, k > j
        PROVE  ~ joined(i, k)
    <3>1. k \in Nat
      BY <1>0
    <3>2. ~ (k <= j) /\ i <= k
      BY <1>2, <2>3, <2>4, <3>1
    <3>3. k \notin S
      BY <2>2, <3>2
    <3> QED BY <3>2, <3>3
  <2> QED BY <2>2, <2>4
<1>6. last(i) \in Lasts(i)
  BY <1>5
<1>7. last(i) \in solid /\ i <= last(i)
  BY <1>6
<1> HIDE DEF last
<1>8. last(i) \in 1 .. Len(t) /\ t[last(i)] \notin White
  BY <1>0, <1>7
<1>9. PICK j \in 1 .. Len(t) : last(i) = j
  BY <1>8
<1>10. r[1] = i /\ r[2] = j + 1
  BY <1>1, <1>9
<1>11. InText(t, r)
  <2>1. i <= j
    BY <1>7, <1>9
  <2>2. j + 1 \in Nat /\ i <= j + 1 /\ j + 1 <= Len(t) + 1
    BY <1>0, <1>2, <2>1
  <2> QED BY <1>0, <1>2, <1>10, <2>2 DEF InText
<1>12. r[2] \notin Anchors(t, r)
  <2>1. i # j + 1
    <3>1. i <= j
      BY <1>7, <1>9
    <3> QED BY <1>2, <3>1
  <2>2. (j + 1) - 1 = j
    OBVIOUS
  <2>3. t[r[2] - 1] # "nl" /\ r[2] # r[1]
    BY <1>8, <1>9, <1>10, <2>1, <2>2 DEF White
  <2> QED BY <2>3 DEF Anchors
<1> QED BY <1>11, <1>12

-----------------------------------------------------------------------------
(* How what is written is read.                                            *)

\* Before anything is read, and what can have been.
ReadStart == [code |-> FALSE, esc |-> "", math |-> FALSE, marker |-> FALSE,
              mark |-> FALSE, taken |-> FALSE, angle |-> FALSE, label |-> FALSE]

States == [code : BOOLEAN, esc : {"", "esc", "bs"}, math : BOOLEAN, marker : BOOLEAN,
           mark : BOOLEAN, taken : BOOLEAN, angle : BOOLEAN, label : BOOLEAN]

\* Reading keeps the shape of a state.
LEMMA ReadItemShape ==
  ASSUME NEW s \in States, NEW item
  PROVE  ReadItem(s, item) \in States
<1>1. WithDollar(item) \in BOOLEAN
  BY DEF WithDollar
<1>2. /\ s.code \in BOOLEAN /\ s.esc \in {"", "esc", "bs"} /\ s.math \in BOOLEAN
      /\ s.marker \in BOOLEAN /\ s.mark \in BOOLEAN /\ s.taken \in BOOLEAN
      /\ s.angle \in BOOLEAN /\ s.label \in BOOLEAN
  BY DEF States
<1>3. CASE s.code
  BY <1>2, <1>3 DEF ReadItem, States
<1>4. CASE ~ s.code /\ s.esc # ""
  <2> DEFINE taken == s.taken \/ (s.esc = "bs" /\ item \in Additions)
             math == IF WithDollar(item) THEN ~ s.math ELSE s.math
  <2>1. taken \in BOOLEAN /\ math \in BOOLEAN
    BY <1>1, <1>2
  <2>2. ReadItem(s, item) = [s EXCEPT !.esc = "", !.taken = taken, !.math = math,
                                      !.angle = FALSE]
    BY <1>4 DEF ReadItem
  <2> HIDE DEF taken, math
  <2> QED BY <1>2, <2>1, <2>2 DEF States
<1>5. CASE ~ s.code /\ s.esc = ""
  <2> DEFINE code == item = "fence"
             esc == IF item \in {"esc", "bs"} THEN item ELSE ""
             math == IF item = "$" THEN ~ s.math ELSE s.math
             marker == s.marker \/ item \in Ids
             mark == s.mark \/ (item = "_" /\ ~ s.math)
             angle == item = "<" /\ ~ s.math
             label == s.label \/ (s.angle /\ item \in {"w", "_"})
  <2>1. /\ code \in BOOLEAN /\ esc \in {"", "esc", "bs"} /\ math \in BOOLEAN
        /\ marker \in BOOLEAN /\ mark \in BOOLEAN /\ angle \in BOOLEAN /\ label \in BOOLEAN
    BY <1>2
  <2>2. ReadItem(s, item) = [s EXCEPT !.code = code, !.esc = esc, !.math = math,
                                      !.marker = marker, !.mark = mark, !.angle = angle,
                                      !.label = label]
    BY <1>5 DEF ReadItem
  <2> HIDE DEF code, esc, math, marker, mark, angle, label
  <2> QED BY <1>2, <2>1, <2>2 DEF States
<1> QED BY <1>2, <1>3, <1>4, <1>5

\* A text of the transform's, item after item.
ReadTo(f, out) ==
  /\ f = [n \in 0 .. Len(out) |-> f[n]] /\ f[0] = ReadStart
  /\ \A n \in 1 .. Len(out) : f[n] = ReadItem(f[n - 1], out[n])
  /\ \A n \in 0 .. Len(out) : f[n] \in States

\* There is such a reading, and Read is its end.
LEMMA ReadsOut ==
  ASSUME NEW out, Len(out) \in Nat
  PROVE  \E f : ReadTo(f, out) /\ Read(out) = f[Len(out)]
<1> DEFINE n == Len(out)
           body(f) == [k \in 0 .. n |-> IF k = 0 THEN ReadStart ELSE ReadItem(f[k - 1], out[k])]
           g == CHOOSE f : f = body(f)
           inv == [k \in 0 .. n |-> States]
           step == [x \in (1 .. n) \X States |-> ReadItem(x[2], out[x[1]])]
<1>1. Read(out) = g[n]
  BY DEF Read, ReadStart
<1>2. ReadStart \in States
  BY DEF ReadStart, States
<1>3. \A k \in 1 .. n, s \in States : step[<<k, s>>] = ReadItem(s, out[k])
  OBVIOUS
<1>4. \A k \in 0 .. n : inv[k] = States
  OBVIOUS
<1>5. n \in Nat /\ 0 \in 0 .. n /\ \A k \in 1 .. n : k \in 0 .. n /\ k - 1 \in 0 .. n /\ k # 0
  OBVIOUS
<1> HIDE DEF n, step, inv
<1>6. PICK f : Loops(f, n, ReadStart, inv, step)
  <2>1. \A k \in 1 .. n : \A s \in inv[k - 1] : step[<<k, s>>] \in inv[k]
    <3> SUFFICES ASSUME NEW k \in 1 .. n, NEW s \in inv[k - 1]
                 PROVE  step[<<k, s>>] \in inv[k]
      OBVIOUS
    <3>1. s \in States /\ inv[k] = States
      BY <1>4, <1>5
    <3> QED BY <1>3, <3>1, ReadItemShape
  <2>2. ReadStart \in inv[0] /\ \A k \in 0 .. n : inv[k] \subseteq States
    BY <1>2, <1>4, <1>5
  <2> QED BY <1>2, <1>5, <2>1, <2>2, Looped
<1>7. f = body(f)
  <2>1. ASSUME NEW k \in 0 .. n
        PROVE  f[k] = IF k = 0 THEN ReadStart ELSE ReadItem(f[k - 1], out[k])
    <3>1. k # 0 => k \in 1 .. n /\ k - 1 \in 0 .. n
      BY <1>5
    <3>2. k # 0 => f[k - 1] \in States
      BY <1>4, <1>6, <3>1 DEF Loops
    <3> QED BY <1>3, <1>6, <3>1, <3>2 DEF Loops
  <2> QED BY <1>6, <2>1 DEF Loops
<1>8. g = body(g)
  BY <1>7
<1> HIDE DEF g
<1>9. /\ g = [k \in 0 .. n |-> g[k]] /\ g[0] = ReadStart
      /\ \A k \in 1 .. n : g[k] = ReadItem(g[k - 1], out[k])
  BY <1>5, <1>8
<1> DEFINE T == {k \in 0 .. n : g[k] \in States}
<1>10. \A k \in 0 .. n : k \in T
  <2>1. 0 \in T
    BY <1>2, <1>5, <1>9
  <2>2. ASSUME NEW k \in 1 .. n, k - 1 \in T
        PROVE  k \in T
    BY <1>5, <1>9, <2>2, ReadItemShape
  <2> HIDE DEF T
  <2> QED BY <1>5, <2>1, <2>2, StepByStep
<1> QED BY <1>1, <1>9, <1>10 DEF ReadTo, n

\* A reading is a state, and the empty text is read as the first one.
LEMMA ReadShape ==
  /\ \A out : Len(out) \in Nat => Read(out) \in States
  /\ Read(<<>>) = ReadStart
<1>1. ASSUME NEW out, Len(out) \in Nat
      PROVE  Read(out) \in States
  <2>1. PICK f : ReadTo(f, out) /\ Read(out) = f[Len(out)]
    BY <1>1, ReadsOut
  <2>2. Len(out) \in 0 .. Len(out)
    BY <1>1
  <2> QED BY <2>1, <2>2 DEF ReadTo
<1>2. Len(<<>>) = 0
  OBVIOUS
<1>3. Read(<<>>) = ReadStart
  <2>1. PICK f : ReadTo(f, <<>>) /\ Read(<<>>) = f[Len(<<>>)]
    BY <1>2, ReadsOut
  <2> QED BY <1>2, <2>1 DEF ReadTo
<1> QED BY <1>1, <1>3

\* One item more is read after the rest.
LEMMA ReadMore ==
  ASSUME NEW S, NEW out \in Seq(S), NEW item \in S
  PROVE  Read(Append(out, item)) = ReadItem(Read(out), item) /\ Read(out) \in States
<1> DEFINE n == Len(out)
           more == Append(out, item)
<1>1. /\ n \in Nat /\ Len(more) = n + 1 /\ more[n + 1] = item
      /\ \A k \in 1 .. n : more[k] = out[k]
  BY LenProperties, AppendProperties
<1> HIDE DEF more
<1>2. PICK f : ReadTo(f, out) /\ Read(out) = f[n]
  BY <1>1, ReadsOut
<1>3. PICK g : ReadTo(g, more) /\ Read(more) = g[n + 1]
  <2>1. Len(more) \in Nat
    BY <1>1
  <2> QED BY <1>1, <2>1, ReadsOut
<1> HIDE DEF n
<1> DEFINE T == {k \in 0 .. n : g[k] = f[k]}
<1>4. \A k \in 0 .. n : k \in T
  <2>1. 0 \in T
    BY <1>1, <1>2, <1>3 DEF ReadTo
  <2>2. ASSUME NEW k \in 1 .. n, k - 1 \in T
        PROVE  k \in T
    <3>1. k \in 0 .. n /\ k \in 1 .. n + 1 /\ g[k - 1] = f[k - 1] /\ more[k] = out[k]
      BY <1>1, <2>2
    <3>2. g[k] = ReadItem(g[k - 1], more[k])
      BY <1>1, <1>3, <3>1 DEF ReadTo
    <3>3. f[k] = ReadItem(f[k - 1], out[k])
      BY <1>2 DEF ReadTo, n
    <3> QED BY <3>1, <3>2, <3>3
  <2> HIDE DEF T
  <2> QED BY <1>1, <2>1, <2>2, StepByStep
<1>5. n \in 0 .. n /\ n + 1 \in 1 .. n + 1 /\ (n + 1) - 1 = n
  BY <1>1
<1>6. g[n + 1] = ReadItem(g[n], more[n + 1]) /\ g[n] = f[n]
  BY <1>1, <1>3, <1>4, <1>5 DEF ReadTo
<1>7. f[n] \in States
  BY <1>2, <1>5 DEF ReadTo, n
<1> QED BY <1>1, <1>2, <1>3, <1>6, <1>7 DEF more, n

-----------------------------------------------------------------------------
\* A piece is escaped by a backslash before it that is not.
EscTo(f, t, i) ==
  /\ f = [k \in 1 .. i |-> f[k]]
  /\ \A k \in 1 .. i : f[k] = (k > 1 /\ t[k - 1] = "bs" /\ ~ f[k - 1])

\* Escaped is such a function's value at the offset.
LEMMA EscapedBy ==
  ASSUME NEW t, NEW i \in Nat, 1 <= i
  PROVE  \E f : EscTo(f, t, i) /\ Escaped(t, i) = f[i]
<1> DEFINE body(f) == [k \in 1 .. i |-> k > 1 /\ t[k - 1] = "bs" /\ ~ f[k - 1]]
           g == CHOOSE f : f = body(f)
           inv == [k \in 0 .. i |-> BOOLEAN]
           step == [x \in (1 .. i) \X BOOLEAN |-> x[1] > 1 /\ t[x[1] - 1] = "bs" /\ ~ x[2]]
<1>1. Escaped(t, i) = g[i]
  BY DEF Escaped
<1>2. \A k \in 1 .. i, b \in BOOLEAN :
        /\ step[<<k, b>>] = (k > 1 /\ t[k - 1] = "bs" /\ ~ b)
        /\ step[<<k, b>>] \in BOOLEAN
  OBVIOUS
<1>3. \A k \in 0 .. i : inv[k] = BOOLEAN
  OBVIOUS
<1>4. \A k \in 1 .. i : k \in 0 .. i /\ k - 1 \in 0 .. i /\ (k > 1 => k - 1 \in 1 .. i)
  OBVIOUS
<1> HIDE DEF step, inv
<1>5. PICK f : Loops(f, i, FALSE, inv, step)
  <2>1. ASSUME NEW k \in 1 .. i, NEW b \in inv[k - 1]
        PROVE  step[<<k, b>>] \in inv[k]
    <3>1. b \in BOOLEAN /\ inv[k] = BOOLEAN
      BY <1>3, <1>4
    <3> QED BY <1>2, <3>1
  <2>2. 0 \in 0 .. i
    OBVIOUS
  <2>3. FALSE \in inv[0] /\ \A k \in 0 .. i : inv[k] \subseteq BOOLEAN
    BY <1>3, <2>2
  <2>4. FALSE \in BOOLEAN
    OBVIOUS
  <2> QED BY <2>1, <2>3, <2>4, Looped
<1> DEFINE h == [k \in 1 .. i |-> f[k]]
<1>6. h = body(h)
  <2>1. ASSUME NEW k \in 1 .. i
        PROVE  f[k] = (k > 1 /\ t[k - 1] = "bs" /\ ~ h[k - 1])
    <3>1. f[k - 1] \in BOOLEAN
      BY <1>3, <1>4, <1>5 DEF Loops
    <3>2. f[k] = (k > 1 /\ t[k - 1] = "bs" /\ ~ f[k - 1])
      BY <1>2, <1>5, <3>1 DEF Loops
    <3>3. k > 1 => h[k - 1] = f[k - 1]
      BY <1>4
    <3> HIDE DEF h
    <3> QED BY <3>2, <3>3
  <2> QED BY <2>1
<1>7. g = body(g)
  <2> HIDE DEF h
  <2> QED BY <1>6
<1> HIDE DEF g
<1>8. EscTo(g, t, i)
  BY <1>7 DEF EscTo
<1> QED BY <1>1, <1>8

\* The first piece is not escaped, and any other is by the one before it.
LEMMA EscapedNext ==
  ASSUME NEW t
  PROVE  /\ ~ Escaped(t, 1)
         /\ \A i \in Nat : 1 <= i => (Escaped(t, i + 1) <=> t[i] = "bs" /\ ~ Escaped(t, i))
<1>1. ~ Escaped(t, 1)
  <2>1. PICK f : EscTo(f, t, 1) /\ Escaped(t, 1) = f[1]
    BY EscapedBy
  <2>2. 1 \in 1 .. 1 /\ ~ (1 > 1)
    OBVIOUS
  <2> QED BY <2>1, <2>2 DEF EscTo
<1>2. ASSUME NEW i \in Nat, 1 <= i
      PROVE  Escaped(t, i + 1) <=> t[i] = "bs" /\ ~ Escaped(t, i)
  <2>1. PICK f : EscTo(f, t, i) /\ Escaped(t, i) = f[i]
    BY <1>2, EscapedBy
  <2>2. PICK g : EscTo(g, t, i + 1) /\ Escaped(t, i + 1) = g[i + 1]
    <3>1. i + 1 \in Nat /\ 1 <= i + 1
      BY <1>2
    <3> QED BY <3>1, EscapedBy
  <2> DEFINE T == {k \in 0 .. i : k > 0 => g[k] = f[k]}
  <2>3. \A k \in 0 .. i : k \in T
    <3>1. 0 \in T
      OBVIOUS
    <3>2. ASSUME NEW k \in 1 .. i, k - 1 \in T
          PROVE  k \in T
      <4>1. k \in 1 .. i + 1 /\ k \in 0 .. i /\ (k > 1 => k - 1 > 0)
        OBVIOUS
      <4>2. k > 1 => g[k - 1] = f[k - 1]
        BY <3>2, <4>1
      <4>3. g[k] = (k > 1 /\ t[k - 1] = "bs" /\ ~ g[k - 1])
        BY <2>2, <4>1 DEF EscTo
      <4>4. f[k] = (k > 1 /\ t[k - 1] = "bs" /\ ~ f[k - 1])
        BY <2>1 DEF EscTo
      <4> QED BY <4>1, <4>2, <4>3, <4>4
    <3> HIDE DEF T
    <3> QED BY <3>1, <3>2, StepByStep
  <2>4. g[i] = f[i]
    <3>1. i \in 0 .. i /\ i > 0
      BY <1>2
    <3> QED BY <2>3, <3>1
  <2>5. i + 1 \in 1 .. i + 1 /\ i + 1 > 1 /\ (i + 1) - 1 = i
    BY <1>2
  <2>6. g[i + 1] = (i + 1 > 1 /\ t[(i + 1) - 1] = "bs" /\ ~ g[(i + 1) - 1])
    BY <2>2, <2>5 DEF EscTo
  <2>7. g[i + 1] = (t[i] = "bs" /\ ~ f[i])
    BY <2>4, <2>5, <2>6
  <2> QED BY <2>1, <2>2, <2>7
<1> QED BY <1>1, <1>2

\* A statement with a "$" has been written.
Dollared(out) == \E item \in Range(out) : WithDollar(item)

\* A writer that wrote one item more.
Adds(v, w, item) ==
  /\ v \in Writers /\ v.done = w.done
  /\ Read(w.out) \in States /\ Read(v.out) = ReadItem(Read(w.out), item)
  /\ Dollared(w.out) \/ WithDollar(item) => Dollared(v.out)

\* What is written behind the rest is read behind it.
LEMMA AddsItem ==
  ASSUME NEW w \in Writers, NEW item \in Items, NEW v \in Writers,
         v.out = Append(w.out, item), v.done = w.done
  PROVE  Adds(v, w, item)
<1>1. w.out \in Seq(Items) /\ Len(w.out) \in Nat /\ DOMAIN w.out = 1 .. Len(w.out)
  BY WriterFields
<1>2. Read(w.out) \in States /\ Read(v.out) = ReadItem(Read(w.out), item)
  BY <1>1, ReadMore
<1>3. /\ Len(v.out) = Len(w.out) + 1 /\ v.out[Len(w.out) + 1] = item
      /\ \A k \in 1 .. Len(w.out) : v.out[k] = w.out[k]
  BY <1>1, AppendProperties
<1>4. DOMAIN v.out = 1 .. Len(w.out) + 1
  BY <1>3, WriterFields
<1>5. \A k \in 1 .. Len(w.out) : k \in 1 .. Len(w.out) + 1
  BY <1>1
<1>6. Len(w.out) + 1 \in 1 .. Len(w.out) + 1
  BY <1>1
<1>7. Dollared(w.out) \/ WithDollar(item) => Dollared(v.out)
  <2>1. ASSUME Dollared(w.out)
        PROVE  Dollared(v.out)
    <3>1. PICK k \in DOMAIN w.out : WithDollar(w.out[k])
      BY <2>1 DEF Dollared, Range
    <3>2. k \in DOMAIN v.out /\ v.out[k] = w.out[k]
      BY <1>1, <1>3, <1>4, <1>5, <3>1
    <3> QED BY <3>1, <3>2 DEF Dollared, Range
  <2>2. ASSUME WithDollar(item)
        PROVE  Dollared(v.out)
    BY <1>3, <1>4, <1>6, <2>2 DEF Dollared, Range
  <2> QED BY <2>1, <2>2
<1> QED BY <1>2, <1>7 DEF Adds

\* What the transform puts between what it copies.
LEMMA PutAdds ==
  ASSUME NEW w \in Writers, NEW item \in Items
  PROVE  Adds(Put(w, item), w, item) /\ Put(w, item).spans = w.spans
<1>1. Put(w, item) \in Writers /\ Put(w, item).out = Append(w.out, item)
      /\ Put(w, item).spans = w.spans /\ Put(w, item).done = w.done
  BY WriterFields, AppendProperties DEF Writers, Put
<1> QED BY <1>1, AddsItem

\* A pin writes nothing.
LEMMA PinWrites ==
  ASSUME NEW w \in Writers, NEW i \in Nat
  PROVE  Pin(w, i) \in Writers /\ Pin(w, i).out = w.out /\ Pin(w, i).done = w.done
<1>1. [doc |-> i, out |-> Len(w.out) + 1, len |-> 0] \in Span
  BY WriterFields DEF Span
<1> QED BY <1>1, WriterFields, AppendProperties DEF Pin, Writers

\* A pin with what is put there.
LEMMA PinnedAdds ==
  ASSUME NEW w \in Writers, NEW i \in Nat, NEW item \in Items
  PROVE  Adds(Put(Pin(w, i), item), w, item)
<1>1. Pin(w, i) \in Writers /\ Pin(w, i).out = w.out /\ Pin(w, i).done = w.done
  BY PinWrites
<1>2. Adds(Put(Pin(w, i), item), Pin(w, i), item)
  BY <1>1, PutAdds
<1> QED BY <1>1, <1>2 DEF Adds

\* A copy writes the piece.
LEMMA CopyWrites ==
  ASSUME NEW t, Typed(t), NEW i \in DOMAIN t, NEW w \in Writers
  PROVE  Adds(Copy(w, t, i), w, t[i])
<1> DEFINE n == Len(w.spans)
           joins == n > 0 /\ w.spans[n].doc + w.spans[n].len = i
                          /\ w.spans[n].out + w.spans[n].len = Len(w.out) + 1
           longer == [w.spans EXCEPT ![n].len = @ + 1]
           more == Append(w.spans, [doc |-> i, out |-> Len(w.out) + 1, len |-> 1])
           next == IF joins THEN longer ELSE more
           u == [w EXCEPT !.spans = next]
<1>1. Copy(w, t, i) = Put(u, t[i])
  BY DEF Copy
<1>2. /\ w.spans \in Seq(Span) /\ n \in Nat /\ Len(w.out) \in Nat /\ i \in Nat
      /\ t[i] \in Items
  BY WriterFields, TextItems
<1>3. more \in Seq(Span)
  <2>1. [doc |-> i, out |-> Len(w.out) + 1, len |-> 1] \in Span
    BY <1>2 DEF Span
  <2> QED BY <1>2, <2>1, AppendProperties
<1>4. joins => longer \in Seq(Span)
  BY <1>2, SpanLonger
<1>5. next \in Seq(Span)
  BY <1>3, <1>4
<1> HIDE DEF next
<1>6. u \in Writers /\ u.out = w.out /\ u.done = w.done
  BY <1>5 DEF Writers
<1> HIDE DEF u
<1>7. Adds(Put(u, t[i]), u, t[i])
  BY <1>2, <1>6, PutAdds
<1> QED BY <1>1, <1>6, <1>7 DEF Adds

\* A copy behind a backslash of the transform's writes two items.
LEMMA LiterallyWrites ==
  ASSUME NEW t, Typed(t), NEW i \in DOMAIN t, NEW w \in Writers
  PROVE  \E u : Adds(u, w, "esc") /\ Adds(Literally(w, t, i), u, t[i])
<1>1. i \in Nat /\ "esc" \in Items
  BY TextItems DEF Items
<1> DEFINE u == Put(Pin(w, i), "esc")
<1>2. Adds(u, w, "esc")
  BY <1>1, PinnedAdds
<1>3. Literally(w, t, i) = Copy(u, t, i)
  BY DEF Literally
<1> HIDE DEF u
<1>4. Adds(Copy(u, t, i), u, t[i])
  BY <1>2, CopyWrites DEF Adds
<1> QED BY <1>2, <1>3, <1>4

-----------------------------------------------------------------------------
\* A backslash of the document's that stands before a blank.
Slipped(t) == \E i \in 1 .. Len(t) - 1 : t[i] = "bs" /\ ~ Escaped(t, i) /\ t[i + 1] \in White

\* A "<" has been read last, outside of formulas.
Hot(w) == Read(w.out).angle

\* At an offset of the document behind a "<".
Angled(t, p) == p \in Nat /\ 1 < p /\ t[p - 1] = "<" /\ ~ Escaped(t, p - 1)

\* An offset that no "<" and letter behind it are parted at.
Parted(t, p) == 1 < p /\ p <= Len(t) /\ t[p - 1] = "<" => t[p] \notin {"w", "_"}

\* Nothing is wrong with what is read so far: it is in a formula if math says so.  Labels
\* may only be read if an offset is free to.
Calm(s, t, free, dollared, math) ==
  /\ s \in States /\ ~ s.code /\ s.esc # "esc" /\ ~ s.marker
  /\ s.taken => Slipped(t)
  /\ ~ dollared => /\ ~ s.mark /\ (s.math <=> math) /\ (s.label => free # {})
                   /\ math => ~ s.angle

\* A blank, or the end of the text.
AtBlank(t, p) == p > Len(t) \/ t[p] \in White

\* At offset p of the document a backslash is read when it is one there, unless a blank
\* comes next.
AtPiece(s, t, p) ==
  /\ s.esc = "bs" => Escaped(t, p)
  /\ Escaped(t, p) => s.esc = "bs" \/ AtBlank(t, p)

Reads(w, t, free, p, math, done) ==
  /\ w \in Writers /\ w.done = done /\ Calm(Read(w.out), t, free, Dollared(w.out), math)
  /\ AtPiece(Read(w.out), t, p) /\ (Hot(w) => free # {} \/ Angled(t, p))

\* What pieces are not.
LEMMA PieceKinds ==
  ASSUME NEW t, Typed(t), NEW i \in DOMAIN t
  PROVE  /\ t[i] \in Pieces /\ t[i] \notin Additions
         /\ t[i] \in Ids => /\ ~ WithDollar(t[i]) /\ t[i] \notin White
                            /\ t[i] \notin {"_", "$", "bs", "w", "<"}
         /\ t[i] \in {"_", "$", "bs", "w", "<", " ", "nl"}
              => t[i] \notin Ids /\ ~ WithDollar(t[i])
<1>1. t[i] \in Pieces
  BY ElementOfSeq, LenProperties DEF Typed
<1>2. t[i] \notin Additions
  <2>1. Characters \cap Additions = {}
    BY DEF Characters, Additions
  <2> QED BY <1>1, <2>1, PiecesAssumption DEF Pieces
<1>3. t[i] \in Ids => /\ ~ WithDollar(t[i]) /\ t[i] \notin White
                      /\ t[i] \notin {"_", "$", "bs", "w", "<"}
  BY PiecesAssumption DEF WithDollar, White, Characters
<1>4. t[i] \in {"_", "$", "bs", "w", "<", " ", "nl"} => t[i] \notin Ids /\ ~ WithDollar(t[i])
  BY PiecesAssumption DEF WithDollar, Characters
<1> QED BY <1>1, <1>2, <1>3, <1>4

\* Whether one is in a formula behind a piece.
Turned(t, i, needs, math) ==
  IF t[i] = "$" /\ i \notin needs /\ ~ Escaped(t, i) THEN ~ math ELSE math

\* What has to hold of a piece that is copied: markers are escaped, and outside of
\* formulas "_" and a "<" before a letter.
Readable(t, free, i, needs, math) ==
  /\ i \in needs => ~ Escaped(t, i) /\ t[i] # "bs"
  /\ t[i] \in Ids => i \in needs \/ Escaped(t, i)
  /\ t[i] = "_" => i \in needs \/ Escaped(t, i) \/ math
  /\ t[i] \in {"w", "_"} /\ Angled(t, i) => free # {} \/ math \/ i - 1 \in needs

\* A piece that is copied as it is.
LEMMA CopyReads ==
  ASSUME NEW t, Typed(t), NEW i \in DOMAIN t, NEW needs, i \notin needs, NEW free,
         NEW math \in BOOLEAN, Readable(t, free, i, needs, math), NEW done, NEW w,
         Reads(w, t, free, i, math, done), i - 1 \in needs => ~ Hot(w)
  PROVE  Reads(Copy(w, t, i), t, free, i + 1, Turned(t, i, needs, math), done)
<1> DEFINE s == Read(w.out)
           v == Copy(w, t, i)
           u == Read(v.out)
           x == t[i]
           next == Turned(t, i, needs, math)
<1>1. /\ w \in Writers /\ w.done = done /\ Calm(s, t, free, Dollared(w.out), math)
      /\ AtPiece(s, t, i) /\ (s.angle => free # {} \/ Angled(t, i))
  BY DEF Reads, Hot
<1>2. Adds(v, w, x)
  BY <1>1, CopyWrites
<1>3. /\ v \in Writers /\ v.done = w.done /\ s \in States /\ u = ReadItem(s, x)
      /\ Dollared(w.out) \/ WithDollar(x) => Dollared(v.out)
  BY <1>2 DEF Adds
<1>4. u \in States
  BY <1>3, ReadItemShape
<1>5. i \in Nat /\ 1 <= i /\ i <= Len(t) /\ Len(t) \in Nat
  BY LenProperties DEF Typed
<1>6. Escaped(t, i + 1) <=> x = "bs" /\ ~ Escaped(t, i)
  BY <1>5, EscapedNext
<1>7. /\ x \notin Additions
      /\ x \in Ids => ~ WithDollar(x) /\ x \notin {"_", "$", "bs", "w", "<"} /\ x \notin White
      /\ x \in {"_", "$", "bs", "w", "<", " ", "nl"} => x \notin Ids /\ ~ WithDollar(x)
  BY PieceKinds
<1>8. ~ s.code /\ s.esc \in {"", "bs"} /\ ~ s.marker /\ (s.taken => Slipped(t))
      /\ (~ Dollared(w.out) => ~ s.mark /\ (s.math <=> math))
      /\ (~ Dollared(w.out) => (s.label => free # {}) /\ (math => ~ s.angle))
      /\ (s.esc = "bs" => Escaped(t, i))
      /\ (Escaped(t, i) => s.esc = "bs" \/ x \in White)
      /\ s.math \in BOOLEAN /\ s.mark \in BOOLEAN /\ s.marker \in BOOLEAN /\ s.taken \in BOOLEAN
      /\ s.angle \in BOOLEAN /\ s.label \in BOOLEAN
  <2>1. /\ s \in States /\ ~ s.code /\ s.esc # "esc" /\ ~ s.marker /\ (s.taken => Slipped(t))
        /\ (~ Dollared(w.out) => ~ s.mark /\ (s.math <=> math))
        /\ (~ Dollared(w.out) => (s.label => free # {}) /\ (math => ~ s.angle))
    BY <1>1 DEF Calm
  <2>2. /\ s.math \in BOOLEAN /\ s.mark \in BOOLEAN /\ s.marker \in BOOLEAN
        /\ s.taken \in BOOLEAN /\ s.esc \in {"", "bs"}
        /\ s.angle \in BOOLEAN /\ s.label \in BOOLEAN
    BY <2>1 DEF States
  <2>3. ~ (i > Len(t))
    BY <1>5
  <2>4. /\ (s.esc = "bs" => Escaped(t, i))
        /\ (Escaped(t, i) => s.esc = "bs" \/ x \in White)
    BY <1>1, <2>3 DEF AtPiece, AtBlank
  <2> QED BY <2>1, <2>2, <2>4
<1>9. /\ x \in Ids => Escaped(t, i)
      /\ x = "_" => Escaped(t, i) \/ math
      /\ next = IF x = "$" /\ ~ Escaped(t, i) THEN ~ math ELSE math
      /\ x \in {"w", "_"} /\ Angled(t, i) => free # {} \/ math \/ ~ s.angle
  BY DEF Readable, Turned, Hot
<1>10. "bs" \notin White /\ "$" \notin White /\ "_" \notin White /\ "esc" \in Additions
  BY DEF White, Additions
<1> HIDE DEF s, v, u, x, next
<1>11. CASE s.esc = "bs"
  <2>1. u = [s EXCEPT !.esc = "", !.taken = @ \/ (s.esc = "bs" /\ x \in Additions),
                      !.math = IF WithDollar(x) THEN ~ @ ELSE @, !.angle = FALSE]
    BY <1>3, <1>8, <1>11 DEF ReadItem
  <2>2. /\ u.code = s.code /\ u.esc = "" /\ u.marker = s.marker /\ u.mark = s.mark
        /\ u.taken = (s.taken \/ (s.esc = "bs" /\ x \in Additions))
        /\ u.math = (IF WithDollar(x) THEN ~ s.math ELSE s.math)
        /\ u.angle = FALSE /\ u.label = s.label
    BY <1>3, <2>1 DEF States
  <2>3. Escaped(t, i) /\ next = math
    BY <1>8, <1>9, <1>11
  <2>4. Calm(u, t, free, Dollared(v.out), next)
    BY <1>3, <1>4, <1>7, <1>8, <2>2, <2>3 DEF Calm
  <2>5. AtPiece(u, t, i + 1)
    BY <1>6, <2>2, <2>3 DEF AtPiece
  <2> QED BY <1>1, <1>3, <2>2, <2>4, <2>5 DEF Reads, Hot, u, v, next
<1>12. CASE s.esc = ""
  <2>1. u = [s EXCEPT !.code = x = "fence",
                      !.esc = IF x \in {"esc", "bs"} THEN x ELSE "",
                      !.math = IF x = "$" THEN ~ @ ELSE @,
                      !.marker = @ \/ x \in Ids,
                      !.mark = @ \/ (x = "_" /\ ~ s.math),
                      !.angle = x = "<" /\ ~ s.math,
                      !.label = @ \/ (s.angle /\ x \in {"w", "_"})]
    BY <1>3, <1>8, <1>12 DEF ReadItem
  <2>2. /\ u.code = (x = "fence") /\ u.esc = (IF x \in {"esc", "bs"} THEN x ELSE "")
        /\ u.marker = (s.marker \/ x \in Ids) /\ u.mark = (s.mark \/ (x = "_" /\ ~ s.math))
        /\ u.taken = s.taken /\ u.math = (IF x = "$" THEN ~ s.math ELSE s.math)
        /\ u.angle = (x = "<" /\ ~ s.math) /\ u.label = (s.label \/ (s.angle /\ x \in {"w", "_"}))
    BY <1>3, <2>1 DEF States
  <2>3. x # "fence" /\ x # "esc"
    BY <1>7 DEF Additions
  <2>4. Escaped(t, i) => x \in White
    BY <1>8, <1>12
  <2>5. x \notin Ids /\ (x = "_" => math) /\ (x = "$" => next = ~ math)
      /\ (x # "$" => next = math)
    BY <1>7, <1>9, <1>10, <2>4
  <2>6. Calm(u, t, free, Dollared(v.out), next)
    <3>1. u.esc # "esc" /\ ~ u.code /\ ~ u.marker /\ (u.taken => Slipped(t))
      BY <1>8, <2>2, <2>3, <2>5
    <3>2. ~ Dollared(v.out) => ~ u.mark /\ (u.math <=> next)
      BY <1>3, <1>8, <2>2, <2>5
    <3>3. ~ Dollared(v.out) => (u.label => free # {})
      BY <1>1, <1>3, <1>8, <1>9, <2>2
    <3>4. ~ Dollared(v.out) => (next => ~ u.angle)
      <4>1. x = "<" => next = math
        BY <2>5
      <4> QED BY <1>3, <1>8, <2>2, <4>1
    <3> QED BY <1>4, <3>1, <3>2, <3>3, <3>4 DEF Calm
  <2>7. AtPiece(u, t, i + 1)
    BY <1>6, <1>10, <2>2, <2>3, <2>4 DEF AtPiece
  <2>8. u.angle => Angled(t, i + 1)
    <3>1. "<" \notin White /\ i + 1 \in Nat /\ 1 < i + 1 /\ (i + 1) - 1 = i
      BY <1>5 DEF White
    <3> QED BY <2>2, <2>4, <3>1 DEF Angled, x
  <2> QED BY <1>1, <1>3, <2>6, <2>7, <2>8 DEF Reads, Hot, u, v, next
<1> QED BY <1>8, <1>11, <1>12

\* A piece that is escaped.
LEMMA LiterallyReads ==
  ASSUME NEW t, Typed(t), NEW i \in DOMAIN t, NEW needs, i \in needs, NEW free,
         NEW math \in BOOLEAN, Readable(t, free, i, needs, math), NEW done, NEW w,
         Reads(w, t, free, i, math, done)
  PROVE  /\ Reads(Literally(w, t, i), t, free, i + 1, Turned(t, i, needs, math), done)
         /\ ~ Hot(Literally(w, t, i))
<1> DEFINE s == Read(w.out)
           v == Literally(w, t, i)
           z == Read(v.out)
           x == t[i]
<1>1. /\ w \in Writers /\ w.done = done /\ Calm(s, t, free, Dollared(w.out), math)
      /\ AtPiece(s, t, i)
  BY DEF Reads
<1>2. PICK u : Adds(u, w, "esc") /\ Adds(v, u, x)
  BY <1>1, LiterallyWrites
<1> DEFINE y == Read(u.out)
<1>3. /\ v \in Writers /\ v.done = w.done /\ s \in States
      /\ y = ReadItem(s, "esc") /\ z = ReadItem(y, x)
      /\ y \in States /\ (Dollared(w.out) \/ WithDollar(x) => Dollared(v.out))
  BY <1>2 DEF Adds
<1>4. z \in States
  BY <1>3, ReadItemShape
<1>5. i \in Nat /\ 1 <= i /\ i <= Len(t) /\ Len(t) \in Nat
  BY LenProperties DEF Typed
<1>6. Escaped(t, i + 1) <=> x = "bs" /\ ~ Escaped(t, i)
  BY <1>5, EscapedNext
<1>7. ~ Escaped(t, i) /\ x # "bs" /\ Turned(t, i, needs, math) = math
  BY DEF Readable, Turned
<1>8. ~ s.code /\ s.esc = "" /\ ~ s.marker /\ (s.taken => Slipped(t))
      /\ (~ Dollared(w.out) => ~ s.mark /\ (s.math <=> math) /\ (s.label => free # {}))
      /\ s.math \in BOOLEAN /\ s.mark \in BOOLEAN /\ s.marker \in BOOLEAN /\ s.taken \in BOOLEAN
      /\ s.label \in BOOLEAN
  BY <1>1, <1>7 DEF Calm, AtPiece, States
<1>9. "esc" \notin Ids
  BY PiecesAssumption DEF Additions
<1> HIDE DEF s, v, y, z, x
<1>10. /\ y.code = FALSE /\ y.esc = "esc" /\ y.marker = s.marker /\ y.mark = s.mark
       /\ y.taken = s.taken /\ y.math = s.math /\ y.label = s.label
  <2>1. y = [s EXCEPT !.code = "esc" = "fence",
                      !.esc = IF "esc" \in {"esc", "bs"} THEN "esc" ELSE "",
                      !.math = IF "esc" = "$" THEN ~ @ ELSE @,
                      !.marker = @ \/ "esc" \in Ids,
                      !.mark = @ \/ ("esc" = "_" /\ ~ s.math),
                      !.angle = "esc" = "<" /\ ~ s.math,
                      !.label = @ \/ (s.angle /\ "esc" \in {"w", "_"})]
    BY <1>3, <1>8 DEF ReadItem
  <2> QED BY <1>3, <1>8, <1>9, <2>1 DEF States
<1>11. /\ z.code = FALSE /\ z.esc = "" /\ z.marker = s.marker /\ z.mark = s.mark
       /\ z.taken = s.taken /\ z.math = (IF WithDollar(x) THEN ~ s.math ELSE s.math)
       /\ z.angle = FALSE /\ z.label = s.label
  <2>1. z = [y EXCEPT !.esc = "", !.taken = @ \/ (y.esc = "bs" /\ x \in Additions),
                      !.math = IF WithDollar(x) THEN ~ @ ELSE @, !.angle = FALSE]
    BY <1>3, <1>10 DEF ReadItem
  <2> QED BY <1>3, <1>8, <1>10, <2>1 DEF States
<1>12. Calm(z, t, free, Dollared(v.out), math)
  BY <1>3, <1>4, <1>8, <1>11 DEF Calm
<1>13. AtPiece(z, t, i + 1)
  BY <1>6, <1>7, <1>11 DEF AtPiece
<1> QED BY <1>1, <1>3, <1>7, <1>11, <1>12, <1>13 DEF Reads, Hot, z, v

\* Nothing is wrong with what a writer wrote.
Sound(w, t, free, math, done) ==
  w \in Writers /\ w.done = done /\ Calm(Read(w.out), t, free, Dollared(w.out), math)

\* An item that means nothing, unless it is taken by a backslash.
LEMMA DullReads ==
  ASSUME NEW t, NEW free, NEW math, NEW done, NEW w, Sound(w, t, free, math, done),
         NEW item, item \notin Ids, ~ WithDollar(item),
         item \notin {"_", "$", "bs", "fence", "esc", "<", "w"},
         Read(w.out).esc = "bs" /\ item \in Additions => Slipped(t),
         NEW v, Adds(v, w, item)
  PROVE  Sound(v, t, free, math, done) /\ Read(v.out).esc = "" /\ ~ Hot(v)
<1> DEFINE s == Read(w.out)
           u == Read(v.out)
<1>1. /\ v \in Writers /\ v.done = w.done /\ s \in States /\ u = ReadItem(s, item)
      /\ (Dollared(w.out) => Dollared(v.out))
  BY DEF Adds
<1>2. u \in States
  BY <1>1, ReadItemShape
<1>3. ~ s.code /\ s.esc \in {"", "bs"} /\ ~ s.marker /\ (s.taken => Slipped(t))
      /\ (~ Dollared(w.out) => ~ s.mark /\ (s.math <=> math) /\ (s.label => free # {}))
      /\ s.math \in BOOLEAN /\ s.mark \in BOOLEAN /\ s.marker \in BOOLEAN /\ s.taken \in BOOLEAN
      /\ s.label \in BOOLEAN
  BY DEF Sound, Calm, States
<1>4. s.esc = "bs" /\ item \in Additions => Slipped(t)
  OBVIOUS
<1> HIDE DEF s, u
<1>5. CASE s.esc = "bs"
  <2>1. u = [s EXCEPT !.esc = "", !.taken = @ \/ (s.esc = "bs" /\ item \in Additions),
                      !.math = IF WithDollar(item) THEN ~ @ ELSE @, !.angle = FALSE]
    BY <1>1, <1>3, <1>5 DEF ReadItem
  <2>2. /\ u.code = s.code /\ u.esc = "" /\ u.marker = s.marker /\ u.mark = s.mark
        /\ u.math = s.math /\ u.taken = (s.taken \/ (s.esc = "bs" /\ item \in Additions))
        /\ u.angle = FALSE /\ u.label = s.label
    BY <1>1, <2>1 DEF States
  <2> QED BY <1>1, <1>2, <1>3, <1>4, <2>2 DEF Sound, Calm, Hot, u
<1>6. CASE s.esc = ""
  <2>1. u = [s EXCEPT !.code = item = "fence",
                      !.esc = IF item \in {"esc", "bs"} THEN item ELSE "",
                      !.math = IF item = "$" THEN ~ @ ELSE @,
                      !.marker = @ \/ item \in Ids,
                      !.mark = @ \/ (item = "_" /\ ~ s.math),
                      !.angle = item = "<" /\ ~ s.math,
                      !.label = @ \/ (s.angle /\ item \in {"w", "_"})]
    BY <1>1, <1>3, <1>6 DEF ReadItem
  <2>2. /\ u.code = FALSE /\ u.esc = "" /\ u.marker = s.marker /\ u.mark = s.mark
        /\ u.math = s.math /\ u.taken = s.taken /\ u.angle = FALSE /\ u.label = s.label
    BY <1>1, <1>3, <2>1 DEF States
  <2> QED BY <1>1, <1>2, <1>3, <2>2 DEF Sound, Calm, Hot, u
<1> QED BY <1>3, <1>5, <1>6

\* Something that the transform writes, but for fences and escapes, where no backslash
\* of the document's is read, or only one before a blank.
LEMMA AddedReads ==
  ASSUME NEW t, NEW free, NEW math, NEW done, NEW w, Sound(w, t, free, math, done),
         Read(w.out).esc = "bs" => Slipped(t),
         NEW item \in Additions \ {"fence", "esc"}, NEW v, Adds(v, w, item)
  PROVE  Sound(v, t, free, math, done) /\ Read(v.out).esc = "" /\ ~ Hot(v)
<1>1. /\ item \notin Ids /\ ~ WithDollar(item)
      /\ item \notin {"_", "$", "bs", "fence", "esc", "<", "w"}
  BY PiecesAssumption DEF Additions, WithDollar
<1>2. Sound(w, t, free, math, done) /\ Adds(v, w, item)
  OBVIOUS
<1>3. Read(w.out).esc = "bs" /\ item \in Additions => Slipped(t)
  OBVIOUS
<1> QED BY ONLY <1>1, <1>2, <1>3, DullReads

\* A space of the document's.
LEMMA SpaceReads ==
  ASSUME NEW t, Typed(t), NEW i \in DOMAIN t, t[i] = " ", NEW free, NEW math,
         NEW done, NEW w, Sound(w, t, free, math, done)
  PROVE  /\ Sound(Copy(w, t, i), t, free, math, done) /\ Read(Copy(w, t, i).out).esc = ""
         /\ ~ Hot(Copy(w, t, i))
<1> DEFINE x == t[i]
           v == Copy(w, t, i)
<1>1. x \notin Ids /\ ~ WithDollar(x) /\ x \notin Additions
  BY PieceKinds
<1>2. x \notin {"_", "$", "bs", "fence", "esc", "<", "w"}
  OBVIOUS
<1>3. Adds(v, w, x)
  BY CopyWrites DEF Sound
<1>4. Sound(w, t, free, math, done)
  OBVIOUS
<1>5. Read(w.out).esc = "bs" /\ x \in Additions => Slipped(t)
  BY <1>1
<1> HIDE DEF x, v
<1>6. Sound(v, t, free, math, done) /\ Read(v.out).esc = "" /\ ~ Hot(v)
  BY ONLY <1>1, <1>2, <1>3, <1>4, <1>5, DullReads
<1> QED BY <1>6 DEF v

\* What each piece of a range keeps, the whole of it does.
LEMMA CopyAllKeeps ==
  ASSUME NEW t, NEW lo \in Nat, NEW hi \in Nat, lo <= hi, NEW needs, NEW inv, NEW w,
         w \in inv[lo], \A i \in lo .. hi : inv[i] \subseteq Writers,
         \A i \in lo .. hi - 1 : \A v \in inv[i] :
           (IF i \in needs THEN Literally(v, t, i) ELSE Copy(v, t, i)) \in inv[i + 1]
  PROVE  CopyAll(w, t, lo, hi, needs) \in inv[hi]
<1> DEFINE n == hi - lo
           each(i, v) == IF i \in needs THEN Literally(v, t, i) ELSE Copy(v, t, i)
           body(f) == [k \in 0 .. n |->
                         IF k = 0 THEN w ELSE each(lo + k - 1, f[k - 1])]
           g == CHOOSE f : f = body(f)
           kept == [k \in 0 .. n |-> inv[lo + k]]
           step == [x \in (1 .. n) \X Writers |-> each(lo + x[1] - 1, x[2])]
<1>1. /\ n \in Nat /\ 0 \in 0 .. n /\ n \in 0 .. n /\ lo + 0 = lo /\ lo + n = hi
      /\ \A k \in 0 .. n : lo + k \in lo .. hi
      /\ \A k \in 1 .. n : /\ k \in 0 .. n /\ k - 1 \in 0 .. n /\ k # 0
                           /\ lo + k - 1 \in lo .. hi - 1 /\ (lo + k - 1) + 1 = lo + k
                           /\ lo + (k - 1) = lo + k - 1
  OBVIOUS
<1>2. CopyAll(w, t, lo, hi, needs) = g[n]
  BY DEF CopyAll
<1>3. \A k \in 1 .. n, v \in Writers : step[<<k, v>>] = each(lo + k - 1, v)
  OBVIOUS
<1>4. \A k \in 0 .. n : kept[k] = inv[lo + k]
  OBVIOUS
<1>5. \A i \in lo .. hi - 1 : \A v \in inv[i] : each(i, v) \in inv[i + 1]
  OBVIOUS
<1> HIDE DEF kept, step, each, n
<1>6. ASSUME NEW k \in 1 .. n, NEW v \in kept[k - 1]
      PROVE  each(lo + k - 1, v) \in kept[k] /\ step[<<k, v>>] = each(lo + k - 1, v)
  <2>1. kept[k - 1] = inv[lo + k - 1] /\ kept[k] = inv[lo + k]
    BY <1>1, <1>4
  <2>2. v \in Writers
    <3>1. kept[k - 1] = inv[lo + (k - 1)] /\ lo + (k - 1) \in lo .. hi
      BY <1>1, <1>4
    <3> QED BY <1>6, <3>1
  <2> QED BY <1>1, <1>3, <1>5, <2>1, <2>2
<1>7. w \in kept[0] /\ w \in Writers /\ \A k \in 0 .. n : kept[k] \subseteq Writers
  <2>1. kept[0] = inv[lo] /\ lo \in lo .. hi
    BY <1>1, <1>4
  <2> QED BY <1>1, <1>4, <2>1
<1>8. PICK f : Loops(f, n, w, kept, step)
  <2>1. \A k \in 1 .. n : \A v \in kept[k - 1] : step[<<k, v>>] \in kept[k]
    BY <1>6
  <2> QED BY <1>1, <1>7, <2>1, Looped
<1>9. f = body(f)
  <2>1. ASSUME NEW k \in 0 .. n
        PROVE  f[k] = IF k = 0 THEN w ELSE each(lo + k - 1, f[k - 1])
    <3>1. k # 0 => k \in 1 .. n /\ k - 1 \in 0 .. n
      BY <1>1
    <3> QED BY <1>6, <1>8, <3>1 DEF Loops
  <2> QED BY <1>8, <2>1 DEF Loops
<1>10. g = body(g)
  BY <1>9
<1> HIDE DEF g
<1>11. g[0] = w /\ \A k \in 1 .. n : g[k] = each(lo + k - 1, g[k - 1])
  BY <1>1, <1>10
<1> DEFINE T == {k \in 0 .. n : g[k] \in kept[k]}
<1>12. \A k \in 0 .. n : k \in T
  <2>1. 0 \in T
    BY <1>1, <1>7, <1>11
  <2>2. ASSUME NEW k \in 1 .. n, k - 1 \in T
        PROVE  k \in T
    <3>1. g[k - 1] \in kept[k - 1] /\ k \in 0 .. n
      BY <1>1, <2>2
    <3> QED BY <1>6, <1>11, <3>1
  <2> HIDE DEF T
  <2> QED BY <1>1, <2>1, <2>2, StepByStep
<1>13. g[n] \in kept[n]
  BY <1>1, <1>12
<1> QED BY <1>1, <1>2, <1>4, <1>13

\* A range that is copied, in a formula or not as math says of each offset.
LEMMA CopyAllReads ==
  ASSUME NEW t, Typed(t), NEW lo, NEW hi, IsRange(t, lo, hi), NEW needs, NEW free, NEW math,
         lo - 1 \notin needs,
         \A i \in lo .. hi : math[i] \in BOOLEAN,
         \A i \in lo .. hi - 1 : /\ Readable(t, free, i, needs, math[i])
                                 /\ math[i + 1] = Turned(t, i, needs, math[i]),
         NEW done, NEW w, Reads(w, t, free, lo, math[lo], done)
  PROVE  Reads(CopyAll(w, t, lo, hi, needs), t, free, hi, math[hi], done)
<1> DEFINE good(i, v) == /\ Reads(v, t, free, i, math[i], done)
                         /\ i - 1 \in needs => ~ Hot(v)
           inv == [i \in lo .. hi |-> {v \in Writers : good(i, v)}]
<1>1. /\ lo \in Nat /\ hi \in Nat /\ 1 <= lo /\ lo <= hi /\ hi <= Len(t) + 1
      /\ Len(t) \in Nat /\ DOMAIN t = 1 .. Len(t)
  BY LenProperties DEF IsRange, End, Typed
<1>2. \A i \in lo .. hi - 1 : i \in lo .. hi /\ i + 1 \in lo .. hi /\ i \in 1 .. Len(t)
  BY <1>1
<1>3. lo \in lo .. hi /\ hi \in lo .. hi
  BY <1>1
<1>4. \A i \in lo .. hi : inv[i] = {v \in Writers : good(i, v)}
  OBVIOUS
<1> HIDE DEF inv, good
<1>5. ASSUME NEW i \in lo .. hi - 1, NEW v \in inv[i]
      PROVE  (IF i \in needs THEN Literally(v, t, i) ELSE Copy(v, t, i)) \in inv[i + 1]
  <2>1. Reads(v, t, free, i, math[i], done) /\ math[i] \in BOOLEAN /\ i \in DOMAIN t
        /\ (i - 1 \in needs => ~ Hot(v)) /\ (i + 1) - 1 = i
    <3>1. i \in lo .. hi /\ i \in DOMAIN t
      BY <1>1, <1>2
    <3>2. good(i, v)
      BY <1>4, <3>1
    <3>3. (i + 1) - 1 = i
      BY ONLY <1>1, i \in lo .. hi - 1
    <3> QED BY <3>1, <3>2, <3>3 DEF good
  <2>2. CASE i \in needs
    <3>1. Reads(Literally(v, t, i), t, free, i + 1, math[i + 1], done)
          /\ ~ Hot(Literally(v, t, i))
      BY <2>1, <2>2, LiterallyReads
    <3>2. Literally(v, t, i) \in Writers
      BY <3>1 DEF Reads
    <3>3. good(i + 1, Literally(v, t, i))
      BY <3>1 DEF good
    <3> QED BY <1>2, <1>4, <2>2, <3>2, <3>3
  <2>3. CASE i \notin needs
    <3>1. Reads(Copy(v, t, i), t, free, i + 1, math[i + 1], done)
      BY <2>1, <2>3, CopyReads
    <3>2. Copy(v, t, i) \in Writers
      BY <3>1 DEF Reads
    <3>3. good(i + 1, Copy(v, t, i))
      BY <2>1, <2>3, <3>1 DEF good
    <3> QED BY <1>2, <1>4, <2>3, <3>2, <3>3
  <2> QED BY <2>2, <2>3
<1>6. w \in inv[lo] /\ \A i \in lo .. hi : inv[i] \subseteq Writers
  <2>1. w \in Writers /\ good(lo, w)
    BY DEF Reads, good
  <2> QED BY <1>3, <1>4, <2>1
<1>7. CopyAll(w, t, lo, hi, needs) \in inv[hi]
  BY <1>1, <1>5, <1>6, CopyAllKeeps
<1>8. good(hi, CopyAll(w, t, lo, hi, needs))
  BY <1>3, <1>4, <1>7
<1> QED BY <1>8 DEF good

\* Code is not read.
LEMMA CopyAllCode ==
  ASSUME NEW t, Typed(t), NEW lo, NEW hi, IsRange(t, lo, hi),
         NEW w \in Writers, Read(w.out).code
  PROVE  LET v == CopyAll(w, t, lo, hi, {})
         IN  /\ v \in Writers /\ Read(v.out) = Read(w.out) /\ v.done = w.done
             /\ Dollared(w.out) => Dollared(v.out)
<1> DEFINE Same == {v \in Writers : Read(v.out) = Read(w.out) /\ v.done = w.done
                                    /\ (Dollared(w.out) => Dollared(v.out))}
           inv == [i \in lo .. hi |-> Same]
           s == Read(w.out)
<1>1. /\ lo \in Nat /\ hi \in Nat /\ 1 <= lo /\ lo <= hi /\ hi <= Len(t) + 1
      /\ Len(t) \in Nat /\ DOMAIN t = 1 .. Len(t)
  BY LenProperties DEF IsRange, End, Typed
<1>2. \A i \in lo .. hi - 1 : i \in lo .. hi /\ i + 1 \in lo .. hi /\ i \in 1 .. Len(t)
  BY <1>1
<1>3. lo \in lo .. hi /\ hi \in lo .. hi
  BY <1>1
<1>4. \A i \in lo .. hi : inv[i] = Same
  OBVIOUS
<1> HIDE DEF inv
<1>5. s \in States
  <2>1. Len(w.out) \in Nat
    BY WriterFields
  <2> QED BY <2>1, ReadShape
<1>6. ASSUME NEW i \in lo .. hi - 1, NEW v \in inv[i]
      PROVE  Copy(v, t, i) \in inv[i + 1]
  <2>1. v \in Same /\ inv[i + 1] = Same /\ i \in DOMAIN t
    BY <1>1, <1>2, <1>4
  <2>2. Adds(Copy(v, t, i), v, t[i])
    BY <2>1, CopyWrites
  <2>3. t[i] # "fence"
    BY <2>1, PieceKinds DEF Additions
  <2> DEFINE u == Copy(v, t, i)
  <2>4. /\ u \in Writers /\ Read(u.out) = ReadItem(s, t[i]) /\ u.done = w.done
        /\ Dollared(w.out) => Dollared(u.out)
    BY <2>1, <2>2 DEF Adds
  <2>5. ReadItem(s, t[i]) = s
    <3> HIDE DEF s
    <3>1. s.code = TRUE
      <4>1. s.code \in BOOLEAN /\ s.code
        BY <1>5 DEF s, States
      <4> QED BY <4>1
    <3>2. ReadItem(s, t[i]) = [s EXCEPT !.code = t[i] # "fence"]
      BY <3>1 DEF ReadItem
    <3>3. [s EXCEPT !.code = TRUE] = s
      BY <1>5, <3>1 DEF States
    <3> QED BY <2>3, <3>2, <3>3
  <2> HIDE DEF u
  <2>6. u \in Same
    BY <2>4, <2>5
  <2> QED BY <2>1, <2>6 DEF u
<1>7. w \in inv[lo] /\ \A i \in lo .. hi : inv[i] \subseteq Writers
  BY <1>3, <1>4
<1>8. CopyAll(w, t, lo, hi, {}) \in inv[hi]
  <2>1. \A i \in lo .. hi - 1 : \A v \in inv[i] :
          (IF i \in {} THEN Literally(v, t, i) ELSE Copy(v, t, i)) \in inv[i + 1]
    BY <1>6
  <2> QED BY <1>1, <1>7, <2>1, CopyAllKeeps
<1>9. CopyAll(w, t, lo, hi, {}) \in Same
  BY <1>3, <1>4, <1>8
<1> QED BY <1>9

\* Fenced code is written between two places of the code.
LEMMA FencedBetween ==
  ASSUME NEW t, NEW lo \in Nat, NEW hi \in Nat, lo <= hi
  PROVE  \E from, to \in Nat :
           /\ lo <= from /\ from <= to /\ to <= hi
           /\ \A w : Fenced(w, t, lo, hi) =
                       Put(CopyAll(Put(w, "fence"), t, from, to, {}), "fence")
<1> DEFINE solid == {i \in lo .. hi - 1 : t[i] \notin White}
           from == IF solid = {} THEN hi ELSE CHOOSE i \in solid : \A j \in solid : i <= j
           to == IF solid = {} THEN hi ELSE 1 + CHOOSE i \in solid : \A j \in solid : j <= i
<1>1. hi <= hi
  OBVIOUS
<1>2. solid \in SUBSET Nat /\ \A i \in solid : lo <= i /\ i <= hi - 1
  OBVIOUS
<1>3. from \in Nat /\ to \in Nat /\ lo <= from /\ from <= to /\ to <= hi
  <2>1. CASE solid = {}
    BY <1>1, <2>1
  <2>2. CASE solid # {}
    <3> DEFINE a == CHOOSE i \in solid : \A j \in solid : i <= j
               b == CHOOSE i \in solid : \A j \in solid : j <= i
    <3>1. from = a /\ to = 1 + b
      BY <2>2
    <3> HIDE DEF solid
    <3>2. \E i \in solid : \A j \in solid : i <= j
      BY <1>2, <2>2, LeastExists
    <3>3. \E i \in solid : \A j \in solid : j <= i
      <4>1. PICK i \in solid : i \in Nat /\ i <= hi - 1
        BY <1>2, <2>2
      <4>2. hi - 1 \in Nat
        BY ONLY <4>1, hi \in Nat
      <4> QED BY <1>2, <2>2, <4>2, GreatestExists
    <3>4. a \in solid /\ \A j \in solid : a <= j
      BY <3>2
    <3>5. b \in solid
      BY <3>3
    <3> HIDE DEF a, b, from, to
    <3> QED BY <1>2, <3>1, <3>4, <3>5
  <2> QED BY <2>1, <2>2
<1>4. \A w : Fenced(w, t, lo, hi) = Put(CopyAll(Put(w, "fence"), t, from, to, {}), "fence")
  BY DEF Fenced
<1> HIDE DEF from, to
<1> QED BY <1>3, <1>4

\* Fenced code leaves the reading as it was.
LEMMA FencedReads ==
  ASSUME NEW t, Typed(t), NEW lo, NEW hi, IsRange(t, lo, hi), NEW free, NEW math,
         NEW done, NEW w, Sound(w, t, free, math, done), Read(w.out).esc = ""
  PROVE  LET v == Fenced(w, t, lo, hi)
         IN  Sound(v, t, free, math, done) /\ Read(v.out).esc = "" /\ ~ Hot(v)
<1> DEFINE s == Read(w.out)
<1>1. lo \in Nat /\ hi \in Nat /\ 1 <= lo /\ lo <= hi /\ hi <= End(t) /\ "fence" \in Items
  BY DEF IsRange, Items
<1>2. PICK from \in Nat, to \in Nat :
        /\ lo <= from /\ from <= to /\ to <= hi
        /\ \A v : Fenced(v, t, lo, hi) =
                    Put(CopyAll(Put(v, "fence"), t, from, to, {}), "fence")
  BY <1>1, FencedBetween
<1> DEFINE a == Put(w, "fence")
           b == CopyAll(a, t, from, to, {})
           c == Put(b, "fence")
<1>3. Adds(a, w, "fence") /\ w \in Writers
  BY <1>1, PutAdds DEF Sound
<1>4. s \in States /\ ~ s.code /\ s.esc = "" /\ Read(a.out) = ReadItem(s, "fence")
  BY <1>3 DEF Adds, Sound, Calm
<1>5. "fence" \notin Ids
  BY PiecesAssumption DEF Additions
<1> DEFINE x == Read(a.out)
<1>6. /\ x.code = TRUE /\ x.esc = "" /\ x.math = s.math /\ x.marker = s.marker
      /\ x.mark = s.mark /\ x.taken = s.taken /\ x.angle = FALSE /\ x.label = s.label
      /\ x \in States
  <2> HIDE DEF s, a
  <2>1. x = [s EXCEPT !.code = "fence" = "fence",
                      !.esc = IF "fence" \in {"esc", "bs"} THEN "fence" ELSE "",
                      !.math = IF "fence" = "$" THEN ~ @ ELSE @,
                      !.marker = @ \/ "fence" \in Ids,
                      !.mark = @ \/ ("fence" = "_" /\ ~ s.math),
                      !.angle = "fence" = "<" /\ ~ s.math,
                      !.label = @ \/ (s.angle /\ "fence" \in {"w", "_"})]
    BY <1>4 DEF ReadItem
  <2>2. x \in States
    BY <1>4, ReadItemShape
  <2>3. s.marker \in BOOLEAN /\ s.mark \in BOOLEAN /\ s.label \in BOOLEAN
    BY <1>4 DEF States
  <2> HIDE DEF x
  <2>4. /\ x.code = TRUE /\ x.esc = "" /\ x.math = s.math /\ x.marker = s.marker
        /\ x.mark = s.mark /\ x.taken = s.taken
    BY <1>4, <1>5, <2>1, <2>3 DEF States
  <2>5. x.angle = FALSE /\ x.label = s.label
    BY <1>4, <2>1, <2>3 DEF States
  <2> QED BY <2>2, <2>4, <2>5
<1>7. a \in Writers /\ a.done = w.done /\ (Dollared(w.out) => Dollared(a.out))
  BY <1>3 DEF Adds
<1>8. /\ b \in Writers /\ Read(b.out) = x /\ b.done = a.done
      /\ Dollared(a.out) => Dollared(b.out)
  <2>1. IsRange(t, from, to)
    <3>1. End(t) \in Nat
      BY ONLY Typed(t), LenProperties DEF End, Typed
    <3>2. from \in Nat /\ to \in Nat /\ lo <= from /\ from <= to /\ to <= hi
      BY <1>2
    <3>3. 1 <= from /\ to <= End(t)
      BY ONLY <1>1, <3>1, <3>2
    <3> QED BY <3>2, <3>3 DEF IsRange
  <2> HIDE DEF a
  <2> QED BY <1>6, <1>7, <2>1, CopyAllCode
<1> HIDE DEF a, b
<1>9. Adds(c, b, "fence")
  BY <1>1, <1>8, PutAdds
<1> DEFINE y == Read(c.out)
<1>10. /\ c \in Writers /\ y = ReadItem(x, "fence") /\ c.done = b.done
       /\ (Dollared(b.out) => Dollared(c.out))
  BY <1>8, <1>9 DEF Adds
<1> HIDE DEF c, x
<1>11. y \in States
  BY <1>6, <1>10, ReadItemShape
<1>12. /\ y.code = FALSE /\ y.esc = "" /\ y.math = s.math /\ y.marker = s.marker
       /\ y.mark = s.mark /\ y.taken = s.taken /\ y.angle = FALSE /\ y.label = s.label
  <2> HIDE DEF s, y
  <2>1. y = [x EXCEPT !.code = "fence" # "fence"]
    BY <1>6, <1>10 DEF ReadItem
  <2> QED BY <1>6, <2>1 DEF States
<1>13. Calm(y, t, free, Dollared(c.out), math)
  <2>1. Calm(s, t, free, Dollared(w.out), math)
    BY DEF Sound
  <2> HIDE DEF s, y
  <2> QED BY <1>7, <1>8, <1>10, <1>11, <1>12, <2>1 DEF Calm
<1>14. c.done = done
  BY <1>7, <1>8, <1>10 DEF Sound
<1>15. Sound(c, t, free, math, done) /\ Read(c.out).esc = "" /\ ~ Hot(c)
  BY <1>10, <1>12, <1>13, <1>14 DEF Sound, Hot
<1> QED BY <1>2, <1>15 DEF a, b, c

\* A backslash of the document's is read last.
Behind(w) == Read(w.out).esc = "bs"

\* What is spliced in leaves the reading as it was, if no backslash is before it.
LEMMA SplicedReads ==
  ASSUME NEW t, NEW free, NEW splices, IsFiniteSet(splices), NEW i \in Nat, NEW math \in BOOLEAN,
         NEW done, NEW w, Sound(w, t, free, math, done),
         \A s \in splices : s[1] = i => ~ Behind(w)
  PROVE  /\ Sound(SplicedAt(w, i, splices), t, free, math, done)
         /\ Behind(SplicedAt(w, i, splices)) => Behind(w)
         /\ Hot(SplicedAt(w, i, splices)) => Hot(w)
<1>1. CASE \A s \in splices : s[1] # i
  BY <1>1, NotSpliced
<1>2. CASE ~ \A s \in splices : s[1] # i
  <2> DEFINE here == {s \in splices : s[1] = i}
             n == Cardinality(here)
             body(f) == [k \in 0 .. n |-> IF k = 0 THEN w ELSE Splice(f[k - 1], i)]
             g == CHOOSE f : f = body(f)
             W == {v \in Writers : /\ Sound(v, t, free, math, done) /\ Read(v.out).esc = ""
                                   /\ Hot(v) => Hot(w)}
             inv == [k \in 0 .. n |-> W]
             step == [x \in (1 .. n) \X W |-> Splice(x[2], i)]
  <2>1. n \in Nat /\ w \in W
    <3>1. IsFiniteSet(here)
      BY FS_Subset
    <3> HIDE DEF here
    <3>2. n \in Nat
      BY <3>1, FS_CardinalityType
    <3>3. Read(w.out).esc = "" /\ w \in Writers
      BY <1>2 DEF Sound, Calm, States, Behind
    <3> QED BY <3>2, <3>3
  <2>2. SplicedAt(w, i, splices) = g[n]
    BY DEF SplicedAt
  <2>3. ASSUME NEW v \in W
        PROVE  Splice(v, i) \in W
    <3>1. "splice" \in Items /\ "splice" \in Additions \ {"fence", "esc"}
      BY DEF Items, Additions
    <3>2. v \in Writers /\ Sound(v, t, free, math, done) /\ Read(v.out).esc = ""
      OBVIOUS
    <3>3. Adds(Splice(v, i), v, "splice")
      BY <3>1, <3>2, PinnedAdds DEF Splice
    <3>4. Sound(Splice(v, i), t, free, math, done) /\ Read(Splice(v, i).out).esc = ""
          /\ ~ Hot(Splice(v, i))
      BY <3>1, <3>2, <3>3, AddedReads
    <3> QED BY <3>4 DEF Sound
  <2> HIDE DEF W, n
  <2>4. \A k \in 0 .. n : inv[k] = W
    OBVIOUS
  <2>5. \A k \in 1 .. n : \A v \in W : step[<<k, v>>] = Splice(v, i)
    OBVIOUS
  <2>6. n \in Nat /\ 0 \in 0 .. n /\ n \in 0 .. n
        /\ \A k \in 1 .. n : k \in 0 .. n /\ k - 1 \in 0 .. n /\ k # 0
    <3>1. n \in Nat
      BY <2>1
    <3> QED BY ONLY <3>1
  <2>7. \A k \in 0 .. n : k # 0 => k \in 1 .. n /\ k - 1 \in 0 .. n
    BY ONLY <2>6
  <2> HIDE DEF inv, step
  <2>8. PICK f : Loops(f, n, w, inv, step)
    <3>1. \A k \in 1 .. n : \A v \in inv[k - 1] : step[<<k, v>>] \in inv[k]
      <4> SUFFICES ASSUME NEW k \in 1 .. n, NEW v \in inv[k - 1]
                   PROVE  step[<<k, v>>] \in inv[k]
        OBVIOUS
      <4>1. k \in 0 .. n /\ k - 1 \in 0 .. n
        BY <2>6
      <4>2. v \in W
        BY <2>4, <4>1
      <4>3. step[<<k, v>>] = Splice(v, i)
        BY <2>5, <4>2
      <4> QED BY <2>3, <2>4, <4>1, <4>2, <4>3
    <3>2. \A k \in 0 .. n : inv[k] \subseteq W
      BY <2>4
    <3>3. w \in inv[0]
      BY <2>1, <2>4, <2>6
    <3> QED BY <2>1, <3>1, <3>2, <3>3, Looped
  <2>9. f = body(f)
    <3>1. ASSUME NEW k \in 0 .. n
          PROVE  f[k] = IF k = 0 THEN w ELSE Splice(f[k - 1], i)
      <4>1. k # 0 => k \in 1 .. n /\ k - 1 \in 0 .. n
        BY <2>7
      <4> QED BY <2>4, <2>5, <2>8, <4>1 DEF Loops
    <3> QED BY <2>8, <3>1 DEF Loops
  <2>10. g = body(g)
    BY <2>9
  <2> HIDE DEF g
  <2>11. g[0] = w /\ \A k \in 1 .. n : g[k] = Splice(g[k - 1], i)
    BY <2>6, <2>10
  <2> DEFINE T == {k \in 0 .. n : g[k] \in W}
  <2>12. \A k \in 0 .. n : k \in T
    <3>1. 0 \in T
      BY <2>1, <2>6, <2>11
    <3>2. ASSUME NEW k \in 1 .. n, k - 1 \in T
          PROVE  k \in T
      BY <2>3, <2>6, <2>11, <3>2
    <3> HIDE DEF T
    <3> QED BY <2>1, <3>1, <3>2, StepByStep
  <2>13. g[n] \in W
    BY <2>6, <2>12
  <2> QED BY <2>1, <2>2, <2>13 DEF W, Behind
<1> QED BY <1>1, <1>2

\* A run of spaces.
LEMMA SpacesReads ==
  ASSUME NEW t, Typed(t), NEW run, run[1] \in DOMAIN t, run[2] \in Nat, run[1] < run[2],
         t[run[1]] = " ", NEW whole \in BOOLEAN, NEW free, NEW math \in BOOLEAN,
         NEW done, NEW w, Sound(w, t, free, math, done)
  PROVE  /\ Sound(Spaces(w, t, run, whole), t, free, math, done)
         /\ ~ Behind(Spaces(w, t, run, whole)) /\ ~ Hot(Spaces(w, t, run, whole))
<1> DEFINE lo == run[1]
           n == run[2] - run[1] - 1
           W == {v \in Writers : /\ Sound(v, t, free, math, done) /\ Read(v.out).esc = ""
                                 /\ ~ Hot(v)}
           each(k, v) == Put(Pin(v, run[1] + k), "nbsp")
           body(f) == [k \in 0 .. n |->
                         IF k = 0 THEN Copy(w, t, run[1]) ELSE each(k, f[k - 1])]
           g == CHOOSE f : f = body(f)
           inv == [k \in 0 .. n |-> W]
           step == [x \in (1 .. n) \X W |-> each(x[1], x[2])]
           base == Copy(w, t, run[1])
<1>1. n \in Nat /\ lo \in Nat /\ 0 \in 0 .. n /\ n \in 0 .. n
  <2>1. run[1] \in Nat
    BY TextItems
  <2> QED BY ONLY <2>1, run[2] \in Nat, run[1] < run[2]
<1>2. /\ \A k \in 1 .. n : k \in 0 .. n /\ k - 1 \in 0 .. n /\ k # 0 /\ lo + k \in Nat
      /\ \A k \in 0 .. n : k # 0 => k \in 1 .. n /\ k - 1 \in 0 .. n
  <2> HIDE DEF n, lo
  <2> QED BY ONLY <1>1
<1>3. Spaces(w, t, run, whole) = g[IF whole THEN n ELSE 0]
  BY DEF Spaces
<1>4. base \in W
  <2>1. Sound(base, t, free, math, done) /\ Read(base.out).esc = "" /\ ~ Hot(base)
    BY SpaceReads
  <2> QED BY <2>1 DEF Sound
<1>5. ASSUME NEW k \in 1 .. n, NEW v \in W
      PROVE  each(k, v) \in W
  <2>1. "nbsp" \in Items /\ "nbsp" \in Additions \ {"fence", "esc"}
    BY DEF Items, Additions
  <2>2. /\ v \in Writers /\ Sound(v, t, free, math, done) /\ Read(v.out).esc = ""
        /\ run[1] + k \in Nat
    BY <1>2
  <2>3. Adds(each(k, v), v, "nbsp")
    BY <2>1, <2>2, PinnedAdds
  <2>4. Sound(each(k, v), t, free, math, done) /\ Read(each(k, v).out).esc = ""
        /\ ~ Hot(each(k, v))
    BY <2>1, <2>2, <2>3, AddedReads
  <2> QED BY <2>4 DEF Sound
<1>6. \A k \in 0 .. n : inv[k] = W
  OBVIOUS
<1>7. \A k \in 1 .. n : \A v \in W : step[<<k, v>>] = each(k, v)
  OBVIOUS
<1> HIDE DEF W, n, each, base, inv, step
<1>8. \A k \in 1 .. n : k \in 0 .. n /\ k - 1 \in 0 .. n /\ k # 0
  BY <1>2
<1>9. PICK f : Loops(f, n, base, inv, step)
  <2>1. \A k \in 1 .. n : \A v \in inv[k - 1] : step[<<k, v>>] \in inv[k]
    <3> SUFFICES ASSUME NEW k \in 1 .. n, NEW v \in inv[k - 1]
                 PROVE  step[<<k, v>>] \in inv[k]
      OBVIOUS
    <3>1. k \in 0 .. n /\ k - 1 \in 0 .. n
      BY <1>8
    <3>2. v \in W
      BY <1>6, <3>1
    <3> QED BY <1>5, <1>6, <1>7, <3>1, <3>2
  <2>2. \A k \in 0 .. n : inv[k] \subseteq W
    BY <1>6
  <2>3. base \in inv[0]
    BY <1>1, <1>4, <1>6
  <2> QED BY <1>1, <1>4, <2>1, <2>2, <2>3, Looped
<1>10. f = body(f)
  <2>1. ASSUME NEW k \in 0 .. n
        PROVE  f[k] = IF k = 0 THEN base ELSE each(k, f[k - 1])
    <3>1. k # 0 => k \in 1 .. n /\ k - 1 \in 0 .. n
      BY <1>2
    <3> QED BY <1>6, <1>7, <1>9, <3>1 DEF Loops
  <2> QED BY <1>9, <2>1 DEF Loops, base
<1>11. g = body(g)
  BY <1>10
<1> HIDE DEF g
<1>12. g[0] = base /\ \A k \in 1 .. n : g[k] = each(k, g[k - 1])
  BY <1>1, <1>8, <1>11 DEF base
<1> DEFINE T == {k \in 0 .. n : g[k] \in W}
<1>13. \A k \in 0 .. n : k \in T
  <2>1. 0 \in T
    BY <1>1, <1>4, <1>12
  <2>2. ASSUME NEW k \in 1 .. n, k - 1 \in T
        PROVE  k \in T
    BY <1>5, <1>8, <1>12, <2>2
  <2> HIDE DEF T
  <2> QED BY <1>1, <2>1, <2>2, StepByStep
<1>14. g[IF whole THEN n ELSE 0] \in W
  BY <1>1, <1>13
<1> QED BY <1>3, <1>14 DEF W, Behind

\* A piece behind another than a backslash is not escaped.
LEMMA NotEscaped ==
  ASSUME NEW t, NEW i \in Nat, 1 <= i, i = 1 \/ t[i - 1] # "bs"
  PROVE  ~ Escaped(t, i)
<1>1. CASE i = 1
  BY <1>1, EscapedNext
<1>2. CASE i # 1
  <2>1. i - 1 \in Nat /\ 1 <= i - 1 /\ (i - 1) + 1 = i
    BY <1>2
  <2>2. Escaped(t, (i - 1) + 1) <=> t[i - 1] = "bs" /\ ~ Escaped(t, i - 1)
    BY <2>1, EscapedNext
  <2> QED BY <1>2, <2>1, <2>2
<1> QED BY <1>1, <1>2

\* A backslash does not escape markers, "w", "$", blanks and statements before it.
LEMMA BackslashApart ==
  /\ "bs" \notin Ids /\ "bs" \notin DOMAIN Stmts /\ "bs" \notin White
  /\ "$" \notin Ids /\ "$" \notin DOMAIN Stmts
  /\ \A x \in Ids \cup DOMAIN Stmts : x \notin {"w", "_", "<"}
BY PiecesAssumption DEF Characters, White

\* Neither at a marker nor behind it is anything escaped.
LEMMA MarkerEdges ==
  ASSUME NEW t, Typed(t), NEW m \in MarkersOf(t)
  PROVE  ~ Escaped(t, m.lo) /\ ~ Escaped(t, m.hi) /\ Parted(t, m.lo) /\ Parted(t, m.hi)
<1>1. ~ Escaped(t, m.lo)
  <2> DEFINE at == {i \in DOMAIN t : t[i] \in Ids /\ ~ Escaped(t, i)}
             end(i) == CHOOSE j \in i + 1 .. End(t) : /\ \A k \in i + 1 .. j - 1 : t[k] = "w"
                                                      /\ j = End(t) \/ t[j] # "w"
  <2>1. PICK i \in at : m = [id |-> IF end(i) = i + 1 THEN t[i] ELSE "other",
                             lo |-> i, hi |-> end(i)]
    BY DEF MarkersOf
  <2> QED BY <2>1
<1>2. ~ Escaped(t, m.hi) /\ Parted(t, m.lo) /\ Parted(t, m.hi)
  <2>1. /\ m.lo \in Nat /\ m.lo >= 1 /\ m.hi \in Nat /\ m.lo < m.hi /\ t[m.lo] \in Ids
        /\ \A k \in m.lo + 1 .. m.hi - 1 : t[k] = "w"
    BY MarkerPlace
  <2>2. 1 <= m.hi /\ (m.hi - 1 = m.lo \/ m.hi - 1 \in m.lo + 1 .. m.hi - 1)
    BY <2>1
  <2>3. t[m.hi - 1] # "bs" /\ t[m.hi - 1] # "<" /\ t[m.lo] \notin {"w", "_"}
    BY <2>1, <2>2, BackslashApart
  <2> QED BY <2>1, <2>2, <2>3, NotEscaped DEF Parted
<1> QED BY <1>1, <1>2

\* Nor at a statement or behind it.
LEMMA StatementEdges ==
  ASSUME NEW t, Typed(t), NEW i \in StmtsOf(t)
  PROVE  ~ Escaped(t, i) /\ ~ Escaped(t, i + 1) /\ Parted(t, i) /\ Parted(t, i + 1)
<1>1. i \in Nat /\ 1 <= i /\ t[i] \in DOMAIN Stmts /\ ~ Escaped(t, i)
  BY StatementPlace DEF StmtsOf
<1>2. 1 <= i + 1 /\ i + 1 \in Nat /\ (i + 1) - 1 = i
  BY <1>1
<1>3. t[i] # "bs" /\ t[i] \notin {"w", "_", "<"}
  BY <1>1, BackslashApart
<1>4. Parted(t, i) /\ Parted(t, i + 1)
  BY <1>2, <1>3 DEF Parted
<1> QED BY <1>1, <1>2, <1>3, <1>4, NotEscaped

\* Segments begin behind a marker and end at one.
LEMMA SegmentEdges ==
  ASSUME NEW t, Typed(t), NEW s \in Segments(t)
  PROVE  ~ Escaped(t, s.lo) /\ ~ Escaped(t, s.hi) /\ Parted(t, s.lo) /\ Parted(t, s.hi)
<1> DEFINE markers == MarkersOf(t)
<1>1. PICK i \in StmtsOf(t) :
        \E e \in SpanOf(markers, t[i]) :
          s = [at |-> i, kind |-> Stmts[t[i]].kind, lo |-> e[1], hi |-> e[2]]
  BY DEF Segments
<1>2. PICK e \in SpanOf(markers, t[i]) :
         s = [at |-> i, kind |-> Stmts[t[i]].kind, lo |-> e[1], hi |-> e[2]]
  BY <1>1
<1>3. PICK m \in markers, n \in markers : e = <<m.hi, n.lo>>
  <2>1. \A id : Named(markers, id) \subseteq markers
    BY DEF Named
  <2>2. PICK p \in Named(markers, Stmts[t[i]].from) \X Named(markers, Stmts[t[i]].to) :
           e = <<p[1].hi, p[2].lo>>
    BY DEF SpanOf
  <2> HIDE DEF markers
  <2>3. p[1] \in markers /\ p[2] \in markers
    BY <2>1, <2>2
  <2> QED BY <2>2, <2>3
<1>4. s.lo = m.hi /\ s.hi = n.lo
  BY <1>2, <1>3
<1> QED BY <1>3, <1>4, MarkerEdges

-----------------------------------------------------------------------------
\* A part that a backslash neither begins nor is cut off from a piece it escapes,
\* nor a marker from its letters; nor does it begin behind a "<".
Rounded(t, r) ==
  /\ InText(t, r) /\ ~ Escaped(t, r[1])
  /\ r[2] = End(t) \/ t[r[2]] \in White
  /\ r[1] = 1 \/ t[r[1] - 1] # "<"

\* The whole text is one, and so is each block.
LEMMA BlockRounded ==
  ASSUME NEW t, Typed(t), NEW r \in Blocks(t)
  PROVE  Rounded(t, r)
<1> DEFINE solid == {i \in DOMAIN t : t[i] \notin White}
           joined(i, j) == \A b \in Breaks(t) : ~ (i < b /\ b < j)
           first == {i \in solid : \A j \in solid : j < i => ~ joined(j, i)}
           last(i) == CHOOSE j \in solid : i <= j /\ joined(i, j)
                                           /\ \A k \in solid : k > j => ~ joined(i, k)
<1>1. DOMAIN t = 1 .. Len(t) /\ Len(t) \in Nat /\ End(t) = Len(t) + 1
  BY LenProperties DEF Typed, End
<1>2. PICK i \in first : r = <<i, last(i) + 1>>
  BY DEF Blocks
<1>3. i \in solid /\ i \in Nat /\ 1 <= i /\ i <= Len(t)
  BY <1>1, <1>2
<1>4. \A b \in Breaks(t) : b \in Nat /\ t[b] = "nl"
  BY <1>1 DEF Breaks
<1>5. last(i) \in solid /\ i <= last(i) /\ joined(i, last(i))
      /\ \A k \in solid : k > last(i) => ~ joined(i, k)
  <2> DEFINE S == {j \in solid : i <= j /\ joined(i, j)}
  <2>1. joined(i, i)
    BY <1>3, <1>4
  <2>2. S \in SUBSET Nat /\ (\A k \in S : k <= Len(t)) /\ i \in S
    BY <1>1, <1>3, <2>1
  <2>3. PICK j \in S : \A k \in S : k <= j
    <3> HIDE DEF S
    <3>1. S # {}
      BY <2>2
    <3> QED BY <1>1, <2>2, <3>1, GreatestExists
  <2>4. j \in Nat /\ i <= j
    BY <2>2, <2>3
  <2>5. ASSUME NEW k \in solid, k > j
        PROVE  ~ joined(i, k)
    <3>1. k \in Nat
      BY <1>1
    <3>2. ~ (k <= j) /\ i <= k
      BY <1>3, <2>4, <2>5, <3>1
    <3>3. k \notin S
      BY <2>3, <3>2
    <3> QED BY <3>2, <3>3
  <2>6. \E l \in solid : i <= l /\ joined(i, l) /\ \A k \in solid : k > l => ~ joined(i, k)
    BY <2>3, <2>5
  <2> QED BY <2>6
<1> HIDE DEF last
<1>6. PICK j \in 1 .. Len(t) : last(i) = j
  BY <1>1, <1>5
<1>7. r[1] = i /\ r[2] = j + 1 /\ j \in Nat /\ j <= Len(t)
  BY <1>1, <1>2, <1>6
<1>8. InText(t, r)
  BY BlockPlace
<1>9. i = 1 \/ t[i - 1] \in White
  <2> SUFFICES ASSUME i # 1, t[i - 1] \notin White
               PROVE  FALSE
    OBVIOUS
  <2>1. i - 1 \in 1 .. Len(t) /\ i - 1 < i
    BY <1>1, <1>3
  <2>2. i - 1 \in solid
    BY <1>1, <2>1
  <2>3. ~ joined(i - 1, i)
    BY <1>2, <2>1, <2>2
  <2>4. PICK b \in Breaks(t) : i - 1 < b /\ b < i
    BY <2>3
  <2> QED BY <1>3, <1>4, <2>4
<1>10. ASSUME j + 1 # End(t), t[j + 1] \notin White
       PROVE  FALSE
  <2>1. j + 1 \in 1 .. Len(t) /\ j + 1 > j
    BY <1>1, <1>7, <1>10
  <2>2. j + 1 \in solid
    BY <1>1, <1>10, <2>1
  <2>3. ~ joined(i, j + 1)
    BY <1>5, <1>6, <2>1, <2>2
  <2>4. PICK b \in Breaks(t) : i < b /\ b < j + 1
    BY <2>3
  <2>5. ~ (i < b /\ b < j)
    BY <1>5, <1>6
  <2>6. b = j
    BY <1>3, <1>4, <1>7, <2>4, <2>5
  <2>7. t[j] = "nl" /\ t[j] \notin White
    BY <1>4, <1>5, <1>6, <2>6
  <2> QED BY <2>7 DEF White
<1>11. ~ Escaped(t, i) /\ (i = 1 \/ t[i - 1] # "<")
  <2>1. "<" \notin White
    BY DEF White
  <2> QED BY <1>3, <1>9, <2>1, NotEscaped, BackslashApart
<1> QED BY <1>7, <1>8, <1>10, <1>11 DEF Rounded

\* A marker that begins in such a part ends in it.
LEMMA MarkerIn ==
  ASSUME NEW t, Typed(t), NEW r, Rounded(t, r), NEW m \in MarkersOf(t),
         r[1] <= m.lo, m.lo < r[2]
  PROVE  m \in MarkersIn(t, r)
<1>1. /\ m.lo \in Nat /\ m.hi \in Nat /\ m.lo < m.hi /\ m.hi <= End(t)
      /\ \A k \in m.lo + 1 .. m.hi - 1 : t[k] = "w"
  BY MarkerPlace
<1>2. r[2] \in Nat /\ (r[2] = End(t) \/ t[r[2]] \in White)
  BY RangeBounds DEF Rounded
<1>3. m.hi <= r[2]
  <2> SUFFICES ASSUME ~ (m.hi <= r[2])
               PROVE  FALSE
    OBVIOUS
  <2>1. r[2] \in m.lo + 1 .. m.hi - 1
    BY <1>1, <1>2
  <2>2. t[r[2]] = "w" /\ "w" \notin White
    BY <1>1, <2>1 DEF White
  <2>3. r[2] # End(t)
    <3>1. End(t) \in Nat
      BY LenProperties DEF End, Typed
    <3> QED BY <1>1, <1>2, <3>1
  <2> QED BY <1>2, <2>2, <2>3
<1> QED BY <1>3 DEF MarkersIn, Inside

\* A marker that is not escaped is one of the text's.
LEMMA MarkerAt ==
  ASSUME NEW t, NEW i \in DOMAIN t, t[i] \in Ids, ~ Escaped(t, i)
  PROVE  \E m \in MarkersOf(t) : m.lo = i
<1> DEFINE at == {j \in DOMAIN t : t[j] \in Ids /\ ~ Escaped(t, j)}
           end(j) == CHOOSE k \in j + 1 .. End(t) : /\ \A l \in j + 1 .. k - 1 : t[l] = "w"
                                                    /\ k = End(t) \/ t[k] # "w"
           m(j) == [id |-> IF end(j) = j + 1 THEN t[j] ELSE "other", lo |-> j, hi |-> end(j)]
<1>1. MarkersOf(t) = {m(j) : j \in at}
  BY DEF MarkersOf
<1>2. i \in at
  OBVIOUS
<1>3. m(i).lo = i
  OBVIOUS
<1> HIDE DEF at, m
<1> QED BY <1>1, <1>2, <1>3

-----------------------------------------------------------------------------
\* Where a token begins and ends nothing is escaped, and only code can begin
\* before the part.
LEMMA TokenEdges ==
  ASSUME NEW t, Typed(t), NEW r, InText(t, r), NEW o,
         NEW p \in Hidden(t, r, o) \cup Opened(t, r, o)
  PROVE  /\ ~ Escaped(t, p[1]) /\ ~ Escaped(t, p[2]) /\ p[1] <= p[2] /\ r[1] <= p[2]
         /\ Parted(t, p[1]) /\ Parted(t, p[2])
         /\ p[1] < r[1] => \E c \in Code(t, r) : p[1] = c.lo /\ r[1] < c.hi
<1> DEFINE space(hi) == IF hi < r[2] /\ t[hi] = " " THEN hi + 1 ELSE hi
<1>1. r[1] \in Nat /\ r[2] \in Nat
  BY RangeBounds
<1>2. ASSUME NEW hi \in Nat, 1 <= hi, ~ Escaped(t, hi), Parted(t, hi)
      PROVE  /\ hi <= space(hi) /\ space(hi) \in Nat /\ ~ Escaped(t, space(hi))
             /\ Parted(t, space(hi))
  <2>1. CASE hi < r[2] /\ t[hi] = " "
    <3>1. space(hi) = hi + 1 /\ (hi + 1) - 1 = hi /\ 1 <= hi + 1 /\ hi + 1 \in Nat /\ hi <= hi + 1
      <4>1. space(hi) = hi + 1
        BY <2>1
      <4>2. (hi + 1) - 1 = hi /\ 1 <= hi + 1 /\ hi + 1 \in Nat /\ hi <= hi + 1
        BY ONLY hi \in Nat
      <4> QED BY ONLY <4>1, <4>2
    <3>2. t[(hi + 1) - 1] # "bs" /\ t[(hi + 1) - 1] # "<"
      BY <2>1, <3>1
    <3>3. ~ Escaped(t, hi + 1) /\ Parted(t, hi + 1)
      BY <3>1, <3>2, NotEscaped DEF Parted
    <3> QED BY <3>1, <3>3
  <2>2. CASE ~ (hi < r[2] /\ t[hi] = " ")
    <3>1. space(hi) = hi
      BY <2>2
    <3>2. hi <= hi
      BY ONLY hi \in Nat
    <3> QED BY ONLY <1>2, <3>1, <3>2
  <2> QED BY <2>1, <2>2
<1>3. ASSUME NEW lo \in Nat, NEW hi \in Nat, 1 <= hi, lo < hi, r[1] <= lo,
             ~ Escaped(t, lo), ~ Escaped(t, hi), Parted(t, lo), Parted(t, hi),
             p = <<lo, space(hi)>> \/ p = <<lo, hi>>
      PROVE  /\ ~ Escaped(t, p[1]) /\ ~ Escaped(t, p[2]) /\ p[1] <= p[2] /\ r[1] <= p[2]
             /\ Parted(t, p[1]) /\ Parted(t, p[2]) /\ ~ (p[1] < r[1])
  <2>1. /\ hi <= space(hi) /\ space(hi) \in Nat /\ ~ Escaped(t, space(hi))
        /\ Parted(t, space(hi))
    BY <1>2, <1>3
  <2> HIDE DEF space
  <2>2. CASE p = <<lo, space(hi)>>
    BY <1>1, <1>3, <2>1, <2>2
  <2>3. CASE p = <<lo, hi>>
    BY <1>1, <1>3, <2>3
  <2> QED BY <1>3, <2>2, <2>3
<1>4. CASE \E m \in MarkersIn(t, r) : p = <<m.lo, space(m.hi)>> \/ p = <<m.lo, m.hi>>
  <2>1. PICK m \in MarkersOf(t) : /\ r[1] <= m.lo
                                  /\ p = <<m.lo, space(m.hi)>> \/ p = <<m.lo, m.hi>>
    BY <1>4 DEF MarkersIn, Inside
  <2>2. m.lo \in Nat /\ m.lo >= 1 /\ m.hi \in Nat /\ m.lo < m.hi
    BY MarkerPlace
  <2>3. /\ 1 <= m.hi /\ ~ Escaped(t, m.lo) /\ ~ Escaped(t, m.hi)
        /\ Parted(t, m.lo) /\ Parted(t, m.hi)
    BY <2>2, MarkerEdges
  <2> HIDE DEF space
  <2> QED BY <1>3, <2>1, <2>2, <2>3
<1>5. CASE \E i \in StmtsIn(t, r) : p = <<i, space(i + 1)>> \/ p = <<i, i + 1>>
  <2>1. PICK i \in StmtsOf(t) : /\ r[1] <= i
                                /\ p = <<i, space(i + 1)>> \/ p = <<i, i + 1>>
    BY <1>5 DEF StmtsIn, Inside
  <2>2. /\ i \in Nat /\ 1 <= i /\ ~ Escaped(t, i) /\ ~ Escaped(t, i + 1)
        /\ Parted(t, i) /\ Parted(t, i + 1)
    BY StatementPlace, StatementEdges
  <2>3. i + 1 \in Nat /\ 1 <= i + 1 /\ i < i + 1
    BY <2>2
  <2> HIDE DEF space
  <2> QED BY <1>3, <2>1, <2>2, <2>3
<1>6. CASE \E c \in Code(t, r) : p = <<c.lo, c.hi>>
  <2>1. PICK c \in Code(t, r) : p = <<c.lo, c.hi>>
    BY <1>6
  <2>2. c \in Segments(t) /\ r[1] < c.hi
    BY DEF Code
  <2>3. /\ c.lo \in Nat /\ c.hi \in Nat /\ c.lo <= c.hi
        /\ ~ Escaped(t, c.lo) /\ ~ Escaped(t, c.hi) /\ Parted(t, c.lo) /\ Parted(t, c.hi)
    BY <2>2, SegmentPlace, SegmentEdges
  <2> QED BY <1>1, <2>1, <2>2, <2>3
<1>7. \/ \E m \in MarkersIn(t, r) : p = <<m.lo, space(m.hi)>> \/ p = <<m.lo, m.hi>>
      \/ \E i \in StmtsIn(t, r) : p = <<i, space(i + 1)>> \/ p = <<i, i + 1>>
      \/ \E c \in Code(t, r) : p = <<c.lo, c.hi>>
  <2>1. CASE p \in Hidden(t, r, o)
    BY <2>1 DEF Hidden
  <2>2. CASE p \in Opened(t, r, o)
    BY <2>2 DEF Opened
  <2> QED BY <2>1, <2>2
<1> QED BY <1>4, <1>5, <1>6, <1>7

\* A token that is shown, and no code: it begins with a marker or a statement, and
\* the rest of it are letters.
LEMMA ShownToken ==
  ASSUME NEW t, Typed(t), NEW r, InText(t, r), NEW o, NEW p \in Opened(t, r, o),
         ~ \E c \in Code(t, r) : p = <<c.lo, c.hi>>
  PROVE  /\ p[1] \in DOMAIN t /\ p[1] \in Nat /\ p[2] \in Nat /\ ~ Escaped(t, p[1])
         /\ t[p[1]] \in Ids \cup DOMAIN Stmts
         /\ \A k \in p[1] + 1 .. p[2] - 1 : t[k] = "w"
<1>1. CASE \E m \in MarkersIn(t, r) : p = <<m.lo, m.hi>>
  <2>1. PICK m \in MarkersOf(t) : p = <<m.lo, m.hi>>
    BY <1>1 DEF MarkersIn
  <2> QED BY <2>1, MarkerPlace, MarkerEdges
<1>2. CASE \E i \in StmtsIn(t, r) : p = <<i, i + 1>>
  <2>1. PICK i \in StmtsOf(t) : p = <<i, i + 1>>
    BY <1>2 DEF StmtsIn
  <2>2. i \in DOMAIN t /\ i \in Nat /\ t[i] \in DOMAIN Stmts /\ ~ Escaped(t, i)
    BY StatementPlace, StatementEdges
  <2>3. /\ i \in DOMAIN t /\ i \in Nat /\ t[i] \in DOMAIN Stmts /\ ~ Escaped(t, i)
        /\ i + 1 \in Nat
    BY <2>2
  <2>4. \A k \in i + 1 .. (i + 1) - 1 : FALSE
    BY <2>3
  <2> QED BY <2>1, <2>3, <2>4
<1> QED BY <1>1, <1>2 DEF Opened

-----------------------------------------------------------------------------
\* A result comes after a segment of the part.
LEMMA ResultPlace ==
  ASSUME NEW t, NEW r, NEW o, NEW x \in Results(t, r, o)
  PROVE  \E s \in {e \in Segments(t) : Inside(e.lo, e.hi, r)} : x[1] = s.hi
<1> DEFINE open == {s \in Segments(t) : Inside(s.lo, s.hi, r) /\ ~ Expanded(o, s.lo, s.hi)}
           keys == {s.lo : s \in {u \in Segments(t) : u.kind = "prob"}}
           first(k) == {s \in open : s.lo = k /\ \A u \in open : u.lo = k => s.at <= u.at}
<1>1. x \in UNION {{<<s.hi, s.at>> : s \in first(k)} : k \in keys}
  BY DEF Results
<1>2. PICK k \in keys : \E s \in first(k) : x = <<s.hi, s.at>>
  BY <1>1
<1>3. PICK s \in first(k) : x = <<s.hi, s.at>>
  BY <1>2
<1> QED BY <1>3

-----------------------------------------------------------------------------
\* Bounds that are fit to begin writing at: what is escaped there is a blank, and no
\* letter is parted from a "<".
Fair(t, plan, r, b) ==
  /\ Escaped(t, b) => AtBlank(t, b)
  /\ Parted(t, b)
  /\ b < r[1] => \E c \in plan.code : b = c.lo /\ r[1] < c.hi

\* All bounds are.
LEMMA BoundsFair ==
  ASSUME NEW t, NEW r, NEW o, NEW plan, Planned(t, r, o, plan), Rounded(t, r),
         NEW b \in Bounds(t, r, plan)
  PROVE  Fair(t, plan, r, b)
<1> DEFINE clamp(i) == IF i < r[1] THEN r[1] ELSE IF i > r[2] THEN r[2] ELSE i
           alone == plan.stray \cup {i \in r[1] .. r[2] - 1 : t[i] = "nl"}
           bold == {s \in plan.bold : s.lo < r[2] /\ r[1] < s.hi}
           parts == plan.hidden \cup plan.shown \cup plan.math \cup plan.runs
           tokens == Hidden(t, r, o) \cup Opened(t, r, o)
           good(i) == Fair(t, plan, r, i)
<1>1. /\ r[1] \in Nat /\ r[2] \in Nat /\ 1 <= r[1] /\ 1 <= r[2] /\ r[1] <= r[2]
      /\ Len(t) \in Nat /\ End(t) = Len(t) + 1 /\ Typed(t) /\ InText(t, r)
  BY RangeBounds DEF Planned
<1>2. ASSUME NEW i \in Nat, r[1] <= i, ~ Escaped(t, i), Parted(t, i)
      PROVE  good(i)
  BY <1>1, <1>2 DEF Fair
<1>3. good(r[1]) /\ good(r[2])
  <2>1. good(r[1])
    <3>1. ~ Escaped(t, r[1]) /\ (r[1] = 1 \/ t[r[1] - 1] # "<")
      BY DEF Rounded
    <3>2. Parted(t, r[1])
      <4>1. r[1] = 1 => ~ (1 < r[1])
        BY <1>1
      <4> QED BY <3>1, <4>1 DEF Parted
    <3> QED BY <1>1, <1>2, <3>1, <3>2
  <2>2. AtBlank(t, r[2]) /\ Parted(t, r[2])
    <3>1. r[2] = End(t) => r[2] > Len(t) /\ ~ (r[2] <= Len(t))
      BY <1>1
    <3>2. "w" \notin White /\ "_" \notin White
      BY DEF White
    <3> QED BY <3>1, <3>2 DEF Rounded, AtBlank, Parted
  <2>3. ~ (r[2] < r[1])
    BY <1>1
  <2> QED BY <2>1, <2>2, <2>3 DEF Fair
<1>4. ASSUME NEW i \in Nat, r[1] <= i, t[i] # "bs", t[i] # "<"
      PROVE  good(i + 1)
  <2>1. i + 1 \in Nat /\ r[1] <= i + 1 /\ 1 <= i + 1 /\ (i + 1) - 1 = i
    BY <1>1, <1>4
  <2>2. ~ Escaped(t, i + 1) /\ Parted(t, i + 1)
    BY <1>4, <2>1, NotEscaped DEF Parted
  <2> HIDE DEF good
  <2> QED BY <1>2, <2>1, <2>2
<1>5. ASSUME NEW i \in Nat, r[1] <= i, i <= Len(t), t[i] \in White
      PROVE  good(i)
  <2>1. Parted(t, i)
    BY <1>5 DEF Parted, White
  <2> QED BY <1>1, <1>5, <2>1 DEF Fair, AtBlank
<1>6. ASSUME NEW i \in plan.anchors
      PROVE  good(i)
  <2>1. i \in r[1] .. r[2] /\ (i = r[1] \/ t[i - 1] = "nl")
    BY DEF Planned, Anchors
  <2>2. CASE i = r[1]
    <3> HIDE DEF good
    <3> QED BY <1>3, <2>2
  <2>3. CASE i # r[1]
    <3>1. i - 1 \in Nat /\ r[1] <= i - 1 /\ (i - 1) + 1 = i
      BY <1>1, <2>1, <2>3
    <3>2. good((i - 1) + 1)
      <4> HIDE DEF good
      <4>1. t[i - 1] # "bs" /\ t[i - 1] # "<"
        BY <2>1, <2>3
      <4> QED BY <1>4, <3>1, <4>1
    <3> QED BY <3>1, <3>2
  <2> QED BY <2>2, <2>3
<1>7. ASSUME NEW i \in alone
      PROVE  good(i) /\ good(i + 1)
  <2>1. CASE i \in plan.stray
    <3>1. i \in Dollars(t, r, tokens)
      BY <2>1 DEF Planned, Stray, Opens
    <3>2. i \in Nat /\ r[1] <= i /\ t[i] = "$"
      BY <1>1, <3>1, DollarPlace
    <3>3. ~ Escaped(t, i) /\ Parted(t, i)
      BY <3>1, <3>2 DEF Dollars, Parted
    <3> HIDE DEF good
    <3> QED BY <1>2, <1>4, <3>2, <3>3
  <2>2. CASE i \in r[1] .. r[2] - 1 /\ t[i] = "nl"
    <3>1. /\ i \in Nat /\ r[1] <= i /\ i <= Len(t) /\ t[i] \in White
          /\ t[i] # "bs" /\ t[i] # "<"
      <4>1. r[2] <= Len(t) + 1
        BY <1>1 DEF InText
      <4> QED BY <1>1, <2>2, <4>1 DEF White
    <3> HIDE DEF good
    <3> QED BY <1>4, <1>5, <3>1
  <2> QED BY <2>1, <2>2
<1>8. ASSUME NEW p \in parts
      PROVE  good(p[1]) /\ good(p[2])
  <2>1. CASE p \in plan.hidden \cup plan.shown
    <3>1. p \in tokens
      BY <2>1 DEF Planned
    <3>2. /\ ~ Escaped(t, p[1]) /\ ~ Escaped(t, p[2]) /\ r[1] <= p[2]
          /\ Parted(t, p[1]) /\ Parted(t, p[2])
          /\ p[1] < r[1] => \E c \in Code(t, r) : p[1] = c.lo /\ r[1] < c.hi
      BY <1>1, <3>1, TokenEdges
    <3>3. p[2] \in Nat
      BY <1>1, <3>1, TokenPlace
    <3>4. good(p[1])
      BY <3>2 DEF Fair, Planned
    <3> HIDE DEF good
    <3> QED BY <1>2, <3>2, <3>3, <3>4
  <2>2. CASE p \in plan.math
    <3>1. p \in Pairs(Dollars(t, r, tokens))
      BY <2>2 DEF Planned
    <3> HIDE DEF tokens
    <3>2. PICK x, y \in Dollars(t, r, tokens) : p[1] = x /\ p[2] = y + 1
      BY <1>1, <3>1, MathPlace
    <3>3. x \in Nat /\ r[1] <= x /\ y \in Nat /\ r[1] <= y /\ t[y] = "$" /\ t[x] = "$"
      BY <1>1, DollarPlace
    <3>4. ~ Escaped(t, x) /\ Parted(t, x)
      BY <3>3 DEF Dollars, Parted
    <3> HIDE DEF good
    <3> QED BY <1>2, <1>4, <3>2, <3>3, <3>4
  <2>3. CASE p \in plan.runs
    <3>1. p \in SpaceRuns(t, r)
      BY <2>3 DEF Planned
    <3>2. /\ p[1] \in Nat /\ p[2] \in Nat /\ p[1] < p[2] /\ r[1] <= p[1] /\ p[1] \in DOMAIN t
          /\ \A i \in p[1] .. p[2] - 1 : t[i] = " "
      BY <1>1, <3>1, RunPlace
    <3>3. \A x, y, z \in Nat : x < y /\ z <= x
            => /\ x \in x .. y - 1 /\ y - 1 \in x .. y - 1 /\ y - 1 \in Nat
               /\ z <= y - 1 /\ (y - 1) + 1 = y
      OBVIOUS
    <3>4. /\ p[1] \in p[1] .. p[2] - 1 /\ p[2] - 1 \in p[1] .. p[2] - 1 /\ p[2] - 1 \in Nat
          /\ r[1] <= p[2] - 1 /\ (p[2] - 1) + 1 = p[2]
      BY ONLY <1>1, <3>2, <3>3
    <3>5. t[p[1]] \in White /\ t[p[2] - 1] # "bs" /\ t[p[2] - 1] # "<" /\ p[1] <= Len(t)
      <4>1. t[p[1]] = " " /\ t[p[2] - 1] = " "
        BY <3>2, <3>4
      <4>2. p[1] <= Len(t)
        <5>1. p[1] \in 1 .. Len(t)
          BY <1>1, <3>2, RangeBounds
        <5> QED BY ONLY <1>1, <5>1
      <4> QED BY <4>1, <4>2 DEF White
    <3> HIDE DEF good
    <3>6. good(p[1])
      BY <1>5, <3>2, <3>5
    <3>7. good((p[2] - 1) + 1)
      BY <1>4, <3>4, <3>5
    <3> QED BY <3>4, <3>6, <3>7
  <2> QED BY <2>1, <2>2, <2>3
<1>9. ASSUME NEW s \in bold
      PROVE  good(clamp(s.lo)) /\ good(clamp(s.hi))
  <2>1. s \in Segments(t)
    BY DEF Planned
  <2>2. /\ s.lo \in Nat /\ s.hi \in Nat /\ ~ Escaped(t, s.lo) /\ ~ Escaped(t, s.hi)
        /\ Parted(t, s.lo) /\ Parted(t, s.hi)
    BY <1>1, <2>1, SegmentPlace, SegmentEdges
  <2>3. ASSUME NEW i \in Nat, ~ Escaped(t, i), Parted(t, i)
        PROVE  good(clamp(i))
    <3>1. clamp(i) = r[1] \/ clamp(i) = r[2] \/ (r[1] <= i /\ clamp(i) = i)
      BY <1>1
    <3> HIDE DEF clamp, good
    <3> QED BY <1>2, <1>3, <2>3, <3>1
  <2> HIDE DEF clamp, good
  <2> QED BY <2>2, <2>3
<1>10. ASSUME NEW p \in plan.results \cup plan.labels
       PROVE  good(p[1])
  <2>1. CASE p \in plan.results
    <3>1. PICK s \in Segments(t) : p[1] = s.hi /\ r[1] <= s.lo
      <4>1. PICK s \in {e \in Segments(t) : Inside(e.lo, e.hi, r)} : p[1] = s.hi
        BY <2>1, ResultPlace DEF Planned
      <4> QED BY <4>1 DEF Inside
    <3>2. /\ s.lo \in Nat /\ s.hi \in Nat /\ s.lo <= s.hi /\ ~ Escaped(t, s.hi)
          /\ Parted(t, s.hi)
      BY <1>1, SegmentPlace, SegmentEdges
    <3>3. r[1] <= s.hi
      BY <1>1, <3>1, <3>2
    <3> HIDE DEF good
    <3> QED BY <1>2, <3>1, <3>2, <3>3
  <2>2. CASE p \in plan.labels
    <3>1. PICK i \in StmtsOf(t) : p[1] = i /\ r[1] <= i
      BY <2>2 DEF Planned, Labels, StmtsIn, Inside
    <3>2. i \in Nat /\ ~ Escaped(t, i) /\ Parted(t, i)
      BY <1>1, StatementPlace, StatementEdges
    <3> HIDE DEF good
    <3> QED BY <1>2, <3>1, <3>2
  <2> QED BY <2>1, <2>2
<1> DEFINE ends == {r[1], r[2]} \cup plan.anchors
           lone == UNION {{i, i + 1} : i \in alone}
           both == UNION {{p[1], p[2]} : p \in parts}
           held == UNION {{clamp(s.lo), clamp(s.hi)} : s \in bold}
           spliced == {p[1] : p \in plan.results \cup plan.labels}
<1>11. b \in ends => good(b)
  BY <1>3, <1>6
<1>12. b \in lone => good(b)
  BY <1>7
<1>13. b \in both => good(b)
  BY <1>8
<1>14. b \in held => good(b)
  BY <1>9
<1>15. b \in spliced => good(b)
  BY <1>10
<1>16. b \in ends \/ b \in lone \/ b \in both \/ b \in held \/ b \in spliced
  BY DEF Bounds
<1> HIDE DEF ends, lone, both, held, spliced
<1> QED BY <1>11, <1>12, <1>13, <1>14, <1>15, <1>16

\* Of two offsets that follow each other one is an opening.
LEMMA NextOpens ==
  ASSUME NEW D \in SUBSET Nat, IsFiniteSet(D), NEW a \in D, NEW b \in Nexts(D, a)
  PROVE  /\ b \in D /\ a < b /\ \A k \in D : a < k => b <= k
         /\ a \in Opens(D) <=> b \notin Opens(D)
<1> DEFINE L(i) == {j \in D : j < i}
<1>1. b \in D /\ a < b /\ \A k \in D : a < k => b <= k
  BY DEF Nexts
<1>2. L(b) = L(a) \cup {a} /\ a \notin L(a)
  <2>1. \A j \in D : j < b <=> j < a \/ j = a
    <3> SUFFICES ASSUME NEW j \in D
                 PROVE  j < b <=> j < a \/ j = a
      OBVIOUS
    <3>1. j \in Nat /\ a \in Nat /\ b \in Nat /\ (a < j => b <= j)
      BY <1>1
    <3> QED BY ONLY <1>1, <3>1
  <2>2. ~ (a < a)
    OBVIOUS
  <2> QED BY <2>1, <2>2
<1>3. IsFiniteSet(L(a))
  BY FS_Subset
<1>4. a \in Opens(D) <=> Cardinality(L(a)) % 2 = 0
  BY DEF Opens
<1>5. b \in Opens(D) <=> Cardinality(L(b)) % 2 = 0
  BY <1>1 DEF Opens
<1> HIDE DEF L
<1>6. Cardinality(L(b)) = Cardinality(L(a)) + 1 /\ Cardinality(L(a)) \in Nat
  BY <1>2, <1>3, FS_AddElement, FS_CardinalityType
<1>7. \A n \in Nat : n % 2 = 0 <=> ~ ((n + 1) % 2 = 0)
  OBVIOUS
<1> QED BY <1>1, <1>4, <1>5, <1>6, <1>7

\* Every offset opens a formula, closes one, or is stray.
LEMMA Paired ==
  ASSUME NEW D \in SUBSET Nat, IsFiniteSet(D), NEW d \in D, d \notin Stray(D)
  PROVE  \E m \in Pairs(D) : m[1] <= d /\ d < m[2]
<1>1. d \in Nat /\ d <= d /\ d < d + 1
  OBVIOUS
<1>2. ASSUME NEW a \in Opens(D), NEW b \in Nexts(D, a)
      PROVE  <<a, b + 1>> \in Pairs(D)
  BY DEF Pairs
<1>3. CASE d \in Opens(D)
  <2>1. PICK b \in Nexts(D, d) : TRUE
    BY <1>3 DEF Stray
  <2>2. b \in Nat /\ d < b
    BY DEF Nexts
  <2>3. <<d, b + 1>>[1] <= d /\ d < <<d, b + 1>>[2]
    BY <1>1, <2>2
  <2> QED BY <1>2, <1>3, <2>3
<1>4. CASE d \notin Opens(D)
  <2> DEFINE L == {j \in D : j < d}
  <2>1. L # {}
    <3> SUFFICES ASSUME L = {}
                 PROVE  FALSE
      OBVIOUS
    <3>1. Cardinality(L) = 0
      <4> HIDE DEF L
      <4> QED BY FS_EmptySet
    <3>2. 0 % 2 = 0
      OBVIOUS
    <3> QED BY <1>4, <3>1, <3>2 DEF Opens
  <2>2. PICK a \in L : \A j \in L : j <= a
    <3>1. ASSUME NEW j \in L
          PROVE  j \in Nat /\ j <= d
      <4>1. j \in Nat /\ j < d
        OBVIOUS
      <4> QED BY ONLY <1>1, <4>1
    <3>2. L \in SUBSET Nat /\ (\A j \in L : j <= d)
      BY <3>1
    <3> HIDE DEF L
    <3> QED BY <1>1, <2>1, <3>2, GreatestExists
  <2>3. a \in D /\ a \in Nat /\ a < d
    OBVIOUS
  <2>4. d \in Nexts(D, a)
    <3>1. ASSUME NEW k \in D, a < k, ~ (d <= k)
          PROVE  FALSE
      <4>1. k \in Nat
        OBVIOUS
      <4>2. k < d
        BY <1>1, <3>1, <4>1
      <4>3. k <= a
        BY <2>2, <4>2
      <4> QED BY <2>3, <3>1, <4>1, <4>3
    <3> QED BY <2>3, <3>1 DEF Nexts
  <2>5. a \in Opens(D)
    BY <1>4, <2>3, <2>4, NextOpens
  <2>6. <<a, d + 1>>[1] <= d /\ d < <<a, d + 1>>[2]
    BY <1>1, <2>3
  <2> QED BY <1>2, <2>4, <2>5, <2>6
<1> QED BY <1>3, <1>4

\* A formula is from an opening to the next offset.
LEMMA PairEnds ==
  ASSUME NEW D \in SUBSET Nat, IsFiniteSet(D), NEW m \in Pairs(D)
  PROVE  \E a \in Opens(D), b \in D \ Opens(D) :
           /\ a \in D /\ a \in Nat /\ b \in Nat /\ a < b /\ m = <<a, b + 1>>
           /\ \A k \in D : a < k => b <= k
<1>1. PICK a \in Opens(D) : \E b \in Nexts(D, a) : m = <<a, b + 1>>
  BY DEF Pairs
<1>2. PICK b \in Nexts(D, a) : m = <<a, b + 1>>
  BY <1>1
<1>3. a \in D
  BY DEF Opens
<1>4. /\ b \in D /\ a < b /\ \A k \in D : a < k => b <= k
      /\ b \notin Opens(D)
  BY <1>3, NextOpens
<1> QED BY <1>2, <1>3, <1>4

\* An offset is in one formula at most; if it is one of the offsets it is at either
\* end of it, and is not stray.
LEMMA PairsApart ==
  ASSUME NEW D \in SUBSET Nat, IsFiniteSet(D), NEW m \in Pairs(D),
         NEW i \in Nat, m[1] <= i, i < m[2]
  PROVE  /\ \A n \in Pairs(D) : n[1] <= i /\ i < n[2] => n = m
         /\ i \in D => i = m[1] \/ i = m[2] - 1
         /\ i \notin Stray(D)
<1>1. PICK a \in Opens(D), b \in D \ Opens(D) :
        /\ a \in D /\ a \in Nat /\ b \in Nat /\ a < b /\ m = <<a, b + 1>>
        /\ \A k \in D : a < k => b <= k
  BY PairEnds
<1>2. m[1] = a /\ m[2] = b + 1 /\ a <= i /\ i <= b /\ m[2] - 1 = b
  <2>1. m[1] = a /\ m[2] = b + 1
    BY <1>1
  <2>2. a <= i /\ i < b + 1
    BY <2>1
  <2>3. i <= b /\ (b + 1) - 1 = b
    BY ONLY <1>1, <2>2, i \in Nat
  <2> QED BY <2>1, <2>2, <2>3
<1>3. ASSUME NEW n \in Pairs(D), n[1] <= i, i < n[2]
      PROVE  n = m
  <2>1. PICK c \in Opens(D), d \in D \ Opens(D) :
          /\ c \in D /\ c \in Nat /\ d \in Nat /\ c < d /\ n = <<c, d + 1>>
          /\ \A k \in D : c < k => d <= k
    BY PairEnds
  <2>2. c <= i /\ i <= d
    <3>1. n[1] = c /\ n[2] = d + 1
      BY <2>1
    <3>2. c <= i /\ i < d + 1
      BY <1>3, <3>1
    <3> QED BY ONLY <2>1, <3>2, i \in Nat
  <2>3. ~ (a < c)
    <3> SUFFICES ASSUME a < c
                 PROVE  FALSE
      OBVIOUS
    <3>1. b <= c
      BY <1>1, <2>1
    <3>2. b = c
      BY ONLY <1>1, <1>2, <2>1, <2>2, <3>1, i \in Nat
    <3> QED BY <3>2
  <2>4. ~ (c < a)
    <3> SUFFICES ASSUME c < a
                 PROVE  FALSE
      OBVIOUS
    <3>1. d <= a
      BY <1>1, <2>1
    <3>2. d = a
      BY ONLY <1>1, <1>2, <2>1, <2>2, <3>1, i \in Nat
    <3> QED BY <3>2
  <2>5. a = c
    BY ONLY <1>1, <2>1, <2>3, <2>4
  <2>6. b <= d /\ d <= b
    BY <1>1, <2>1, <2>5
  <2>7. b = d
    BY ONLY <1>1, <2>1, <2>6
  <2> QED BY <1>1, <2>1, <2>5, <2>7
<1>4. ASSUME i \in D
      PROVE  i = a \/ i = b
  <2>1. a < i => b <= i
    BY <1>1, <1>4
  <2> QED BY ONLY <1>1, <1>2, <2>1, i \in Nat
<1>5. ASSUME i \in Stray(D)
      PROVE  FALSE
  <2>1. i \in D /\ i \in Opens(D) /\ Nexts(D, i) = {}
    BY <1>5 DEF Stray, Opens
  <2>2. i = a
    BY <1>4, <2>1
  <2>3. b \in Nexts(D, a)
    BY <1>1 DEF Nexts
  <2> QED BY <2>1, <2>2, <2>3
<1> QED BY <1>2, <1>3, <1>4, <1>5

\* A window: from a bound to the next one.
Gap(t, r, o, plan, lo, hi) ==
  /\ Planned(t, r, o, plan) /\ Rounded(t, r)
  /\ lo \in Bounds(t, r, plan) /\ hi \in Nexts(Bounds(t, r, plan), lo)

In(lo, hi, i) == i \in Nat /\ lo <= i /\ i < hi

\* It is a range of the text that no bound is inside of.
LEMMA GapPlace ==
  ASSUME NEW t, NEW r, NEW o, NEW plan, NEW lo, NEW hi, Gap(t, r, o, plan, lo, hi)
  PROVE  /\ Typed(t) /\ InText(t, r) /\ Planned(t, r, o, plan) /\ Rounded(t, r)
         /\ lo \in Nat /\ hi \in Nat /\ 1 <= lo /\ lo < hi /\ hi <= End(t)
         /\ hi <= Len(t) + 1 /\ Len(t) \in Nat /\ IsRange(t, lo, hi)
         /\ Fair(t, plan, r, lo) /\ Fair(t, plan, r, hi)
         /\ \A e \in Bounds(t, r, plan) : e \in Nat /\ (e <= lo \/ hi <= e)
         /\ In(lo, hi, lo) /\ In(lo, hi, hi - 1) /\ (hi - 1) + 1 = hi
         /\ \A i : In(lo, hi, i) => i \in DOMAIN t /\ i \in Nat /\ 1 <= i
         /\ \A i : In(lo, hi, i) <=> i \in lo .. hi - 1
<1>1. Typed(t) /\ InText(t, r) /\ Planned(t, r, o, plan) /\ Rounded(t, r)
  BY DEF Gap, Planned
<1>2. Bounds(t, r, plan) \subseteq 1 .. End(t)
  BY <1>1, BoundsPlace
<1>3. End(t) = Len(t) + 1 /\ Len(t) \in Nat /\ DOMAIN t = 1 .. Len(t)
  BY <1>1, RangeBounds
<1>4. Bounds(t, r, plan) \subseteq Nat /\ lo \in Bounds(t, r, plan) /\ lo \in Nat
      /\ hi \in Nexts(Bounds(t, r, plan), lo)
  BY <1>2, <1>3 DEF Gap
<1>5. hi \in Bounds(t, r, plan) /\ hi \in Nat /\ lo < hi
      /\ \A e \in Bounds(t, r, plan) : e <= lo \/ hi <= e
  BY <1>4, NextBounds
<1>6. 1 <= lo /\ hi <= End(t) /\ hi <= Len(t) + 1
  BY <1>2, <1>3, <1>4, <1>5
<1>7. IsRange(t, lo, hi)
  BY <1>4, <1>5, <1>6 DEF IsRange
<1>8. Fair(t, plan, r, lo) /\ Fair(t, plan, r, hi)
  BY <1>1, <1>4, <1>5, BoundsFair
<1>9. In(lo, hi, lo) /\ In(lo, hi, hi - 1) /\ (hi - 1) + 1 = hi
  BY <1>4, <1>5 DEF In
<1>10. ASSUME NEW i, In(lo, hi, i)
       PROVE  i \in DOMAIN t /\ i \in Nat /\ 1 <= i
  <2>1. i \in Nat /\ lo <= i /\ i < hi
    BY <1>10 DEF In
  <2>2. 1 <= i /\ i <= Len(t)
    BY ONLY <1>3, <1>4, <1>5, <1>6, <2>1
  <2> QED BY <1>3, <2>1, <2>2
<1>11. \A i : In(lo, hi, i) <=> i \in lo .. hi - 1
  BY <1>4, <1>5, Between DEF In
<1> QED BY <1>1, <1>3, <1>4, <1>5, <1>6, <1>7, <1>8, <1>9, <1>10, <1>11

\* A part that one of its offsets is in holds all of it.
LEMMA GapParts ==
  ASSUME NEW t, NEW r, NEW o, NEW plan, NEW lo, NEW hi, Gap(t, r, o, plan, lo, hi),
         NEW p \in plan.hidden \cup plan.shown \cup plan.math \cup plan.runs,
         NEW i, In(lo, hi, i), p[1] <= i, i < p[2]
  PROVE  p[1] <= lo /\ lo < p[2] /\ hi <= p[2]
<1>1. /\ lo \in Nat /\ hi \in Nat /\ lo < hi /\ Planned(t, r, o, plan)
      /\ \A e \in Bounds(t, r, plan) : e \in Nat /\ (e <= lo \/ hi <= e)
  BY GapPlace
<1>2. p[1] \in Bounds(t, r, plan) /\ p[2] \in Bounds(t, r, plan)
  BY <1>1, BoundsPlace
<1>3. /\ p[1] \in Nat /\ (p[1] <= lo \/ hi <= p[1])
      /\ p[2] \in Nat /\ (p[2] <= lo \/ hi <= p[2])
  BY <1>1, <1>2
<1>4. i \in Nat /\ lo <= i /\ i < hi /\ p[1] <= i /\ i < p[2]
  BY DEF In
<1> QED BY ONLY <1>1, <1>3, <1>4

\* What is not written of the windows themselves: hidden tokens, code, and formulas
\* that are shown raw.
Quiet(plan, o, i) ==
  \/ Within(plan.hidden, i) \/ InCode(plan, i)
  \/ \E m \in plan.math : Revealed(o, m[1], m[2]) /\ m[1] <= i /\ i < m[2]

\* Code is a token.
LEMMA CodeToken ==
  ASSUME NEW t, NEW r, NEW o, NEW plan, Planned(t, r, o, plan), NEW c \in plan.code
  PROVE  <<c.lo, c.hi>> \in plan.hidden \cup plan.shown
BY PlanCode

\* If one offset of a window is quiet, so is its first.
LEMMA Quieter ==
  ASSUME NEW t, NEW r, NEW o, NEW plan, NEW lo, NEW hi, Gap(t, r, o, plan, lo, hi),
         NEW i, In(lo, hi, i), Quiet(plan, o, i)
  PROVE  Quiet(plan, o, lo)
<1>1. CASE Within(plan.hidden, i)
  <2>1. PICK p \in plan.hidden : p[1] <= i /\ i < p[2]
    BY <1>1 DEF Within
  <2>2. p[1] <= lo /\ lo < p[2]
    BY <2>1, GapParts
  <2> QED BY <2>2 DEF Within, Quiet
<1>2. CASE InCode(plan, i)
  <2>1. PICK c \in plan.code : c.lo <= i /\ i < c.hi
    BY <1>2 DEF InCode
  <2>2. <<c.lo, c.hi>> \in plan.hidden \cup plan.shown
    BY GapPlace, CodeToken
  <2> DEFINE p == <<c.lo, c.hi>>
  <2>3. p[1] = c.lo /\ p[2] = c.hi
    OBVIOUS
  <2> HIDE DEF p
  <2>4. p[1] <= lo /\ lo < p[2]
    BY <2>1, <2>2, <2>3, GapParts DEF p
  <2> QED BY <2>3, <2>4 DEF InCode, Quiet
<1>3. CASE \E m \in plan.math : Revealed(o, m[1], m[2]) /\ m[1] <= i /\ i < m[2]
  <2>1. PICK m \in plan.math : Revealed(o, m[1], m[2]) /\ m[1] <= i /\ i < m[2]
    BY <1>3
  <2>2. m[1] <= lo /\ lo < m[2]
    BY <2>1, GapParts
  <2> QED BY <2>1, <2>2 DEF Quiet
<1> QED BY <1>1, <1>2, <1>3 DEF Quiet

\* What is in no code is in the part.
LEMMA GapInside ==
  ASSUME NEW t, NEW r, NEW o, NEW plan, NEW lo, NEW hi, Gap(t, r, o, plan, lo, hi),
         ~ InCode(plan, lo)
  PROVE  /\ r[1] <= lo /\ hi <= r[2]
         /\ \A i : In(lo, hi, i) => r[1] <= i /\ i < r[2] /\ i \in r[1] .. r[2] - 1
<1>1. /\ lo \in Nat /\ hi \in Nat /\ lo < hi /\ Planned(t, r, o, plan) /\ Fair(t, plan, r, lo)
      /\ \A e \in Bounds(t, r, plan) : e \in Nat /\ (e <= lo \/ hi <= e)
  BY GapPlace
<1>2. r[1] \in Nat /\ r[2] \in Nat
  BY GapPlace, RangeBounds
<1>3. \A c \in plan.code : c.lo \in Nat /\ c.hi \in Nat /\ ~ (c.lo <= lo /\ lo < c.hi)
  <2>1. \A c \in plan.code : c.lo \in Nat /\ c.hi \in Nat
    BY <1>1, PlanCode
  <2> QED BY <2>1 DEF InCode
<1>4. r[1] <= lo
  <2> SUFFICES ASSUME lo < r[1]
               PROVE  FALSE
    BY <1>1, <1>2
  <2>1. PICK c \in plan.code : lo = c.lo /\ r[1] < c.hi
    BY <1>1 DEF Fair
  <2>2. c.lo <= lo /\ lo < c.hi
    BY <1>1, <1>2, <1>3, <2>1
  <2> QED BY <1>3, <2>2
<1>5. hi <= r[2]
  <2> SUFFICES ASSUME hi > r[2]
               PROVE  FALSE
    BY <1>1, <1>2
  <2>1. r[2] <= lo
    <3>1. r[2] \in Bounds(t, r, plan)
      BY <1>1, BoundsPlace
    <3> QED BY <1>1, <1>2, <3>1
  <2>2. hi \in Bounds(t, r, plan)
    BY DEF Gap, Nexts
  <2>3. PICK c \in plan.code : c.lo < r[2] /\ hi = c.hi
    BY <1>1, <2>2, BoundsPlace
  <2>4. c.lo <= lo /\ lo < c.hi
    BY <1>1, <1>2, <1>3, <2>1, <2>3
  <2> QED BY <1>3, <2>4
<1>6. ASSUME NEW i, In(lo, hi, i)
      PROVE  r[1] <= i /\ i < r[2] /\ i \in r[1] .. r[2] - 1
  <2>1. i \in Nat /\ lo <= i /\ i < hi
    BY <1>6 DEF In
  <2> QED BY ONLY <1>1, <1>2, <1>4, <1>5, <2>1
<1> QED BY <1>4, <1>5, <1>6

\* The "$" of a plan.
PlanDollars(t, r, o) == Dollars(t, r, Hidden(t, r, o) \cup Opened(t, r, o))

\* They are finitely many offsets, and the formulas and the stray ones are theirs.
LEMMA PlanDollarsSet ==
  ASSUME NEW t, NEW r, NEW o, NEW plan, Planned(t, r, o, plan)
  PROVE  /\ PlanDollars(t, r, o) \in SUBSET Nat /\ IsFiniteSet(PlanDollars(t, r, o))
         /\ plan.math = Pairs(PlanDollars(t, r, o))
         /\ plan.stray = Stray(PlanDollars(t, r, o))
         /\ \A d \in PlanDollars(t, r, o) : /\ t[d] = "$" /\ ~ Escaped(t, d)
                                            /\ ~ Within(plan.hidden, d)
                                            /\ ~ Within(plan.shown, d)
<1>1. Typed(t) /\ InText(t, r)
  BY DEF Planned
<1>2. r[1] \in Nat /\ r[2] \in Nat
  BY <1>1, RangeBounds
<1>3. PlanDollars(t, r, o) \subseteq r[1] .. r[2] - 1
  BY DEF PlanDollars, Dollars
<1>4. IsFiniteSet(r[1] .. r[2] - 1)
  <2>1. r[2] - 1 \in Int /\ r[1] \in Int
    BY <1>2
  <2> QED BY <2>1, FS_Interval
<1>5. IsFiniteSet(PlanDollars(t, r, o))
  BY <1>3, <1>4, FS_Subset
<1>6. PlanDollars(t, r, o) \in SUBSET Nat
  BY <1>2, <1>3, Between
<1>7. plan.math = Pairs(PlanDollars(t, r, o)) /\ plan.stray = Stray(PlanDollars(t, r, o))
  BY DEF Planned, PlanDollars
<1>8. ASSUME NEW d \in PlanDollars(t, r, o)
      PROVE  /\ t[d] = "$" /\ ~ Escaped(t, d)
             /\ ~ Within(plan.hidden, d) /\ ~ Within(plan.shown, d)
  <2>1. t[d] = "$" /\ ~ Escaped(t, d) /\ ~ Within(Hidden(t, r, o) \cup Opened(t, r, o), d)
    BY DEF PlanDollars, Dollars
  <2> QED BY <2>1 DEF Within, Planned
<1> QED BY <1>5, <1>6, <1>7, <1>8

\* A window of text that is in no token.
Bare(plan, lo) == ~ Within(plan.hidden, lo) /\ ~ Within(plan.shown, lo) /\ ~ InCode(plan, lo)

\* No offset of such a window is in a token.
LEMMA BareInside ==
  ASSUME NEW t, NEW r, NEW o, NEW plan, NEW lo, NEW hi, Gap(t, r, o, plan, lo, hi),
         Bare(plan, lo), NEW i, In(lo, hi, i)
  PROVE  ~ Within(plan.hidden, i) /\ ~ Within(plan.shown, i)
<1>1. \A p \in plan.hidden \cup plan.shown : ~ (p[1] <= i /\ i < p[2])
  <2> SUFFICES ASSUME NEW p \in plan.hidden \cup plan.shown, p[1] <= i, i < p[2]
               PROVE  FALSE
    OBVIOUS
  <2>1. p[1] <= lo /\ lo < p[2]
    BY GapParts
  <2> QED BY <2>1 DEF Within, Bare
<1> QED BY <1>1 DEF Within

\* A formula that one of its offsets is in: there is no other, and it has all of it.
LEMMA FormulaAt ==
  ASSUME NEW t, NEW r, NEW o, NEW plan, NEW lo, NEW hi, Gap(t, r, o, plan, lo, hi),
         NEW m \in plan.math, NEW i, In(lo, hi, i), m[1] <= i, i < m[2]
  PROVE  /\ m[1] <= lo /\ lo < m[2] /\ hi <= m[2] /\ m[1] \in Nat /\ m[2] \in Nat
         /\ \A n \in plan.math : \A k : In(lo, hi, k) /\ n[1] <= k /\ k < n[2] => n = m
         /\ \A k \in PlanDollars(t, r, o) : In(lo, hi, k) => k = m[1] \/ k = m[2] - 1
         /\ lo \notin plan.stray
<1> DEFINE D == PlanDollars(t, r, o)
<1>1. Planned(t, r, o, plan) /\ lo \in Nat /\ lo < hi /\ In(lo, hi, lo)
  BY GapPlace
<1>2. D \in SUBSET Nat /\ IsFiniteSet(D) /\ plan.math = Pairs(D) /\ plan.stray = Stray(D)
  BY <1>1, PlanDollarsSet
<1> HIDE DEF D
<1>3. m[1] <= lo /\ lo < m[2] /\ hi <= m[2]
  BY GapParts
<1>4. m[1] \in Nat /\ m[2] \in Nat /\ hi \in Nat
  BY <1>1, PlanMath, GapPlace
<1>5. \A n \in plan.math : n[1] <= lo /\ lo < n[2] => n = m
  BY <1>1, <1>2, <1>3, PairsApart
<1>6. ASSUME NEW n \in plan.math, NEW k, In(lo, hi, k), n[1] <= k, k < n[2]
      PROVE  n = m
  <2>1. n[1] <= lo /\ lo < n[2]
    BY <1>6, GapParts
  <2> QED BY <1>5, <2>1
<1>7. ASSUME NEW k \in D, In(lo, hi, k)
      PROVE  k = m[1] \/ k = m[2] - 1
  <2>1. k \in Nat /\ m[1] <= k /\ k < m[2]
    <3>1. k \in Nat /\ lo <= k /\ k < hi
      BY <1>7 DEF In
    <3> QED BY ONLY <1>1, <1>3, <1>4, <3>1
  <2>2. D \in SUBSET Nat /\ IsFiniteSet(D) /\ m \in Pairs(D) /\ k \in D
    BY <1>2, <1>7
  <2> QED BY ONLY <2>1, <2>2, PairsApart
<1>8. lo \notin plan.stray
  BY <1>1, <1>2, <1>3, PairsApart
<1> QED BY <1>3, <1>4, <1>6, <1>7, <1>8 DEF D

\* A "$" that nothing escapes is stray, or at an end of a formula.
LEMMA DollarIn ==
  ASSUME NEW t, NEW r, NEW o, NEW plan, NEW lo, NEW hi, Gap(t, r, o, plan, lo, hi),
         Bare(plan, lo), NEW i, In(lo, hi, i), t[i] = "$", ~ Escaped(t, i)
  PROVE  /\ i \in PlanDollars(t, r, o)
         /\ \/ i = lo /\ lo \in plan.stray
            \/ \E m \in plan.math : /\ m[1] <= i /\ i < m[2]
                                    /\ i = m[1] \/ i = m[2] - 1
<1> DEFINE D == PlanDollars(t, r, o)
<1>1. /\ Planned(t, r, o, plan) /\ i \in Nat /\ lo \in Nat
      /\ \A e \in Bounds(t, r, plan) : e \in Nat /\ (e <= lo \/ hi <= e)
  BY GapPlace
<1>2. D \in SUBSET Nat /\ IsFiniteSet(D) /\ plan.math = Pairs(D) /\ plan.stray = Stray(D)
  BY <1>1, PlanDollarsSet
<1>3. i \in D
  <2>1. i \in r[1] .. r[2] - 1
    BY GapInside DEF Bare
  <2>2. ~ Within(plan.hidden, i) /\ ~ Within(plan.shown, i)
    BY BareInside
  <2>3. ~ Within(Hidden(t, r, o) \cup Opened(t, r, o), i)
    BY <1>1, <2>2 DEF Within, Planned
  <2> QED BY <2>1, <2>3 DEF PlanDollars, Dollars
<1>4. CASE i \in plan.stray
  <2>1. i \in Bounds(t, r, plan)
    BY <1>4 DEF Bounds
  <2>2. lo <= i /\ i < hi
    BY DEF In
  <2>3. hi \in Nat
    BY GapPlace
  <2>4. i = lo
    BY <1>1, <2>1, <2>2, <2>3
  <2> QED BY <1>3, <1>4, <2>4 DEF D
<1>5. CASE i \notin plan.stray
  <2>1. PICK m \in plan.math : m[1] <= i /\ i < m[2]
    BY <1>2, <1>3, <1>5, Paired
  <2>2. i = m[1] \/ i = m[2] - 1
    BY <1>1, <1>2, <1>3, <2>1, PairsApart
  <2> QED BY <1>3, <2>1, <2>2 DEF D
<1> QED BY <1>4, <1>5

\* A marker that nothing escapes is a token.
LEMMA MarkIn ==
  ASSUME NEW t, NEW r, NEW o, NEW plan, NEW lo, NEW hi, Gap(t, r, o, plan, lo, hi),
         Bare(plan, lo), NEW i, In(lo, hi, i), t[i] \in Ids
  PROVE  Escaped(t, i)
<1> SUFFICES ASSUME ~ Escaped(t, i)
             PROVE  FALSE
  OBVIOUS
<1>1. Planned(t, r, o, plan) /\ Typed(t) /\ InText(t, r) /\ Rounded(t, r) /\ i \in DOMAIN t
      /\ i \in Nat
  BY GapPlace
<1>2. r[1] <= i /\ i < r[2]
  BY GapInside DEF Bare
<1>3. PICK m \in MarkersOf(t) : m.lo = i
  BY <1>1, MarkerAt
<1>4. m \in MarkersIn(t, r)
  BY <1>1, <1>2, <1>3, MarkerIn
<1>5. m.hi \in Nat /\ i < m.hi
  BY <1>1, <1>3, MarkerPlace
<1>6. ~ Within(plan.hidden, i) /\ ~ Within(plan.shown, i)
  BY BareInside
<1>7. CASE Revealed(o, m.lo, m.hi)
  <2>1. <<m.lo, m.hi>> \in Opened(t, r, o)
    BY <1>4, <1>7 DEF Opened
  <2> DEFINE p == <<m.lo, m.hi>>
  <2>2. p \in plan.shown /\ p[1] <= i /\ i < p[2]
    BY <1>1, <1>3, <1>5, <2>1 DEF Planned
  <2> QED BY <1>6, <2>2 DEF Within
<1>8. CASE ~ Revealed(o, m.lo, m.hi)
  <2> DEFINE e == IF m.hi < r[2] /\ t[m.hi] = " " THEN m.hi + 1 ELSE m.hi
             p == <<m.lo, e>>
  <2>1. p \in Hidden(t, r, o)
    BY <1>4, <1>8 DEF Hidden
  <2>2. e = m.hi \/ e = m.hi + 1
    OBVIOUS
  <2> HIDE DEF e
  <2>3. i < e
    BY ONLY <1>1, <1>5, <2>2
  <2>4. p \in plan.hidden
    BY <1>1, <2>1 DEF Planned
  <2>5. p[1] <= i /\ i < p[2]
    BY <1>1, <1>3, <2>3
  <2> QED BY <1>6, <2>4, <2>5 DEF Within
<1> QED BY <1>7, <1>8

-----------------------------------------------------------------------------
\* Whether one is in a formula, which is not shown raw, between two pieces.
InFormula(plan, o, b) ==
  \E m \in plan.math : ~ Revealed(o, m[1], m[2]) /\ m[1] < b /\ b < m[2]

\* It is so at both ends of a window with no "$" of a formula at either end.
LEMMA FormulaSame ==
  ASSUME NEW t, NEW r, NEW o, NEW plan, NEW lo, NEW hi, Gap(t, r, o, plan, lo, hi),
         lo \notin PlanDollars(t, r, o), hi - 1 \notin PlanDollars(t, r, o)
  PROVE  InFormula(plan, o, lo) <=> InFormula(plan, o, hi)
<1> DEFINE D == PlanDollars(t, r, o)
<1>1. Planned(t, r, o, plan) /\ lo \in Nat /\ hi \in Nat /\ lo < hi
      /\ In(lo, hi, lo) /\ In(lo, hi, hi - 1)
  BY GapPlace
<1>2. D \in SUBSET Nat /\ IsFiniteSet(D) /\ plan.math = Pairs(D)
  BY <1>1, PlanDollarsSet
<1> HIDE DEF D
<1>3. ASSUME NEW m \in plan.math
      PROVE  /\ m[1] \in Nat /\ m[2] \in Nat /\ m[1] < m[2] /\ m[1] # lo /\ m[2] # hi
             /\ m[1] <= lo /\ lo < m[2] => hi <= m[2]
             /\ m[1] <= hi - 1 /\ hi - 1 < m[2] => m[1] <= lo
  <2>1. PICK a \in Opens(D), b \in D \ Opens(D) :
          a \in D /\ a \in Nat /\ b \in Nat /\ a < b /\ m = <<a, b + 1>>
    BY <1>2, <1>3, PairEnds
  <2>2. m[1] = a /\ m[2] = b + 1
    BY <2>1
  <2>3. m[1] <= lo /\ lo < m[2] => hi <= m[2]
    BY <1>1, <1>3, FormulaAt
  <2>4. m[1] <= hi - 1 /\ hi - 1 < m[2] => m[1] <= lo
    BY <1>1, <1>3, FormulaAt
  <2>5. a # lo /\ b # hi - 1
    BY <2>1 DEF D
  <2>6. m[1] \in Nat /\ m[2] \in Nat /\ m[1] < m[2] /\ m[1] # lo /\ m[2] # hi
    BY <1>1, <2>1, <2>2, <2>5
  <2> QED BY <2>3, <2>4, <2>6
<1>4. ASSUME NEW m \in plan.math
      PROVE  m[1] < lo /\ lo < m[2] <=> m[1] < hi /\ hi < m[2]
  <2> DEFINE x == m[1]
             y == m[2]
  <2>1. /\ x \in Nat /\ y \in Nat /\ x < y /\ x # lo /\ y # hi
        /\ x <= lo /\ lo < y => hi <= y
        /\ x <= hi - 1 /\ hi - 1 < y => x <= lo
    BY <1>3, <1>4
  <2> HIDE DEF x, y
  <2>2. x < lo /\ lo < y <=> x < hi /\ hi < y
    BY ONLY <1>1, <2>1
  <2> QED BY <2>2 DEF x, y
<1> QED BY <1>4 DEF InFormula

\* One is in none where no formula is, or where it is shown raw.
LEMMA FormulaNone ==
  ASSUME NEW t, NEW r, NEW o, NEW plan, NEW lo, NEW hi, Gap(t, r, o, plan, lo, hi),
         \A m \in plan.math : m[1] <= lo /\ lo < m[2] => Revealed(o, m[1], m[2])
  PROVE  ~ InFormula(plan, o, lo) /\ ~ InFormula(plan, o, hi)
<1>1. Planned(t, r, o, plan) /\ lo \in Nat /\ hi \in Nat /\ lo < hi /\ In(lo, hi, hi - 1)
  BY GapPlace
<1>2. ASSUME NEW m \in plan.math, ~ Revealed(o, m[1], m[2])
      PROVE  ~ (m[1] < lo /\ lo < m[2]) /\ ~ (m[1] < hi /\ hi < m[2])
  <2> DEFINE x == m[1]
             y == m[2]
  <2>1. x \in Nat /\ y \in Nat /\ ~ (x <= lo /\ lo < y)
    BY <1>1, <1>2, PlanMath
  <2>2. x <= hi - 1 /\ hi - 1 < y => x <= lo /\ lo < y
    BY <1>1, <1>2, GapParts
  <2> HIDE DEF x, y
  <2>3. ~ (x < lo /\ lo < y) /\ ~ (x < hi /\ hi < y)
    BY ONLY <1>1, <2>1, <2>2
  <2> QED BY <2>3 DEF x, y
<1> QED BY <1>2 DEF InFormula

\* In a formula that is not shown raw one is behind its first "$" and before its last.
LEMMA FormulaIn ==
  ASSUME NEW t, NEW r, NEW o, NEW plan, NEW lo, NEW hi, Gap(t, r, o, plan, lo, hi),
         NEW m \in plan.math, m[1] <= lo, lo < m[2], ~ Revealed(o, m[1], m[2])
  PROVE  /\ InFormula(plan, o, lo) <=> m[1] < lo
         /\ InFormula(plan, o, hi) <=> hi < m[2]
<1>1. Planned(t, r, o, plan) /\ lo \in Nat /\ hi \in Nat /\ lo < hi
      /\ In(lo, hi, lo) /\ In(lo, hi, hi - 1)
  BY GapPlace
<1>2. \A n \in plan.math : \A k : In(lo, hi, k) /\ n[1] <= k /\ k < n[2] => n = m
  BY <1>1, FormulaAt
<1>3. ASSUME NEW n \in plan.math
      PROVE  /\ n[1] < lo /\ lo < n[2] => n = m
             /\ n[1] < hi /\ hi < n[2] => n = m
  <2>1. n[1] \in Nat /\ n[2] \in Nat
    BY <1>1, <1>3, PlanMath
  <2>2. n[1] < lo /\ lo < n[2] => n[1] <= lo
    BY <1>1, <2>1
  <2>3. n[1] < hi /\ hi < n[2] => n[1] <= hi - 1 /\ hi - 1 < n[2]
    BY <1>1, <2>1
  <2> QED BY <1>1, <1>2, <1>3, <2>2, <2>3
<1>4. m[1] < hi
  BY <1>1, PlanMath
<1> QED BY <1>3, <1>4 DEF InFormula

\* Its ends are two "$" that nothing escapes.
LEMMA FormulaFirst ==
  ASSUME NEW t, NEW r, NEW o, NEW plan, Planned(t, r, o, plan), NEW m \in plan.math
  PROVE  /\ m[1] \in PlanDollars(t, r, o) /\ m[2] - 1 \in PlanDollars(t, r, o)
         /\ m[1] \in Nat /\ m[2] \in Nat /\ m[1] < m[2] - 1 /\ m[2] - 1 \in Nat
         /\ t[m[1]] = "$" /\ ~ Escaped(t, m[1])
         /\ t[m[2] - 1] = "$" /\ ~ Escaped(t, m[2] - 1)
<1> DEFINE D == PlanDollars(t, r, o)
<1>1. /\ D \in SUBSET Nat /\ IsFiniteSet(D) /\ plan.math = Pairs(D)
      /\ \A d \in D : t[d] = "$" /\ ~ Escaped(t, d)
  BY PlanDollarsSet
<1> HIDE DEF D
<1>2. PICK a \in Opens(D), b \in D \ Opens(D) :
        a \in D /\ a \in Nat /\ b \in Nat /\ a < b /\ m = <<a, b + 1>>
  BY <1>1, PairEnds
<1>3. m[1] = a /\ m[2] = b + 1 /\ (b + 1) - 1 = b /\ b + 1 \in Nat /\ b \in D
  BY <1>2
<1> QED BY <1>1, <1>2, <1>3 DEF D

\* Of what is written up to an offset, nothing is wrong; a backslash is read when it is
\* one of the document's that escapes what is there, and of a run of spaces that is
\* written the first space is before it.
Clean(t, plan, o, w, b) ==
  /\ Sound(w, t, LeftBare(t, plan, o), InFormula(plan, o, b), w.done)
  /\ Read(w.out).esc = "bs" => Escaped(t, b) /\ ~ Quiet(plan, o, b - 1)
  /\ Hot(w) => LeftBare(t, plan, o) # {} \/ (Angled(t, b) /\ ~ Quiet(plan, o, b - 1))
  /\ \A tag \in w.done : tag[2] < b

\* What is noted to be written is so of offsets.
LEMMA RunTags ==
  ASSUME NEW w \in Writers
  PROVE  \A tag \in w.done : tag[2] \in Nat
<1>1. w.done \in SUBSET ({"run", "code", "math"} \X Nat)
  BY DEF Writers
<1> QED BY ONLY <1>1

\* Only whether one is in a formula matters.
LEMMA SoundSame ==
  ASSUME NEW w, NEW t, NEW free, NEW a, NEW b, a <=> b, NEW done, Sound(w, t, free, a, done)
  PROVE  Sound(w, t, free, b, done)
BY DEF Sound, Calm

\* What is read last is a backslash of the document's, or none.
LEMMA SoundEsc ==
  ASSUME NEW w, NEW t, NEW free, NEW a, NEW done, Sound(w, t, free, a, done)
  PROVE  w \in Writers /\ w.done = done /\ Read(w.out).esc \in {"", "bs"}
BY DEF Sound, Calm, States

\* So it is in what is clean; it is none where nothing is escaped.
LEMMA CleanEsc ==
  ASSUME NEW t, NEW plan, NEW o, NEW w, NEW b, Clean(t, plan, o, w, b)
  PROVE  /\ w \in Writers /\ Read(w.out).esc \in {"", "bs"}
         /\ ~ Escaped(t, b) => Read(w.out).esc = ""
BY SoundEsc DEF Clean

\* A backslash that stands before a blank.
LEMMA BlankSlips ==
  ASSUME NEW t, Typed(t), NEW i \in DOMAIN t, Escaped(t, i), t[i] \in White
  PROVE  Slipped(t)
<1>1. Len(t) \in Nat /\ DOMAIN t = 1 .. Len(t) /\ i \in Nat /\ 1 <= i /\ i <= Len(t)
  BY LenProperties DEF Typed
<1>2. i # 1
  BY NotEscaped
<1> DEFINE j == i - 1
<1>3. j \in Nat /\ 1 <= j /\ j + 1 = i /\ j \in 1 .. Len(t) - 1 /\ j <= Len(t)
  BY ONLY <1>1, <1>2
<1> HIDE DEF j
<1>4. t[j] = "bs" /\ ~ Escaped(t, j)
  BY <1>3, EscapedNext
<1> QED BY <1>3, <1>4 DEF Slipped

\* What is read at the start of a window.
LEMMA CleanReads ==
  ASSUME NEW t, NEW r, NEW o, NEW plan, NEW lo, NEW hi, Gap(t, r, o, plan, lo, hi),
         NEW w, Clean(t, plan, o, w, lo)
  PROVE  /\ Reads(w, t, LeftBare(t, plan, o), lo, InFormula(plan, o, lo), w.done)
         /\ Sound(w, t, LeftBare(t, plan, o), InFormula(plan, o, lo), w.done)
         /\ Escaped(t, lo) => t[lo] \in White /\ Slipped(t)
<1>1. /\ Fair(t, plan, r, lo) /\ In(lo, hi, lo) /\ Typed(t) /\ Len(t) \in Nat
      /\ DOMAIN t = 1 .. Len(t)
  BY GapPlace, LenProperties DEF Typed
<1>2. lo \in DOMAIN t
  BY <1>1, GapPlace
<1>3. Escaped(t, lo) => t[lo] \in White
  BY <1>1, <1>2 DEF Fair, AtBlank
<1>4. Escaped(t, lo) => Slipped(t)
  BY <1>1, <1>2, <1>3, BlankSlips
<1>5. AtPiece(Read(w.out), t, lo)
  BY <1>3 DEF AtPiece, AtBlank, Clean
<1>6. Sound(w, t, LeftBare(t, plan, o), InFormula(plan, o, lo), w.done)
  BY DEF Clean
<1>7. Hot(w) => LeftBare(t, plan, o) # {} \/ Angled(t, lo)
  BY DEF Clean
<1> QED BY <1>3, <1>4, <1>5, <1>6, <1>7 DEF Reads, Sound

\* What a window is left with that is not quiet.
LEMMA ReadsClean ==
  ASSUME NEW t, NEW r, NEW o, NEW plan, NEW lo, NEW hi, Gap(t, r, o, plan, lo, hi),
         NEW w, Clean(t, plan, o, w, lo), ~ Quiet(plan, o, lo),
         NEW math, math <=> InFormula(plan, o, hi),
         NEW v, Reads(v, t, LeftBare(t, plan, o), hi, math, w.done)
  PROVE  Clean(t, plan, o, v, hi)
<1>1. lo \in Nat /\ hi \in Nat /\ lo < hi /\ In(lo, hi, hi - 1)
  BY GapPlace
<1>2. ~ Quiet(plan, o, hi - 1)
  BY <1>1, Quieter
<1>3. Sound(v, t, LeftBare(t, plan, o), math, w.done) /\ v.done = w.done
  BY DEF Reads, Sound
<1>4. Sound(v, t, LeftBare(t, plan, o), InFormula(plan, o, hi), v.done)
  BY <1>3, SoundSame
<1>5. /\ Read(v.out).esc = "bs" => Escaped(t, hi)
      /\ Hot(v) => LeftBare(t, plan, o) # {} \/ Angled(t, hi)
  BY DEF Reads, AtPiece
<1>6. \A tag \in w.done : tag[2] \in Nat /\ tag[2] < lo
  BY CleanEsc, RunTags DEF Clean
<1>7. \A k \in Nat : k < lo => k < hi
  BY ONLY <1>1
<1> QED BY <1>2, <1>3, <1>4, <1>5, <1>6, <1>7 DEF Clean

\* Where no backslash is read.
LEMMA SoundClean ==
  ASSUME NEW t, NEW r, NEW o, NEW plan, NEW lo, NEW hi, Gap(t, r, o, plan, lo, hi),
         NEW w, Clean(t, plan, o, w, lo),
         NEW math, math <=> InFormula(plan, o, hi),
         NEW v, Sound(v, t, LeftBare(t, plan, o), math, v.done), Read(v.out).esc = "",
         Hot(v) => LeftBare(t, plan, o) # {},
         \A tag \in v.done : tag \in w.done \/ tag[2] < hi
  PROVE  Clean(t, plan, o, v, hi)
<1>1. lo \in Nat /\ hi \in Nat /\ lo < hi
  BY GapPlace
<1>2. Sound(v, t, LeftBare(t, plan, o), InFormula(plan, o, hi), v.done)
  BY SoundSame
<1>3. \A tag \in w.done : tag[2] \in Nat /\ tag[2] < lo
  BY CleanEsc, RunTags DEF Clean
<1>4. \A k \in Nat : k < lo => k < hi
  BY ONLY <1>1
<1> QED BY <1>2, <1>3, <1>4 DEF Clean

\* Nor is one where a window is quiet.
LEMMA QuietStart ==
  ASSUME NEW t, NEW r, NEW o, NEW plan, NEW lo, NEW hi, Gap(t, r, o, plan, lo, hi),
         NEW w, Clean(t, plan, o, w, lo), Quiet(plan, o, lo)
  PROVE  Read(w.out).esc = ""
<1>1. Planned(t, r, o, plan) /\ Typed(t) /\ InText(t, r) /\ lo \in Nat /\ 1 <= lo
  BY GapPlace
<1>2. ~ Escaped(t, lo) => Read(w.out).esc = ""
  BY CleanEsc
<1>3. Quiet(plan, o, lo - 1) => Read(w.out).esc = ""
  BY CleanEsc DEF Clean
<1>4. \A a \in Nat : a <= lo => a = lo \/ a <= lo - 1
  BY <1>1
<1>5. \A b \in Nat : lo < b => lo - 1 < b
  BY <1>1
<1>6. CASE Within(plan.hidden, lo)
  <2>1. PICK p \in plan.hidden : p[1] <= lo /\ lo < p[2]
    BY <1>6 DEF Within
  <2>2. p \in Hidden(t, r, o) \cup Opened(t, r, o)
    BY <1>1 DEF Planned
  <2>3. ~ Escaped(t, p[1]) /\ p[1] \in Nat /\ p[2] \in Nat
    BY <1>1, <2>2, TokenEdges, TokenPlace
  <2>4. p[1] = lo \/ (p[1] <= lo - 1 /\ lo - 1 < p[2])
    BY <1>4, <1>5, <2>1, <2>3
  <2> QED BY <1>2, <1>3, <2>3, <2>4 DEF Quiet, Within
<1>7. CASE InCode(plan, lo)
  <2>1. PICK c \in plan.code : c.lo <= lo /\ lo < c.hi
    BY <1>7 DEF InCode
  <2>2. c \in Segments(t) /\ c.lo \in Nat /\ c.hi \in Nat
    BY <1>1, PlanCode
  <2>3. ~ Escaped(t, c.lo)
    BY <1>1, <2>2, SegmentEdges
  <2>4. c.lo = lo \/ (c.lo <= lo - 1 /\ lo - 1 < c.hi)
    BY <1>4, <1>5, <2>1, <2>2
  <2> QED BY <1>2, <1>3, <2>3, <2>4 DEF Quiet, InCode
<1>8. CASE \E m \in plan.math : Revealed(o, m[1], m[2]) /\ m[1] <= lo /\ lo < m[2]
  <2>1. PICK m \in plan.math : Revealed(o, m[1], m[2]) /\ m[1] <= lo /\ lo < m[2]
    BY <1>8
  <2>2. m[1] \in Nat /\ m[2] \in Nat
    BY <1>1, PlanMath
  <2>3. ~ Escaped(t, m[1])
    BY <1>1, FormulaFirst
  <2>4. m[1] = lo \/ (m[1] <= lo - 1 /\ lo - 1 < m[2])
    BY <1>4, <1>5, <2>1, <2>2
  <2> QED BY <1>2, <1>3, <2>1, <2>3, <2>4 DEF Quiet
<1> QED BY <1>6, <1>7, <1>8 DEF Quiet

\* What is noted to be written changes nothing of it.
LEMMA NotedSound ==
  ASSUME NEW v, NEW t, NEW free, NEW math, NEW done, Sound(v, t, free, math, done),
         NEW tag \in {"run", "code", "math"} \X Nat
  PROVE  LET u == [v EXCEPT !.done = @ \cup {tag}]
         IN  Sound(u, t, free, math, u.done) /\ u.done = done \cup {tag} /\ u.out = v.out
<1> DEFINE u == [v EXCEPT !.done = @ \cup {tag}]
<1>1. v \in Writers /\ v.done = done /\ Calm(Read(v.out), t, free, Dollared(v.out), math)
  BY DEF Sound
<1> DEFINE more == v.done \cup {tag}
<1>2. u = [v EXCEPT !.done = more]
  OBVIOUS
<1>3. more \in SUBSET ({"run", "code", "math"} \X Nat)
  BY <1>1 DEF Writers
<1> HIDE DEF more, u
<1>4. u \in Writers
  BY <1>1, <1>2, <1>3 DEF Writers
<1>5. u.out = v.out /\ u.done = v.done \cup {tag}
  BY <1>1, <1>2 DEF Writers, more
<1> QED BY <1>1, <1>4, <1>5 DEF Sound, u

\* A window with nothing to write, and what is noted once.
LEMMA StaysClean ==
  ASSUME NEW t, NEW r, NEW o, NEW plan, NEW lo, NEW hi, Gap(t, r, o, plan, lo, hi),
         NEW w, Clean(t, plan, o, w, lo), Read(w.out).esc = "",
         Hot(w) => LeftBare(t, plan, o) # {},
         InFormula(plan, o, lo) <=> InFormula(plan, o, hi)
  PROVE  Clean(t, plan, o, w, hi)
<1>1. Sound(w, t, LeftBare(t, plan, o), InFormula(plan, o, lo), w.done)
  BY DEF Clean
<1>2. \A tag \in w.done : tag \in w.done \/ tag[2] < hi
  OBVIOUS
<1> DEFINE math == InFormula(plan, o, lo)
<1>3. Sound(w, t, LeftBare(t, plan, o), math, w.done) /\ (math <=> InFormula(plan, o, hi))
  BY <1>1
<1> HIDE DEF math
<1> QED BY <1>2, <1>3, SoundClean

\* What is noted to be written is not written twice.
LEMMA OnceClean ==
  ASSUME NEW t, NEW r, NEW o, NEW plan, NEW lo, NEW hi, Gap(t, r, o, plan, lo, hi),
         NEW w, Clean(t, plan, o, w, lo),
         NEW math, math <=> InFormula(plan, o, hi),
         NEW kind \in {"run", "code", "math"}, NEW at \in Nat, at < hi,
         NEW v, Sound(v, t, LeftBare(t, plan, o), math, w.done), Read(v.out).esc = "",
         Hot(v) => LeftBare(t, plan, o) # {},
         <<kind, at>> \in w.done => Clean(t, plan, o, w, hi)
  PROVE  Clean(t, plan, o, Once(w, <<kind, at>>, v), hi)
<1> DEFINE tag == <<kind, at>>
<1>1. tag \in {"run", "code", "math"} \X Nat
  OBVIOUS
<1>2. tag[2] < hi
  OBVIOUS
<1> HIDE DEF tag
<1>3. CASE tag \in w.done
  BY <1>3 DEF Once, tag
<1>4. CASE tag \notin w.done
  <2> DEFINE u == [v EXCEPT !.done = @ \cup {tag}]
  <2>1. Once(w, tag, v) = u
    BY <1>4 DEF Once, u
  <2>2. /\ Sound(u, t, LeftBare(t, plan, o), math, u.done)
        /\ u.done = w.done \cup {tag} /\ u.out = v.out
    <3> DEFINE done == w.done
               free == LeftBare(t, plan, o)
    <3>1. Sound(v, t, free, math, done)
      OBVIOUS
    <3> HIDE DEF done, free
    <3>2. Sound(u, t, free, math, u.done) /\ u.done = done \cup {tag} /\ u.out = v.out
      BY <1>1, <3>1, NotedSound
    <3> QED BY <3>2 DEF done, free
  <2> HIDE DEF u
  <2>3. \A e \in u.done : e \in w.done \/ e[2] < hi
    BY <1>2, <2>2
  <2>4. Hot(u) => LeftBare(t, plan, o) # {}
    BY <2>2 DEF Hot
  <2>5. Clean(t, plan, o, u, hi)
    BY <2>2, <2>3, <2>4, SoundClean
  <2> QED BY <2>1, <2>5 DEF tag
<1> QED BY <1>3, <1>4

\* What is in a token is no "$" of the plan.
LEMMA NoDollar ==
  ASSUME NEW t, NEW r, NEW o, NEW plan, NEW lo, NEW hi, Gap(t, r, o, plan, lo, hi),
         NEW p \in plan.hidden \cup plan.shown, p[1] <= lo, lo < p[2]
  PROVE  InFormula(plan, o, lo) <=> InFormula(plan, o, hi)
<1>1. Planned(t, r, o, plan) /\ lo \in Nat /\ hi \in Nat /\ lo < hi
      /\ In(lo, hi, lo) /\ In(lo, hi, hi - 1)
  BY GapPlace
<1>2. hi <= p[2]
  BY <1>1, GapParts
<1>3. p[1] \in Nat /\ p[2] \in Nat
  <2>1. p \in Hidden(t, r, o) \cup Opened(t, r, o) /\ Typed(t) /\ InText(t, r)
    BY <1>1 DEF Planned
  <2> QED BY <2>1, TokenPlace
<1>4. p[1] <= hi - 1 /\ hi - 1 < p[2]
  BY <1>1, <1>2, <1>3
<1>5. Within(plan.hidden, lo) \/ Within(plan.shown, lo)
  BY DEF Within
<1>6. Within(plan.hidden, hi - 1) \/ Within(plan.shown, hi - 1)
  BY <1>4 DEF Within
<1>7. lo \notin PlanDollars(t, r, o) /\ hi - 1 \notin PlanDollars(t, r, o)
  BY <1>1, <1>5, <1>6, PlanDollarsSet
<1> QED BY <1>7, FormulaSame

\* A window of a hidden token.
LEMMA HiddenClean ==
  ASSUME NEW t, NEW r, NEW o, NEW plan, NEW lo, NEW hi, Gap(t, r, o, plan, lo, hi),
         NEW w, Clean(t, plan, o, w, lo), Within(plan.hidden, lo)
  PROVE  Clean(t, plan, o, w, hi)
<1>1. Read(w.out).esc = ""
  BY QuietStart DEF Quiet
<1>2. InFormula(plan, o, lo) <=> InFormula(plan, o, hi)
  BY NoDollar DEF Within
<1>3. ASSUME Hot(w)
      PROVE  LeftBare(t, plan, o) # {}
  <2> SUFFICES ASSUME Angled(t, lo)
               PROVE  LeftBare(t, plan, o) # {}
    BY <1>3 DEF Clean
  <2>1. lo \in Nat /\ 1 < lo /\ lo <= Len(t) /\ Len(t) \in Nat /\ DOMAIN t = 1 .. Len(t)
    BY GapPlace, LenProperties DEF Typed, Angled
  <2> DEFINE i == lo - 1
  <2>2. i \in DOMAIN t /\ i + 1 = lo
    BY <2>1
  <2> HIDE DEF i
  <2>3. t[i] = "<" /\ ~ Escaped(t, i) /\ Within(plan.hidden, i + 1)
    BY <2>2 DEF Angled, i
  <2> QED BY <2>2, <2>3 DEF LeftBare
<1> QED BY <1>1, <1>2, <1>3, StaysClean

\* A window of code, which is written as a whole.
LEMMA CodeClean ==
  ASSUME NEW t, NEW r, NEW o, NEW plan, NEW lo, NEW hi, Gap(t, r, o, plan, lo, hi),
         NEW w, Clean(t, plan, o, w, lo), NEW c \in plan.code, c.lo <= lo, lo < c.hi
  PROVE  Clean(t, plan, o, Once(w, <<"code", c.lo>>, Fenced(w, t, c.lo, c.hi)), hi)
<1>1. Planned(t, r, o, plan) /\ Typed(t)
  BY GapPlace
<1>2. IsRange(t, c.lo, c.hi) /\ c.lo \in Nat
  BY <1>1, PlanCode
<1>3. Read(w.out).esc = ""
  BY QuietStart DEF Quiet, InCode
<1>4. InFormula(plan, o, lo) <=> InFormula(plan, o, hi)
  <2> DEFINE p == <<c.lo, c.hi>>
  <2>1. p \in plan.hidden \cup plan.shown /\ p[1] = c.lo /\ p[2] = c.hi
    BY <1>1, CodeToken
  <2> HIDE DEF p
  <2> QED BY <2>1, NoDollar
<1>5. <<"code", c.lo>> \in w.done => Clean(t, plan, o, w, hi)
  <2> SUFFICES ASSUME <<"code", c.lo>> \in w.done
               PROVE  Clean(t, plan, o, w, hi)
    OBVIOUS
  <2> DEFINE tag == <<"code", c.lo>>
  <2>1. tag \in w.done /\ tag[2] = c.lo
    OBVIOUS
  <2> HIDE DEF tag
  <2>2. c.lo < lo
    BY <2>1 DEF Clean
  <2>3. lo \in Nat /\ c.lo \in Nat /\ c.hi \in Nat
    BY <1>1, GapPlace, PlanCode
  <2>4. c.lo <= lo - 1 /\ lo - 1 < c.hi
    BY <2>2, <2>3
  <2>5. Quiet(plan, o, lo - 1)
    BY <2>4 DEF Quiet, InCode
  <2>6. Hot(w) => LeftBare(t, plan, o) # {}
    BY <2>5 DEF Clean
  <2> QED BY <1>3, <1>4, <2>6, StaysClean
<1> DEFINE math == InFormula(plan, o, lo)
           a == c.lo
           b == c.hi
           v == Fenced(w, t, a, b)
<1>6. Sound(w, t, LeftBare(t, plan, o), math, w.done) /\ (math <=> InFormula(plan, o, hi))
  BY <1>4 DEF Clean
<1>7. a \in Nat /\ IsRange(t, a, b) /\ a < hi
  <2>1. c.lo \in Nat /\ lo \in Nat /\ hi \in Nat /\ lo < hi
    BY <1>2, GapPlace
  <2>2. c.lo < hi
    BY <2>1
  <2> QED BY <1>2, <2>2
<1>10. <<"code", a>> \in w.done => Clean(t, plan, o, w, hi)
  BY <1>5
<1> HIDE DEF math, a, b
<1>8. Sound(v, t, LeftBare(t, plan, o), math, w.done) /\ Read(v.out).esc = "" /\ ~ Hot(v)
  BY <1>1, <1>3, <1>6, <1>7, FencedReads
<1> HIDE DEF v
<1>9. Clean(t, plan, o, Once(w, <<"code", a>>, v), hi)
  BY <1>6, <1>7, <1>8, <1>10, OnceClean
<1> QED BY <1>9 DEF v, a, b

-----------------------------------------------------------------------------
\* A copy of text in which no "$" opens or closes anything.
LEMMA EscapedReads ==
  ASSUME NEW t, Typed(t), NEW lo, NEW hi, IsRange(t, lo, hi), NEW needs, lo - 1 \notin needs,
         NEW free,
         \A i \in lo .. hi - 1 :
           /\ i \in needs => ~ Escaped(t, i) /\ t[i] # "bs"
           /\ t[i] \in Ids \cup {"_", "$"} /\ ~ Escaped(t, i) => i \in needs
           /\ t[i] \in {"w", "_"} /\ Angled(t, i) => free # {} \/ i - 1 \in needs,
         NEW done, NEW w, Reads(w, t, free, lo, FALSE, done)
  PROVE  Reads(CopyAll(w, t, lo, hi, needs), t, free, hi, FALSE, done)
<1> DEFINE math == [k \in lo .. hi |-> FALSE]
<1>1. lo \in Nat /\ hi \in Nat /\ lo <= hi /\ lo \in lo .. hi /\ hi \in lo .. hi
      /\ \A i \in lo .. hi - 1 : i \in lo .. hi /\ i + 1 \in lo .. hi
  <2>1. lo \in Nat /\ hi \in Nat /\ lo <= hi
    BY DEF IsRange
  <2> QED BY ONLY <2>1
<1>3. \A k \in lo .. hi : math[k] = FALSE
  OBVIOUS
<1> HIDE DEF math
<1>4. \A i \in lo .. hi - 1 : /\ Readable(t, free, i, needs, math[i])
                              /\ Turned(t, i, needs, math[i]) = FALSE
  <2> SUFFICES ASSUME NEW i \in lo .. hi - 1
               PROVE  Readable(t, free, i, needs, math[i]) /\ Turned(t, i, needs, math[i]) = FALSE
    OBVIOUS
  <2>1. /\ i \in needs => ~ Escaped(t, i) /\ t[i] # "bs"
        /\ t[i] \in Ids \cup {"_", "$"} /\ ~ Escaped(t, i) => i \in needs
        /\ t[i] \in {"w", "_"} /\ Angled(t, i) => free # {} \/ i - 1 \in needs
    OBVIOUS
  <2>2. math[i] = FALSE
    BY <1>1, <1>3
  <2>3. Readable(t, free, i, needs, math[i])
    BY <2>1, <2>2 DEF Readable
  <2>4. Turned(t, i, needs, math[i]) = FALSE
    BY <2>1, <2>2 DEF Turned
  <2> QED BY <2>3, <2>4
<1>5. \A i \in lo .. hi - 1 : math[i + 1] = Turned(t, i, needs, math[i])
  BY <1>1, <1>3, <1>4
<1>6. \A i \in lo .. hi : math[i] \in BOOLEAN
  BY <1>3
<1>7. Reads(w, t, free, lo, math[lo], done)
  BY <1>1, <1>3
<1>8. Reads(CopyAll(w, t, lo, hi, needs), t, free, hi, math[hi], done)
  BY <1>4, <1>5, <1>6, <1>7, CopyAllReads
<1> QED BY <1>1, <1>3, <1>8

\* A window of a formula that is shown raw, as a whole.
LEMMA FormulaClean ==
  ASSUME NEW t, NEW r, NEW o, NEW plan, NEW lo, NEW hi, Gap(t, r, o, plan, lo, hi),
         NEW w, Clean(t, plan, o, w, lo), NEW m \in plan.math, m[1] <= lo, lo < m[2],
         Revealed(o, m[1], m[2])
  PROVE  Clean(t, plan, o, Once(w, <<"math", m[1]>>, RawMath(w, t, m[1], m[2])), hi)
<1>1. Planned(t, r, o, plan) /\ Typed(t) /\ lo \in Nat /\ In(lo, hi, lo)
  BY GapPlace
<1>2. IsRange(t, m[1], m[2])
  BY <1>1, PlanMath
<1>3. Read(w.out).esc = ""
  BY QuietStart DEF Quiet
<1>4. \A n \in plan.math : n[1] <= lo /\ lo < n[2] => Revealed(o, n[1], n[2])
  BY <1>1, FormulaAt
<1>5. ~ InFormula(plan, o, lo) /\ ~ InFormula(plan, o, hi)
  BY <1>4, FormulaNone
<1>7. /\ m[1] \in Nat /\ m[2] \in Nat /\ m[2] - 1 \in Nat /\ m[1] < m[2] - 1
      /\ ~ Escaped(t, m[1]) /\ t[m[1]] = "$" /\ t[m[2] - 1] = "$"
  BY <1>1, FormulaFirst, PlanDollarsSet
<1>17. m[1] < lo /\ Hot(w) => LeftBare(t, plan, o) # {}
  <2> SUFFICES ASSUME m[1] < lo
               PROVE  Quiet(plan, o, lo - 1)
    BY DEF Clean
  <2>1. m[1] <= lo - 1 /\ lo - 1 < m[2]
    BY <1>1, <1>7
  <2> QED BY <2>1 DEF Quiet
<1>6. <<"math", m[1]>> \in w.done => Clean(t, plan, o, w, hi)
  <2> SUFFICES ASSUME <<"math", m[1]>> \in w.done
               PROVE  Clean(t, plan, o, w, hi)
    OBVIOUS
  <2> DEFINE tag == <<"math", m[1]>>
  <2>1. tag \in w.done /\ tag[2] = m[1]
    OBVIOUS
  <2> HIDE DEF tag
  <2>2. m[1] < lo
    BY <2>1 DEF Clean
  <2> QED BY <1>3, <1>5, <1>17, <2>2, StaysClean
<1>8. Sound(w, t, LeftBare(t, plan, o), FALSE, w.done)
  <2>1. Sound(w, t, LeftBare(t, plan, o), InFormula(plan, o, lo), w.done)
    BY DEF Clean
  <2> QED BY <1>5, <2>1, SoundSame
<1>9. Reads(w, t, LeftBare(t, plan, o), m[1], FALSE, w.done)
  <2>1. m[1] = lo \/ m[1] < lo
    BY <1>1, <1>7
  <2>2. Hot(w) => LeftBare(t, plan, o) # {} \/ Angled(t, m[1])
    BY <1>17, <2>1 DEF Clean
  <2> QED BY <1>3, <1>7, <1>8, <2>2 DEF Reads, Sound, AtPiece
<1> DEFINE needs == Unescaped(t, m[1], m[2], Ids \cup {"_", "$"})
           v == RawMath(w, t, m[1], m[2])
           a == m[1]
           b == m[2]
<1>10. \A i : i \in needs <=> /\ i \in a .. b - 1 /\ ~ Escaped(t, i)
                               /\ t[i] \in Ids \cup {"_", "$"}
  BY DEF Unescaped
<1>11. v = CopyAll(w, t, a, b, needs)
  BY DEF RawMath
<1>18. IsRange(t, a, b) /\ a \in Nat /\ b \in Nat /\ t[a] = "$" /\ End(t) = Len(t) + 1
       /\ Len(t) \in Nat /\ DOMAIN t = 1 .. Len(t)
  BY <1>1, <1>2, <1>7, LenProperties DEF Typed, End
<1>19. Reads(w, t, LeftBare(t, plan, o), a, FALSE, w.done)
  BY <1>9
<1>20. \A i : i \in DOMAIN t /\ t[i] = "<" /\ ~ Escaped(t, i) /\ a <= i /\ i < b
               => LeftBare(t, plan, o) # {}
  BY DEF LeftBare
<1> HIDE DEF needs, v, a, b
<1>21. a - 1 \notin needs
  <2>1. ~ (a - 1 \in a .. b - 1)
    BY ONLY <1>18
  <2> QED BY <1>10, <2>1
<1>22. ASSUME NEW i \in a .. b - 1
       PROVE  /\ i \in needs => ~ Escaped(t, i) /\ t[i] # "bs"
              /\ t[i] \in Ids \cup {"_", "$"} /\ ~ Escaped(t, i) => i \in needs
              /\ t[i] \in {"w", "_"} /\ Angled(t, i)
                   => LeftBare(t, plan, o) # {} \/ i - 1 \in needs
  <2>1. i \in needs => ~ Escaped(t, i) /\ t[i] # "bs"
    BY <1>10, BackslashApart
  <2>2. t[i] \in Ids \cup {"_", "$"} /\ ~ Escaped(t, i) => i \in needs
    BY <1>10
  <2>3. ASSUME t[i] \in {"w", "_"}, Angled(t, i)
        PROVE  LeftBare(t, plan, o) # {}
    <3>1. i # a
      BY <1>18, <2>3
    <3>2. 1 <= a /\ b <= Len(t) + 1
      BY <1>18 DEF IsRange
    <3>3. i - 1 \in 1 .. Len(t) /\ a <= i - 1 /\ i - 1 < b
      BY ONLY <1>18, <3>1, <3>2, i \in a .. b - 1
    <3>4. t[i - 1] = "<" /\ ~ Escaped(t, i - 1)
      BY <2>3 DEF Angled
    <3> QED BY <1>18, <1>20, <3>3, <3>4
  <2> QED BY <2>1, <2>2, <2>3
<1>12. Reads(v, t, LeftBare(t, plan, o), b, FALSE, w.done)
  BY <1>1, <1>11, <1>18, <1>19, <1>21, <1>22, EscapedReads
<1>23. Reads(v, t, LeftBare(t, plan, o), m[2], FALSE, w.done)
  BY <1>12 DEF b
<1>24. Hot(v) => LeftBare(t, plan, o) # {}
  <2>1. ~ Angled(t, m[2])
    BY <1>7 DEF Angled
  <2> QED BY <1>23, <2>1 DEF Reads
<1>13. Sound(v, t, LeftBare(t, plan, o), FALSE, w.done)
  BY <1>12 DEF Reads, Sound
<1>14. Read(v.out).esc = ""
  <2>1. ~ Escaped(t, m[2])
    BY <1>7, NotEscaped
  <2>2. Read(v.out).esc # "bs"
    BY <1>23, <2>1 DEF Reads, AtPiece
  <2> QED BY <1>13, <2>2, SoundEsc
<1>15. a \in Nat /\ a < hi
  <2>1. lo < hi /\ hi \in Nat /\ a <= lo
    BY GapPlace DEF a
  <2> QED BY <1>1, <1>18, <2>1
<1>25. <<"math", a>> \in w.done => Clean(t, plan, o, w, hi)
  BY <1>6 DEF a
<1>16. Clean(t, plan, o, Once(w, <<"math", a>>, v), hi)
  BY <1>5, <1>13, <1>14, <1>15, <1>24, <1>25, OnceClean
<1> QED BY <1>16 DEF a, b, v

\* What is spliced in, and blanks for empty lines, are where nothing is escaped.
LEMMA SpliceEdge ==
  ASSUME NEW t, NEW r, NEW o, NEW plan, Planned(t, r, o, plan), NEW s \in Splices(plan)
  PROVE  ~ Escaped(t, s[1])
<1>1. Typed(t) /\ InText(t, r)
  BY DEF Planned
<1>2. CASE s \in Results(t, r, o)
  BY <1>1, <1>2, SplicePlace, SegmentEdges
<1>3. CASE s \in Labels(t, r, o)
  BY <1>1, <1>3, SplicePlace, StatementEdges
<1>4. CASE s \in Titles(t, r, o)
  <2>1. PICK c \in Code(t, r) : s[1] = c.lo
    BY <1>1, <1>4, SplicePlace
  <2>2. c \in Segments(t)
    BY DEF Code
  <2> QED BY <1>1, <2>1, <2>2, SegmentEdges
<1> QED BY <1>2, <1>3, <1>4 DEF Splices, Planned

\* There are finitely many splices.
LEMMA SplicesFinite ==
  ASSUME NEW t, NEW r, NEW o, NEW plan, Planned(t, r, o, plan)
  PROVE  IsFiniteSet(Splices(plan)) /\ IsFiniteSet(plan.results)
<1>1. Splices(plan) \subseteq (1 .. End(t)) \X (1 .. Len(t))
  BY SpliceOffsets
<1>2. Typed(t) /\ InText(t, r)
  BY DEF Planned
<1>3. End(t) \in Int /\ Len(t) \in Int /\ 1 \in Int
  BY <1>2, RangeBounds
<1>4. IsFiniteSet(1 .. End(t)) /\ IsFiniteSet(1 .. Len(t))
  BY <1>3, FS_Interval
<1>5. IsFiniteSet((1 .. End(t)) \X (1 .. Len(t)))
  BY <1>4, FS_Product
<1>6. plan.results \subseteq Splices(plan)
  BY DEF Splices
<1> QED BY <1>1, <1>5, <1>6, FS_Subset

\* A blank for an empty line is put at the start of a line or of the part.
LEMMA AnchorEdge ==
  ASSUME NEW t, NEW r, NEW o, NEW plan, Planned(t, r, o, plan), Rounded(t, r),
         NEW i \in plan.anchors
  PROVE  i \in Nat /\ ~ Escaped(t, i)
<1>1. /\ r[1] \in Nat /\ r[2] \in Nat /\ 1 <= r[1] /\ i \in r[1] .. r[2]
      /\ i = r[1] \/ t[i - 1] = "nl"
  BY RangeBounds DEF Planned, Anchors
<1>2. i \in Nat /\ 1 <= i
  BY <1>1
<1>3. CASE i = r[1]
  BY <1>2, <1>3 DEF Rounded
<1>4. CASE t[i - 1] = "nl"
  BY <1>2, <1>4, NotEscaped
<1> QED BY <1>1, <1>2, <1>3, <1>4

\* No backslash is read that was not before.
LEMMA AnchoredReads ==
  ASSUME NEW t, NEW free, NEW plan, NEW math, NEW done, NEW i \in Nat,
         NEW w, Sound(w, t, free, math, done),
         i \in plan.anchors => ~ Behind(w)
  PROVE  /\ Sound(Anchored(w, plan, i), t, free, math, done)
         /\ Behind(Anchored(w, plan, i)) => Behind(w)
         /\ Hot(Anchored(w, plan, i)) => Hot(w)
<1>1. CASE i \notin plan.anchors
  BY <1>1 DEF Anchored
<1>2. CASE i \in plan.anchors
  <2> DEFINE v == Put(Pin(w, i), "nbsp")
  <2>1. Anchored(w, plan, i) = v
    BY <1>2 DEF Anchored
  <2>2. "nbsp" \in Items /\ "nbsp" \in Additions \ {"fence", "esc"}
    BY DEF Items, Additions
  <2>3. Adds(v, w, "nbsp")
    BY <2>2, PinnedAdds, SoundEsc
  <2> HIDE DEF v
  <2>4. Read(w.out).esc = "bs" => Slipped(t)
    BY <1>2 DEF Behind
  <2>5. Sound(v, t, free, math, done) /\ Read(v.out).esc = "" /\ ~ Hot(v)
    BY <2>2, <2>3, <2>4, AddedReads
  <2> QED BY <1>2, <2>1, <2>5 DEF Behind
<1> QED BY <1>1, <1>2

\* A blank at the start of a window leaves what is written clean.
LEMMA AnchoredClean ==
  ASSUME NEW t, NEW r, NEW o, NEW plan, NEW lo, NEW hi, Gap(t, r, o, plan, lo, hi),
         NEW w, Clean(t, plan, o, w, lo)
  PROVE  Clean(t, plan, o, Anchored(w, plan, lo), lo)
<1>1. Planned(t, r, o, plan) /\ Rounded(t, r) /\ lo \in Nat
  BY GapPlace
<1>2. lo \in plan.anchors => ~ Behind(w)
  BY <1>1, AnchorEdge, CleanEsc DEF Behind
<1> DEFINE math == InFormula(plan, o, lo)
           done == w.done
           v == Anchored(w, plan, lo)
<1>3. Sound(w, t, LeftBare(t, plan, o), math, done)
  BY DEF Clean
<1> HIDE DEF math, done
<1>4. /\ Sound(v, t, LeftBare(t, plan, o), math, done)
      /\ (Behind(v) => Behind(w)) /\ (Hot(v) => Hot(w))
  BY <1>1, <1>2, <1>3, AnchoredReads
<1> HIDE DEF v
<1>5. v.done = w.done
  BY <1>4 DEF Sound, done
<1>6. Sound(v, t, LeftBare(t, plan, o), InFormula(plan, o, lo), v.done)
  BY <1>4, <1>5 DEF math, done
<1> QED BY <1>4, <1>5, <1>6 DEF Clean, v, Behind

\* So does what is spliced in there.
LEMMA SplicedClean ==
  ASSUME NEW t, NEW r, NEW o, NEW plan, NEW lo, NEW hi, Gap(t, r, o, plan, lo, hi),
         NEW w, Clean(t, plan, o, w, lo)
  PROVE  Clean(t, plan, o, SplicedAt(w, lo, Splices(plan)), lo)
<1>1. Planned(t, r, o, plan) /\ lo \in Nat /\ IsFiniteSet(Splices(plan))
  BY GapPlace, SplicesFinite
<1>2. \A s \in Splices(plan) : s[1] = lo => ~ Behind(w)
  BY <1>1, SpliceEdge, CleanEsc DEF Behind
<1> DEFINE math == InFormula(plan, o, lo)
           splices == Splices(plan)
           done == w.done
           v == SplicedAt(w, lo, splices)
<1>3. Sound(w, t, LeftBare(t, plan, o), math, done) /\ math \in BOOLEAN
  BY DEF Clean, InFormula
<1> HIDE DEF math, splices, done
<1>4. IsFiniteSet(splices) /\ \A s \in splices : s[1] = lo => ~ Behind(w)
  BY <1>1, <1>2 DEF splices
<1>5. /\ Sound(v, t, LeftBare(t, plan, o), math, done)
      /\ (Behind(v) => Behind(w)) /\ (Hot(v) => Hot(w))
  BY <1>1, <1>3, <1>4, SplicedReads
<1> HIDE DEF v
<1>6. v.done = w.done
  BY <1>5 DEF Sound, done
<1>7. Sound(v, t, LeftBare(t, plan, o), InFormula(plan, o, lo), v.done)
  BY <1>5, <1>6 DEF math, done
<1> QED BY <1>5, <1>6, <1>7 DEF Clean, v, Behind, splices

-----------------------------------------------------------------------------
\* A window of a token that is shown.
LEMMA ShownClean ==
  ASSUME NEW t, NEW r, NEW o, NEW plan, NEW lo, NEW hi, Gap(t, r, o, plan, lo, hi),
         NEW w, Clean(t, plan, o, w, lo), ~ Quiet(plan, o, lo), Within(plan.shown, lo)
  PROVE  Clean(t, plan, o, Raw(w, t, lo, hi), hi)
<1>1. Planned(t, r, o, plan) /\ Typed(t) /\ InText(t, r) /\ IsRange(t, lo, hi)
      /\ lo \in Nat /\ hi \in Nat /\ lo < hi
  BY GapPlace
<1>2. PICK p \in plan.shown : p[1] <= lo /\ lo < p[2]
  BY DEF Within
<1>3. p \in Opened(t, r, o) /\ plan.code = Code(t, r)
  BY <1>1 DEF Planned
<1>4. ~ \E c \in Code(t, r) : p = <<c.lo, c.hi>>
  <2> SUFFICES ASSUME NEW c \in Code(t, r), p = <<c.lo, c.hi>>
               PROVE  FALSE
    OBVIOUS
  <2>1. c.lo <= lo /\ lo < c.hi
    BY <1>2
  <2> QED BY <1>3, <2>1 DEF Quiet, InCode
<1>5. /\ p[1] \in Nat /\ p[2] \in Nat /\ ~ Escaped(t, p[1])
      /\ t[p[1]] \in Ids \cup DOMAIN Stmts
      /\ \A k \in p[1] + 1 .. p[2] - 1 : t[k] = "w"
  BY <1>1, <1>3, <1>4, ShownToken
<1>6. hi <= p[2]
  BY <1>1, <1>2, GapPlace, GapParts
<1>7. \A i \in lo .. hi - 1 : i = p[1] \/ (t[i] = "w" /\ t[i - 1] # "<")
  <2>1. \A i \in lo .. hi - 1 :
          i = p[1] \/ (/\ i \in p[1] + 1 .. p[2] - 1
                       /\ i - 1 = p[1] \/ i - 1 \in p[1] + 1 .. p[2] - 1)
    <3> DEFINE a == p[1]
               b == p[2]
    <3>1. a \in Nat /\ b \in Nat /\ a <= lo /\ hi <= b
      BY <1>2, <1>5, <1>6
    <3> HIDE DEF a, b
    <3>2. \A i \in lo .. hi - 1 :
            i = a \/ (/\ i \in a + 1 .. b - 1
                      /\ i - 1 = a \/ i - 1 \in a + 1 .. b - 1)
      BY ONLY <1>1, <3>1
    <3> QED BY <3>2 DEF a, b
  <2> QED BY <1>5, <2>1, BackslashApart
<1>8. InFormula(plan, o, lo) <=> InFormula(plan, o, hi)
  BY <1>2, NoDollar
<1> DEFINE needs == {i \in lo .. hi - 1 : t[i] \in Ids \cup DOMAIN Stmts \cup {"_", "bs"}}
                    \cup Openers(t, lo, hi)
           stays == InFormula(plan, o, lo)
           math == [k \in lo .. hi |-> stays]
<1>9. Raw(w, t, lo, hi) = CopyAll(w, t, lo, hi, needs)
  BY DEF Raw
<1>10. /\ stays \in BOOLEAN /\ (stays <=> InFormula(plan, o, hi))
       /\ Reads(w, t, LeftBare(t, plan, o), lo, stays, w.done)
  BY <1>8, CleanReads DEF InFormula
<1> HIDE DEF stays
<1>11. \A k \in lo .. hi : math[k] = stays
  OBVIOUS
<1>12. \A i \in lo .. hi - 1 : /\ Readable(t, LeftBare(t, plan, o), i, needs, stays)
                               /\ Turned(t, i, needs, stays) = stays
  <2> SUFFICES ASSUME NEW i \in lo .. hi - 1
               PROVE  /\ Readable(t, LeftBare(t, plan, o), i, needs, stays)
                      /\ Turned(t, i, needs, stays) = stays
    OBVIOUS
  <2>1. i \in needs <=> t[i] \in Ids \cup DOMAIN Stmts \cup {"_", "bs"}
    <3>1. t[i] # "<"
      BY <1>5, <1>7, BackslashApart
    <3> QED BY <3>1 DEF Openers
  <2> HIDE DEF needs
  <2>2. CASE i = p[1]
    <3>1. i \in needs /\ ~ Escaped(t, i) /\ t[i] # "bs"
      BY <1>5, <2>1, <2>2, BackslashApart
    <3>2. t[i] \notin {"w", "_"}
      BY <1>5, <2>2, BackslashApart
    <3> QED BY <3>1, <3>2 DEF Readable, Turned
  <2>3. CASE t[i] = "w" /\ t[i - 1] # "<"
    <3>1. "w" \notin Ids /\ "w" \notin DOMAIN Stmts
      BY PiecesAssumption DEF Characters
    <3>2. i \notin needs /\ t[i] \notin Ids
      BY <2>1, <2>3, <3>1
    <3> QED BY <2>3, <3>2 DEF Readable, Turned, Angled
  <2> QED BY <1>7, <2>2, <2>3
<1>19. lo - 1 \notin needs
  <2>1. ~ (lo - 1 \in lo .. hi - 1) /\ ~ (lo - 1 \in lo .. hi - 2)
    BY ONLY <1>1
  <2> QED BY <2>1 DEF Openers
<1> HIDE DEF needs, math
<1>13. /\ lo \in lo .. hi /\ hi \in lo .. hi
       /\ \A i \in lo .. hi - 1 : i \in lo .. hi /\ i + 1 \in lo .. hi
  BY ONLY <1>1
<1>14. \A i \in lo .. hi - 1 : /\ Readable(t, LeftBare(t, plan, o), i, needs, math[i])
                               /\ math[i + 1] = Turned(t, i, needs, math[i])
  BY <1>11, <1>12, <1>13
<1>15. \A i \in lo .. hi : math[i] \in BOOLEAN
  BY <1>10, <1>11
<1>16. Reads(w, t, LeftBare(t, plan, o), lo, math[lo], w.done)
  BY <1>10, <1>11, <1>13
<1>17. Reads(CopyAll(w, t, lo, hi, needs), t, LeftBare(t, plan, o), hi, math[hi], w.done)
  BY <1>1, <1>14, <1>15, <1>16, <1>19, CopyAllReads
<1>18. Reads(Raw(w, t, lo, hi), t, LeftBare(t, plan, o), hi, stays, w.done)
  BY <1>9, <1>11, <1>13, <1>17
<1> QED BY <1>10, <1>18, ReadsClean

\* A window of a run of spaces, which is written as a whole.
LEMMA RunClean ==
  ASSUME NEW t, NEW r, NEW o, NEW plan, NEW lo, NEW hi, Gap(t, r, o, plan, lo, hi),
         NEW w, Clean(t, plan, o, w, lo), ~ Within(plan.math, lo),
         NEW s \in plan.runs, s[1] <= lo, lo < s[2]
  PROVE  Clean(t, plan, o, Once(w, <<"run", s[1]>>,
                                Spaces(w, t, s, Revealed(o, s[1], s[2]))), hi)
<1>1. Planned(t, r, o, plan) /\ Typed(t) /\ lo \in Nat /\ hi \in Nat /\ 1 <= lo /\ lo < hi
  BY GapPlace
<1>2. /\ s[1] \in Nat /\ s[2] \in Nat /\ s[1] < s[2] /\ s[1] \in DOMAIN t
      /\ \A i \in s[1] .. s[2] - 1 : t[i] = " "
  BY <1>1, NoSpace
<1>3. ~ InFormula(plan, o, lo) /\ ~ InFormula(plan, o, hi)
  BY FormulaNone DEF Within
<1> DEFINE a == s[1]
           b == s[2]
           whole == Revealed(o, a, b)
           math == InFormula(plan, o, lo)
           done == w.done
           v == Spaces(w, t, s, whole)
<1>4. a \in Nat /\ b \in Nat /\ a <= lo /\ lo < b /\ a < hi
  <2>1. a \in Nat /\ b \in Nat /\ a <= lo /\ lo < b
    BY <1>2
  <2> HIDE DEF a, b
  <2>2. a < hi
    BY ONLY <1>1, <2>1
  <2> QED BY <2>1, <2>2
<1>5. t[a] = " " /\ (a < lo => t[lo - 1] = " ")
  <2>1. a \in a .. b - 1 /\ (a < lo => lo - 1 \in a .. b - 1)
    BY ONLY <1>1, <1>4
  <2> QED BY <1>2, <2>1
<1>6. <<"run", a>> \in w.done => Clean(t, plan, o, w, hi)
  <2> SUFFICES ASSUME <<"run", a>> \in w.done
               PROVE  Clean(t, plan, o, w, hi)
    OBVIOUS
  <2> DEFINE tag == <<"run", a>>
  <2>5. tag \in w.done /\ tag[2] = a
    OBVIOUS
  <2> HIDE DEF tag
  <2>1. a < lo
    BY <2>5 DEF Clean
  <2>2. t[lo - 1] # "bs" /\ t[lo - 1] # "<"
    BY <1>5, <2>1
  <2>6. Hot(w) => LeftBare(t, plan, o) # {}
    BY <2>2 DEF Clean, Angled
  <2>3. ~ Escaped(t, lo)
    BY <1>1, <2>2, NotEscaped
  <2>4. Read(w.out).esc = ""
    BY <2>3, CleanEsc
  <2> QED BY <1>3, <2>4, <2>6, StaysClean
<1>7. Sound(w, t, LeftBare(t, plan, o), math, done) /\ math \in BOOLEAN /\ whole \in BOOLEAN
      /\ (math <=> InFormula(plan, o, hi))
  BY <1>3 DEF Clean, InFormula, Revealed, Touches
<1>8. s[1] \in DOMAIN t /\ s[2] \in Nat /\ s[1] < s[2] /\ t[s[1]] = " "
  BY <1>2, <1>5
<1> HIDE DEF math, whole, done
<1>9. Sound(v, t, LeftBare(t, plan, o), math, done) /\ ~ Behind(v) /\ ~ Hot(v)
  BY <1>1, <1>7, <1>8, SpacesReads
<1>10. Read(v.out).esc = ""
  BY <1>9, SoundEsc DEF Behind
<1> HIDE DEF v, a
<1>11. Clean(t, plan, o, Once(w, <<"run", a>>, v), hi)
  BY <1>4, <1>6, <1>7, <1>9, <1>10, OnceClean DEF done
<1> QED BY <1>11 DEF v, a, b, whole

\* A stray "$".
LEMMA StrayClean ==
  ASSUME NEW t, NEW r, NEW o, NEW plan, NEW lo, NEW hi, Gap(t, r, o, plan, lo, hi),
         NEW w, Clean(t, plan, o, w, lo), ~ Quiet(plan, o, lo), lo \in plan.stray
  PROVE  Clean(t, plan, o, Literally(w, t, lo), hi)
<1>1. Planned(t, r, o, plan) /\ Typed(t) /\ lo \in Nat /\ hi \in Nat /\ lo < hi
      /\ In(lo, hi, lo) /\ lo \in DOMAIN t
      /\ \A e \in Bounds(t, r, plan) : e \in Nat /\ (e <= lo \/ hi <= e)
  BY GapPlace
<1>2. hi = lo + 1
  <2>1. lo + 1 \in Bounds(t, r, plan)
    BY DEF Bounds
  <2> QED BY <1>1, <2>1
<1>3. ~ \E m \in plan.math : m[1] <= lo /\ lo < m[2]
  BY <1>1, FormulaAt
<1>4. ~ InFormula(plan, o, lo) /\ ~ InFormula(plan, o, hi)
  BY <1>3, FormulaNone
<1>5. t[lo] = "$" /\ ~ Escaped(t, lo)
  <2>1. lo \in PlanDollars(t, r, o)
    <3>1. plan.stray = Stray(PlanDollars(t, r, o))
      BY <1>1, PlanDollarsSet
    <3> QED BY <3>1 DEF Stray, Opens
  <2> QED BY <1>1, <2>1, PlanDollarsSet
<1>6. Readable(t, LeftBare(t, plan, o), lo, {lo}, FALSE) /\ Turned(t, lo, {lo}, FALSE) = FALSE
  BY <1>5 DEF Readable, Turned
<1>7. Reads(w, t, LeftBare(t, plan, o), lo, FALSE, w.done)
  <2>1. Reads(w, t, LeftBare(t, plan, o), lo, InFormula(plan, o, lo), w.done)
    BY CleanReads
  <2> QED BY <1>4, <2>1 DEF Reads, Calm
<1> DEFINE needs == {lo}
           no == FALSE
           done == w.done
<1>8. /\ lo \in needs /\ no \in BOOLEAN /\ Readable(t, LeftBare(t, plan, o), lo, needs, no)
      /\ Reads(w, t, LeftBare(t, plan, o), lo, no, done)
  BY <1>6, <1>7
<1> HIDE DEF needs, no, done
<1>9. Reads(Literally(w, t, lo), t, LeftBare(t, plan, o), lo + 1, Turned(t, lo, needs, no), done)
  BY <1>1, <1>8, LiterallyReads
<1>10. Reads(Literally(w, t, lo), t, LeftBare(t, plan, o), hi, FALSE, w.done)
  BY <1>2, <1>6, <1>9 DEF needs, no, done
<1> QED BY <1>4, <1>10, ReadsClean

\* A newline.
LEMMA BreakClean ==
  ASSUME NEW t, NEW r, NEW o, NEW plan, NEW lo, NEW hi, Gap(t, r, o, plan, lo, hi),
         NEW w, Clean(t, plan, o, w, lo), t[lo] = "nl", hi = lo + 1
  PROVE  Clean(t, plan, o, Put(w, "break"), hi)
<1>1. Planned(t, r, o, plan) /\ lo \in Nat /\ hi - 1 = lo
  BY GapPlace
<1>2. lo \notin PlanDollars(t, r, o)
  BY <1>1, PlanDollarsSet
<1>3. InFormula(plan, o, lo) <=> InFormula(plan, o, hi)
  BY <1>1, <1>2, FormulaSame
<1> DEFINE math == InFormula(plan, o, lo)
           done == w.done
           v == Put(w, "break")
<1>4. Sound(w, t, LeftBare(t, plan, o), math, done) /\ (math <=> InFormula(plan, o, hi))
  BY <1>3 DEF Clean
<1>5. Read(w.out).esc = "bs" => Slipped(t)
  BY CleanReads DEF Clean
<1>6. "break" \in Items /\ "break" \in Additions \ {"fence", "esc"}
  BY DEF Items, Additions
<1>7. Adds(v, w, "break")
  BY <1>6, CleanEsc, PutAdds
<1> HIDE DEF math, done, v
<1>8. Sound(v, t, LeftBare(t, plan, o), math, done) /\ Read(v.out).esc = "" /\ ~ Hot(v)
  BY <1>4, <1>5, <1>6, <1>7, AddedReads
<1>9. v.done = w.done
  BY <1>7 DEF Adds
<1>10. \A tag \in v.done : tag \in w.done \/ tag[2] < hi
  BY <1>9
<1>11. Sound(v, t, LeftBare(t, plan, o), math, v.done)
  BY <1>8, <1>9 DEF done
<1> QED BY <1>4, <1>8, <1>10, <1>11, SoundClean DEF v

\* A window of a formula.
LEMMA MathClean ==
  ASSUME NEW t, NEW r, NEW o, NEW plan, NEW lo, NEW hi, Gap(t, r, o, plan, lo, hi),
         NEW w, Clean(t, plan, o, w, lo), ~ Quiet(plan, o, lo), Bare(plan, lo),
         Within(plan.math, lo)
  PROVE  Clean(t, plan, o, CopyAll(w, t, lo, hi, {}), hi)
<1>1. Planned(t, r, o, plan) /\ Typed(t) /\ IsRange(t, lo, hi)
      /\ lo \in Nat /\ hi \in Nat /\ lo < hi /\ In(lo, hi, lo)
      /\ \A i : In(lo, hi, i) <=> i \in lo .. hi - 1
  BY GapPlace
<1>2. PICK m \in plan.math : m[1] <= lo /\ lo < m[2]
  BY DEF Within
<1> DEFINE a == m[1]
           b == m[2]
           D == PlanDollars(t, r, o)
           math == [k \in lo .. hi |-> a < k /\ k < b]
           none == {}
<1>3. /\ a \in Nat /\ b \in Nat /\ a <= lo /\ hi <= b
      /\ \A k \in D : In(lo, hi, k) => k = a \/ k = b - 1
  BY <1>1, <1>2, FormulaAt
<1>4. a \in D /\ b - 1 \in D /\ a < b - 1
  BY <1>1, FormulaFirst
<1>5. \A d \in D : t[d] = "$" /\ ~ Escaped(t, d)
  BY <1>1, PlanDollarsSet
<1>6. ~ Revealed(o, a, b)
  BY <1>2 DEF Quiet
<1>7. (InFormula(plan, o, lo) <=> a < lo) /\ (InFormula(plan, o, hi) <=> hi < b)
  BY <1>2, <1>6, FormulaIn
<1> HIDE DEF a, b, D
<1>8. \A k \in lo .. hi : math[k] = (a < k /\ k < b)
  OBVIOUS
<1>9. \A i \in lo .. hi - 1 : i \in lo .. hi /\ i + 1 \in lo .. hi /\ i \in Nat
                              /\ a <= i /\ i < b
  BY ONLY <1>1, <1>3
<1>10. lo \in lo .. hi /\ hi \in lo .. hi
  BY ONLY <1>1
<1>17. lo - 1 \notin none
  OBVIOUS
<1> HIDE DEF math, none
<1>11. ASSUME NEW i \in lo .. hi - 1
       PROVE  /\ Readable(t, LeftBare(t, plan, o), i, none, math[i])
              /\ math[i + 1] = Turned(t, i, none, math[i])
  <2>1. In(lo, hi, i) /\ i \notin none
    BY <1>1 DEF none
  <2>2. t[i] \in Ids => Escaped(t, i)
    BY <2>1, MarkIn
  <2>3. t[i] = "$" /\ ~ Escaped(t, i) <=> i = a \/ i = b - 1
    <3>1. t[i] = "$" /\ ~ Escaped(t, i) => i \in D
      BY <2>1, DollarIn DEF D
    <3> QED BY <1>3, <1>4, <1>5, <2>1, <3>1
  <2>4. math[i] = (a < i /\ i < b) /\ math[i + 1] = (a < i + 1 /\ i + 1 < b)
    BY <1>8, <1>9
  <2>5. (a < i /\ i < b) <=> i # a
    BY ONLY <1>3, <1>9
  <2>6. (a < i + 1 /\ i + 1 < b) <=> i # b - 1
    BY ONLY <1>3, <1>9
  <2>7. a # b - 1
    BY ONLY <1>3, <1>4
  <2> DEFINE before == math[i]
             after == math[i + 1]
             ends == t[i] = "$" /\ ~ Escaped(t, i)
  <2>8. before = (i # a) /\ after = (i # b - 1) /\ (ends <=> i = a \/ i = b - 1)
    BY <2>3, <2>4, <2>5, <2>6
  <2>9. t[i] \in {"w", "_"} => ~ (i = a)
    BY <1>4, <1>5
  <2>10. Readable(t, LeftBare(t, plan, o), i, none, before)
    BY <2>1, <2>2, <2>8, <2>9 DEF Readable
  <2>11. Turned(t, i, none, before) = IF ends THEN ~ before ELSE before
    BY <2>1 DEF Turned
  <2> HIDE DEF before, after, ends
  <2>12. after = IF ends THEN ~ before ELSE before
    BY <2>7, <2>8
  <2> QED BY <2>10, <2>11, <2>12 DEF before, after
<1>12. \A i \in lo .. hi : math[i] \in BOOLEAN
  BY <1>8
<1>13. (math[lo] <=> InFormula(plan, o, lo)) /\ (math[hi] <=> InFormula(plan, o, hi))
  <2>1. lo < b /\ a < hi
    BY ONLY <1>1, <1>3
  <2> QED BY <1>7, <1>8, <1>10, <2>1
<1> DEFINE first == math[lo]
           last == math[hi]
           done == w.done
<1>14. Reads(w, t, LeftBare(t, plan, o), lo, first, done)
  <2>1. Reads(w, t, LeftBare(t, plan, o), lo, InFormula(plan, o, lo), w.done)
    BY CleanReads
  <2> QED BY <1>13, <2>1 DEF Reads, Calm
<1> HIDE DEF done
<1>15. Reads(CopyAll(w, t, lo, hi, none), t, LeftBare(t, plan, o), hi, last, done)
  BY <1>1, <1>11, <1>12, <1>14, <1>17, CopyAllReads
<1>16. last <=> InFormula(plan, o, hi)
  BY <1>13
<1> HIDE DEF last
<1> QED BY <1>15, <1>16, ReadsClean DEF none, done

\* A window of text in no formula.
LEMMA PlainReads ==
  ASSUME NEW t, NEW r, NEW o, NEW plan, NEW lo, NEW hi, Gap(t, r, o, plan, lo, hi),
         Bare(plan, lo), ~ Within(plan.math, lo), lo \notin plan.stray,
         NEW done, NEW w, Reads(w, t, LeftBare(t, plan, o), lo, FALSE, done)
  PROVE  Reads(Plain(w, t, lo, hi), t, LeftBare(t, plan, o), hi, FALSE, done)
<1>1. /\ Planned(t, r, o, plan) /\ Typed(t) /\ IsRange(t, lo, hi)
      /\ \A i : In(lo, hi, i) <=> i \in lo .. hi - 1
      /\ lo \in Nat /\ hi \in Nat /\ 1 <= lo /\ lo < hi /\ hi <= Len(t) + 1 /\ Len(t) \in Nat
      /\ Parted(t, lo)
  BY GapPlace DEF Fair
<1> DEFINE needs == Unescaped(t, lo, hi, Ids \cup {"_"})
                    \cup {i \in Openers(t, lo, hi) : ~ Escaped(t, i)}
<1>2. \A i : i \in needs <=>
               \/ i \in lo .. hi - 1 /\ t[i] \in Ids \cup {"_"} /\ ~ Escaped(t, i)
               \/ /\ i \in lo .. hi - 2 /\ t[i] = "<" /\ t[i + 1] \in {"w", "_"}
                  /\ ~ Escaped(t, i)
  BY DEF Unescaped, Openers
<1>3. ASSUME NEW i \in lo .. hi - 1, t[i] = "$", ~ Escaped(t, i)
      PROVE  FALSE
  <2>1. In(lo, hi, i)
    BY <1>1
  <2>2. PICK m \in plan.math : m[1] <= i /\ i < m[2]
    BY <1>3, <2>1, DollarIn
  <2>3. m[1] <= lo /\ lo < m[2]
    BY <2>1, <2>2, GapParts
  <2> QED BY <2>3 DEF Within
<1>4. Plain(w, t, lo, hi) = CopyAll(w, t, lo, hi, needs)
  BY DEF Plain
<1> HIDE DEF needs
<1>6. lo - 1 \notin needs
  <2>1. ~ (lo - 1 \in lo .. hi - 1) /\ ~ (lo - 1 \in lo .. hi - 2)
    BY ONLY <1>1
  <2> QED BY <1>2, <2>1
<1>7. ASSUME NEW i \in lo .. hi - 1
      PROVE  /\ i \in needs => ~ Escaped(t, i) /\ t[i] # "bs"
             /\ t[i] \in Ids \cup {"_", "$"} /\ ~ Escaped(t, i) => i \in needs
             /\ t[i] \in {"w", "_"} /\ Angled(t, i)
                  => LeftBare(t, plan, o) # {} \/ i - 1 \in needs
  <2>1. i \in needs => ~ Escaped(t, i) /\ t[i] # "bs"
    BY <1>2, BackslashApart
  <2>2. t[i] \in Ids \cup {"_", "$"} /\ ~ Escaped(t, i) => i \in needs
    BY <1>2, <1>3
  <2>3. ASSUME t[i] \in {"w", "_"}, Angled(t, i)
        PROVE  i - 1 \in needs
    <3>1. 1 < i /\ t[i - 1] = "<" /\ ~ Escaped(t, i - 1)
      BY <2>3 DEF Angled
    <3>2. i # lo
      <4>1. i <= Len(t)
        BY ONLY <1>1, i \in lo .. hi - 1
      <4> QED BY <1>1, <2>3, <3>1, <4>1 DEF Parted
    <3>3. i - 1 \in lo .. hi - 2 /\ (i - 1) + 1 = i
      BY ONLY <1>1, <3>2, i \in lo .. hi - 1
    <3> QED BY <1>2, <2>3, <3>1, <3>3
  <2> QED BY <2>1, <2>2, <2>3
<1>5. Reads(CopyAll(w, t, lo, hi, needs), t, LeftBare(t, plan, o), hi, FALSE, done)
  BY <1>1, <1>6, <1>7, EscapedReads
<1> QED BY <1>4, <1>5

\* Bold text is before the end of the text.
LEMMA BoldEnds ==
  ASSUME NEW t, NEW r, NEW o, NEW plan, NEW lo, NEW hi, Gap(t, r, o, plan, lo, hi),
         ~ InCode(plan, lo), Within({<<s.lo, s.hi>> : s \in plan.bold}, lo)
  PROVE  hi <= Len(t)
<1>1. Planned(t, r, o, plan) /\ Typed(t) /\ InText(t, r) /\ lo \in Nat /\ hi \in Nat /\ lo < hi
      /\ \A e \in Bounds(t, r, plan) : e \in Nat /\ (e <= lo \/ hi <= e)
  BY GapPlace
<1>2. r[1] <= lo /\ hi <= r[2] /\ r[1] \in Nat /\ r[2] \in Nat
  BY <1>1, GapInside, RangeBounds
<1>3. PICK s \in plan.bold : s.lo <= lo /\ lo < s.hi
  BY DEF Within
<1>4. s.lo \in Nat /\ s.hi \in Nat /\ s.hi <= Len(t) /\ Len(t) \in Nat
  <2>1. s \in Segments(t)
    BY <1>1 DEF Planned
  <2> QED BY <1>1, <2>1, SegmentPlace, RangeBounds
<1> DEFINE clamp(i) == IF i < r[1] THEN r[1] ELSE IF i > r[2] THEN r[2] ELSE i
<1>5. clamp(s.hi) \in Bounds(t, r, plan)
  <2>1. s.lo < r[2] /\ r[1] < s.hi
    <3> DEFINE a == s.lo
               b == s.hi
               c == r[1]
               d == r[2]
    <3>1. /\ a \in Nat /\ b \in Nat /\ c \in Nat /\ d \in Nat /\ a <= lo /\ lo < b
          /\ c <= lo /\ hi <= d
      BY <1>2, <1>3, <1>4
    <3> HIDE DEF a, b, c, d
    <3>2. a < d /\ c < b
      BY ONLY <1>1, <3>1
    <3> QED BY <3>2 DEF a, b, c, d
  <2> DEFINE bold == {e \in plan.bold : e.lo < r[2] /\ r[1] < e.hi}
             ends == UNION {{clamp(e.lo), clamp(e.hi)} : e \in bold}
  <2>2. s \in bold
    BY <2>1
  <2> HIDE DEF bold
  <2>3. clamp(s.hi) \in ends
    BY <2>2
  <2> HIDE DEF ends
  <2>4. ends \subseteq Bounds(t, r, plan)
    BY DEF Bounds, ends, bold
  <2> QED BY <2>3, <2>4
<1> DEFINE x == s.hi
           y == r[2]
           z == r[1]
           n == Len(t)
<1>6. clamp(x) \in Nat /\ (clamp(x) <= lo \/ hi <= clamp(x))
  BY <1>1, <1>5
<1>7. clamp(x) = IF x < z THEN z ELSE IF x > y THEN y ELSE x
  OBVIOUS
<1>8. x \in Nat /\ y \in Nat /\ z \in Nat /\ n \in Nat /\ z <= lo /\ hi <= y /\ lo < x /\ x <= n
  BY <1>2, <1>3, <1>4
<1> HIDE DEF x, y, z, n, clamp
<1>9. hi <= n
  BY ONLY <1>1, <1>6, <1>7, <1>8
<1> QED BY <1>9 DEF n

\* A window of text, as it is or bold.
LEMMA TextClean ==
  ASSUME NEW t, NEW r, NEW o, NEW plan, NEW lo, NEW hi, Gap(t, r, o, plan, lo, hi),
         NEW w, Clean(t, plan, o, w, lo), ~ Quiet(plan, o, lo), Bare(plan, lo),
         ~ Within(plan.math, lo), lo \notin plan.stray
  PROVE  /\ Clean(t, plan, o, Plain(w, t, lo, hi), hi)
         /\ Within({<<s.lo, s.hi>> : s \in plan.bold}, lo)
              => Clean(t, plan, o, Put(Plain(Put(w, "open"), t, lo, hi), "close"), hi)
<1>1. Planned(t, r, o, plan) /\ Typed(t) /\ lo \in Nat /\ hi \in Nat /\ lo < hi
      /\ Fair(t, plan, r, lo) /\ Fair(t, plan, r, hi) /\ Len(t) \in Nat /\ DOMAIN t = 1 .. Len(t)
      /\ 1 <= lo
  BY GapPlace, LenProperties DEF Typed
<1>2. ~ InFormula(plan, o, lo) /\ ~ InFormula(plan, o, hi)
  BY FormulaNone DEF Within
<1> DEFINE done == w.done
<1>3. /\ Reads(w, t, LeftBare(t, plan, o), lo, FALSE, done)
      /\ Sound(w, t, LeftBare(t, plan, o), FALSE, done)
      /\ (Escaped(t, lo) => t[lo] \in White /\ Slipped(t))
  <2>1. /\ Reads(w, t, LeftBare(t, plan, o), lo, InFormula(plan, o, lo), w.done)
        /\ Sound(w, t, LeftBare(t, plan, o), InFormula(plan, o, lo), w.done)
        /\ (Escaped(t, lo) => t[lo] \in White /\ Slipped(t))
    BY CleanReads
  <2> QED BY <1>2, <2>1 DEF Reads, Sound, Calm
<1> HIDE DEF done
<1>4. Clean(t, plan, o, Plain(w, t, lo, hi), hi)
  <2>1. Reads(Plain(w, t, lo, hi), t, LeftBare(t, plan, o), hi, FALSE, done)
    BY <1>3, PlainReads
  <2> QED BY <1>2, <2>1, ReadsClean DEF done
<1>5. ASSUME Within({<<s.lo, s.hi>> : s \in plan.bold}, lo)
      PROVE  Clean(t, plan, o, Put(Plain(Put(w, "open"), t, lo, hi), "close"), hi)
  <2> DEFINE u == Put(w, "open")
             x == Plain(u, t, lo, hi)
             v == Put(x, "close")
  <2>1. /\ "open" \in Items /\ "open" \in Additions \ {"fence", "esc"}
        /\ "close" \in Items /\ "close" \in Additions \ {"fence", "esc"}
    BY DEF Items, Additions
  <2>2. hi <= Len(t)
    BY <1>5, BoldEnds DEF Bare
  <2>3. Read(w.out).esc = "bs" => Slipped(t)
    BY <1>3 DEF Clean
  <2>4. Adds(u, w, "open")
    BY <2>1, CleanEsc, PutAdds
  <2> HIDE DEF u
  <2> DEFINE no == FALSE
  <2>5. Sound(w, t, LeftBare(t, plan, o), no, done)
    BY <1>3
  <2> HIDE DEF no
  <2>6. Sound(u, t, LeftBare(t, plan, o), no, done) /\ Read(u.out).esc = "" /\ ~ Hot(u)
    BY ONLY <2>1, <2>3, <2>4, <2>5, AddedReads
  <2>7. Reads(u, t, LeftBare(t, plan, o), lo, FALSE, done)
    BY <1>3, <2>6 DEF Reads, Sound, AtPiece, AtBlank, no
  <2>8. Reads(x, t, LeftBare(t, plan, o), hi, FALSE, done)
    BY <2>7, PlainReads
  <2> HIDE DEF x
  <2>9. /\ Sound(x, t, LeftBare(t, plan, o), FALSE, done)
        /\ (Read(x.out).esc = "bs" => Escaped(t, hi))
    BY <2>8 DEF Reads, Sound, AtPiece
  <2>10. Escaped(t, hi) => Slipped(t)
    <3>1. hi \in DOMAIN t /\ ~ (hi > Len(t))
      BY <1>1, <2>2
    <3>2. Escaped(t, hi) => t[hi] \in White
      BY <1>1, <3>1 DEF Fair, AtBlank
    <3> QED BY <1>1, <3>1, <3>2, BlankSlips
  <2>11. Adds(v, x, "close")
    BY <2>1, <2>9, PutAdds, SoundEsc
  <2> HIDE DEF v
  <2>12. Sound(x, t, LeftBare(t, plan, o), no, done)
    BY <2>9 DEF no
  <2>13. Read(x.out).esc = "bs" => Slipped(t)
    BY <2>9, <2>10
  <2>14. Sound(v, t, LeftBare(t, plan, o), no, done) /\ Read(v.out).esc = "" /\ ~ Hot(v)
    BY ONLY <2>1, <2>11, <2>12, <2>13, AddedReads
  <2>15. v.done = w.done
    BY <2>14 DEF Sound, done
  <2>16. \A tag \in v.done : tag \in w.done \/ tag[2] < hi
    BY <2>15
  <2>17. Sound(v, t, LeftBare(t, plan, o), FALSE, v.done)
    BY <2>14, <2>15 DEF done, no
  <2>18. Clean(t, plan, o, v, hi)
    BY <1>2, <2>14, <2>16, <2>17, SoundClean
  <2> QED BY <2>18 DEF v, x, u
<1> QED BY <1>4, <1>5

\* Code that is there is the first one.
LEMMA FirstCode ==
  ASSUME NEW t, NEW r, NEW o, NEW plan, Planned(t, r, o, plan), NEW lo, InCode(plan, lo)
  PROVE  LET codes == {c \in plan.code : c.lo <= lo /\ lo < c.hi}
         IN  (CHOOSE c \in codes : \A d \in codes : c.at <= d.at) \in codes
<1> DEFINE codes == {c \in plan.code : c.lo <= lo /\ lo < c.hi}
           ats == {c.at : c \in codes}
<1>1. codes # {}
  BY DEF InCode
<1>2. \A c \in codes : c.at \in Nat
  BY PlanCode
<1>3. ats \in SUBSET Nat /\ ats # {}
  BY <1>1, <1>2
<1> HIDE DEF ats
<1>4. PICK a \in ats : \A b \in ats : a <= b
  BY <1>3, LeastExists
<1>5. \E c \in codes : \A d \in codes : c.at <= d.at
  BY <1>4 DEF ats
<1> HIDE DEF codes
<1>6. (CHOOSE c \in codes : \A d \in codes : c.at <= d.at) \in codes
  BY <1>5
<1> QED BY <1>6 DEF codes

\* Whatever is written of a window.
LEMMA WindowClean ==
  ASSUME NEW t, NEW r, NEW o, NEW plan, NEW lo, NEW hi, Gap(t, r, o, plan, lo, hi),
         NEW w, Clean(t, plan, o, w, lo)
  PROVE  Clean(t, plan, o, WritesWhole(w, t, plan, o, lo, hi), hi)
<1> DEFINE v == Anchored(w, plan, lo)
           codes == {c \in plan.code : c.lo <= lo /\ lo < c.hi}
           code == CHOOSE c \in codes : \A d \in codes : c.at <= d.at
           maths == {m \in plan.math : m[1] <= lo /\ lo < m[2] /\ Revealed(o, m[1], m[2])}
           math == CHOOSE m \in maths : TRUE
           runs == {s \in plan.runs : s[1] <= lo /\ lo < s[2]}
           run == CHOOSE s \in runs : TRUE
           result == WritesWhole(w, t, plan, o, lo, hi)
<1>1. CASE Within(plan.hidden, lo)
  <2>1. result = w
    BY <1>1 DEF WritesWhole
  <2> QED BY <1>1, <2>1, HiddenClean
<1>2. CASE ~ Within(plan.hidden, lo) /\ codes # {}
  <2>1. result = Once(w, <<"code", code.lo>>, Fenced(w, t, code.lo, code.hi))
    BY <1>2 DEF WritesWhole
  <2>2. InCode(plan, lo) /\ Planned(t, r, o, plan)
    BY <1>2, GapPlace DEF InCode
  <2>3. code \in codes
    BY <2>2, FirstCode
  <2>4. code \in plan.code /\ code.lo <= lo /\ lo < code.hi
    BY <2>3
  <2> HIDE DEF code, codes, result
  <2>5. Clean(t, plan, o, Once(w, <<"code", code.lo>>, Fenced(w, t, code.lo, code.hi)), hi)
    BY <2>4, CodeClean
  <2> QED BY <2>1, <2>5 DEF result
<1>3. CASE ~ Within(plan.hidden, lo) /\ codes = {} /\ maths # {}
  <2>1. result = Once(w, <<"math", math[1]>>, RawMath(w, t, math[1], math[2]))
    BY <1>3 DEF WritesWhole
  <2>2. math \in maths
    <3> HIDE DEF maths
    <3> QED BY <1>3
  <2>3. math \in plan.math /\ math[1] <= lo /\ lo < math[2] /\ Revealed(o, math[1], math[2])
    BY <2>2
  <2> HIDE DEF math, maths, result
  <2>4. Clean(t, plan, o, Once(w, <<"math", math[1]>>, RawMath(w, t, math[1], math[2])), hi)
    BY <2>3, FormulaClean
  <2> QED BY <2>1, <2>4 DEF result
<1>4. CASE ~ Within(plan.hidden, lo) /\ codes = {} /\ maths = {}
  <2>1. result = Writes(v, t, plan, o, lo, hi)
    BY <1>4 DEF WritesWhole
  <2>2. ~ InCode(plan, lo)
    BY <1>4 DEF InCode
  <2>3. ~ Quiet(plan, o, lo)
    BY <1>4, <2>2 DEF Quiet
  <2>4. Clean(t, plan, o, v, lo)
    BY AnchoredClean
  <2> HIDE DEF codes, maths, result, v
  <2>5. CASE Within(plan.shown, lo)
    <3>1. result = Raw(v, t, lo, hi)
      BY <2>1, <2>5 DEF Writes
    <3> QED BY <2>3, <2>4, <2>5, <3>1, ShownClean DEF result
  <2>6. CASE ~ Within(plan.shown, lo) /\ runs # {} /\ ~ Within(plan.math, lo)
    <3>1. run \in runs
      <4> HIDE DEF runs
      <4> QED BY <2>6
    <3>2. run \in plan.runs /\ run[1] <= lo /\ lo < run[2]
      BY <3>1
    <3>3. result = Once(v, <<"run", run[1]>>, Spaces(v, t, run, Revealed(o, run[1], run[2])))
      BY <2>1, <2>6 DEF Writes
    <3> HIDE DEF run, runs
    <3>4. Clean(t, plan, o, Once(v, <<"run", run[1]>>,
                                 Spaces(v, t, run, Revealed(o, run[1], run[2]))), hi)
      BY <2>4, <2>6, <3>2, RunClean
    <3> QED BY <3>3, <3>4 DEF result
  <2>7. CASE ~ Within(plan.shown, lo) /\ (runs = {} \/ Within(plan.math, lo))
    <3>1. result = IF lo \in plan.stray THEN Literally(v, t, lo)
                   ELSE IF t[lo] = "nl" /\ hi = lo + 1 THEN Put(v, "break")
                   ELSE Styled(v, t, plan, lo, hi)
      BY <2>1, <2>7 DEF Writes
    <3>2. Bare(plan, lo)
      BY <1>4, <2>2, <2>7 DEF Bare
    <3>3. CASE lo \in plan.stray
      BY <2>3, <2>4, <3>1, <3>3, StrayClean DEF result
    <3>4. CASE lo \notin plan.stray /\ t[lo] = "nl" /\ hi = lo + 1
      BY <2>4, <3>1, <3>4, BreakClean DEF result
    <3>5. CASE lo \notin plan.stray /\ ~ (t[lo] = "nl" /\ hi = lo + 1)
      <4>1. result = Styled(v, t, plan, lo, hi)
        BY <3>1, <3>5
      <4> DEFINE bold == {<<s.lo, s.hi>> : s \in plan.bold}
      <4>2. CASE Within(plan.math, lo)
        <5>1. result = CopyAll(v, t, lo, hi, {})
          BY <4>1, <4>2 DEF Styled
        <5> QED BY <2>3, <2>4, <3>2, <4>2, <5>1, MathClean DEF result
      <4>3. CASE ~ Within(plan.math, lo)
        <5>1. \/ result = Plain(v, t, lo, hi)
              \/ Within(bold, lo) /\ result = Put(Plain(Put(v, "open"), t, lo, hi), "close")
          BY <4>1, <4>3 DEF Styled
        <5>2. /\ Clean(t, plan, o, Plain(v, t, lo, hi), hi)
              /\ Within(bold, lo)
                   => Clean(t, plan, o, Put(Plain(Put(v, "open"), t, lo, hi), "close"), hi)
          BY <2>3, <2>4, <3>2, <3>5, <4>3, TextClean
        <5> HIDE DEF bold
        <5> QED BY <5>1, <5>2 DEF result
      <4> QED BY <4>2, <4>3
    <3> QED BY <3>3, <3>4, <3>5
  <2> QED BY <2>5, <2>6, <2>7 DEF result
<1> QED BY <1>1, <1>2, <1>3, <1>4

\* The bounds that what is written up to piece k is up to: the next one, or the last.
Due(bounds, k) ==
  Nexts(bounds, k) \cup {e \in bounds : e <= k /\ \A j \in bounds : j <= e}

\* All windows of a plan.
LEMMA WindowsClean ==
  ASSUME NEW t, NEW r, NEW o, NEW plan, Planned(t, r, o, plan), Rounded(t, r)
  PROVE  \E w : \E e \in Bounds(t, r, plan) :
           /\ Clean(t, plan, o, w, e) /\ \A j \in Bounds(t, r, plan) : j <= e
           /\ Written(t, r, o, plan, Bounds(t, r, plan)) =
                Anchored(SplicedAt(w, r[2], plan.results), plan, r[2])
<1> DEFINE n == Len(t)
           bounds == Bounds(t, r, plan)
           splices == plan.results \cup plan.labels \cup plan.titles
           window(v, lo, hi) == WritesWhole(SplicedAt(v, lo, splices), t, plan, o, lo, hi)
           each(i, v) == IF i \in bounds /\ Nexts(bounds, i) # {}
                         THEN window(v, i, CHOOSE j \in Nexts(bounds, i) : TRUE)
                         ELSE v
           body(f) == [k \in 0 .. n |-> IF k = 0 THEN Unwritten ELSE each(k, f[k - 1])]
           g == CHOOSE f : f = body(f)
           inv == [k \in 0 .. n |->
                     {v \in Writers : \A b \in Due(bounds, k) : Clean(t, plan, o, v, b)}]
           step == [x \in (1 .. n) \X Writers |-> each(x[1], x[2])]
<1>1. /\ Typed(t) /\ n \in Nat /\ End(t) = n + 1 /\ bounds \subseteq 1 .. n + 1
      /\ r[2] \in bounds /\ 0 \in 0 .. n
      /\ \A k \in 1 .. n : k \in 0 .. n /\ k - 1 \in 0 .. n /\ k # 0 /\ k \in Nat
  <2>1. Typed(t) /\ n \in Nat /\ End(t) = n + 1
    BY LenProperties DEF Planned, Typed, End
  <2>2. bounds \subseteq 1 .. n + 1 /\ r[2] \in bounds
    BY <2>1, BoundsPlace
  <2> HIDE DEF bounds, n
  <2> QED BY <2>1, <2>2
<1>2. \A b \in bounds : b \in Nat /\ 1 <= b /\ b <= n + 1
  <2> HIDE DEF bounds, n
  <2> QED BY <1>1
<1>3. Written(t, r, o, plan, bounds) = Anchored(SplicedAt(g[n], r[2], plan.results), plan, r[2])
  BY DEF Written
<1> HIDE DEF n
<1>4. ASSUME NEW k \in 1 .. n, NEW v \in inv[k - 1]
      PROVE  each(k, v) \in inv[k] /\ step[<<k, v>>] = each(k, v)
  <2>1. v \in Writers /\ \A b \in Due(bounds, k - 1) : Clean(t, plan, o, v, b)
    BY <1>1, <1>4
  <2>2. /\ k \in bounds => k \in Due(bounds, k - 1)
        /\ k \notin bounds => \A b \in Due(bounds, k) : b \in Due(bounds, k - 1)
    <3> HIDE DEF bounds
    <3>1. k \in Nat /\ k - 1 < k /\ \A b \in Nat : /\ k - 1 < b => k <= b
                                                   /\ b <= k /\ b # k => b <= k - 1
                                                   /\ k < b => k - 1 < b
                                                   /\ k - 1 < b /\ b # k => k < b
      BY <1>1
    <3>2. k \in bounds => k \in Nexts(bounds, k - 1)
      BY <1>2, <3>1 DEF Nexts
    <3>3. ASSUME k \notin bounds, NEW b \in Nexts(bounds, k)
          PROVE  b \in Nexts(bounds, k - 1)
      <4>1. b \in bounds /\ k < b /\ \A j \in bounds : k < j => b <= j
        BY DEF Nexts
      <4>2. \A j \in bounds : k - 1 < j => k < j
        BY <1>2, <3>1, <3>3
      <4>3. k - 1 < b
        BY <1>2, <3>1, <4>1
      <4> QED BY <4>1, <4>2, <4>3 DEF Nexts
    <3>4. ASSUME k \notin bounds, NEW b \in bounds, b <= k
          PROVE  b <= k - 1
      BY <1>2, <3>1, <3>4
    <3> QED BY <3>2, <3>3, <3>4 DEF Due
  <2>3. CASE k \notin bounds
    <3>1. each(k, v) = v
      BY <2>3
    <3> HIDE DEF each
    <3>2. each(k, v) \in inv[k]
      BY <1>1, <2>1, <2>2, <2>3, <3>1
    <3> QED BY <2>1, <3>2
  <2>4. CASE k \in bounds /\ Nexts(bounds, k) = {}
    <3>1. each(k, v) = v
      BY <2>4
    <3>2. Clean(t, plan, o, v, k)
      BY <2>1, <2>2, <2>4
    <3>3. ASSUME NEW b \in Due(bounds, k)
          PROVE  b = k
      <4> HIDE DEF bounds
      <4>1. b \in bounds /\ b <= k /\ \A j \in bounds : j <= b
        BY <2>4 DEF Due
      <4> QED BY <1>1, <1>2, <2>4, <4>1
    <3> HIDE DEF each
    <3>4. each(k, v) \in inv[k]
      BY <1>1, <2>1, <3>1, <3>2, <3>3
    <3> QED BY <2>1, <3>4
  <2>5. CASE k \in bounds /\ Nexts(bounds, k) # {}
    <3> DEFINE hi == CHOOSE j \in Nexts(bounds, k) : TRUE
               u == SplicedAt(v, k, splices)
    <3>1. hi \in Nexts(bounds, k) /\ each(k, v) = window(v, k, hi)
      BY <2>5
    <3> HIDE DEF hi
    <3>2. Clean(t, plan, o, v, k)
      BY <2>1, <2>2, <2>5
    <3>3. Gap(t, r, o, plan, k, hi)
      BY <2>5, <3>1 DEF Gap
    <3>4. Clean(t, plan, o, u, k)
      BY <3>2, <3>3, SplicedClean DEF Splices
    <3> HIDE DEF u
    <3>5. Clean(t, plan, o, WritesWhole(u, t, plan, o, k, hi), hi)
      BY <3>3, <3>4, WindowClean
    <3>6. ASSUME NEW b \in Due(bounds, k)
          PROVE  b = hi
      <4> HIDE DEF bounds
      <4>1. hi \in bounds /\ k < hi /\ \A j \in bounds : k < j => hi <= j
        BY <3>1 DEF Nexts
      <4>2. hi \in Nat /\ k \in Nat
        BY <1>1, <1>2, <4>1
      <4>3. CASE b \in Nexts(bounds, k)
        <5>1. b \in bounds /\ k < b /\ \A j \in bounds : k < j => b <= j
          BY <4>3 DEF Nexts
        <5>2. b \in Nat /\ b <= hi /\ hi <= b
          BY <1>2, <4>1, <5>1
        <5> QED BY ONLY <4>2, <5>2
      <4>4. CASE b \in bounds /\ b <= k /\ \A j \in bounds : j <= b
        <5>1. b \in Nat /\ b <= k /\ hi <= b
          BY <1>2, <4>1, <4>4
        <5> QED BY <4>1, <4>2, <5>1
      <4> QED BY <4>3, <4>4 DEF Due
    <3>7. each(k, v) = WritesWhole(u, t, plan, o, k, hi)
      BY <3>1 DEF u
    <3>8. each(k, v) \in Writers
      <4> HIDE DEF each
      <4> QED BY <3>5, <3>7, CleanEsc
    <3> HIDE DEF each
    <3>9. each(k, v) \in inv[k]
      BY <1>1, <3>5, <3>6, <3>7, <3>8
    <3> QED BY <2>1, <3>9
  <2> QED BY <2>3, <2>4, <2>5
<1>5. /\ Unwritten \in inv[0] /\ Unwritten \in Writers
      /\ \A k \in 0 .. n : inv[k] \subseteq Writers
  <2>1. Unwritten \in Writers
    <3>1. <<>> \in Seq(Items) /\ <<>> \in Seq(Span)
      BY EmptySeq
    <3> QED BY <3>1 DEF Unwritten, Writers
  <2>2. ASSUME NEW b \in Due(bounds, 0)
        PROVE  Clean(t, plan, o, Unwritten, b)
    <3>1. b \in bounds /\ b \in Nat /\ \A j \in bounds : b <= j
      <4> HIDE DEF bounds
      <4>1. \A j \in bounds : 0 < j /\ ~ (j <= 0)
        BY <1>2
      <4> QED BY <1>2, <4>1 DEF Due, Nexts
    <3>2. ~ InFormula(plan, o, b)
      <4> SUFFICES ASSUME NEW m \in plan.math, m[1] < b
                   PROVE  FALSE
        BY DEF InFormula
      <4>1. m[1] \in bounds /\ m[1] \in Nat
        BY BoundsPlace, PlanMath
      <4>2. b <= m[1]
        BY <3>1, <4>1
      <4> QED BY <3>1, <4>1, <4>2
    <3>3. Read(Unwritten.out) = ReadStart /\ ReadStart \in States /\ Unwritten.done = {}
      <4>1. Unwritten.out = <<>> /\ Unwritten.done = {}
        BY DEF Unwritten
      <4>2. Read(<<>>) = ReadStart /\ ReadStart \in States
        BY ReadShape DEF ReadStart, States
      <4> QED BY <4>1, <4>2
    <3> DEFINE w == Unwritten
               s == Read(w.out)
    <3>4. /\ s \in States /\ ~ s.code /\ s.esc = "" /\ ~ s.marker
          /\ ~ s.taken /\ ~ s.mark /\ ~ s.math /\ ~ s.angle /\ ~ s.label
      <4> DEFINE from == ReadStart
      <4>1. /\ ~ from.code /\ from.esc = "" /\ ~ from.marker
            /\ ~ from.taken /\ ~ from.mark /\ ~ from.math /\ ~ from.angle /\ ~ from.label
        BY DEF ReadStart
      <4>2. s = from /\ from \in States
        BY <3>3
      <4> HIDE DEF s, from
      <4> QED BY <4>1, <4>2
    <3>5. w \in Writers /\ w.done = {}
      BY <2>1, <3>3
    <3> HIDE DEF w
    <3>6. Sound(w, t, LeftBare(t, plan, o), InFormula(plan, o, b), w.done)
      <4>1. s.esc # "esc"
        BY <3>4
      <4> HIDE DEF s
      <4>2. Calm(s, t, LeftBare(t, plan, o), Dollared(w.out), InFormula(plan, o, b))
        BY <3>2, <3>4, <4>1 DEF Calm
      <4> QED BY <3>5, <4>2 DEF Sound, s
    <3>7. Clean(t, plan, o, w, b)
      <4>1. ~ Hot(w)
        BY <3>4 DEF Hot
      <4> QED BY <3>4, <3>5, <3>6, <4>1 DEF Clean
    <3> QED BY <3>7 DEF w
  <2> QED BY <1>1, <2>1, <2>2
<1>6. g = [k \in 0 .. n |-> IF k = 0 THEN Unwritten ELSE each(k, g[k - 1])]
  <2> HIDE DEF inv, step, each
  <2>1. PICK f : Loops(f, n, Unwritten, inv, step)
    <3>1. \A k \in 1 .. n : \A v \in inv[k - 1] : step[<<k, v>>] \in inv[k]
      BY <1>4
    <3> QED BY <1>1, <1>5, <3>1, Looped
  <2>2. f = body(f)
    <3>1. ASSUME NEW k \in 0 .. n
          PROVE  f[k] = IF k = 0 THEN Unwritten ELSE each(k, f[k - 1])
      <4>1. k # 0 => k \in 1 .. n /\ k - 1 \in 0 .. n
        BY <1>1
      <4> QED BY <1>4, <2>1, <4>1 DEF Loops
    <3> QED BY <2>1, <3>1 DEF Loops
  <2> QED BY <2>2
<1> HIDE DEF inv, step, each, g
<1>7. g[0] = Unwritten /\ \A k \in 1 .. n : g[k] = each(k, g[k - 1])
  BY <1>1, <1>6
<1> DEFINE T == {k \in 0 .. n : g[k] \in inv[k]}
<1>8. \A k \in 0 .. n : k \in T
  <2>1. 0 \in T
    BY <1>1, <1>5, <1>7
  <2>2. ASSUME NEW k \in 1 .. n, k - 1 \in T
        PROVE  k \in T
    <3>1. g[k - 1] \in inv[k - 1] /\ k \in 0 .. n
      BY <1>1, <2>2
    <3> QED BY <1>4, <1>7, <3>1
  <2> HIDE DEF T
  <2> QED BY <1>1, <2>1, <2>2, StepByStep
<1>9. n \in 0 .. n /\ g[n] \in inv[n]
  BY <1>1, <1>8
<1>10. PICK e \in bounds : \A j \in bounds : j <= e
  <2> DEFINE top == n + 1
  <2>1. top \in Nat /\ bounds \in SUBSET Nat /\ bounds # {} /\ \A j \in bounds : j <= top
    <3> HIDE DEF bounds
    <3> QED BY <1>1, <1>2
  <2> HIDE DEF top, bounds
  <2> QED BY <2>1, GreatestExists
<1>11. e \in Due(bounds, n)
  <2> HIDE DEF bounds
  <2>1. e \in Nat /\ e <= n + 1
    BY <1>10, <1>2
  <2>2. CASE e <= n
    BY <1>10, <2>2 DEF Due
  <2>3. CASE e = n + 1
    <3>1. n < e /\ \A j \in bounds : n < j => e <= j
      BY <1>1, <1>2, <2>3
    <3> QED BY <1>10, <3>1 DEF Due, Nexts
  <2> QED BY <1>1, <2>1, <2>2, <2>3
<1>12. Clean(t, plan, o, g[n], e)
  BY <1>9, <1>11 DEF inv
<1> QED BY <1>3, <1>10, <1>12

\* What comes behind all windows is put where nothing is escaped.
LEMMA EndEdge ==
  ASSUME NEW t, NEW r, NEW o, NEW plan, Planned(t, r, o, plan), Rounded(t, r),
         NEW e \in Bounds(t, r, plan), r[2] <= e,
         NEW w, Clean(t, plan, o, w, e)
  PROVE  /\ ~ InFormula(plan, o, e)
         /\ r[2] \in plan.anchors => ~ Behind(w)
         /\ \A s \in plan.results : s[1] = r[2] => ~ Behind(w)
<1>1. /\ r[2] \in Nat /\ e \in Nat /\ Typed(t)
      /\ e > r[2] => \E c \in plan.code : c.lo < r[2] /\ e = c.hi
  <2>1. Typed(t) /\ InText(t, r)
    BY DEF Planned
  <2>2. End(t) \in Nat /\ r[2] \in Nat
    BY <2>1, RangeBounds
  <2>3. e \in 1 .. End(t)
    BY BoundsPlace
  <2>4. e \in Nat
    BY ONLY <2>2, <2>3
  <2> QED BY <2>1, <2>2, <2>4, BoundsPlace
<1>2. ~ InFormula(plan, o, e)
  <2> SUFFICES ASSUME NEW m \in plan.math, e < m[2]
               PROVE  FALSE
    BY DEF InFormula
  <2> DEFINE b == m[2]
  <2>1. b \in Nat /\ b <= r[2] /\ e < b
    BY PlanMath
  <2> HIDE DEF b
  <2> QED BY <1>1, <2>1
<1>3. ~ Escaped(t, e) => ~ Behind(w)
  BY CleanEsc DEF Behind
<1>4. CASE e > r[2]
  <2>1. PICK c \in plan.code : e = c.hi
    BY <1>1, <1>4
  <2>2. ~ Escaped(t, e)
    BY <1>1, <2>1, PlanCode, SegmentEdges
  <2> QED BY <1>2, <1>3, <2>2
<1>5. CASE e = r[2]
  <2>1. r[2] \in plan.anchors => ~ Escaped(t, r[2])
    BY AnchorEdge
  <2>2. \A s \in plan.results : ~ Escaped(t, s[1])
    BY SpliceEdge DEF Splices
  <2> QED BY <1>2, <1>3, <1>5, <2>1, <2>2
<1> QED BY <1>1, <1>4, <1>5

\* Nothing is wrong with all that is written of a part.
LEMMA RenderSound ==
  ASSUME NEW t, Typed(t), NEW r, Rounded(t, r), NEW o
  PROVE  \E done : Sound(Render(t, r, o), t, LeftBare(t, Plan(t, r, o), o), FALSE, done)
<1> DEFINE plan == Plan(t, r, o)
<1>1. Planned(t, r, o, plan)
  BY PlanFields DEF Rounded
<1>2. Render(t, r, o) = Written(t, r, o, plan, Bounds(t, r, plan))
  BY DEF Render
<1> HIDE DEF plan
<1>3. PICK w : \E e \in Bounds(t, r, plan) :
           /\ Clean(t, plan, o, w, e) /\ \A j \in Bounds(t, r, plan) : j <= e
           /\ Written(t, r, o, plan, Bounds(t, r, plan)) =
                Anchored(SplicedAt(w, r[2], plan.results), plan, r[2])
  BY <1>1, WindowsClean
<1>4. PICK e \in Bounds(t, r, plan) :
           /\ Clean(t, plan, o, w, e) /\ \A j \in Bounds(t, r, plan) : j <= e
           /\ Written(t, r, o, plan, Bounds(t, r, plan)) =
                Anchored(SplicedAt(w, r[2], plan.results), plan, r[2])
  BY <1>3
<1> DEFINE at == r[2]
           results == plan.results
           done == w.done
           no == FALSE
           bared == LeftBare(t, plan, o)
           v == SplicedAt(w, at, results)
<1>5. r[2] <= e /\ at \in Nat
  BY <1>1, <1>4, BoundsPlace, RangeBounds DEF Planned
<1>6. /\ ~ InFormula(plan, o, e)
      /\ at \in plan.anchors => ~ Behind(w)
      /\ \A s \in results : s[1] = at => ~ Behind(w)
  BY <1>1, <1>4, <1>5, EndEdge
<1>7. Sound(w, t, bared, no, done)
  BY <1>4, <1>6, SoundSame DEF Clean
<1>8. IsFiniteSet(results)
  BY <1>1, SplicesFinite
<1>9. no \in BOOLEAN
  OBVIOUS
<1> HIDE DEF at, results, done, no, bared
<1>10. Sound(v, t, bared, no, done) /\ (Behind(v) => Behind(w))
  BY <1>5, <1>6, <1>7, <1>8, <1>9, SplicedReads
<1> HIDE DEF v
<1>11. Sound(Anchored(v, plan, at), t, bared, no, done)
  BY <1>5, <1>6, <1>10, AnchoredReads
<1>12. Render(t, r, o) = Anchored(v, plan, at)
  BY <1>2, <1>4 DEF v, at, results
<1> QED BY <1>11, <1>12 DEF no, bared, plan

-----------------------------------------------------------------------------
(* The theorems.                                                           *)

\* What is typed becomes a piece of the text, and the caret stays in it.
LEMMA InsertedPiece ==
  ASSUME NEW t, Typed(t), NEW i \in 1 .. End(t), NEW k \in Pieces
  PROVE  Typed(InsertAt(t, i, k)) /\ End(InsertAt(t, i, k)) = End(t) + 1
<1>1. Len(t) \in Nat /\ End(t) = Len(t) + 1 /\ t \in Seq(Pieces)
  BY LenProperties DEF Typed, End
<1>2. i \in Nat /\ 1 <= i /\ i <= Len(t) + 1 /\ i - 1 \in 0 .. Len(t)
  BY <1>1
<1>3. InsertAt(t, i, k) = SubSeq(t, 1, i - 1) \o <<k>> \o SubSeq(t, i, Len(t))
  BY DEF InsertAt
<1>4. /\ SubSeq(t, 1, i - 1) \in Seq(Pieces) /\ Len(SubSeq(t, 1, i - 1)) = i - 1
      /\ SubSeq(t, i, Len(t)) \in Seq(Pieces) /\ Len(SubSeq(t, i, Len(t))) = Len(t) - i + 1
  BY <1>1, <1>2, SubSeqProperties
<1>5. <<k>> \in Seq(Pieces) /\ Len(<<k>>) = 1
  OBVIOUS
<1> DEFINE a == SubSeq(t, 1, i - 1)
           b == SubSeq(t, i, Len(t))
<1>6. (a \o <<k>>) \in Seq(Pieces) /\ Len(a \o <<k>>) = i
  <2> HIDE DEF a, b
  <2>1. a \in Seq(Pieces) /\ Len(a) = i - 1
    BY <1>4 DEF a
  <2> QED BY <1>2, <1>5, <2>1, ConcatProperties
<1>7. (a \o <<k>> \o b) \in Seq(Pieces) /\ Len(a \o <<k>> \o b) = i + (Len(t) - i + 1)
  <2> DEFINE c == a \o <<k>>
  <2> HIDE DEF a, b, c
  <2>1. b \in Seq(Pieces) /\ Len(b) = Len(t) - i + 1
    BY <1>4 DEF b
  <2>2. c \in Seq(Pieces) /\ Len(c) = i
    BY <1>6 DEF c
  <2>3. (c \o b) \in Seq(Pieces) /\ Len(c \o b) = Len(c) + Len(b)
    BY <2>1, <2>2, ConcatProperties
  <2>4. Len(c \o b) = i + (Len(t) - i + 1)
    BY <2>1, <2>2, <2>3
  <2> QED BY <2>3, <2>4 DEF c
<1>8. i + (Len(t) - i + 1) = Len(t) + 1
  BY <1>1, <1>2
<1> QED BY <1>1, <1>3, <1>7, <1>8 DEF Typed, End

\* The text is always made of pieces, with the caret in it: MathDoc::insert, and
\* moves of the caret.
THEOREM TextIsTyped == TypingSpec => []TypingOK
<1>1. TypingInit => TypingOK
  <2> SUFFICES ASSUME TypingInit
               PROVE  TypingOK
    OBVIOUS
  <2>1. text \in Seq(Pieces) /\ caret = End(text) /\ editor \in Editors /\ typed = 0
    BY TextsAssumption DEF TypingInit
  <2>2. End(text) \in 1 .. End(text)
    BY <2>1, LenProperties DEF End
  <2> QED BY <2>1, <2>2, MaxTypedAssumption DEF TypingOK
<1>2. TypingOK /\ [TypingNext]_typingVars => TypingOK'
  <2> SUFFICES ASSUME TypingOK, [TypingNext]_typingVars
               PROVE  TypingOK'
    OBVIOUS
  <2>0. /\ text \in Seq(Pieces) /\ caret \in 1 .. End(text) /\ Typed(text)
        /\ editor \in Editors /\ typed \in 0 .. MaxTyped
    BY DEF TypingOK, Typed
  <2>1. CASE Type
    <3>1. PICK k \in Keys : text' = InsertAt(text, caret, k)
      BY <2>1 DEF Type
    <3>2. Typed(text') /\ End(text') = End(text) + 1
      BY <2>0, <3>1, KeysAssumption, InsertedPiece
    <3>3. caret' = caret + 1 /\ editor' = editor /\ typed' = typed + 1 /\ typed < MaxTyped
      BY <2>1 DEF Type
    <3>4. caret' \in 1 .. End(text')
      <4>1. End(text) \in Nat
        BY <2>0, LenProperties DEF End
      <4> QED BY <2>0, <3>2, <3>3, <4>1
    <3>5. typed' \in 0 .. MaxTyped
      BY <2>0, <3>3, MaxTypedAssumption
    <3>6. text' \in Seq(Pieces) /\ editor' \in Editors
      BY <2>0, <3>2, <3>3 DEF Typed
    <3>7. End(text)' = End(text')
      BY DEF End
    <3> QED BY <3>4, <3>5, <3>6, <3>7 DEF TypingOK
  <2>2. CASE Move
    BY <2>0, <2>2 DEF Move, TypingOK, End
  <2>3. CASE UNCHANGED typingVars
    BY <2>0, <2>3 DEF typingVars, TypingOK, End
  <2> QED BY <2>1, <2>2, <2>3 DEF TypingNext
<1> QED BY <1>1, <1>2, PTL DEF TypingSpec

\* In every text, whatever its markers and statements, the caret stays where it is
\* drawn in every part that a frontend draws: the map between both texts is in order,
\* is not passed by what is shown, and takes a click on a backslash of the transform's
\* to what it escapes (transform.rs, OffsetMap).
THEOREM CaretIsWhereItIsDrawn == TypingSpec => []CaretStays
<1>1. TypingOK => CaretStays
  <2> SUFFICES ASSUME TypingOK, NEW r \in Ranges,
                      ~ Overtakes(Plan(text, r, Options(r)), Options(r))
               PROVE  Stays(r, Render(text, r, Options(r)))
    BY DEF CaretStays
  <2>1. Typed(text)
    BY DEF TypingOK, Typed
  <2>2. InText(text, r) /\ (r[2] = End(text) \/ r[2] \notin Anchors(text, r))
    <3>1. CASE editor = "android"
      <4>1. r = <<1, End(text)>>
        BY <3>1 DEF Ranges
      <4>2. End(text) \in Nat /\ 1 <= End(text)
        BY <2>1, LenProperties DEF Typed, End
      <4> QED BY <4>1, <4>2 DEF InText
    <3>2. CASE editor # "android"
      BY <2>1, <3>2, BlockPlace DEF Ranges
    <3> QED BY <3>1, <3>2
  <2> DEFINE o == Options(r)
             w == Render(text, r, o)
  <2>3. PICK p \in Nat : Tidy(w, p, w.done)
    BY <2>1, <2>2, RenderTidy
  <2>4. r[1] \in Nat /\ r[2] \in Nat
    BY <2>2 DEF InText
  <2> HIDE DEF w
  <2>5. Stays(r, w)
    BY <2>3, <2>4, TidyStays
  <2> QED BY <2>5 DEF w
<1> QED BY <1>1, TextIsTyped, PTL

\* In every text, whatever its markers and statements, what a frontend draws of it is
\* closed: no code and no formula is left open, no marker, no "_" and no label is read
\* as Typst's own outside of formulas, and nothing that the transform writes is taken by
\* a backslash of the document's, but for statements with a "$", a backslash before a
\* blank, and a "<" in a formula that is shown raw or before a token that is hidden
\* (transform.rs, to_render_text_range).
THEOREM NothingIsLeftOpen == TypingSpec => []Closed
<1>1. TypingOK => Closed
  <2> SUFFICES ASSUME TypingOK, NEW r \in Ranges
               PROVE  Accepted(Render(text, r, Options(r)).out,
                               Read(Render(text, r, Options(r)).out),
                               LeftBare(text, Plan(text, r, Options(r)), Options(r)))
    BY DEF Closed
  <2>1. Typed(text)
    BY DEF TypingOK, Typed
  <2>2. Rounded(text, r)
    <3>1. CASE editor = "android"
      <4>1. r = <<1, End(text)>>
        BY <3>1 DEF Ranges
      <4>2. End(text) \in Nat /\ 1 <= End(text) /\ 1 \in Nat
        BY <2>1, LenProperties DEF Typed, End
      <4>3. ~ Escaped(text, 1)
        BY <2>1, NotEscaped
      <4> QED BY <4>1, <4>2, <4>3 DEF Rounded, InText
    <3>2. CASE editor # "android"
      BY <2>1, <3>2, BlockRounded DEF Ranges
    <3> QED BY <3>1, <3>2
  <2> DEFINE w == Render(text, r, Options(r))
             s == Read(w.out)
             free == LeftBare(text, Plan(text, r, Options(r)), Options(r))
  <2>3. PICK done : Sound(w, text, free, FALSE, done)
    BY <2>1, <2>2, RenderSound
  <2> HIDE DEF w, free
  <2>4. Calm(s, text, free, Dollared(w.out), FALSE)
    BY <2>3 DEF Sound
  <2> HIDE DEF s
  <2>5. /\ ~ s.code /\ ~ s.marker
        /\ s.taken => Slipped(text)
        /\ s.math \/ s.mark => Dollared(w.out)
        /\ s.label => Dollared(w.out) \/ free # {}
    BY <2>4 DEF Calm
  <2>6. Accepted(w.out, s, free)
    BY <2>5 DEF Accepted, Dollared, Slipped
  <2> QED BY <2>6 DEF w, s, free
<1> QED BY <1>1, TextIsTyped, PTL
=============================================================================
