---------------------------- MODULE AgentEvents ----------------------------
(***************************************************************************)
(* The event side of the agent server (crates/kernel_client/src/bin/       *)
(* unfer_agent.rs): its models, the bounded queue of events of each, and   *)
(* the three ways out of it:                                               *)
(*                                                                         *)
(*   poll_events    takes what the queue holds;                            *)
(*   events_poll    answers what is behind a cursor and takes nothing;     *)
(*   events_stream  has main write every event behind the response that    *)
(*                  produced it.                                           *)
(*                                                                         *)
(* Cursors number the events of all models together, so an event is its    *)
(* cursor and a queue, which only ever grows at the new end, is the set of *)
(* its cursors.  A request that is refused changes nothing and is left     *)
(* out.                                                                    *)
(*                                                                         *)
(* Consumers are clients that poll from the cursor they stored last.       *)
(***************************************************************************)
EXTENDS Naturals, Sequences, FiniteSets

CONSTANTS
  Consumers,   \* clients of events_poll
  EventCapacity,    \* EVENT_QUEUE_CAPACITY
  PollMax,         \* `max` of a poll
  MaxModels,   \* bound: models created
  MaxEvents    \* bound: events produced

ASSUME AgentEventsAssumption ==
  /\ EventCapacity \in Nat \ {0} /\ PollMax \in Nat \ {0}
  /\ MaxModels \in Nat /\ MaxEvents \in Nat

Models == 1 .. MaxModels

VARIABLES
  next_id, live,      \* live: the keys of sessions
  emitted,            \* the model of every event so far, by cursor
  queue,              \* of each model, the cursors it holds
  events_dropped,     \* of each model
  streaming, stream_outbox, stream_dropped,
  pushed,             \* the last cursor written to the channel unasked
  since, got,         \* of each consumer: its cursor per model, what it was given
  again,              \* consumers that were given an event twice
  told,               \* the models a consumer was told to have a gap in
  drained,            \* events that poll_events gave away
  reported            \* of each model, the losses poll_events reported

serverVars == <<next_id, live, queue, events_dropped>>
streamVars == <<streaming, stream_outbox, stream_dropped, pushed>>
consumerVars == <<since, got, again, told>>
historyVars == <<drained, reported>>
eventsVars == <<serverVars, emitted, streamVars, consumerVars, historyVars>>

\* main reads the next request when it has written the pushes of the last.
Idle == stream_outbox = {}

event_cursor == Len(emitted) + 1
latest_cursor == Len(emitted)

EventCursors == 1 .. latest_cursor
EventsOf(m) == {k \in EventCursors : emitted[k] = m}

Oldest(S) == CHOOSE k \in S : \A j \in S : k <= j

EventsTypeOK ==
  /\ next_id \in 1 .. MaxModels + 1
  /\ live \subseteq 1 .. next_id - 1
  /\ emitted \in Seq(Models) /\ Len(emitted) <= MaxEvents
  /\ queue \in [Models -> SUBSET EventCursors]
  /\ \A m \in Models : /\ IsFiniteSet(queue[m])
                       /\ Cardinality(queue[m]) <= EventCapacity
                       /\ m \notin live => queue[m] = {}
  /\ events_dropped \in [Models -> Nat]
  /\ streaming \in BOOLEAN
  /\ stream_outbox \subseteq EventCursors /\ Cardinality(stream_outbox) <= EventCapacity
  /\ stream_dropped \in Nat
  /\ pushed \in EventCursors \cup {0}
  /\ since \in [Consumers -> [Models -> EventCursors \cup {0}]]
  /\ got \in [Consumers -> SUBSET EventCursors]
  /\ again \subseteq Consumers
  /\ told \in [Consumers -> SUBSET Models]
  /\ drained \subseteq EventCursors
  /\ reported \in [Models -> Nat]

EventsInit ==
  /\ next_id = 1 /\ live = {} /\ emitted = <<>>
  /\ queue = [m \in Models |-> {}]
  /\ events_dropped = [m \in Models |-> 0]
  /\ streaming = FALSE /\ stream_outbox = {} /\ stream_dropped = 0 /\ pushed = 0
  /\ since = [c \in Consumers |-> [m \in Models |-> 0]]
  /\ got = [c \in Consumers |-> {}] /\ again = {}
  /\ told = [c \in Consumers |-> {}]
  /\ drained = {} /\ reported = [m \in Models |-> 0]

-----------------------------------------------------------------------------
(* Models.                                                                 *)

\* create_model and restore_session.
CreateModel ==
  /\ Idle /\ next_id <= MaxModels
  /\ live' = live \cup {next_id}
  /\ next_id' = next_id + 1
  /\ UNCHANGED <<queue, events_dropped, emitted, streamVars, consumerVars, historyVars>>

CloseModel(m) ==
  /\ Idle /\ m \in live
  /\ live' = live \ {m}
  /\ queue' = [queue EXCEPT ![m] = {}]
  /\ events_dropped' = [events_dropped EXCEPT ![m] = 0]
  /\ UNCHANGED <<next_id, emitted, streamVars, consumerVars, historyVars>>

\* A bounded queue with one more event: the oldest makes room.
Pushed(S, k) ==
  (IF Cardinality(S) >= EventCapacity THEN S \ {Oldest(S)} ELSE S) \cup {k}

Full(S) == IF Cardinality(S) >= EventCapacity THEN 1 ELSE 0

SlipProduce(m) ==  \* slip: the loss is counted when the queue is over its bound
  /\ m \in live /\ Len(emitted) < MaxEvents
  /\ Idle
  /\ emitted' = Append(emitted, m)
  /\ queue' = [queue EXCEPT ![m] = Pushed(@, event_cursor)]
  /\ events_dropped' =
       [events_dropped EXCEPT ![m] = @ + IF Cardinality(queue[m]) > EventCapacity THEN 1 ELSE 0]
  /\ IF streaming
     THEN /\ stream_outbox' = Pushed(stream_outbox, event_cursor)
          /\ stream_dropped' = stream_dropped + Full(stream_outbox)
     ELSE UNCHANGED <<stream_outbox, stream_dropped>>
  /\ UNCHANGED <<next_id, live, streaming, pushed, consumerVars, historyVars>>

\* A request that produces an event: set_prior, evolve, condition,
\* bayesian_update, belief_propagation, memory_append and memory_read, each
\* with push_event.
Produce(m) ==
  /\ m \in live /\ Len(emitted) < MaxEvents
  /\ Idle
  /\ emitted' = Append(emitted, m)
  /\ queue' = [queue EXCEPT ![m] = Pushed(@, event_cursor)]
  /\ events_dropped' = [events_dropped EXCEPT ![m] = @ + Full(queue[m])]
  /\ IF streaming
     THEN /\ stream_outbox' = Pushed(stream_outbox, event_cursor)
          /\ stream_dropped' = stream_dropped + Full(stream_outbox)
     ELSE UNCHANGED <<stream_outbox, stream_dropped>>
  /\ UNCHANGED <<next_id, live, streaming, pushed, consumerVars, historyVars>>

-----------------------------------------------------------------------------
(* The ways out.                                                           *)

\* poll_events: what is held, and how much was lost, both forgotten.
PollEvents(m) ==
  /\ Idle /\ m \in live
  /\ drained' = drained \cup queue[m]
  /\ reported' = [reported EXCEPT ![m] = @ + events_dropped[m]]
  /\ queue' = [queue EXCEPT ![m] = {}]
  /\ events_dropped' = [events_dropped EXCEPT ![m] = 0]
  /\ UNCHANGED <<next_id, live, emitted, streamVars, consumerVars>>

SlipGap(m, from) == events_dropped[m] > 0  \* slip: the counter tells

\* An empty queue never has a gap.
Gap(m, from) == queue[m] # {} /\ from + 1 < Oldest(queue[m])

SlipPending(m, from) == {k \in queue[m] : k >= from}  \* slip: not strictly later

Pending(m, from) == {k \in queue[m] : k > from}

SlipBatch(m, from) ==  \* slip: cut short before it is searched
  {k \in Pending(m, from) : Cardinality({j \in queue[m] : j <= k}) <= PollMax}

\* The first PollMax of what is pending.
Batch(m, from) ==
  {k \in Pending(m, from) : Cardinality({j \in Pending(m, from) : j <= k}) <= PollMax}

\* events_poll, and the client's storing of the cursor it was given.  A reply
\* that a client does not live to store changes nothing.
EventsPoll(c, m) ==
  /\ Idle /\ m \in live
  /\ LET batch == Batch(m, since[c][m]) IN
       /\ got' = [got EXCEPT ![c] = @ \cup batch]
       /\ again' = IF batch \cap got[c] = {} THEN again ELSE again \cup {c}
       /\ since' = [since EXCEPT ![c][m] =
                      IF batch = {} THEN @ ELSE CHOOSE k \in batch : \A j \in batch : j <= k]
       /\ told' = [told EXCEPT ![c] = IF Gap(m, since[c][m]) THEN @ \cup {m} ELSE @]
  /\ UNCHANGED <<serverVars, emitted, streamVars, historyVars>>

EventsStream(on) ==
  /\ Idle
  /\ streaming' = on
  /\ stream_outbox' = IF on THEN stream_outbox ELSE {}
  /\ UNCHANGED <<stream_dropped, pushed, serverVars, emitted, consumerVars, historyVars>>

\* main, behind the response: drain_stream_outbox, a line for each.
DrainOutbox ==
  /\ stream_outbox # {}
  /\ pushed' = Oldest(stream_outbox)
  /\ stream_outbox' = stream_outbox \ {Oldest(stream_outbox)}
  /\ UNCHANGED <<streaming, stream_dropped, serverVars, emitted, consumerVars, historyVars>>

-----------------------------------------------------------------------------

EventsNext ==
  \/ CreateModel
  \/ \E m \in Models :
       CloseModel(m) \/ Produce(m) \/ PollEvents(m) \/ \E c \in Consumers : EventsPoll(c, m)
  \/ \E on \in BOOLEAN : EventsStream(on)
  \/ DrainOutbox

EventsSpec == EventsInit /\ [][EventsNext]_eventsVars

\* Consumers keep polling, and main writes what it has to.
FairEventsSpec ==
  /\ EventsSpec /\ WF_eventsVars(DrainOutbox)
  /\ \A c \in Consumers, m \in Models : WF_eventsVars(EventsPoll(c, m))

-----------------------------------------------------------------------------
(* Properties.                                                             *)

\* No consumer of events_poll is given an event twice, however its polls, the
\* other consumers, the streaming and the evictions interleave (CursoredEvent:
\* "exactly-once per consumer").
EachOnce == again = {}

\* A consumer's cursor never passes an event of its model that it was not
\* given, unless it was told of a gap or another client took the event with
\* poll_events (events_poll: "told rather than silently handed a stream with a
\* hole in it").
NoSilentHole ==
  \A c \in Consumers, m \in Models : \A k \in EventsOf(m) :
    k <= since[c][m] => k \in got[c] \/ m \in told[c] \/ k \in drained

\* Every event of a live model is still held, was taken by poll_events, or is
\* counted as lost exactly once, in the counter or in a reply (push_event).
Accounted ==
  \A m \in live :
    Cardinality(EventsOf(m)) =
      Cardinality(queue[m]) + Cardinality(drained \cap EventsOf(m))
        + events_dropped[m] + reported[m]

\* What is written to the channel unasked is in cursor order and never twice,
\* and the outbox never overflows: the pushes of one request are written before
\* the next is read (main; drain_stream_outbox: "an event written twice would
\* hand a consumer that is keeping its own cursor the duplicate").
PushedInOrder == stream_dropped = 0 /\ \A k \in stream_outbox : pushed < k

\* A consumer that keeps polling gets past every event that stays in the queue
\* of a live model, however small its batches.
CatchesUp ==
  \A c \in Consumers, m \in Models, k \in 1 .. MaxEvents :
    (k \in queue[m]) ~> (m \notin live \/ k \notin queue[m] \/ since[c][m] >= k)
=============================================================================
