--------------------------- MODULE AgentServerProofs ---------------------------
(***************************************************************************)
(* What the agent server keeps, in its event queues and on its board, for  *)
(* every capacity, any number of models, consumers, workers and scopes,    *)
(* failed flushes and restarts; and what documents that exchange packets   *)
(* report, which classify them with the same ConflictTracker.              *)
(***************************************************************************)
EXTENDS AgentEvents, AgentBoard, SyncPeers,
        NaturalLemmas, FiniteSetTheorems, SequenceTheorems, TLAPS

-----------------------------------------------------------------------------
(* The event queues (AgentEvents).                                         *)

\* The oldest event of a queue is in it, and no other is older.
LEMMA OldestIsLeast ==
  ASSUME NEW S \in SUBSET Nat, S # {}
  PROVE  Oldest(S) \in S /\ \A j \in S : Oldest(S) <= j
BY LeastExists DEF Oldest

-----------------------------------------------------------------------------
(* The invariant.                                                          *)

\* A queue holds events of its model, a consumer has none ahead of its cursor,
\* and an id is not given twice.
Shape ==
  /\ emitted \in Seq(Models) /\ next_id \in Nat \ {0} /\ live \subseteq Models
  /\ queue \in [Models -> SUBSET Nat]
  /\ since \in [Consumers -> [Models -> Nat]]
  /\ got \in [Consumers -> SUBSET Nat]
  /\ told \in [Consumers -> SUBSET Models]
  /\ drained \subseteq EventCursors
  /\ \A m \in live : m < next_id
  /\ \A k \in EventCursors : emitted[k] < next_id
  /\ \A m \in Models : queue[m] \subseteq EventsOf(m)
  /\ \A c \in Consumers, m \in Models : since[c][m] <= latest_cursor
  /\ \A c \in Consumers : \A k \in got[c] : k \in EventCursors /\ k <= since[c][emitted[k]]

\* What a live model's queue has lost is older than all it holds.
LostIsOlder ==
  \A m \in live : \A k \in EventsOf(m) :
    k \in queue[m] \/ k \in drained \/ \A j \in queue[m] : k < j

\* The outbox holds at most the event of the request just answered.
Outbox ==
  /\ stream_dropped = 0 /\ pushed \in Nat /\ pushed <= latest_cursor
  /\ stream_outbox \subseteq {latest_cursor}
  /\ stream_outbox # {} => pushed < latest_cursor

\* What is counted, and what has never been counted.
Books ==
  /\ events_dropped \in [Models -> Nat] /\ reported \in [Models -> Nat]
  /\ \A m \in Models : queue[m] \cap drained = {}
  /\ \A m \in Models :
       m >= next_id => queue[m] = {} /\ events_dropped[m] = 0 /\ reported[m] = 0
  /\ Accounted

EventsInv == Shape /\ LostIsOlder /\ NoSilentHole /\ EachOnce /\ Outbox /\ Books

\* One event more is the latest, and of its model only.
LEMMA EventsAppend ==
  ASSUME Shape, NEW m \in Models, emitted' = Append(emitted, m)
  PROVE  /\ latest_cursor \in Nat /\ latest_cursor' = event_cursor
         /\ event_cursor = latest_cursor + 1
         /\ EventCursors \subseteq Nat /\ event_cursor \notin EventCursors
         /\ EventCursors' = EventCursors \cup {event_cursor}
         /\ emitted' \in Seq(Models)
         /\ \A k \in EventCursors : emitted'[k] = emitted[k]
         /\ emitted'[event_cursor] = m
         /\ EventsOf(m)' = EventsOf(m) \cup {event_cursor}
         /\ \A x \in Models \ {m} : EventsOf(x)' = EventsOf(x)
<1>1. /\ Len(emitted) \in Nat /\ Len(emitted') = Len(emitted) + 1
      /\ emitted' \in Seq(Models)
      /\ \A k \in 1 .. Len(emitted) : emitted'[k] = emitted[k]
      /\ emitted'[Len(emitted) + 1] = m
  BY DEF Shape
<1>2. 1 .. Len(emitted) + 1 = (1 .. Len(emitted)) \cup {Len(emitted) + 1}
  BY <1>1
<1> QED BY <1>1, <1>2 DEF latest_cursor, event_cursor, EventCursors, EventsOf

\* Every set of events is finite.
LEMMA EventsFinite ==
  ASSUME Shape, NEW S \in SUBSET EventCursors
  PROVE  IsFiniteSet(S) /\ Cardinality(S) \in Nat
<1>1. IsFiniteSet(EventCursors)
  BY FS_Interval DEF Shape, EventCursors, latest_cursor
<1> QED BY <1>1, FS_Subset, FS_CardinalityType

\* A batch has no hole: what is pending before one of it is in it.
LEMMA BatchIsPrefix ==
  ASSUME Shape, NEW m \in Models, NEW from, NEW j \in Batch(m, from),
         NEW k \in Pending(m, from), k <= j
  PROVE  k \in Batch(m, from)
<1> DEFINE upTo(x) == {i \in Pending(m, from) : i <= x}
<1>1. Pending(m, from) \subseteq EventCursors /\ EventCursors \subseteq Nat
  BY DEF Shape, Pending, EventsOf, EventCursors, latest_cursor
<1>2. upTo(k) \subseteq upTo(j)
  <2>1. \A i \in Pending(m, from) : i \in Nat
    BY <1>1
  <2>2. j \in Nat /\ k \in Nat
    BY <2>1 DEF Batch
  <2>3. ASSUME NEW i \in Pending(m, from), i <= k
        PROVE  i <= j
    BY <2>1, <2>2, <2>3
  <2> QED BY <2>3
<1>3. /\ IsFiniteSet(upTo(j)) /\ Cardinality(upTo(j)) \in Nat /\ Cardinality(upTo(k)) \in Nat
  BY <1>1, EventsFinite
<1>4. Cardinality(upTo(k)) <= Cardinality(upTo(j))
  BY <1>2, <1>3, FS_Subset
<1>5. Cardinality(upTo(j)) <= PollMax
  BY DEF Batch
<1> HIDE DEF upTo
<1>6. Cardinality(upTo(k)) <= PollMax
  BY <1>3, <1>4, <1>5, AgentEventsAssumption
<1> QED BY <1>6 DEF Batch, upTo

-----------------------------------------------------------------------------
(* The consumers.                                                          *)

\* A poll gives what is pending, moves the cursor behind it, and tells of a gap
\* when there is one.
LEMMA PollKeeps ==
  ASSUME EventsInv, NEW c \in Consumers, NEW m \in Models, EventsPoll(c, m)
  PROVE  Shape' /\ NoSilentHole' /\ EachOnce'
<1> DEFINE from == since[c][m]
           batch == Batch(m, from)
<1>0. /\ m \in live
      /\ UNCHANGED <<next_id, live, queue, events_dropped, emitted, drained>>
  BY DEF EventsPoll, serverVars, historyVars
<1>1. /\ batch \subseteq EventsOf(m) /\ EventsOf(m) \subseteq EventCursors /\ EventCursors \subseteq Nat
      /\ latest_cursor \in Nat /\ from \in Nat /\ from <= latest_cursor
      /\ \A k \in EventCursors : k <= latest_cursor
      /\ \A k \in batch : k > from /\ k \in queue[m]
  BY DEF EventsInv, Shape, Batch, Pending, EventsOf, EventCursors, latest_cursor
<1>2. batch \cap got[c] = {}
  <2> SUFFICES ASSUME NEW k \in batch, k \in got[c]
               PROVE  FALSE
    OBVIOUS
  <2>1. emitted[k] = m /\ k <= since[c][m]
    BY <1>1 DEF EventsInv, Shape, EventsOf
  <2>2. k \in Nat /\ from \in Nat /\ k > from /\ k <= from
    BY <1>1, <2>1
  <2> QED BY <2>2
<1>3. PICK to \in Nat :
        /\ since' = [since EXCEPT ![c][m] = to]
        /\ from <= to /\ to <= latest_cursor
        /\ \A k \in batch : k <= to
        /\ batch = {} => to = from
        /\ batch # {} => to \in batch
  <2>1. CASE batch = {}
    <3>1. since' = [since EXCEPT ![c][m] = from]
      BY <2>1 DEF EventsPoll
    <3>2. from \in Nat /\ from <= latest_cursor /\ from <= from
      BY <1>1
    <3> HIDE DEF batch, from
    <3> QED BY <2>1, <3>1, <3>2
  <2>2. CASE batch # {}
    <3> DEFINE top == CHOOSE k \in batch : \A j \in batch : j <= k
    <3>1. \E k \in batch : \A j \in batch : j <= k
      <4> HIDE DEF batch
      <4> QED BY <1>1, <2>2, GreatestExists
    <3>2. top \in batch /\ \A j \in batch : j <= top
      <4> HIDE DEF batch
      <4> QED BY <3>1
    <3>3. since' = [since EXCEPT ![c][m] = top]
      BY <2>2 DEF EventsPoll
    <3>4. top \in Nat /\ top > from /\ top <= latest_cursor
      BY <1>1, <3>2
    <3>5. from <= top
      BY <1>1, <3>4
    <3> HIDE DEF top, batch, from
    <3> QED BY <2>2, <3>2, <3>3, <3>4, <3>5
  <2> QED BY <2>1, <2>2
<1>4. /\ since'[c][m] = to /\ since' \in [Consumers -> [Models -> Nat]]
      /\ \A d \in Consumers, x \in Models :
           d # c \/ x # m => since'[d][x] = since[d][x]
  BY <1>3 DEF EventsInv, Shape
<1>5. /\ got' = [got EXCEPT ![c] = @ \cup batch]
      /\ again' = again
      /\ told' = [told EXCEPT ![c] = IF Gap(m, from) THEN @ \cup {m} ELSE @]
  BY <1>2 DEF EventsPoll
<1> HIDE DEF batch, from
<1>6. EachOnce'
  BY <1>5 DEF EventsInv, EachOnce
<1>7. Shape'
  <2>1. got' \in [Consumers -> SUBSET Nat] /\ told' \in [Consumers -> SUBSET Models]
    BY <1>1, <1>5 DEF EventsInv, Shape
  <2>2. EventCursors' = EventCursors /\ latest_cursor' = latest_cursor
        /\ \A x \in Models : EventsOf(x)' = EventsOf(x)
    BY <1>0 DEF EventCursors, latest_cursor, EventsOf
  <2>3. \A d \in Consumers, x \in Models : since'[d][x] <= latest_cursor
    BY <1>3, <1>4 DEF EventsInv, Shape
  <2>4. ASSUME NEW d \in Consumers, NEW k \in got'[d]
        PROVE  k \in EventCursors /\ k <= since'[d][emitted[k]]
    <3>1. CASE d = c /\ k \in batch
      <4>1. emitted[k] = m /\ k \in EventCursors
        BY <1>1, <3>1 DEF EventsOf
      <4> QED BY <1>3, <1>4, <3>1, <4>1
    <3>2. CASE k \in got[d]
      <4>1. k \in EventCursors /\ k \in Nat /\ k <= since[d][emitted[k]] /\ emitted[k] \in Models
        BY <3>2, <1>1 DEF EventsInv, Shape, EventCursors, latest_cursor
      <4>2. since[d][emitted[k]] <= since'[d][emitted[k]]
            /\ since[d][emitted[k]] \in Nat /\ since'[d][emitted[k]] \in Nat
        BY <1>3, <1>4, <4>1 DEF EventsInv, Shape, from
      <4> QED BY <4>1, <4>2
    <3> QED BY <1>5, <3>1, <3>2 DEF EventsInv, Shape
  <2> QED BY <1>0, <1>4, <2>1, <2>2, <2>3, <2>4 DEF EventsInv, Shape
<1>8. NoSilentHole'
  <2> SUFFICES ASSUME NEW d \in Consumers, NEW x \in Models, NEW k \in EventsOf(x),
                      k <= since'[d][x]
               PROVE  k \in got'[d] \/ x \in told'[d] \/ k \in drained
    BY <1>0 DEF NoSilentHole, EventsOf, EventCursors, latest_cursor
  <2>1. got[d] \subseteq got'[d] /\ told[d] \subseteq told'[d]
    BY <1>5 DEF EventsInv, Shape
  <2>2. CASE k <= since[d][x]
    BY <2>1, <2>2 DEF EventsInv, NoSilentHole
  <2>3. CASE ~ (k <= since[d][x])
    <3>1. d = c /\ x = m /\ k <= to /\ k \in Nat /\ k > from
      BY <1>1, <1>4, <2>3 DEF from, EventsOf, EventCursors
    <3>2. to \in batch
      BY <1>3, <3>1, <1>1
    <3>3. k \in queue[m] \/ k \in drained \/ \A j \in queue[m] : k < j
      BY <1>0, <3>1 DEF EventsInv, LostIsOlder
    <3>4. CASE k \in queue[m]
      <4>1. k \in Pending(m, from)
        BY <3>1, <3>4 DEF Pending
      <4>2. k \in batch
        BY <3>1, <3>2, <4>1, BatchIsPrefix DEF EventsInv, batch
      <4> QED BY <1>5, <3>1, <4>2 DEF EventsInv, Shape
    <3>5. CASE \A j \in queue[m] : k < j
      <4>1. queue[m] \in SUBSET Nat /\ queue[m] # {} /\ to \in queue[m]
        BY <1>1, <3>2 DEF EventsInv, Shape
      <4>2. k < Oldest(queue[m]) /\ Oldest(queue[m]) \in Nat
        BY <3>5, <4>1, OldestIsLeast
      <4>3. Gap(m, from)
        BY <1>1, <3>1, <4>1, <4>2 DEF Gap
      <4> QED BY <1>5, <3>1, <4>3 DEF EventsInv, Shape
    <3> QED BY <3>3, <3>4, <3>5
  <2> QED BY <2>2, <2>3
<1> QED BY <1>6, <1>7, <1>8

-----------------------------------------------------------------------------
(* The server.                                                             *)

\* A bounded queue drops at most one event for a new one, its oldest, and says so.
LEMMA PushedDropsOldest ==
  ASSUME NEW S \in SUBSET Nat, IsFiniteSet(S), NEW k \in Nat, k \notin S
  PROVE  /\ k \in Pushed(S, k) /\ Pushed(S, k) \subseteq S \cup {k}
         /\ \A i \in S \ Pushed(S, k) : \A j \in Pushed(S, k) \ {k} : i < j
         /\ Full(S) \in Nat
         /\ IsFiniteSet(Pushed(S, k))
         /\ Cardinality(Pushed(S, k)) + Full(S) = Cardinality(S) + 1
<1>1. Cardinality(S) \in Nat /\ EventCapacity \in Nat \ {0}
  BY FS_CardinalityType, AgentEventsAssumption
<1>2. CASE Cardinality(S) >= EventCapacity
  <2>1. S # {}
    BY <1>1, <1>2, FS_EmptySet
  <2>2. Oldest(S) \in S /\ \A j \in S : Oldest(S) <= j
    BY <2>1, OldestIsLeast
  <2> DEFINE T == S \ {Oldest(S)}
  <2>3. IsFiniteSet(T) /\ Cardinality(T) = Cardinality(S) - 1 /\ k \notin T
    BY <2>2, FS_RemoveElement
  <2>4. IsFiniteSet(T \cup {k}) /\ Cardinality(T \cup {k}) = Cardinality(T) + 1
    <3> HIDE DEF T
    <3> QED BY <2>3, FS_AddElement
  <2>5. Pushed(S, k) = T \cup {k} /\ Full(S) = 1
    BY <1>2 DEF Pushed, Full
  <2>6. \A i \in S \ Pushed(S, k) : \A j \in Pushed(S, k) \ {k} : i < j
    <3> SUFFICES ASSUME NEW i \in S \ Pushed(S, k), NEW j \in Pushed(S, k) \ {k}
                 PROVE  i < j
      OBVIOUS
    <3>1. i = Oldest(S) /\ j \in S /\ j # i
      BY <2>5
    <3>2. i <= j /\ i \in Nat /\ j \in Nat
      BY <2>2, <3>1
    <3> QED BY <3>1, <3>2
  <2> HIDE DEF T
  <2>7. Cardinality(T \cup {k}) + 1 = Cardinality(S) + 1
    BY <1>1, <2>3, <2>4
  <2>8. T \subseteq S
    BY DEF T
  <2> QED BY <2>4, <2>5, <2>6, <2>7, <2>8
<1>3. CASE ~ (Cardinality(S) >= EventCapacity)
  <2>1. Pushed(S, k) = S \cup {k} /\ Full(S) = 0
    BY <1>3 DEF Pushed, Full
  <2>2. IsFiniteSet(S \cup {k}) /\ Cardinality(S \cup {k}) = Cardinality(S) + 1
    BY FS_AddElement
  <2>3. Cardinality(S \cup {k}) + 0 = Cardinality(S) + 1
    BY <1>1, <2>2
  <2> QED BY <2>1, <2>2, <2>3
<1> QED BY <1>2, <1>3

\* A new event may push the oldest one out of its queue, and out of nobody's sight
\* without being counted.
LEMMA ProduceKeeps ==
  ASSUME EventsInv, NEW m \in Models, Produce(m)
  PROVE  EventsInv'
<1> DEFINE k == event_cursor
           Q == queue[m]
<1>1. /\ m \in live /\ Idle /\ emitted' = Append(emitted, m)
      /\ queue' = [queue EXCEPT ![m] = Pushed(Q, k)]
      /\ events_dropped' = [events_dropped EXCEPT ![m] = @ + Full(Q)]
      /\ UNCHANGED <<next_id, live, pushed, since, got, again, told, drained, reported>>
  BY DEF Produce, consumerVars, historyVars
<1>2. /\ latest_cursor \in Nat /\ latest_cursor' = k /\ k = latest_cursor + 1
      /\ EventCursors \subseteq Nat /\ k \notin EventCursors /\ EventCursors' = EventCursors \cup {k}
      /\ emitted' \in Seq(Models)
      /\ \A i \in EventCursors : emitted'[i] = emitted[i]
      /\ emitted'[k] = m
      /\ EventsOf(m)' = EventsOf(m) \cup {k}
      /\ \A x \in Models \ {m} : EventsOf(x)' = EventsOf(x)
  BY <1>1, EventsAppend DEF EventsInv
<1>3. /\ \A i \in EventCursors : i < k
      /\ \A x \in Models : EventsOf(x) \subseteq EventCursors
      /\ Q \in SUBSET Nat /\ Q \subseteq EventsOf(m) /\ k \notin Q /\ k \in Nat
      /\ k \notin drained /\ IsFiniteSet(Q)
  BY <1>2, EventsFinite DEF EventsInv, Shape, EventsOf, EventCursors, latest_cursor
<1>4. /\ k \in Pushed(Q, k) /\ Pushed(Q, k) \subseteq Q \cup {k}
      /\ \A i \in Q \ Pushed(Q, k) : \A j \in Pushed(Q, k) \ {k} : i < j
      /\ Full(Q) \in Nat /\ Cardinality(Pushed(Q, k)) + Full(Q) = Cardinality(Q) + 1
  BY <1>3, PushedDropsOldest
<1>5. /\ queue'[m] = Pushed(Q, k)
      /\ \A x \in Models \ {m} : queue'[x] = queue[x]
      /\ queue' \in [Models -> SUBSET Nat]
  BY <1>1, <1>3, <1>4 DEF EventsInv, Shape
<1> HIDE DEF k, Q
<1>6. Shape'
  <2>1. \A x \in Models : queue'[x] \subseteq EventsOf(x)'
    <3>1. queue'[m] \subseteq EventsOf(m)'
      BY <1>2, <1>3, <1>4, <1>5
    <3>2. \A x \in Models \ {m} : queue'[x] \subseteq EventsOf(x)'
      BY <1>2, <1>5 DEF EventsInv, Shape
    <3> QED BY <3>1, <3>2
  <2>2. \A c \in Consumers, x \in Models : since'[c][x] <= latest_cursor'
    BY <1>1, <1>2 DEF EventsInv, Shape
  <2>3. \A c \in Consumers : \A i \in got'[c] : i \in EventCursors' /\ i <= since'[c][emitted'[i]]
    BY <1>1, <1>2 DEF EventsInv, Shape
  <2>4. \A i \in EventCursors' : emitted'[i] < next_id'
    BY <1>1, <1>2 DEF EventsInv, Shape
  <2> QED BY <1>1, <1>2, <1>5, <2>1, <2>2, <2>3, <2>4 DEF EventsInv, Shape
<1>7. LostIsOlder'
  <2> SUFFICES ASSUME NEW x \in live, NEW i \in EventsOf(x)'
               PROVE  i \in queue'[x] \/ i \in drained \/ \A j \in queue'[x] : i < j
    BY <1>1 DEF LostIsOlder
  <2>1. x \in Models
    BY DEF EventsInv, Shape
  <2>2. CASE x # m
    BY <1>2, <1>5, <2>1, <2>2 DEF EventsInv, LostIsOlder
  <2>3. CASE x = m /\ i = k
    BY <1>4, <1>5, <2>3
  <2>4. CASE x = m /\ i \in EventsOf(m)
    <3>1. i < k /\ i \in EventCursors
      BY <1>3, <2>4, <2>1
    <3>2. i \in Q \/ i \in drained \/ \A j \in Q : i < j
      BY <2>4 DEF EventsInv, LostIsOlder, Q
    <3> QED BY <1>4, <1>5, <2>4, <3>1, <3>2
  <2> QED BY <1>2, <2>1, <2>2, <2>3, <2>4
<1>8. NoSilentHole'
  <2> SUFFICES ASSUME NEW c \in Consumers, NEW x \in Models, NEW i \in EventsOf(x)',
                      i <= since[c][x]
               PROVE  i \in got[c] \/ x \in told[c] \/ i \in drained
    BY <1>1 DEF NoSilentHole
  <2>1. since[c][x] \in Nat /\ since[c][x] < k
    BY <1>2 DEF EventsInv, Shape
  <2>2. i \in EventsOf(x)
    BY <1>2, <1>3, <2>1
  <2> QED BY <2>2 DEF EventsInv, NoSilentHole
<1>9. EachOnce'
  BY <1>1 DEF EventsInv, EachOnce
<1>10. Outbox'
  <2>1. stream_outbox = {}
    BY <1>1 DEF Idle
  <2>2. /\ stream_outbox' = {} \/ stream_outbox' = Pushed({}, k)
        /\ stream_dropped' = stream_dropped \/ stream_dropped' = stream_dropped + Full({})
    BY <2>1 DEF Produce, k
  <2>3. Cardinality({}) = 0 /\ EventCapacity \in Nat \ {0}
    BY FS_EmptySet, AgentEventsAssumption
  <2>4. Full({}) = 0 /\ Pushed({}, k) = {k}
    BY <2>3 DEF Full, Pushed
  <2>5. stream_dropped' = 0 /\ stream_outbox' \subseteq {k}
    BY <2>2, <2>4 DEF EventsInv, Outbox
  <2> QED BY <1>1, <1>2, <2>5 DEF EventsInv, Outbox
<1>11. Books'
  <2>1. events_dropped' \in [Models -> Nat] /\ reported' \in [Models -> Nat]
        /\ events_dropped'[m] = events_dropped[m] + Full(Q)
        /\ \A x \in Models \ {m} : events_dropped'[x] = events_dropped[x]
    BY <1>1, <1>4 DEF EventsInv, Books
  <2>2. \A x \in Models : queue'[x] \cap drained' = {}
    BY <1>1, <1>3, <1>4, <1>5 DEF EventsInv, Books, Q
  <2>3. \A x \in Models : x >= next_id' =>
          queue'[x] = {} /\ events_dropped'[x] = 0 /\ reported'[x] = 0
    BY <1>1, <1>5, <2>1 DEF EventsInv, Books, Shape, Models
  <2>4. Accounted'
    <3> SUFFICES ASSUME NEW x \in live
                 PROVE  Cardinality(EventsOf(x)') =
                          Cardinality(queue'[x]) + Cardinality(drained \cap EventsOf(x)')
                            + events_dropped'[x] + reported[x]
      BY <1>1 DEF Accounted
    <3>1. /\ x \in Models
          /\ Cardinality(EventsOf(x)) =
               Cardinality(queue[x]) + Cardinality(drained \cap EventsOf(x))
                 + events_dropped[x] + reported[x]
      BY DEF EventsInv, Shape, Books, Accounted
    <3>2. CASE x # m
      BY <1>2, <1>5, <2>1, <3>1, <3>2
    <3>3. CASE x = m
      <4>1. IsFiniteSet(EventsOf(m)) /\ k \notin EventsOf(m)
        BY <1>2, <1>3, EventsFinite DEF EventsInv
      <4>2. Cardinality(EventsOf(m)') = Cardinality(EventsOf(m)) + 1
        <5>1. \A E : IsFiniteSet(E) /\ k \notin E => Cardinality(E \cup {k}) = Cardinality(E) + 1
          BY FS_AddElement
        <5> QED BY <1>2, <4>1, <5>1
      <4>3. drained \cap EventsOf(m)' = drained \cap EventsOf(m)
        BY <1>2, <1>3
      <4>4. /\ Cardinality(Q) \in Nat /\ Cardinality(drained \cap EventsOf(m)) \in Nat
            /\ Cardinality(EventsOf(m)) \in Nat
            /\ events_dropped[m] \in Nat /\ reported[m] \in Nat
        BY <1>3, <4>1, EventsFinite DEF EventsInv, Books
      <4>5. IsFiniteSet(Pushed(Q, k)) /\ Cardinality(Pushed(Q, k)) \in Nat
        BY <1>3, PushedDropsOldest, FS_CardinalityType
      <4>6. Cardinality(EventsOf(m)) =
              Cardinality(Q) + Cardinality(drained \cap EventsOf(m))
                + events_dropped[m] + reported[m]
        BY <3>1, <3>3 DEF Q
      <4>7. Cardinality(EventsOf(m)) + 1 =
              Cardinality(Pushed(Q, k)) + Cardinality(drained \cap EventsOf(m))
                + (events_dropped[m] + Full(Q)) + reported[m]
        BY <1>4, <4>4, <4>5, <4>6
      <4> QED BY <1>5, <2>1, <3>3, <4>2, <4>3, <4>7
    <3> QED BY <3>2, <3>3
  <2> QED BY <2>1, <2>2, <2>3, <2>4 DEF Books
<1> QED BY <1>6, <1>7, <1>8, <1>9, <1>10, <1>11 DEF EventsInv

\* poll_events hands over what the queue holds, and its count of losses.
LEMMA DrainKeeps ==
  ASSUME EventsInv, NEW m \in Models, PollEvents(m)
  PROVE  EventsInv'
<1> DEFINE Q == queue[m]
<1>1. /\ m \in live /\ queue' = [queue EXCEPT ![m] = {}] /\ drained' = drained \cup Q
      /\ events_dropped' = [events_dropped EXCEPT ![m] = 0]
      /\ reported' = [reported EXCEPT ![m] = @ + events_dropped[m]]
      /\ UNCHANGED <<next_id, live, emitted, since, got, again, told, streamVars>>
  BY DEF PollEvents, consumerVars
<1>2. /\ EventCursors' = EventCursors /\ latest_cursor' = latest_cursor
      /\ \A x : EventsOf(x)' = EventsOf(x)
  BY <1>1 DEF EventCursors, latest_cursor, EventsOf
<1>3. /\ queue'[m] = {} /\ \A x \in Models \ {m} : queue'[x] = queue[x]
      /\ queue' \in [Models -> SUBSET Nat]
      /\ Q \subseteq EventsOf(m) /\ EventsOf(m) \subseteq EventCursors /\ EventCursors \subseteq Nat
  BY <1>1 DEF EventsInv, Shape, EventsOf, EventCursors, latest_cursor
<1> HIDE DEF Q
<1>4. Shape'
  <2>1. \A x \in Models : queue'[x] \subseteq EventsOf(x)
    BY <1>3 DEF EventsInv, Shape
  <2>2. drained' \subseteq EventCursors
    BY <1>1, <1>3 DEF EventsInv, Shape
  <2> QED BY <1>1, <1>2, <1>3, <2>1, <2>2 DEF EventsInv, Shape
<1>5. LostIsOlder'
  <2> SUFFICES ASSUME NEW x \in live, NEW i \in EventsOf(x)
               PROVE  i \in queue'[x] \/ i \in drained' \/ \A j \in queue'[x] : i < j
    BY <1>1, <1>2 DEF LostIsOlder
  <2>1. x \in Models
    BY DEF EventsInv, Shape
  <2>2. CASE x = m
    BY <1>3, <2>2
  <2>3. CASE x # m
    BY <1>1, <1>3, <2>1, <2>3 DEF EventsInv, LostIsOlder
  <2> QED BY <2>2, <2>3
<1>6. NoSilentHole' /\ EachOnce' /\ Outbox'
  BY <1>1, <1>2 DEF EventsInv, NoSilentHole, EachOnce, Outbox, streamVars
<1>7. Books'
  <2>1. events_dropped' \in [Models -> Nat] /\ reported' \in [Models -> Nat]
        /\ events_dropped'[m] = 0 /\ reported'[m] = reported[m] + events_dropped[m]
        /\ \A x \in Models \ {m} :
             events_dropped'[x] = events_dropped[x] /\ reported'[x] = reported[x]
    BY <1>1 DEF EventsInv, Books
  <2>2. \A x \in Models \ {m} : EventsOf(x) \cap Q = {} /\ queue[x] \cap Q = {}
    <3>1. \A x \in Models \ {m} : EventsOf(x) \cap EventsOf(m) = {}
      BY DEF EventsOf
    <3>2. \A x \in Models : queue[x] \subseteq EventsOf(x)
      BY DEF EventsInv, Shape
    <3> QED BY <1>3, <3>1, <3>2
  <2>3. \A x \in Models : queue'[x] \cap drained' = {}
    BY <1>1, <1>3, <2>2 DEF EventsInv, Books
  <2>4. \A x \in Models : x >= next_id' =>
          queue'[x] = {} /\ events_dropped'[x] = 0 /\ reported'[x] = 0
    <3>1. ~ (m >= next_id)
      BY <1>1 DEF EventsInv, Shape, Models
    <3> QED BY <1>1, <1>3, <2>1, <3>1 DEF EventsInv, Books
  <2>5. Accounted'
    <3> SUFFICES ASSUME NEW x \in live
                 PROVE  Cardinality(EventsOf(x)) =
                          Cardinality(queue'[x]) + Cardinality(drained' \cap EventsOf(x))
                            + events_dropped'[x] + reported'[x]
      BY <1>1, <1>2 DEF Accounted
    <3>1. /\ x \in Models
          /\ Cardinality(EventsOf(x)) =
               Cardinality(queue[x]) + Cardinality(drained \cap EventsOf(x))
                 + events_dropped[x] + reported[x]
      BY DEF EventsInv, Shape, Books, Accounted
    <3>2. CASE x # m
      <4>1. drained' \cap EventsOf(x) = drained \cap EventsOf(x)
        BY <1>1, <2>2, <3>1, <3>2
      <4> QED BY <1>3, <2>1, <3>1, <3>2, <4>1
    <3>3. CASE x = m
      <4> DEFINE D == drained \cap EventsOf(m)
      <4>1. drained' \cap EventsOf(m) = D \cup Q /\ D \cap Q = {}
        BY <1>1, <1>3 DEF EventsInv, Books, Q
      <4>2. IsFiniteSet(D) /\ IsFiniteSet(Q) /\ Cardinality(D) \in Nat /\ Cardinality(Q) \in Nat
        BY <1>3, EventsFinite DEF EventsInv
      <4>3. Cardinality(D \cup Q) = Cardinality(D) + Cardinality(Q)
        <5> HIDE DEF D
        <5>1. Cardinality(D \cap Q) = 0
          BY <4>1, FS_EmptySet
        <5>2. Cardinality(D \cup Q) = Cardinality(D) + Cardinality(Q) - Cardinality(D \cap Q)
          BY <4>2, FS_Union
        <5> QED BY <4>2, <5>1, <5>2
      <4>4. events_dropped[m] \in Nat /\ reported[m] \in Nat /\ Cardinality({}) = 0
        BY FS_EmptySet DEF EventsInv, Books
      <4>5. Cardinality(EventsOf(m)) =
              Cardinality(Q) + Cardinality(D) + events_dropped[m] + reported[m]
        BY <3>1, <3>3 DEF Q
      <4>6. Cardinality(EventsOf(m)) =
              0 + Cardinality(D \cup Q) + 0 + (reported[m] + events_dropped[m])
        BY <4>2, <4>3, <4>4, <4>5
      <4> QED BY <1>3, <2>1, <3>3, <4>1, <4>4, <4>6
    <3> QED BY <3>2, <3>3
  <2> QED BY <2>1, <2>3, <2>4, <2>5 DEF Books
<1> QED BY <1>4, <1>5, <1>6, <1>7 DEF EventsInv

\* A model that is closed takes its queue and its count along; nobody is given
\* its id again.
LEMMA CloseKeeps ==
  ASSUME EventsInv, NEW m \in Models, CloseModel(m)
  PROVE  EventsInv'
<1>1. /\ m \in live /\ live' = live \ {m} /\ queue' = [queue EXCEPT ![m] = {}]
      /\ events_dropped' = [events_dropped EXCEPT ![m] = 0]
      /\ UNCHANGED <<next_id, emitted, since, got, again, told, drained, reported, streamVars>>
  BY DEF CloseModel, consumerVars, historyVars
<1>2. /\ EventCursors' = EventCursors /\ latest_cursor' = latest_cursor
      /\ \A x : EventsOf(x)' = EventsOf(x)
  BY <1>1 DEF EventCursors, latest_cursor, EventsOf
<1>3. /\ queue'[m] = {} /\ \A x \in Models \ {m} : queue'[x] = queue[x]
      /\ queue' \in [Models -> SUBSET Nat]
      /\ events_dropped' \in [Models -> Nat] /\ events_dropped'[m] = 0
      /\ \A x \in Models \ {m} : events_dropped'[x] = events_dropped[x]
  BY <1>1 DEF EventsInv, Shape, Books
<1>4. Shape'
  <2>1. \A x \in Models : queue'[x] \subseteq EventsOf(x)
    BY <1>3 DEF EventsInv, Shape
  <2> QED BY <1>1, <1>2, <1>3, <2>1 DEF EventsInv, Shape
<1>5. LostIsOlder'
  BY <1>1, <1>2, <1>3 DEF EventsInv, LostIsOlder, Shape
<1>6. NoSilentHole' /\ EachOnce' /\ Outbox'
  BY <1>1, <1>2 DEF EventsInv, NoSilentHole, EachOnce, Outbox, streamVars
<1>7. Books'
  <2>1. \A x \in Models : queue'[x] \cap drained' = {}
    BY <1>1, <1>3 DEF EventsInv, Books
  <2>2. \A x \in Models : x >= next_id' =>
          queue'[x] = {} /\ events_dropped'[x] = 0 /\ reported'[x] = 0
    <3>1. ~ (m >= next_id)
      BY <1>1 DEF EventsInv, Shape, Models
    <3> QED BY <1>1, <1>3, <3>1 DEF EventsInv, Books
  <2>3. Accounted'
    BY <1>1, <1>2, <1>3 DEF EventsInv, Shape, Books, Accounted
  <2> QED BY <1>1, <1>3, <2>1, <2>2, <2>3 DEF EventsInv, Books
<1> QED BY <1>4, <1>5, <1>6, <1>7 DEF EventsInv

\* A new model has no events and no count.
LEMMA CreateKeeps ==
  ASSUME EventsInv, CreateModel
  PROVE  EventsInv'
<1>1. /\ next_id \in Models /\ live' = live \cup {next_id} /\ next_id' = next_id + 1
      /\ UNCHANGED <<emitted, queue, events_dropped, since, got, again, told, drained, reported,
                     streamVars>>
  BY AgentEventsAssumption DEF CreateModel, consumerVars, historyVars, EventsInv, Shape, Models,
     Books
<1>2. /\ EventCursors' = EventCursors /\ latest_cursor' = latest_cursor
      /\ \A x : EventsOf(x)' = EventsOf(x)
  BY <1>1 DEF EventCursors, latest_cursor, EventsOf
<1>3. EventsOf(next_id) = {} /\ queue[next_id] = {} /\ events_dropped[next_id] = 0
      /\ reported[next_id] = 0 /\ next_id \in Nat /\ Models \subseteq Nat
  BY <1>1 DEF EventsInv, Shape, Books, EventsOf, Models
<1>4. Shape'
  <2>1. \A x \in live' : x < next_id'
    BY <1>1, <1>3 DEF EventsInv, Shape
  <2>2. \A i \in EventCursors : emitted[i] < next_id'
    <3>1. \A i \in EventCursors : emitted[i] \in Nat
      <4>1. emitted \in Seq(Models)
        BY DEF EventsInv, Shape
      <4>2. \A i \in 1 .. Len(emitted) : emitted[i] \in Models
        BY <4>1
      <4> QED BY <1>3, <4>2 DEF EventCursors, latest_cursor
    <3> QED BY <1>1, <1>3, <3>1 DEF EventsInv, Shape
  <2> QED BY <1>1, <1>2, <1>3, <2>1, <2>2 DEF EventsInv, Shape
<1>5. LostIsOlder'
  BY <1>1, <1>2, <1>3 DEF EventsInv, LostIsOlder
<1>6. NoSilentHole' /\ EachOnce' /\ Outbox'
  BY <1>1, <1>2 DEF EventsInv, NoSilentHole, EachOnce, Outbox, streamVars
<1>7. Books'
  <2>1. \A x \in Models : x >= next_id' => x >= next_id
    BY <1>1, <1>3
  <2>2. Accounted'
    <3>1. Cardinality({}) = 0
      BY FS_EmptySet
    <3>2. Cardinality(EventsOf(next_id)) =
            Cardinality(queue[next_id]) + Cardinality(drained \cap EventsOf(next_id))
              + events_dropped[next_id] + reported[next_id]
      BY <1>3, <3>1
    <3> QED BY <1>1, <1>2, <3>2 DEF EventsInv, Books, Accounted
  <2> QED BY <1>1, <2>1, <2>2 DEF EventsInv, Books
<1> QED BY <1>4, <1>5, <1>6, <1>7 DEF EventsInv

\* What is pushed leaves the outbox, and nothing else is in it.
LEMMA StreamKeeps ==
  ASSUME EventsInv, DrainOutbox \/ \E on \in BOOLEAN : EventsStream(on)
  PROVE  EventsInv'
<1>1. UNCHANGED <<next_id, live, queue, events_dropped, emitted, since, got, again, told,
                  drained, reported, stream_dropped>>
  BY DEF DrainOutbox, EventsStream, serverVars, consumerVars, historyVars
<1>2. /\ EventCursors' = EventCursors /\ latest_cursor' = latest_cursor
      /\ \A x : EventsOf(x)' = EventsOf(x)
  BY <1>1 DEF EventCursors, latest_cursor, EventsOf
<1>3. Shape' /\ LostIsOlder' /\ NoSilentHole' /\ EachOnce' /\ Books'
  BY <1>1, <1>2 DEF EventsInv, Shape, LostIsOlder, NoSilentHole, EachOnce, Books, Accounted
<1>4. Outbox'
  <2>1. latest_cursor \in Nat
    BY DEF EventsInv, Shape, latest_cursor
  <2>2. CASE DrainOutbox
    <3>1. stream_outbox = {latest_cursor}
      BY <2>2 DEF EventsInv, Outbox, DrainOutbox
    <3>2. Oldest(stream_outbox) = latest_cursor
      BY <2>1, <3>1, OldestIsLeast
    <3> QED BY <1>1, <1>2, <2>1, <2>2, <3>1, <3>2 DEF EventsInv, Outbox, DrainOutbox
  <2>3. CASE \E on \in BOOLEAN : EventsStream(on)
    BY <1>1, <1>2, <2>3 DEF EventsInv, Outbox, EventsStream
  <2> QED BY <2>2, <2>3
<1> QED BY <1>3, <1>4 DEF EventsInv

-----------------------------------------------------------------------------

\* The invariant holds in every state.
THEOREM EventsInductive == EventsSpec => []EventsInv
<1>1. EventsInit => EventsInv
  <2> SUFFICES ASSUME EventsInit
               PROVE  EventsInv
    OBVIOUS
  <2>1. /\ emitted = <<>> /\ latest_cursor = 0 /\ EventCursors = {} /\ \A x : EventsOf(x) = {}
        /\ live = {} /\ next_id = 1
    BY DEF EventsInit, latest_cursor, EventCursors, EventsOf
  <2>2. Shape
    BY <2>1 DEF EventsInit, Shape
  <2> QED BY <2>1, <2>2 DEF EventsInit, EventsInv, LostIsOlder, NoSilentHole, EachOnce, Outbox, Books,
                           Accounted
<1>2. EventsInv /\ [EventsNext]_eventsVars => EventsInv'
  <2> SUFFICES ASSUME EventsInv, [EventsNext]_eventsVars
               PROVE  EventsInv'
    OBVIOUS
  <2>1. CASE \E m \in Models, c \in Consumers : EventsPoll(c, m)
    <3>1. PICK m \in Models, c \in Consumers : EventsPoll(c, m)
      BY <2>1
    <3>2. Shape' /\ NoSilentHole' /\ EachOnce'
      BY <3>1, PollKeeps
    <3>3. UNCHANGED <<next_id, live, queue, events_dropped, emitted, streamVars, drained, reported>>
      BY <3>1 DEF EventsPoll, serverVars, historyVars
    <3>4. latest_cursor' = latest_cursor /\ \A x : EventsOf(x)' = EventsOf(x)
      BY <3>3 DEF EventCursors, latest_cursor, EventsOf
    <3>5. LostIsOlder' /\ Outbox' /\ Books'
      BY <3>3, <3>4 DEF EventsInv, LostIsOlder, Outbox, Books, Accounted, streamVars
    <3> QED BY <3>2, <3>5 DEF EventsInv
  <2>2. CASE UNCHANGED eventsVars
    <3>1. UNCHANGED <<next_id, live, queue, events_dropped, emitted, stream_outbox,
                      stream_dropped, pushed, since, got, again, told, drained, reported>>
      BY <2>2 DEF eventsVars, serverVars, streamVars, consumerVars, historyVars
    <3>2. /\ EventCursors' = EventCursors /\ latest_cursor' = latest_cursor
          /\ \A x : EventsOf(x)' = EventsOf(x)
      BY <3>1 DEF EventCursors, latest_cursor, EventsOf
    <3> QED BY <3>1, <3>2 DEF EventsInv, Shape, LostIsOlder, NoSilentHole, EachOnce, Outbox, Books,
                              Accounted
  <2> QED BY <2>1, <2>2, ProduceKeeps, DrainKeeps, CloseKeeps, CreateKeeps, StreamKeeps DEF EventsNext
<1> QED BY <1>1, <1>2, PTL DEF EventsSpec

\* No consumer of events_poll is given an event twice.
THEOREM EachOnceAlways == EventsSpec => []EachOnce
<1>1. EventsInv => EachOnce
  BY DEF EventsInv
<1> QED BY <1>1, EventsInductive, PTL

\* No cursor passes an event in silence (events_poll).
THEOREM NoSilentHoleAlways == EventsSpec => []NoSilentHole
<1>1. EventsInv => NoSilentHole
  BY DEF EventsInv
<1> QED BY <1>1, EventsInductive, PTL

\* Every event of a live model is held, was taken, or is counted as lost once
\* (push_event).
THEOREM AccountedAlways == EventsSpec => []Accounted
<1>1. EventsInv => Accounted
  BY DEF EventsInv, Books
<1> QED BY <1>1, EventsInductive, PTL

\* The channel is written in cursor order, and its outbox never overflows (main).
THEOREM PushedInOrderAlways == EventsSpec => []PushedInOrder
<1>1. EventsInv => PushedInOrder
  BY DEF EventsInv, Outbox, PushedInOrder
<1> QED BY <1>1, EventsInductive, PTL

-----------------------------------------------------------------------------
(* The board (AgentBoard).  The invariant speaks of coverage: a set of     *)
(* entries covers an entry when it has it, or has Capacity newer ones.  A  *)
(* bounded board covers what the log covers, so what has been on the board, *)
(* or acknowledged as on disk, is there or has been made room from, across *)
(* evictions and replays.                                                  *)

Newer(S, e) == {f \in S : f.cursor > e.cursor}

Covers(S, e) == e \in S \/ Cardinality(Newer(S, e)) >= Capacity

\* A finite set of entries with a cursor each, no two with the same.
IsLog(S) ==
  /\ IsFiniteSet(S)
  /\ \A e \in S : e.cursor \in Nat
  /\ \A e, f \in S : e.cursor = f.cursor => e = f

\* Of entries that are not none, one is the newest: the one with the fewest newer.
LEMMA LatestExists ==
  ASSUME NEW S, IsFiniteSet(S), \A e \in S : e.cursor \in Nat, S # {}
  PROVE  \E e \in S : \A f \in S : f.cursor <= e.cursor
<1> DEFINE D == {Newer(S, e) : e \in S}
           R == StrictSubsetOrdering(S)
<1>1. IsWellFoundedOn(R, FiniteSubsetsOf(S))
  BY FS_StrictSubsetOrderingWellFounded
<1>2. D \subseteq FiniteSubsetsOf(S) /\ D # {}
  <2>1. \A e \in S : Newer(S, e) \in SUBSET S
    BY DEF Newer
  <2> QED BY <2>1, FS_FiniteSubsetsOfFinite
<1>3. PICK d \in D : \A c \in D : ~ (<<c, d>> \in R)
  <2> HIDE DEF D, R
  <2> QED BY <1>1, <1>2, WFMin
<1>4. PICK e \in S : d = Newer(S, e)
  OBVIOUS
<1>5. ASSUME NEW f \in S
      PROVE  f.cursor <= e.cursor
  <2> SUFFICES ASSUME f.cursor > e.cursor
               PROVE  FALSE
    OBVIOUS
  <2>1. f \in Newer(S, e) /\ f \notin Newer(S, f)
    BY DEF Newer
  <2>2. Newer(S, f) \subseteq Newer(S, e) /\ Newer(S, e) \subseteq S
    BY DEF Newer
  <2>3. <<Newer(S, f), Newer(S, e)>> \in R
    BY <2>1, <2>2 DEF StrictSubsetOrdering
  <2> QED BY <1>3, <1>4, <2>3
<1> QED BY <1>5

\* And of them one is the oldest.
LEMMA FirstExists ==
  ASSUME NEW S, \A e \in S : e.cursor \in Nat, S # {}
  PROVE  \E e \in S : \A f \in S : e.cursor <= f.cursor
<1> DEFINE C == {e.cursor : e \in S}
<1>1. C \in SUBSET Nat /\ C # {}
  OBVIOUS
<1>2. PICK k \in C : \A j \in C : k <= j
  <2> HIDE DEF C
  <2> QED BY <1>1, LeastExists
<1> QED BY <1>2

\* LastCursor is the cursor of the newest.
LEMMA LastCursorIsLatest ==
  ASSUME NEW S, IsFiniteSet(S), \A e \in S : e.cursor \in Nat
  PROVE  /\ LastCursor(S) \in Nat
         /\ \A e \in S : e.cursor <= LastCursor(S)
         /\ S # {} => \E e \in S : LastCursor(S) = e.cursor
<1>1. CASE S = {}
  BY <1>1 DEF LastCursor
<1>2. CASE S # {}
  <2>1. \E k \in {e.cursor : e \in S} : \A e \in S : e.cursor <= k
    BY <1>2, LatestExists
  <2>2. LastCursor(S) \in {e.cursor : e \in S} /\ \A e \in S : e.cursor <= LastCursor(S)
    BY <1>2, <2>1 DEF LastCursor
  <2> QED BY <2>2
<1> QED BY <1>1, <1>2

\* What a part of a log covers, the log covers.
LEMMA CoversMore ==
  ASSUME NEW S, NEW T, S \subseteq T, IsFiniteSet(T), NEW e, Covers(S, e)
  PROVE  Covers(T, e)
<1>1. CASE e \in S
  BY <1>1 DEF Covers
<1>2. CASE Cardinality(Newer(S, e)) >= Capacity
  <2>1. Newer(S, e) \subseteq Newer(T, e) /\ Newer(T, e) \subseteq T
    BY DEF Newer
  <2>2. IsFiniteSet(Newer(T, e))
    BY <2>1, FS_Subset
  <2>3. /\ Cardinality(Newer(S, e)) <= Cardinality(Newer(T, e))
        /\ Cardinality(Newer(S, e)) \in Nat /\ Cardinality(Newer(T, e)) \in Nat
    BY <2>1, <2>2, FS_Subset, FS_CardinalityType
  <2> QED BY <1>2, <2>3, AgentBoardAssumption DEF Covers
<1> QED BY <1>1, <1>2 DEF Covers

\* A bounded board has at most Capacity entries: its oldest has fewer newer ones.
LEMMA NewestIsBounded ==
  ASSUME NEW S, IsLog(S)
  PROVE  /\ IsLog(Newest(S)) /\ Newest(S) \subseteq S
         /\ Cardinality(Newest(S)) \in Nat /\ Cardinality(Newest(S)) <= Capacity
<1> DEFINE B == Newest(S)
<1>1. B \subseteq S
  BY DEF Newest
<1>2. IsLog(B) /\ Cardinality(B) \in Nat
  <2> HIDE DEF B
  <2> QED BY <1>1, FS_Subset, FS_CardinalityType DEF IsLog
<1>3. Cardinality(B) <= Capacity
  <2>1. CASE B = {}
    BY <2>1, FS_EmptySet, AgentBoardAssumption
  <2>2. CASE B # {}
    <3>1. PICK e \in B : \A f \in B : e.cursor <= f.cursor
      <4> HIDE DEF B
      <4> QED BY <1>2, <2>2, FirstExists DEF IsLog
    <3>2. Cardinality(Newer(S, e)) < Capacity
      BY DEF Newest, Newer
    <3>3. B \ {e} \subseteq Newer(S, e)
      <4> SUFFICES ASSUME NEW f \in B, f # e
                   PROVE  f.cursor > e.cursor
        BY <1>1 DEF Newer
      <4>1. f.cursor \in Nat /\ e.cursor \in Nat /\ f.cursor # e.cursor
        BY <1>1 DEF IsLog
      <4> QED BY <3>1, <4>1
    <3>4. IsFiniteSet(Newer(S, e)) /\ Cardinality(Newer(S, e)) \in Nat
      BY FS_Subset, FS_CardinalityType DEF Newer, IsLog
    <3>5. Cardinality(B \ {e}) <= Cardinality(Newer(S, e))
      BY <3>3, <3>4, FS_Subset
    <3>6. Cardinality(B \ {e}) = Cardinality(B) - 1
      <4> HIDE DEF B
      <4> QED BY <1>2, FS_RemoveElement DEF IsLog
    <3> HIDE DEF B
    <3> QED BY <1>2, <3>2, <3>4, <3>5, <3>6, AgentBoardAssumption
  <2> QED BY <2>1, <2>2
<1> QED BY <1>1, <1>2, <1>3

\* A bounded board covers what its log covers: of the newer entries, one that the
\* board dropped would itself have Capacity newer ones on it.
LEMMA NewestCovers ==
  ASSUME NEW S, IsLog(S), NEW e, e.cursor \in Nat, Covers(S, e)
  PROVE  Covers(Newest(S), e)
<1> DEFINE N == Newer(S, e)
           K == Newer(Newest(S), e)
<1>1. N \subseteq S /\ K = N \cap Newest(S)
  BY DEF Newer, Newest
<1>2. IsFiniteSet(N) /\ IsFiniteSet(K) /\ Cardinality(N) \in Nat /\ Cardinality(K) \in Nat
  <2>1. IsFiniteSet(N)
    BY <1>1, FS_Subset DEF IsLog
  <2>2. IsFiniteSet(K)
    BY <1>1, <2>1, FS_Subset
  <2> QED BY <2>1, <2>2, FS_CardinalityType
<1>3. CASE e \in S /\ Cardinality(N) < Capacity
  <2>1. e \in Newest(S)
    BY <1>3 DEF Newest, Newer
  <2> QED BY <2>1 DEF Covers
<1>4. CASE Cardinality(N) >= Capacity
  <2> SUFFICES Cardinality(K) >= Capacity
    BY DEF Covers
  <2> SUFFICES ASSUME Cardinality(K) < Capacity
               PROVE  FALSE
    BY <1>2, AgentBoardAssumption
  <2>1. N \ K # {}
    <3>1. N # K
      BY <1>2, <1>4, AgentBoardAssumption
    <3> QED BY <1>1, <3>1
  <2>2. IsFiniteSet(N \ K) /\ \A g \in N \ K : g.cursor \in Nat
    BY <1>1, <1>2, FS_Subset DEF IsLog
  <2>3. PICK g \in N \ K : \A f \in N \ K : f.cursor <= g.cursor
    <3> HIDE DEF N, K
    <3> QED BY <2>1, <2>2, LatestExists
  <2>4. Newer(S, g) \subseteq K
    <3> SUFFICES ASSUME NEW f \in S, f.cursor > g.cursor
                 PROVE  f \in K
      BY DEF Newer
    <3>1. g \in S /\ g.cursor > e.cursor /\ f.cursor \in Nat /\ g.cursor \in Nat
      BY DEF Newer, IsLog
    <3>2. f.cursor > e.cursor
      <4>1. e.cursor < g.cursor /\ g.cursor < f.cursor
        BY <3>1
      <4> QED BY <4>1, <3>1, <2>3 DEF Newer
    <3>3. f \in N
      BY <3>2 DEF Newer
    <3> QED BY <2>3, <3>1, <3>3
  <2>5. Cardinality(Newer(S, g)) <= Cardinality(K) /\ Cardinality(Newer(S, g)) \in Nat
    BY <1>2, <2>4, FS_Subset, FS_CardinalityType
  <2>6. g \in Newest(S)
    BY <1>1, <1>2, <2>5, AgentBoardAssumption DEF Newest, Newer
  <2> QED BY <1>1, <2>6
<1> QED BY <1>2, <1>3, <1>4, AgentBoardAssumption DEF Covers

-----------------------------------------------------------------------------
(* The invariant.                                                          *)

Everything == board \cup store \cup unsaved \cup written

\* Cursors are given once: no two entries have the same, and none is ahead.
Log ==
  /\ latest \in Nat
  /\ IsLog(Everything)
  /\ \A e \in Everything : e.cursor <= latest
  /\ Cardinality(board) <= Capacity

\* The board covers what was written in this life and what was ever
\* acknowledged; and so does, for the latter, the directory.
Survive ==
  /\ \A e \in written : Covers(board, e)
  /\ \A e \in acked : e.cursor \in Nat /\ Covers(board, e) /\ Covers(store, e)
  /\ board_on_disk = FALSE => acked = {}

\* The runs have cursors, and an accepted patch was fresh when it was accepted.
RunsKnown ==
  /\ runs \in Seq([pass : BOOLEAN, cursor : Nat])
  /\ \A r \in DOMAIN runs : runs[r].cursor <= latest

Evidence ==
  /\ RunsKnown
  /\ \A a \in accepted : a.run \in DOMAIN runs /\ a.at \in Nat /\ a.at <= latest
  /\ FreshEvidence

IInv == board_on_disk \in BOOLEAN /\ Log /\ Survive /\ Evidence /\ CursorsAgree

\* What an operation may hand to handle: new entries at new cursors.
Proper(entries, c) ==
  /\ c \in Nat /\ latest <= c
  /\ IsLog(entries)
  /\ \A e \in entries : latest < e.cursor /\ e.cursor <= c

\* A call that writes nothing writes in order.
LEMMA NothingIsProper ==
  ASSUME Log
  PROVE  Proper({}, latest) /\ Proper({}, latest + 1)
<1>1. IsFiniteSet({})
  BY FS_EmptySet
<1> QED BY <1>1 DEF Log, Proper, IsLog

\* So does one that writes one entry, at the next cursor.
LEMMA OneIsProper ==
  ASSUME Log, NEW kind, NEW w, NEW about
  PROVE  Proper({EntryOf(kind, w, about)}, latest + 1)
<1>1. IsFiniteSet({EntryOf(kind, w, about)})
  BY FS_Singleton
<1> QED BY <1>1 DEF Log, Proper, IsLog, EntryOf

\* The nudges of one call, in the order they are written.
LEMMA NudgesAreProper ==
  ASSUME Log, NEW w, NEW fresh \in SUBSET NudgeKinds,
         NEW order \in [fresh -> 1 .. Cardinality(fresh)],
         \A j, k \in fresh : order[j] = order[k] => j = k
  PROVE  Proper({[cursor |-> latest + order[k], kind |-> "OBSERVED",
                  worker |-> w, about |-> k] : k \in fresh},
                latest + Cardinality(fresh))
<1> DEFINE E == {[cursor |-> latest + order[k], kind |-> "OBSERVED",
                  worker |-> w, about |-> k] : k \in fresh}
<1>1. IsFiniteSet(fresh) /\ Cardinality(fresh) \in Nat
  BY FS_Subset, FS_CardinalityType, AgentBoardAssumption
<1>2. IsFiniteSet(E)
  <2> DEFINE f == [k \in fresh |-> [cursor |-> latest + order[k], kind |-> "OBSERVED",
                                    worker |-> w, about |-> k]]
  <2>1. f \in Surjection(fresh, E)
    BY DEF Surjection
  <2> HIDE DEF f, E
  <2> QED BY <1>1, <2>1, FS_Surjection
<1>3. \A e \in E : \E k \in fresh : e = [cursor |-> latest + order[k], kind |-> "OBSERVED",
                                         worker |-> w, about |-> k]
  OBVIOUS
<1>4. \A k \in fresh : order[k] \in 1 .. Cardinality(fresh)
  OBVIOUS
<1>5. \A e \in E : e.cursor \in Nat /\ latest < e.cursor /\ e.cursor <= latest + Cardinality(fresh)
  BY <1>1, <1>3, <1>4 DEF Log
<1>6. ASSUME NEW e \in E, NEW f \in E, e.cursor = f.cursor
      PROVE  e = f
  <2>1. PICK j \in fresh : e = [cursor |-> latest + order[j], kind |-> "OBSERVED",
                                worker |-> w, about |-> j]
    BY <1>3
  <2>2. PICK k \in fresh : f = [cursor |-> latest + order[k], kind |-> "OBSERVED",
                                worker |-> w, about |-> k]
    BY <1>3
  <2>3. latest + order[j] = latest + order[k]
    BY <1>6, <2>1, <2>2
  <2>4. order[j] = order[k]
    BY <2>3, <1>1, <1>4 DEF Log
  <2> QED BY <2>1, <2>2, <2>4
<1> QED BY <1>1, <1>2, <1>5, <1>6 DEF Proper, IsLog, Log

\* handle keeps the cursors and the coverage, whether its flush works or not.
LEMMA HandleKeeps ==
  ASSUME Log, Survive, NEW entries, NEW c, Proper(entries, c), Handle(entries, c)
  PROVE  Log' /\ Survive'
<1> DEFINE B == board \cup entries
<1>1. /\ board' = Newest(B) /\ latest' = c /\ written' = written \cup entries
      /\ board_on_disk' = board_on_disk
  BY DEF Handle
<1>2. \/ UNCHANGED <<persisted, store, unsaved, acked>>
      \/ store' = board' /\ unsaved' = {} /\ acked' = acked \cup written' /\ board_on_disk
      \/ UNCHANGED <<store, acked>> /\ unsaved' = unsaved \cup entries
  BY DEF Handle, Flush
<1>3. IsLog(Everything \cup entries) /\ \A e \in Everything \cup entries : e.cursor \in Nat /\ e.cursor <= c
  <2>1. \A e \in Everything : e.cursor \in Nat /\ e.cursor <= latest
    BY DEF Log, IsLog
  <2>2. \A e \in entries : e.cursor \in Nat /\ latest < e.cursor /\ e.cursor <= c
    BY DEF Proper, IsLog
  <2>3. latest \in Nat /\ c \in Nat /\ latest <= c
    BY DEF Log, Proper
  <2>4. IsFiniteSet(Everything \cup entries)
    BY FS_Union DEF Log, Proper, IsLog
  <2>5. ASSUME NEW e \in Everything \cup entries, NEW f \in Everything \cup entries,
               e.cursor = f.cursor
        PROVE  e = f
    <3>1. CASE e \in Everything /\ f \in Everything
      BY <2>5, <3>1 DEF Log, IsLog
    <3>2. CASE e \in entries /\ f \in entries
      BY <2>5, <3>2 DEF Proper, IsLog
    <3> QED BY <2>1, <2>2, <2>3, <2>5, <3>1, <3>2
  <2> QED BY <2>1, <2>2, <2>3, <2>4, <2>5 DEF IsLog
<1>4. IsLog(B)
  <2>1. B \subseteq Everything \cup entries
    BY DEF Everything
  <2> HIDE DEF B
  <2> QED BY <1>3, <2>1, FS_Subset DEF IsLog
<1>5. IsLog(Newest(B)) /\ Newest(B) \subseteq B /\ Cardinality(Newest(B)) <= Capacity
  BY <1>4, NewestIsBounded
<1>6. Log'
  <2>1. Everything' \subseteq Everything \cup entries
    BY <1>1, <1>2, <1>5 DEF Everything
  <2>2. IsLog(Everything')
    BY <1>3, <2>1, FS_Subset DEF IsLog
  <2>3. \A e \in Everything' : e.cursor <= latest'
    BY <1>1, <1>3, <2>1
  <2>4. latest' \in Nat
    BY <1>1 DEF Proper
  <2>5. (Cardinality(board) <= Capacity)'
    BY <1>1, <1>5
  <2>6. IsLog(Everything)'
    BY <2>2 DEF IsLog
  <2> QED BY <2>3, <2>4, <2>5, <2>6 DEF Log
<1>7. ASSUME NEW e, e.cursor \in Nat, Covers(board, e)
      PROVE  Covers(board', e)
  <2>1. Covers(B, e)
    BY <1>4, <1>7, CoversMore DEF IsLog
  <2> QED BY <1>1, <1>4, <1>7, <2>1, NewestCovers
<1>8. ASSUME NEW e \in written'
      PROVE  Covers(board', e) /\ e.cursor \in Nat
  <2>1. CASE e \in written
    BY <1>7, <2>1 DEF Survive, Log, IsLog, Everything
  <2>2. CASE e \in entries
    <3>1. Covers(B, e) /\ e.cursor \in Nat
      BY <2>2 DEF Covers, Proper, IsLog
    <3> QED BY <1>1, <1>4, <3>1, NewestCovers
  <2> QED BY <1>1, <2>1, <2>2
<1>9. ASSUME NEW e \in acked'
      PROVE  e.cursor \in Nat /\ Covers(board', e) /\ Covers(store', e)
  <2>1. ASSUME e \in acked
        PROVE  e.cursor \in Nat /\ Covers(board', e) /\ (store' = store => Covers(store', e))
    BY <1>7, <2>1 DEF Survive
  <2>2. CASE store' = store /\ acked' = acked
    BY <1>9, <2>1, <2>2
  <2>3. CASE store' = board' /\ acked' = acked \cup written'
    BY <1>8, <1>9, <2>1, <2>3
  <2> QED BY <1>2, <2>2, <2>3
<1>10. board_on_disk' = FALSE => acked' = {}
  BY <1>1, <1>2 DEF Survive
<1>11. \A e \in written' : Covers(board', e)
  BY <1>8
<1>12. \A e \in acked' : e.cursor \in Nat /\ Covers(board', e) /\ Covers(store', e)
  BY <1>9
<1>13. Survive'
  BY <1>10, <1>11, <1>12 DEF Survive, Covers, Newer
<1> QED BY <1>6, <1>13

\* A restart loses what was not flushed, and nothing the directory covered.
LEMMA RestartKeeps ==
  ASSUME Log, Survive, board_on_disk \in BOOLEAN, Restart
  PROVE  Log' /\ Survive'
<1>1. PICK k \in persisted .. latest :
        LET log == IF board_on_disk THEN store \cup {e \in unsaved : e.cursor <= k} ELSE {}
        IN  /\ board' = Newest(log) /\ store' = Newest(log) /\ latest' = LastCursor(log)
  BY DEF Restart
<1> DEFINE log == IF board_on_disk THEN store \cup {e \in unsaved : e.cursor <= k} ELSE {}
<1>2. board' = Newest(log) /\ store' = Newest(log) /\ latest' = LastCursor(log)
  BY <1>1
<1>3. unsaved' = {} /\ written' = {} /\ acked' = acked /\ board_on_disk' = board_on_disk
  BY DEF Restart
<1>4. log \subseteq Everything
  BY DEF Everything
<1>5. board_on_disk = TRUE => store \subseteq log
  OBVIOUS
<1> HIDE DEF log
<1>6. IsLog(log)
  BY <1>4, FS_Subset DEF Log, IsLog
<1>7. /\ IsLog(Newest(log)) /\ Newest(log) \subseteq log
      /\ Cardinality(Newest(log)) <= Capacity
  BY <1>6, NewestIsBounded
<1>8. latest' \in Nat /\ \A e \in log : e.cursor <= latest'
  BY <1>2, <1>6, LastCursorIsLatest DEF IsLog
<1>9. Log'
  <2>1. Everything' = Newest(log)
    BY <1>2, <1>3 DEF Everything
  <2>2. IsLog(Everything)' /\ \A e \in Everything' : e.cursor <= latest'
    BY <1>7, <1>8, <2>1 DEF IsLog
  <2> QED BY <1>2, <1>7, <1>8, <2>2 DEF Log
<1>10. ASSUME NEW e \in acked
       PROVE  e.cursor \in Nat /\ Covers(Newest(log), e)
  <2>1. board_on_disk = TRUE
    BY <1>10 DEF Survive
  <2>2. e.cursor \in Nat /\ Covers(store, e)
    BY <1>10 DEF Survive
  <2>3. Covers(log, e)
    BY <1>5, <1>6, <2>1, <2>2, CoversMore DEF IsLog
  <2> QED BY <1>6, <2>2, <2>3, NewestCovers
<1>11. \A e \in acked' : e.cursor \in Nat /\ Covers(board', e) /\ Covers(store', e)
  BY <1>2, <1>3, <1>10
<1>12. board_on_disk' = FALSE => acked' = {}
  BY <1>3 DEF Survive
<1>13. Survive'
  BY <1>3, <1>11, <1>12 DEF Survive, Covers, Newer
<1> QED BY <1>9, <1>13

-----------------------------------------------------------------------------
(* The evidence.                                                           *)

\* Every gate run has the cursor it was recorded at.
LEMMA RunsHaveCursors ==
  ASSUME RunsKnown
  PROVE  \A r \in DOMAIN runs : runs[r].cursor \in Nat
<1> DEFINE R == [pass : BOOLEAN, cursor : Nat]
<1>1. ASSUME NEW r \in DOMAIN runs
      PROVE  runs[r] \in R
  <2>1. runs \in Seq(R)
    BY DEF RunsKnown
  <2> HIDE DEF R
  <2> QED BY <2>1
<1>2. \A x \in R : x.cursor \in Nat
  BY Zenon
<1> HIDE DEF R
<1> QED BY <1>1, <1>2

\* Cursors of new entries are ahead of every run and every accepted patch, so
\* what they add is nothing these were about.
LEMMA HandleKeepsEvidence ==
  ASSUME Log, Evidence, NEW entries, NEW c, Proper(entries, c), Handle(entries, c),
         RunsKnown', Len(runs) <= Len(runs'), \A r \in DOMAIN runs : runs'[r] = runs[r],
         accepted' = accepted
  PROVE  Evidence'
<1>1. latest \in Nat /\ latest' \in Nat /\ latest <= latest'
  BY DEF Log, Proper, Handle
<1>2. DOMAIN runs \subseteq DOMAIN runs'
  <2>1. runs \in Seq([pass : BOOLEAN, cursor : Nat]) /\ runs' \in Seq([pass : BOOLEAN, cursor : Nat])
    BY DEF Evidence, RunsKnown
  <2>2. Len(runs) \in Nat /\ Len(runs') \in Nat /\ DOMAIN runs = 1 .. Len(runs) /\ DOMAIN runs' = 1 .. Len(runs')
    BY <2>1
  <2> QED BY <2>2
<1>3. \A a \in accepted : a.run \in DOMAIN runs' /\ a.at \in Nat /\ a.at <= latest'
  BY <1>1, <1>2 DEF Evidence
<1>4. ASSUME NEW a \in accepted
      PROVE  /\ runs'[a.run].pass
             /\ \A e \in written' : e.worker = a.worker /\ e.cursor < a.at => e.cursor < runs'[a.run].cursor
  <2>1. a.run \in DOMAIN runs /\ runs'[a.run] = runs[a.run] /\ a.at \in Nat /\ a.at <= latest
    BY DEF Evidence
  <2>2. runs'[a.run].pass
    <3>1. runs[a.run].pass
      BY DEF Evidence, FreshEvidence
    <3> QED BY <2>1, <3>1
  <2>3. ASSUME NEW e \in written', e.worker = a.worker, e.cursor < a.at
        PROVE  e.cursor < runs'[a.run].cursor
    <3>1. e \in written \/ e \in entries
      BY DEF Handle
    <3>2. e \notin entries
      BY <1>1, <2>1, <2>3 DEF Proper, IsLog
    <3> QED BY <2>1, <2>3, <3>1, <3>2 DEF Evidence, FreshEvidence
  <2> QED BY <2>2, <2>3
<1>5. FreshEvidence'
  BY <1>4 DEF FreshEvidence
<1> QED BY <1>3, <1>5 DEF Evidence

\* The base speaks for what the board no longer holds: an entry that made room
\* is older than everything on it.
LEMMA BaseIsNewest ==
  ASSUME Log, Survive, NEW w, Base(w) # 0, NEW e \in written, e.worker = w
  PROVE  e.cursor <= Base(w) /\ Base(w) \in Nat
<1> DEFINE O == {f \in board : f.worker = w}
<1>1. IsFiniteSet(board) /\ \A f \in board : f.cursor \in Nat
  BY FS_Subset DEF Log, IsLog, Everything
<1>2. IsFiniteSet(O) /\ \A f \in O : f.cursor \in Nat
  BY <1>1, FS_Subset
<1>3. /\ Base(w) \in Nat /\ \A f \in O : f.cursor <= Base(w)
      /\ \E f \in O : Base(w) = f.cursor
  <2>1. Base(w) = LastCursor(O)
    BY DEF Base
  <2>2. O # {}
    BY <2>1 DEF LastCursor
  <2> HIDE DEF O
  <2> QED BY <1>2, <2>1, <2>2, LastCursorIsLatest
<1>4. e.cursor \in Nat
  BY DEF Log, IsLog, Everything
<1>5. CASE e \in board
  BY <1>3, <1>5
<1>6. CASE e \notin board
  <2>1. Cardinality(Newer(board, e)) >= Capacity
    BY <1>6 DEF Survive, Covers
  <2>2. Newer(board, e) \subseteq board
    BY DEF Newer
  <2>3. /\ Cardinality(Newer(board, e)) \in Nat /\ Cardinality(board) \in Nat
        /\ Cardinality(Newer(board, e)) <= Cardinality(board)
    BY <1>1, <2>2, FS_Subset, FS_CardinalityType
  <2>4. Cardinality(Newer(board, e)) = Cardinality(board)
    BY <2>1, <2>3, AgentBoardAssumption DEF Log
  <2>5. Newer(board, e) = board
    BY <1>1, <2>2, <2>4, FS_Subset
  <2>6. PICK f \in O : Base(w) = f.cursor
    BY <1>3
  <2>7. f.cursor > e.cursor
    BY <2>5 DEF Newer
  <2> QED BY <1>2, <1>3, <1>4, <2>6, <2>7
<1> QED BY <1>3, <1>5, <1>6

\* A submission writes an entry, and is accepted with a run only if the run is fresh.
LEMMA SubmitKeepsEvidence ==
  ASSUME Log, Survive, Evidence, NEW w, NEW r, PatchSubmit(w, r)
  PROVE  Evidence'
<1> DEFINE new == EntryOf("PATCH_SUMMARY", w, NoSubject)
<1>1. /\ Handle({new}, latest + 1) /\ Proper({new}, latest + 1)
      /\ latest \in Nat /\ latest' = latest + 1 /\ written' = written \cup {new}
      /\ new.cursor = latest + 1
  BY OneIsProper DEF PatchSubmit, Write, Handle, Log, EntryOf
<1>2. runs' = runs
  BY DEF PatchSubmit
<1>3. RunsKnown'
  <2>1. \A q \in DOMAIN runs : runs[q].cursor \in Nat
    BY RunsHaveCursors DEF Evidence
  <2> QED BY <1>1, <1>2, <2>1 DEF Evidence, RunsKnown
<1>4. ASSUME NEW a \in accepted'
      PROVE  /\ a.run \in DOMAIN runs /\ a.at \in Nat /\ a.at <= latest'
             /\ runs[a.run].pass
             /\ \A e \in written' : e.worker = a.worker /\ e.cursor < a.at => e.cursor < runs[a.run].cursor
  <2>1. CASE a \in accepted
    <3>1. a.run \in DOMAIN runs /\ a.at \in Nat /\ a.at <= latest
      BY <2>1 DEF Evidence
    <3>2. runs[a.run].pass
      BY <2>1 DEF Evidence, FreshEvidence
    <3>3. ASSUME NEW e \in written', e.worker = a.worker, e.cursor < a.at
          PROVE  e.cursor < runs[a.run].cursor
      <4>1. e \in written
        BY <1>1, <3>1, <3>3
      <4> QED BY <2>1, <3>3, <4>1 DEF Evidence, FreshEvidence
    <3> HIDE DEF new
    <3>4. a.at <= latest'
      BY <1>1, <3>1
    <3> QED BY <3>1, <3>2, <3>3, <3>4
  <2>2. CASE a \notin accepted
    <3>1. Fresh(w, r) /\ a = [worker |-> w, run |-> r, at |-> latest + 1]
      BY <2>2 DEF PatchSubmit
    <3>2. r \in DOMAIN runs /\ Base(w) # 0 /\ Base(w) < runs[r].cursor
      BY <3>1 DEF Fresh
    <3>3. runs[r].pass
      BY <3>1 DEF Fresh
    <3>4. ASSUME NEW e \in written', e.worker = w, e.cursor < latest + 1
          PROVE  e.cursor < runs[r].cursor
      <4>1. e \in written
        BY <1>1, <3>4
      <4>2. e.cursor <= Base(w) /\ Base(w) \in Nat /\ e.cursor \in Nat
        BY <3>2, <3>4, <4>1, BaseIsNewest DEF Log, IsLog, Everything
      <4>3. runs[r].cursor \in Nat
        BY <3>2, RunsHaveCursors DEF Evidence
      <4> QED BY <3>2, <4>2, <4>3
    <3>5. a.run = r /\ a.worker = w /\ a.at = latest + 1
      BY <3>1
    <3> HIDE DEF new
    <3> QED BY <1>1, <3>2, <3>3, <3>4, <3>5
  <2> QED BY <2>1, <2>2
<1>5. FreshEvidence'
  <2>1. \A a \in accepted' : /\ runs'[a.run].pass
                             /\ \A e \in written' : e.worker = a.worker /\ e.cursor < a.at
                                                    => e.cursor < runs'[a.run].cursor
    BY <1>2, <1>4
  <2> QED BY <2>1 DEF FreshEvidence
<1>6. \A a \in accepted' : a.run \in DOMAIN runs' /\ a.at \in Nat /\ a.at <= latest'
  BY <1>2, <1>4
<1> QED BY <1>3, <1>5, <1>6 DEF Evidence

-----------------------------------------------------------------------------
(* The cursors kept beside the board.                                      *)

ClaimsAgree == \A c \in claims : \E e \in written :
  e.kind = "CLAIM" /\ e.cursor = c.cursor /\ e.worker = c.worker /\ e.about = c.scope
ConflictsAgree == \A c \in sync_conflicts : \E e \in written :
  e.kind = "FAIL" /\ e.cursor = c.cursor /\ e.about = c.key
MessagesAgree == \A w \in Workers : \A k \in inbox[w] : \E e \in written : e.cursor = k
RunsAgree == \A r \in DOMAIN runs : \A e \in written \cup board : e.cursor # runs[r].cursor

\* What refers to entries by their cursors agrees with them part by part.
LEMMA AgreeParts == CursorsAgree <=> ClaimsAgree /\ ConflictsAgree /\ MessagesAgree /\ RunsAgree
  BY DEF CursorsAgree, ClaimsAgree, ConflictsAgree, MessagesAgree, RunsAgree

\* What is written stays written, so the entries that were there are there.
LEMMA WrittenGrows ==
  ASSUME NEW entries, NEW c, Handle(entries, c)
  PROVE  /\ ClaimsAgree /\ claims' = claims => ClaimsAgree'
         /\ ConflictsAgree /\ sync_conflicts' = sync_conflicts => ConflictsAgree'
         /\ MessagesAgree /\ inbox' = inbox => MessagesAgree'
<1>1. written \subseteq written'
  BY DEF Handle
<1> QED BY <1>1 DEF ClaimsAgree, ConflictsAgree, MessagesAgree

\* A cursor that a run has reserved is behind every entry that comes.
LEMMA RunsStayApart ==
  ASSUME Log, RunsKnown, RunsAgree, NEW entries, NEW c, Proper(entries, c), Handle(entries, c)
  PROVE  \A r \in DOMAIN runs : \A e \in written' \cup board' : e.cursor # runs[r].cursor
<1> SUFFICES ASSUME NEW r \in DOMAIN runs, NEW e \in written' \cup board'
             PROVE  e.cursor # runs[r].cursor
  OBVIOUS
<1>1. e \in written \cup board \/ e \in entries
  BY DEF Handle, Newest
<1>2. CASE e \in written \cup board
  BY <1>2 DEF RunsAgree
<1>3. CASE e \in entries
  <2>1. runs[r].cursor \in Nat /\ runs[r].cursor <= latest
    BY RunsHaveCursors DEF RunsKnown
  <2>2. e.cursor \in Nat /\ latest < e.cursor /\ latest \in Nat
    BY <1>3 DEF Proper, IsLog, Log
  <2> QED BY <2>1, <2>2
<1> QED BY <1>1, <1>2, <1>3

\* An operation that gives no cursor to anything but entries.
LEMMA HandleKeepsRuns ==
  ASSUME Log, Survive, Evidence, RunsAgree,
         NEW entries, NEW c, Proper(entries, c), Handle(entries, c),
         runs' = runs, accepted' = accepted
  PROVE  Log' /\ Survive' /\ Evidence' /\ RunsAgree'
<1>1. Log' /\ Survive'
  BY HandleKeeps
<1>2. RunsAgree'
  <2>1. \A r \in DOMAIN runs : \A e \in written' \cup board' : e.cursor # runs[r].cursor
    BY RunsStayApart DEF Evidence
  <2> QED BY <2>1 DEF RunsAgree
<1>3. RunsKnown'
  <2>1. latest \in Nat /\ latest' \in Nat /\ latest <= latest'
    BY DEF Log, Proper, Handle
  <2> QED BY <2>1, RunsHaveCursors DEF Evidence, RunsKnown
<1>4. Len(runs) <= Len(runs')
  <2>1. Len(runs) \in Nat
    BY DEF Evidence, RunsKnown
  <2> QED BY <2>1
<1>5. Evidence'
  BY <1>3, <1>4, HandleKeepsEvidence
<1> QED BY <1>1, <1>2, <1>5

\* A gate that is recorded takes a cursor and writes no entry.
LEMMA GateRecordKeeps ==
  ASSUME Log, Survive, Evidence, RunsAgree, NEW pass \in BOOLEAN, GateRecord(pass)
  PROVE  Log' /\ Survive' /\ Evidence' /\ RunsAgree'
<1> DEFINE R == [pass : BOOLEAN, cursor : Nat]
           new == [pass |-> pass, cursor |-> latest + 1]
<1>1. Handle({}, latest + 1) /\ Proper({}, latest + 1) /\ latest \in Nat /\ latest' = latest + 1
  BY NothingIsProper DEF GateRecord, Handle, Log
<1>2. Log' /\ Survive'
  BY <1>1, HandleKeeps
<1>3. runs' = Append(runs, new) /\ accepted' = accepted
  BY DEF GateRecord
<1>4. runs \in Seq(R) /\ new \in R /\ new.cursor = latest + 1
  <2>1. new \in R
    BY <1>1
  <2> QED BY <2>1 DEF Evidence, RunsKnown
<1>5. \A r \in DOMAIN runs : runs[r].cursor \in Nat /\ runs[r].cursor <= latest
  BY RunsHaveCursors DEF Evidence, RunsKnown
<1> HIDE DEF R, new
<1>6. /\ runs' \in Seq(R) /\ Len(runs) <= Len(runs')
      /\ \A r \in DOMAIN runs : runs'[r] = runs[r]
      /\ \A r \in DOMAIN runs' : r \in DOMAIN runs \/ runs'[r] = new
  BY <1>3, <1>4
<1>7. RunsKnown'
  <2>1. \A r \in DOMAIN runs' : runs'[r].cursor <= latest'
    BY <1>1, <1>4, <1>5, <1>6
  <2>2. runs' \in Seq([pass : BOOLEAN, cursor : Nat])
    BY <1>6 DEF R
  <2> QED BY <2>1, <2>2 DEF RunsKnown
<1>8. Evidence'
  BY <1>1, <1>3, <1>6, <1>7, HandleKeepsEvidence
<1>9. RunsAgree'
  <2>1. \A r \in DOMAIN runs : \A e \in written' \cup board' : e.cursor # runs[r].cursor
    BY <1>1, RunsStayApart DEF Evidence
  <2>2. \A e \in written' \cup board' : e.cursor \in Nat /\ e.cursor <= latest
    <3>1. written' \cup board' \subseteq Everything
      BY <1>1 DEF Handle, Newest, Everything
    <3> QED BY <3>1 DEF Log, IsLog
  <2>3. ASSUME NEW r \in DOMAIN runs', NEW e \in written' \cup board'
        PROVE  e.cursor # runs'[r].cursor
    <3>1. CASE r \in DOMAIN runs
      BY <1>6, <2>1, <3>1
    <3>2. CASE runs'[r] = new
      BY <1>1, <1>4, <2>2, <3>2
    <3> QED BY <1>6, <3>1, <3>2
  <2> QED BY <2>3 DEF RunsAgree
<1> QED BY <1>2, <1>8, <1>9

-----------------------------------------------------------------------------
(* The invariant is inductive.                                             *)

\* What every operation that records no run owes to its handle.
LEMMA OperationKeeps ==
  ASSUME IInv, NEW entries, NEW c, Proper(entries, c), Handle(entries, c), runs' = runs,
         accepted' = accepted, ClaimsAgree', ConflictsAgree', MessagesAgree'
  PROVE  IInv'
<1>1. Log /\ Survive /\ Evidence /\ RunsAgree
  BY AgreeParts DEF IInv
<1>2. Log' /\ Survive' /\ Evidence' /\ RunsAgree'
  BY <1>1, HandleKeepsRuns
<1>3. board_on_disk' = board_on_disk
  BY DEF Handle
<1>4. CursorsAgree'
  BY <1>2 DEF CursorsAgree, ClaimsAgree, ConflictsAgree, MessagesAgree, RunsAgree
<1> QED BY <1>2, <1>3, <1>4 DEF IInv

\* The same, of the operations that keep claims, conflicts and messages.
LEMMA PlainKeeps ==
  ASSUME IInv, NEW entries, NEW c, Proper(entries, c), Handle(entries, c), runs' = runs,
         accepted' = accepted, UNCHANGED <<claims, sync_conflicts, inbox>>
  PROVE  IInv'
<1>1. ClaimsAgree' /\ ConflictsAgree' /\ MessagesAgree'
  BY AgreeParts, WrittenGrows DEF IInv
<1> QED BY <1>1, OperationKeeps

\* What was last reserved is kept by what follows: type, cursors, coverage,
\* evidence and the cursors beside the board, over all operations and restarts.
THEOREM BoardInductive == Spec => []IInv
<1>1. Init => IInv
  <2> SUFFICES ASSUME Init
               PROVE  IInv
    OBVIOUS
  <2>1. IsFiniteSet({}) /\ Cardinality({}) = 0
    BY FS_EmptySet
  <2>2. Log
    BY <2>1, AgentBoardAssumption DEF Init, Log, IsLog, Everything
  <2>3. Survive
    BY DEF Init, Survive
  <2>4. Evidence
    <3>1. runs = <<>> /\ accepted = {}
      BY DEF Init
    <3>2. runs \in Seq([pass : BOOLEAN, cursor : Nat]) /\ DOMAIN runs = {}
      BY <3>1
    <3> QED BY <3>1, <3>2 DEF Evidence, RunsKnown, FreshEvidence
  <2>5. CursorsAgree
    <3>1. claims = {} /\ sync_conflicts = {} /\ runs = <<>> /\ \A w \in Workers : inbox[w] = {}
      BY DEF Init
    <3>2. DOMAIN runs = {}
      BY <3>1
    <3> QED BY <3>1, <3>2 DEF CursorsAgree
  <2>6. board_on_disk \in BOOLEAN
    BY DEF Init
  <2> QED BY <2>2, <2>3, <2>4, <2>5, <2>6 DEF IInv
<1>2. IInv /\ [Next]_vars => IInv'
  <2> SUFFICES ASSUME IInv, [Next]_vars
               PROVE  IInv'
    OBVIOUS
  <2>1. Log /\ Survive /\ Evidence /\ ClaimsAgree /\ ConflictsAgree /\ MessagesAgree /\ RunsAgree
    BY AgreeParts DEF IInv
  <2>2. Proper({}, latest) /\ \A kind, w, about : Proper({EntryOf(kind, w, about)}, latest + 1)
    BY <2>1, NothingIsProper, OneIsProper
  <2>3. CASE Read
    BY <2>2, <2>3, PlainKeeps DEF Read
  <2>4. ASSUME NEW w \in Workers, BoardWrite(w)
        PROVE  IInv'
    BY <2>2, <2>4, PlainKeeps DEF BoardWrite, Write
  <2>5. ASSUME NEW w \in Workers, AgentDmTake(w)
        PROVE  IInv'
    <3>1. Handle({}, latest) /\ UNCHANGED <<claims, runs, sync_conflicts, accepted>>
      BY <2>5 DEF AgentDmTake
    <3>2. MessagesAgree'
      BY <2>1, <2>5 DEF AgentDmTake, Handle, MessagesAgree
    <3> QED BY <2>1, <2>2, <3>1, <3>2, WrittenGrows, OperationKeeps
  <2>6. ASSUME NEW w \in Workers, NEW s \in Scopes, AgentClaim(w, s)
        PROVE  IInv'
    <3> DEFINE e == EntryOf("CLAIM", w, s)
    <3>1. Handle({e}, latest + 1) /\ UNCHANGED <<inbox, runs, sync_conflicts, accepted>>
      BY <2>6 DEF AgentClaim, Write
    <3>2. claims' \subseteq claims \cup {[worker |-> w, scope |-> s, cursor |-> latest + 1]}
      BY <2>6 DEF AgentClaim
    <3>3. written' = written \cup {e}
      BY <3>1 DEF Handle
    <3>4. e.kind = "CLAIM" /\ e.cursor = latest + 1 /\ e.worker = w /\ e.about = s
      BY DEF EntryOf
    <3> HIDE DEF e
    <3>5. ClaimsAgree'
      BY <2>1, <3>2, <3>3, <3>4 DEF ClaimsAgree
    <3>6. ConflictsAgree' /\ MessagesAgree'
      BY <2>1, <3>1, WrittenGrows
    <3>7. Proper({e}, latest + 1)
      BY <2>2 DEF e
    <3> QED BY <3>1, <3>5, <3>6, <3>7, OperationKeeps
  <2>7. ASSUME NEW w \in Workers, NEW s \in Scopes, AgentEscalate(w, s)
        PROVE  IInv'
    BY <2>2, <2>7, PlainKeeps DEF AgentEscalate, Write
  <2>8. ASSUME NEW w \in Workers, NEW to \in Workers, AgentDm(w, to)
        PROVE  IInv'
    <3> DEFINE e == EntryOf("FACT", w, NoSubject)
    <3>1. Handle({e}, latest + 1) /\ UNCHANGED <<claims, runs, sync_conflicts, accepted>>
      BY <2>8 DEF AgentDm, Write
    <3>2. inbox' = [inbox EXCEPT ![to] = @ \cup {latest + 1}]
      BY <2>8 DEF AgentDm
    <3>3. written' = written \cup {e} /\ e.cursor = latest + 1
      BY <3>1 DEF Handle, EntryOf
    <3> HIDE DEF e
    <3>4. MessagesAgree'
      <4>1. \A v \in Workers : inbox'[v] \subseteq inbox[v] \cup {latest + 1}
        BY <3>2
      <4> QED BY <2>1, <3>3, <4>1 DEF MessagesAgree
    <3>5. ClaimsAgree' /\ ConflictsAgree'
      BY <2>1, <3>1, WrittenGrows
    <3>6. Proper({e}, latest + 1)
      BY <2>2 DEF e
    <3> QED BY <3>1, <3>4, <3>5, <3>6, OperationKeeps
  <2>9. ASSUME NEW w \in Workers, NEW r \in 1 .. MaxRuns, PatchSubmit(w, r)
        PROVE  IInv'
    <3> DEFINE e == EntryOf("PATCH_SUMMARY", w, NoSubject)
    <3>1. Handle({e}, latest + 1) /\ UNCHANGED <<claims, inbox, runs, sync_conflicts>>
      BY <2>9 DEF PatchSubmit, Write
    <3>2. Evidence'
      BY <2>1, <2>9, SubmitKeepsEvidence
    <3>3. Proper({e}, latest + 1)
      BY <2>2
    <3> HIDE DEF e
    <3>4. Log' /\ Survive'
      BY <2>1, <3>1, <3>3, HandleKeeps
    <3>5. RunsAgree'
      <4>1. \A q \in DOMAIN runs : \A f \in written' \cup board' : f.cursor # runs[q].cursor
        BY <2>1, <3>1, <3>3, RunsStayApart DEF Evidence
      <4> QED BY <3>1, <4>1 DEF RunsAgree
    <3>6. ClaimsAgree' /\ ConflictsAgree' /\ MessagesAgree'
      BY <2>1, <3>1, WrittenGrows
    <3>7. CursorsAgree'
      BY <3>5, <3>6 DEF CursorsAgree, ClaimsAgree, ConflictsAgree, MessagesAgree, RunsAgree
    <3>8. board_on_disk' = board_on_disk
      BY <3>1 DEF Handle
    <3> QED BY <3>2, <3>4, <3>7, <3>8 DEF IInv
  <2>10. ASSUME NEW w \in Workers, NEW due \in SUBSET NudgeKinds, AgentNudge(w, due)
         PROVE  IInv'
    <3> DEFINE fresh == {k \in due : <<w, k>> \notin nudges_sent}
    <3>1. PICK order \in [fresh -> 1 .. Cardinality(fresh)] :
            /\ \A j, k \in fresh : order[j] = order[k] => j = k
            /\ Handle({[cursor |-> latest + order[k], kind |-> "OBSERVED",
                        worker |-> w, about |-> k] : k \in fresh},
                      latest + Cardinality(fresh))
      BY <2>10 DEF AgentNudge
    <3>2. UNCHANGED <<claims, inbox, runs, sync_conflicts, accepted>>
      BY <2>10 DEF AgentNudge
    <3>3. fresh \in SUBSET NudgeKinds
      OBVIOUS
    <3> HIDE DEF fresh
    <3>4. Proper({[cursor |-> latest + order[k], kind |-> "OBSERVED",
                   worker |-> w, about |-> k] : k \in fresh},
                 latest + Cardinality(fresh))
      BY <2>1, <3>1, <3>3, NudgesAreProper
    <3> DEFINE E == {[cursor |-> latest + order[k], kind |-> "OBSERVED",
                      worker |-> w, about |-> k] : k \in fresh}
    <3>5. Proper(E, latest + Cardinality(fresh)) /\ Handle(E, latest + Cardinality(fresh))
      BY <3>1, <3>4
    <3> HIDE DEF E
    <3> QED BY <3>2, <3>5, PlainKeeps
  <2>11. ASSUME NEW w \in Workers, NEW p \in Packets, SyncImport(w, p)
         PROVE  IInv'
    <3>1. UNCHANGED <<claims, inbox, runs, accepted>>
      BY <2>11 DEF SyncImport
    <3>2. CASE Handle({}, latest) /\ UNCHANGED sync_conflicts
      BY <2>2, <3>1, <3>2, PlainKeeps
    <3>3. CASE /\ Write("FAIL", w, p)
               /\ sync_conflicts' = sync_conflicts \cup {[key |-> p, cursor |-> latest + 1]}
      <4> DEFINE e == EntryOf("FAIL", w, p)
      <4>1. Handle({e}, latest + 1)
        BY <3>3 DEF Write
      <4>2. written' = written \cup {e} /\ e.cursor = latest + 1 /\ e.kind = "FAIL" /\ e.about = p
        BY <4>1 DEF Handle, EntryOf
      <4>3. Proper({e}, latest + 1)
        BY <2>2
      <4> HIDE DEF e
      <4>4. ConflictsAgree'
        BY <2>1, <3>3, <4>2 DEF ConflictsAgree
      <4>5. ClaimsAgree' /\ MessagesAgree'
        BY <2>1, <3>1, <4>1, WrittenGrows
      <4> QED BY <3>1, <4>1, <4>3, <4>4, <4>5, OperationKeeps
    <3> QED BY <2>11, <3>2, <3>3 DEF SyncImport
  <2>12. ASSUME NEW pass \in BOOLEAN, GateRecord(pass)
         PROVE  IInv'
    <3>1. Log' /\ Survive' /\ Evidence' /\ RunsAgree'
      BY <2>1, <2>12, GateRecordKeeps
    <3>2. Handle({}, latest + 1) /\ UNCHANGED <<claims, inbox, sync_conflicts>>
      BY <2>12 DEF GateRecord
    <3>3. ClaimsAgree' /\ ConflictsAgree' /\ MessagesAgree'
      BY <2>1, <3>2, WrittenGrows
    <3>4. CursorsAgree'
      BY <3>1, <3>3 DEF CursorsAgree, ClaimsAgree, ConflictsAgree, MessagesAgree, RunsAgree
    <3>5. board_on_disk' = board_on_disk
      BY <3>2 DEF Handle
    <3> QED BY <3>1, <3>4, <3>5 DEF IInv
  <2>13. ASSUME NEW blocks \in Footprints, SyncEdit(blocks)
         PROVE  IInv'
    BY <2>2, <2>13, PlainKeeps DEF SyncEdit
  <2>14. CASE Restart
    <3>1. Log' /\ Survive'
      BY <2>1, <2>14, RestartKeeps DEF IInv
    <3>2. /\ claims' = {} /\ sync_conflicts' = {} /\ runs' = <<>> /\ accepted' = {}
          /\ \A w \in Workers : inbox'[w] = {}
          /\ board_on_disk' = board_on_disk
      BY <2>14 DEF Restart
    <3>3. runs' \in Seq([pass : BOOLEAN, cursor : Nat]) /\ DOMAIN runs' = {}
      BY <3>2
    <3>4. Evidence'
      BY <3>2, <3>3 DEF Evidence, RunsKnown, FreshEvidence
    <3>5. CursorsAgree'
      BY <3>2, <3>3 DEF CursorsAgree
    <3> QED BY <3>1, <3>2, <3>4, <3>5 DEF IInv
  <2>15. CASE UNCHANGED vars
    <3>1. /\ board_on_disk' = board_on_disk /\ board' = board /\ latest' = latest /\ store' = store
          /\ unsaved' = unsaved /\ written' = written /\ acked' = acked /\ claims' = claims
          /\ inbox' = inbox /\ runs' = runs /\ sync_conflicts' = sync_conflicts /\ accepted' = accepted
      BY <2>15 DEF vars, boardVars
    <3>2. Everything' = Everything
      BY <3>1 DEF Everything
    <3>3. Log'
      BY <2>1, <3>1, <3>2 DEF Log, IsLog
    <3>4. Survive'
      BY <2>1, <3>1 DEF Survive, Covers, Newer
    <3>5. Evidence'
      BY <2>1, <3>1 DEF Evidence, RunsKnown, FreshEvidence
    <3>6. CursorsAgree'
      BY <2>1, <3>1 DEF CursorsAgree, ClaimsAgree, ConflictsAgree, MessagesAgree, RunsAgree
    <3> QED BY <2>1, <3>1, <3>3, <3>4, <3>5, <3>6 DEF IInv
  <2> QED BY <2>3, <2>4, <2>5, <2>6, <2>7, <2>8, <2>9, <2>10, <2>11, <2>12, <2>13, <2>14, <2>15
          DEF Next
<1> QED BY <1>1, <1>2, PTL DEF Spec

\* An entry that a reply said is on disk is on the board, or newer entries fill
\* it, in this life and in every later one.
THEOREM AckedSurvivesAlways == Spec => []AckedSurvives
<1>1. IInv => AckedSurvives
  <2> SUFFICES ASSUME IInv, NEW e \in acked, e \notin board
               PROVE  Cardinality(Newer(board, e)) = Capacity
    BY DEF AckedSurvives, Newer
  <2>1. Cardinality(Newer(board, e)) >= Capacity
    BY DEF IInv, Survive, Covers
  <2>2. IsFiniteSet(board) /\ Newer(board, e) \subseteq board /\ Cardinality(board) <= Capacity
    BY FS_Subset DEF IInv, Log, IsLog, Everything, Newer
  <2>3. /\ Cardinality(Newer(board, e)) <= Cardinality(board)
        /\ Cardinality(Newer(board, e)) \in Nat /\ Cardinality(board) \in Nat
    BY <2>2, FS_Subset, FS_CardinalityType
  <2> QED BY <2>1, <2>2, <2>3, AgentBoardAssumption
<1> QED BY <1>1, BoardInductive, PTL

\* An accepted patch cites a passing run newer than all its worker had written.
THEOREM FreshEvidenceAlways == Spec => []FreshEvidence
<1>1. IInv => FreshEvidence
  BY DEF IInv, Evidence
<1> QED BY <1>1, BoardInductive, PTL

\* The cursors kept beside the board are those of their entries, and of no run.
THEOREM CursorsAgreeAlways == Spec => []CursorsAgree
<1>1. IInv => CursorsAgree
  BY DEF IInv
<1> QED BY <1>1, BoardInductive, PTL

\* The claims implement the scope ledger: a claim that is recorded is a grant of
\* a free scope, a restart takes everything back, and nothing else moves them.
THEOREM ClaimsImplementLedger == Spec => ImplementsLedger
<1>1. Init => Ledger!LedgerInit
  BY DEF Init, Ledger!LedgerInit, Held
<1>2. [Next]_vars => [Ledger!LedgerNext]_Held
  <2> SUFFICES ASSUME [Next]_vars
               PROVE  Ledger!LedgerNext \/ Held' = Held
    OBVIOUS
  <2>1. CASE claims' = claims
    BY <2>1 DEF Held
  <2>2. ASSUME NEW w \in Workers, NEW s \in Scopes, AgentClaim(w, s)
        PROVE  Ledger!LedgerNext \/ Held' = Held
    <3>1. CASE Holders(w, s) = {}
      <4> DEFINE new == [worker |-> w, scope |-> s, cursor |-> latest + 1]
      <4>1. Held' = Held \cup {<<w, r>> : r \in {s}}
        <5>1. claims' = claims \cup {new} /\ new.worker = w /\ new.scope = s
          BY <2>2, <3>1 DEF AgentClaim
        <5>2. {<<w, r>> : r \in {s}} = {<<new.worker, new.scope>>}
          BY <5>1
        <5> HIDE DEF new
        <5> QED BY <5>1, <5>2 DEF Held
      <4>2. \A r \in {s} : ~ Ledger!Taken(w, r)
        <5> SUFFICES ASSUME NEW h \in Held, h[1] # w, <<h[2], s>> \in Overlap
                     PROVE  FALSE
          BY DEF Ledger!Taken
        <5>1. PICK c \in claims : h = <<c.worker, c.scope>>
          BY DEF Held
        <5>2. c.worker = h[1] /\ c.scope = h[2]
          BY <5>1
        <5> QED BY <3>1, <5>2 DEF Holders
      <4>3. Ledger!Grant(w, {s})
        BY <4>1, <4>2 DEF Ledger!Grant
      <4>4. {s} \in SUBSET Scopes
        OBVIOUS
      <4> QED BY <4>3, <4>4 DEF Ledger!LedgerNext
    <3>2. CASE Holders(w, s) # {}
      BY <2>1, <2>2, <3>2 DEF AgentClaim
    <3> QED BY <3>1, <3>2
  <2>3. CASE Restart
    <3>1. Held' = Held \ Held
      BY <2>3 DEF Restart, Held
    <3>2. Ledger!TakeBack(Held)
      BY <3>1 DEF Ledger!TakeBack
    <3> QED BY <3>2 DEF Ledger!LedgerNext
  <2>4. \/ claims' = claims \/ Restart
        \/ \E w \in Workers, s \in Scopes : AgentClaim(w, s)
    BY DEF Next, vars, Read, BoardWrite, AgentDmTake, AgentEscalate, AgentDm, PatchSubmit,
           AgentNudge, SyncImport, GateRecord, SyncEdit
  <2> QED BY <2>1, <2>2, <2>3, <2>4
<1> QED BY <1>1, <1>2, PTL DEF Spec, ImplementsLedger, Ledger!LedgerSpec

-----------------------------------------------------------------------------
(* Documents that exchange packets (SyncPeers), for any number of          *)
(* replicas: of two edits that collide, one side is told.  They have the   *)
(* footprints and the tracker of the board's sync.                         *)

Ranges == [start : Nat, end : Nat]
Lists == Seq(Ranges)

\* All of range r is in range u; an insertion point only in itself.
Within(r, u) ==
  \/ r = u
  \/ /\ ~ IsEmptyRange(r) /\ ~ IsEmptyRange(u)
     /\ u.start <= r.start /\ r.end <= u.end

\* All of range r is in one range of the list.
Kept(out, r) == \E i \in 1 .. Len(out) : Within(r, out[i])

\* A range in a range in a range.
LEMMA WithinTransitive ==
  ASSUME NEW r \in Ranges, NEW u \in Ranges, NEW v \in Ranges, Within(r, u), Within(u, v)
  PROVE  Within(r, v)
BY DEF Within, Ranges, IsEmptyRange

\* What collides with a range collides with what it is within.
LEMMA WithinCollides ==
  ASSUME NEW r \in Ranges, NEW u \in Ranges, NEW x \in Ranges, Within(r, u),
         OverlapsWith(x, r)
  PROVE  OverlapsWith(x, u)
BY DEF Within, Ranges, IsEmptyRange, OverlapsWith, Overlaps,
       Touches

\* Ranges collide in both directions.
LEMMA CollidesBothWays ==
  ASSUME NEW r \in Ranges, NEW x \in Ranges, OverlapsWith(x, r)
  PROVE  OverlapsWith(r, x)
BY DEF Ranges, IsEmptyRange, OverlapsWith, Overlaps,
       Touches

\* Footprint::since takes a range in without losing one it has.
LEMMA CoalescedKeeps ==
  ASSUME NEW out \in Lists, NEW r \in Ranges
  PROVE  /\ Coalesced(out, r) \in Lists
         /\ Kept(Coalesced(out, r), r)
         /\ \A x \in Ranges : Kept(out, x) => Kept(Coalesced(out, r), x)
<1> DEFINE hits == {i \in DOMAIN out : Overlaps(out[i], r)}
           res == Coalesced(out, r)
<1>0. /\ Len(out) \in Nat /\ DOMAIN out = 1 .. Len(out)
      /\ \A i \in 1 .. Len(out) : out[i] \in Ranges
  BY DEF Lists
<1>1. CASE hits = {}
  <2>1. res = Append(out, r)
    BY <1>1 DEF Coalesced
  <2>2. /\ Append(out, r) \in Lists /\ Len(Append(out, r)) = Len(out) + 1
        /\ \A i \in 1 .. Len(out) : Append(out, r)[i] = out[i]
        /\ Append(out, r)[Len(out) + 1] = r
    <3> HIDE DEF Ranges
    <3> QED BY AppendProperties DEF Lists
  <2> HIDE DEF res
  <2>3. Kept(res, r)
    <3>1. Len(out) + 1 \in 1 .. Len(res) /\ res[Len(out) + 1] = r
      BY <1>0, <2>1, <2>2
    <3> QED BY <3>1 DEF Kept, Within
  <2>4. ASSUME NEW x \in Ranges, Kept(out, x)
        PROVE  Kept(res, x)
    <3>1. PICK i \in 1 .. Len(out) : Within(x, out[i])
      BY <2>4 DEF Kept
    <3>2. i \in 1 .. Len(res) /\ res[i] = out[i]
      BY <1>0, <2>1, <2>2
    <3> QED BY <3>1, <3>2 DEF Kept
  <2> QED BY <2>1, <2>2, <2>3, <2>4 DEF res
<1>2. CASE hits # {}
  <2> DEFINE i == CHOOSE k \in hits : \A j \in hits : k <= j
             u == RangeUnion(out[i], r)
  <2>1. i \in hits
    <3>1. hits \in SUBSET Nat
      BY <1>0
    <3> HIDE DEF hits
    <3>2. \E k \in hits : \A j \in hits : k <= j
      BY <1>2, <3>1, LeastExists
    <3> QED BY <3>2
  <2>2. res = [out EXCEPT ![i] = u]
    BY <1>2 DEF Coalesced
  <2>3. i \in 1 .. Len(out) /\ Overlaps(out[i], r)
    BY <1>0, <2>1
  <2> HIDE DEF i, hits, res
  <2>4. out[i] \in Ranges
    BY <1>0, <2>3
  <2>5. u \in Ranges /\ Within(r, u) /\ Within(out[i], u)
    BY <2>3, <2>4 DEF Within, Ranges, RangeUnion, BlockRange,
                      Overlaps, IsEmptyRange
  <2> HIDE DEF u
  <2>6. /\ res \in Lists /\ Len(res) = Len(out) /\ res[i] = u
        /\ \A k \in 1 .. Len(out) : k # i => res[k] = out[k]
    <3> HIDE DEF Ranges
    <3> QED BY <1>0, <2>2, <2>3, <2>5, ExceptSeq DEF Lists
  <2>7. Kept(res, r)
    BY <2>3, <2>5, <2>6 DEF Kept
  <2>8. ASSUME NEW x \in Ranges, Kept(out, x)
        PROVE  Kept(res, x)
    <3>1. PICK k \in 1 .. Len(out) : Within(x, out[k])
      BY <2>8 DEF Kept
    <3>2. CASE k = i
      <4>1. Within(x, u)
        BY <2>4, <2>5, <3>1, <3>2, WithinTransitive
      <4> QED BY <2>3, <2>6, <4>1 DEF Kept
    <3>3. CASE k # i
      BY <2>6, <3>1, <3>3 DEF Kept
    <3> QED BY <3>2, <3>3
  <2> QED BY <2>6, <2>7, <2>8 DEF res
<1> QED BY <1>1, <1>2

\* Its inner loop: one revision's ranges, all taken in.
LEMMA CoalescedAllKeeps ==
  ASSUME NEW out \in Lists, NEW blocks \in Lists
  PROVE  /\ CoalescedAll(out, blocks) \in Lists
         /\ \A j \in 1 .. Len(blocks) : Kept(CoalescedAll(out, blocks), blocks[j])
         /\ \A x \in Ranges : Kept(out, x) => Kept(CoalescedAll(out, blocks), x)
<1> DEFINE n == Len(blocks)
           body(h) == [k \in 0 .. n |->
                         IF k = 0 THEN out ELSE Coalesced(h[k - 1], blocks[k])]
           g == CHOOSE h : h = body(h)
           step == [p \in (1 .. n) \X Lists |-> Coalesced(p[2], blocks[p[1]])]
<1>0. n \in Nat /\ \A k \in 1 .. n : blocks[k] \in Ranges
  BY DEF Lists
<1>1. CoalescedAll(out, blocks) = g[n]
  BY DEF CoalescedAll
<1>2. step \in [(1 .. n) \X Lists -> Lists]
  <2>1. ASSUME NEW p \in (1 .. n) \X Lists
        PROVE  Coalesced(p[2], blocks[p[1]]) \in Lists
    <3>1. p[1] \in 1 .. n /\ p[2] \in Lists
      OBVIOUS
    <3>2. blocks[p[1]] \in Ranges
      BY <1>0, <3>1
    <3> QED BY <3>1, <3>2, CoalescedKeeps
  <2> QED BY <2>1
<1>3. \A k \in 1 .. n, s \in Lists : step[<<k, s>>] = Coalesced(s, blocks[k])
  OBVIOUS
<1> HIDE DEF n, step
<1>4. PICK f \in [0 .. n -> Lists] : Iterates(f, n, out, step)
  BY <1>0, <1>2, Iterated
<1>5. f = body(f)
  <2>1. ASSUME NEW k \in 0 .. n
        PROVE  f[k] = IF k = 0 THEN out ELSE Coalesced(f[k - 1], blocks[k])
    <3>1. CASE k = 0
      BY <1>4, <3>1 DEF Iterates
    <3>2. CASE k # 0
      <4>1. k \in 1 .. n /\ k - 1 \in 0 .. n
        BY <1>0, <3>2
      <4>2. f[k] = step[<<k, f[k - 1]>>] /\ f[k - 1] \in Lists
        BY <1>4, <4>1 DEF Iterates
      <4> QED BY <1>3, <3>2, <4>1, <4>2
    <3> QED BY <3>1, <3>2
  <2> QED BY <1>4, <2>1
<1>6. g = body(g)
  BY <1>5
<1>7. g[0] = out /\ \A k \in 1 .. n : g[k] = Coalesced(g[k - 1], blocks[k])
  <2> HIDE DEF g
  <2>1. ASSUME NEW k \in 0 .. n
        PROVE  g[k] = IF k = 0 THEN out ELSE Coalesced(g[k - 1], blocks[k])
    <3>1. g[k] = body(g)[k]
      BY <1>6
    <3> QED BY <3>1
  <2>2. 0 \in 0 .. n /\ \A k \in 1 .. n : k \in 0 .. n /\ k # 0
    BY <1>0
  <2>3. g[0] = out
    BY <2>1, <2>2
  <2>4. ASSUME NEW k \in 1 .. n
        PROVE  g[k] = Coalesced(g[k - 1], blocks[k])
    BY <2>1, <2>2, Zenon
  <2> QED BY <2>3, <2>4
<1> HIDE DEF g, body
<1> DEFINE T == {k \in 0 .. n : /\ g[k] \in Lists
                                /\ \A j \in 1 .. k : Kept(g[k], blocks[j])
                                /\ \A x \in Ranges : Kept(out, x) => Kept(g[k], x)}
<1>8. 0 \in T
  BY <1>0, <1>7
<1>9. ASSUME NEW k \in 1 .. n, k - 1 \in T
      PROVE  k \in T
  <2>1. /\ g[k - 1] \in Lists
        /\ \A j \in 1 .. k - 1 : Kept(g[k - 1], blocks[j])
        /\ \A x \in Ranges : Kept(out, x) => Kept(g[k - 1], x)
    BY <1>9
  <2>2. g[k] = Coalesced(g[k - 1], blocks[k])
    BY <1>7
  <2>3. blocks[k] \in Ranges
    BY <1>0
  <2>4. /\ g[k] \in Lists /\ Kept(g[k], blocks[k])
        /\ \A x \in Ranges : Kept(g[k - 1], x) => Kept(g[k], x)
    BY <2>1, <2>2, <2>3, CoalescedKeeps
  <2>5. ASSUME NEW j \in 1 .. k
        PROVE  Kept(g[k], blocks[j])
    <3>1. CASE j = k
      BY <2>4, <3>1
    <3>2. CASE j # k
      <4>1. j \in 1 .. k - 1 /\ j \in 1 .. n
        BY <1>0, <3>2
      <4> QED BY <1>0, <2>1, <2>4, <4>1
    <3> QED BY <3>1, <3>2
  <2>6. k \in 0 .. n
    BY <1>0
  <2> QED BY <2>1, <2>4, <2>5, <2>6
<1>10. n \in T
  <2>1. \A k \in 0 .. n : k \in T
    <3> HIDE DEF T
    <3> QED BY <1>0, <1>8, <1>9, StepByStep
  <2>2. n \in 0 .. n
    BY <1>0
  <2> QED BY <2>1, <2>2
<1> QED BY <1>1, <1>10 DEF n

\* A footprint as a tracker has it.
Trail == [history : Seq(Lists), base_revision : Nat]

\* Footprint::since has every range of every revision from where it begins.
LEMMA SinceKeeps ==
  ASSUME NEW f \in Trail, NEW base \in Nat, base # Revision(f)
  PROVE  /\ Since(f, base) \in Lists
         /\ \A i \in 1 .. Len(f.history) : i >= From(f, base) =>
              \A j \in 1 .. Len(f.history[i]) : Kept(Since(f, base), f.history[i][j])
<1> DEFINE n == Len(f.history)
           from == From(f, base)
           body(h) == [k \in 0 .. n |->
                         IF k < from THEN <<>> ELSE CoalescedAll(h[k - 1], f.history[k])]
           g == CHOOSE h : h = body(h)
           step == [p \in (1 .. n) \X Lists |->
                      IF p[1] < from THEN <<>> ELSE CoalescedAll(p[2], f.history[p[1]])]
<1>0. n \in Nat /\ \A k \in 1 .. n : f.history[k] \in Lists
  BY DEF Trail
<1>1. Since(f, base) = g[n]
  BY DEF Since
<1>a. from \in Nat /\ from > 0 /\ <<>> \in Lists
  BY DEF From, Revision, Trail, Lists
<1>2. step \in [(1 .. n) \X Lists -> Lists]
  <2>1. ASSUME NEW p \in (1 .. n) \X Lists
        PROVE  CoalescedAll(p[2], f.history[p[1]]) \in Lists
    <3>1. p[1] \in 1 .. n /\ p[2] \in Lists
      OBVIOUS
    <3>2. f.history[p[1]] \in Lists
      BY <1>0, <3>1
    <3> QED BY <3>1, <3>2, CoalescedAllKeeps
  <2> QED BY <1>a, <2>1
<1>3. \A k \in 1 .. n, s \in Lists : step[<<k, s>>] =
        IF k < from THEN <<>> ELSE CoalescedAll(s, f.history[k])
  OBVIOUS
<1> HIDE DEF n, step, from
<1>4. PICK h \in [0 .. n -> Lists] : Iterates(h, n, <<>>, step)
  BY <1>0, <1>2, <1>a, Iterated
<1>5. h = body(h)
  <2>1. ASSUME NEW k \in 0 .. n
        PROVE  h[k] = IF k < from THEN <<>>
                      ELSE CoalescedAll(h[k - 1], f.history[k])
    <3>1. CASE k = 0
      BY <1>a, <1>4, <3>1 DEF Iterates
    <3>2. CASE k # 0
      <4>1. k \in 1 .. n /\ k - 1 \in 0 .. n
        BY <1>0, <3>2
      <4>2. h[k] = step[<<k, h[k - 1]>>] /\ h[k - 1] \in Lists
        BY <1>4, <4>1 DEF Iterates
      <4> QED BY <1>3, <4>1, <4>2
    <3> QED BY <3>1, <3>2
  <2> QED BY <1>4, <2>1
<1>6. g = body(g)
  BY <1>5
<1>7. \A k \in 0 .. n : g[k] = IF k < from THEN <<>>
                               ELSE CoalescedAll(g[k - 1], f.history[k])
  <2> HIDE DEF g
  <2> SUFFICES ASSUME NEW k \in 0 .. n
               PROVE  g[k] = IF k < from THEN <<>>
                             ELSE CoalescedAll(g[k - 1], f.history[k])
    OBVIOUS
  <2>1. g[k] = body(g)[k]
    BY <1>6
  <2> QED BY <2>1
<1> HIDE DEF g, body
<1> DEFINE Has(s, i) == \A j \in 1 .. Len(f.history[i]) : Kept(s, f.history[i][j])
           T == {k \in 0 .. n : /\ g[k] \in Lists
                                /\ \A i \in 1 .. k : i >= from => Has(g[k], i)}
<1>8. 0 \in T
  <2>1. 0 \in 0 .. n /\ 0 < from
    BY <1>0, <1>a
  <2>2. g[0] = <<>>
    BY <1>7, <2>1
  <2> QED BY <1>a, <2>1, <2>2
<1>9. ASSUME NEW k \in 1 .. n, k - 1 \in T
      PROVE  k \in T
  <2> HIDE DEF Has
  <2>1. g[k - 1] \in Lists /\ \A i \in 1 .. k - 1 : i >= from => Has(g[k - 1], i)
    BY <1>9
  <2>2. k \in 0 .. n
    BY <1>0
  <2>3. CASE k < from
    <3>1. g[k] = <<>>
      BY <1>7, <2>2, <2>3
    <3> QED BY <1>a, <2>2, <2>3, <3>1
  <2>4. CASE ~ (k < from)
    <3>1. g[k] = CoalescedAll(g[k - 1], f.history[k])
      BY <1>7, <2>2, <2>4
    <3>2. f.history[k] \in Lists
      BY <1>0
    <3>3. /\ g[k] \in Lists /\ Has(g[k], k)
          /\ \A x \in Ranges : Kept(g[k - 1], x) => Kept(g[k], x)
      BY <2>1, <3>1, <3>2, CoalescedAllKeeps DEF Has
    <3>4. ASSUME NEW i \in 1 .. k, i >= from
          PROVE  Has(g[k], i)
      <4>1. CASE i = k
        BY <3>3, <4>1
      <4>2. CASE i # k
        <5>1. i \in 1 .. k - 1 /\ i \in 1 .. n
          BY <1>0, <4>2
        <5>2. Has(g[k - 1], i)
          BY <2>1, <3>4, <5>1
        <5>3. f.history[i] \in Lists
          BY <1>0, <5>1
        <5>4. \A j \in 1 .. Len(f.history[i]) : f.history[i][j] \in Ranges
          BY <5>3 DEF Lists
        <5> QED BY <3>3, <5>2, <5>4 DEF Has
      <4> QED BY <4>1, <4>2
    <3> QED BY <2>2, <3>3, <3>4
  <2> QED BY <2>3, <2>4
<1>10. n \in T
  <2>1. \A k \in 0 .. n : k \in T
    <3> HIDE DEF T
    <3> QED BY <1>0, <1>8, <1>9, StepByStep
  <2>2. n \in 0 .. n
    BY <1>0
  <2> QED BY <2>1, <2>2
<1> QED BY <1>1, <1>10 DEF n, from

\* Two lists have a pair that collides.
LEMMA PairsCollide ==
  ASSUME NEW A \in Lists, NEW B \in Lists
  PROVE  OverlappingPairs(A, B) # {} <=>
           \E i \in 1 .. Len(A), j \in 1 .. Len(B) : OverlapsWith(A[i], B[j])
<1>1. /\ DOMAIN A = 1 .. Len(A) /\ DOMAIN B = 1 .. Len(B)
  BY DEF Lists
<1>2. ASSUME NEW i \in 1 .. Len(A), NEW j \in 1 .. Len(B), OverlapsWith(A[i], B[j])
      PROVE  OverlappingPairs(A, B) # {}
  <2>1. <<A[i], B[j]>> \in OverlappingPairs(A, B)
    BY <1>1, <1>2 DEF OverlappingPairs, ToSet
  <2> QED BY <2>1
<1>3. ASSUME NEW p \in OverlappingPairs(A, B)
      PROVE  \E i \in 1 .. Len(A), j \in 1 .. Len(B) : OverlapsWith(A[i], B[j])
  <2>1. /\ p[1] \in {A[i] : i \in DOMAIN A} /\ p[2] \in {B[j] : j \in DOMAIN B}
        /\ OverlapsWith(p[1], p[2])
    BY DEF OverlappingPairs, ToSet
  <2> QED BY <1>1, <2>1
<1> QED BY <1>2, <1>3

\* classify reports a packet that collides with what is in the history from where
\* since begins.
LEMMA Noticed ==
  ASSUME NEW f \in Trail, NEW packet, packet.base_revision \in Nat, packet.blocks \in Lists,
         packet.base_revision # Revision(f),
         NEW i \in 1 .. Len(f.history), i >= From(f, packet.base_revision),
         FootprintsOverlap(packet.blocks, f.history[i])
  PROVE  Classified(f, packet) # {}
<1> DEFINE changed == Since(f, packet.base_revision)
<1>1. f.history[i] \in Lists
  BY DEF Trail
<1>2. PICK k \in 1 .. Len(packet.blocks), j \in 1 .. Len(f.history[i]) :
        OverlapsWith(packet.blocks[k], f.history[i][j])
  BY <1>1, PairsCollide DEF FootprintsOverlap
<1>3. changed \in Lists /\ Kept(changed, f.history[i][j])
  BY SinceKeeps
<1> HIDE DEF changed
<1>4. PICK u \in 1 .. Len(changed) : Within(f.history[i][j], changed[u])
  BY <1>3 DEF Kept
<1>5. /\ packet.blocks[k] \in Ranges /\ f.history[i][j] \in Ranges /\ changed[u] \in Ranges
  <2>1. \A s \in Lists : \A l \in 1 .. Len(s) : s[l] \in Ranges
    <3> HIDE DEF Ranges
    <3> QED BY DEF Lists
  <2> QED BY <1>1, <1>3, <2>1
<1>6. OverlapsWith(packet.blocks[k], changed[u])
  BY <1>2, <1>4, <1>5, WithinCollides
<1>7. OverlappingPairs(packet.blocks, changed) # {}
  BY <1>3, <1>6, PairsCollide
<1> QED BY <1>7 DEF changed, Classified

\* MathDoc and its tracker count the same edits.
InStep == \A r \in Replicas : revision[r] = Revision(tracker[r])

\* The history has the footprint of every packet that is still retained.
OnTrail ==
  \A q \in sent :
    Retained(q) =>
      tracker[q.from].history[q.revision - tracker[q.from].base_revision] = q.blocks

\* What was delivered is in the document.
Arrived == \A d \in delivered : d[1] # d[2].from /\ OpOf(d[2]) \in doc[d[1]]

\* A packet was reported where it arrived after an edit of no smaller revision that
\* it collides with.
Told ==
  \A d \in delivered, q \in sent :
    /\ q.from = d[1] /\ Retained(q)
    /\ FootprintsOverlap(d[2].blocks, q.blocks)
    /\ OpOf(d[2]) \notin q.bytes
    /\ q.revision >= d[2].revision
    => d \in conflicts

PeersInv == SyncTypeOK /\ InStep /\ OnTrail /\ Arrived /\ Told

\* A document starts with nothing to report.
LEMMA PeersInit == SyncInit => PeersInv
<1> SUFFICES ASSUME SyncInit
             PROVE  PeersInv
  OBVIOUS
<1>1. NewFootprint.history = <<>> /\ NewFootprint.base_revision = 0
  BY DEF NewFootprint
<1>2. <<>> \in Seq(Changes) /\ Len(<<>>) = 0 /\ 0 \in 0 .. MaxRevision
  BY SyncPeersAssumption
<1>3. SyncTypeOK
  BY <1>1, <1>2 DEF SyncInit, SyncTypeOK, Revision, NewFootprint
<1> QED BY <1>1, <1>3 DEF SyncInit, PeersInv, InStep, OnTrail, Arrived, Told,
                          Revision

\* A footprint of edits within the bound.
Footprint == [history : Seq(Changes), base_revision : 0 .. MaxRevision]

\* Footprint::record goes one revision on and leaves the others where they are.
LEMMA RecordedIs ==
  ASSUME NEW f \in Footprint, NEW blocks \in Changes
  PROVE  /\ Recorded(f, blocks) \in Footprint
         /\ Revision(Recorded(f, blocks)) = Revision(f) + 1
         /\ Recorded(f, blocks).base_revision = f.base_revision
         /\ Recorded(f, blocks).history[Len(f.history) + 1] = blocks
         /\ \A i \in 1 .. Len(f.history) :
              Recorded(f, blocks).history[i] = f.history[i]
<1> DEFINE g == Recorded(f, blocks)
<1>1. f.history \in Seq(Changes) /\ f.base_revision \in 0 .. MaxRevision /\ MaxRevision \in Nat
  BY SyncPeersAssumption DEF Footprint
<1>2. g.history = Append(f.history, blocks) /\ g.base_revision = f.base_revision
  BY DEF Recorded, Footprint
<1>3. /\ Append(f.history, blocks) \in Seq(Changes)
      /\ Len(Append(f.history, blocks)) = Len(f.history) + 1
      /\ Append(f.history, blocks)[Len(f.history) + 1] = blocks
      /\ \A i \in 1 .. Len(f.history) : Append(f.history, blocks)[i] = f.history[i]
  BY <1>1, AppendProperties
<1>4. g \in Footprint
  BY <1>3 DEF Recorded, Footprint
<1>5. Revision(g) = Revision(f) + 1
  <2>1. Len(f.history) \in Nat /\ f.base_revision \in Nat
    BY <1>1
  <2> HIDE DEF g
  <2> QED BY <1>2, <1>3, <2>1 DEF Revision
<1> HIDE DEF g
<1> QED BY <1>2, <1>3, <1>4, <1>5 DEF g

\* truncate_below drops the oldest revisions, and the number stays.
LEMMA TruncatedIs ==
  ASSUME NEW f \in Footprint, Revision(f) <= MaxRevision, NEW keep_from \in Nat
  PROVE  LET g == TruncatedBelow(f, keep_from)
             n == g.base_revision - f.base_revision
         IN  /\ g \in Footprint /\ n \in Nat
             /\ Revision(g) = Revision(f)
             /\ \A i \in 1 .. Len(g.history) : g.history[i] = f.history[i + n]
<1> DEFINE asked == IF keep_from > f.base_revision + 1
                    THEN keep_from - (f.base_revision + 1) ELSE 0
           n == IF asked <= Len(f.history) THEN asked ELSE Len(f.history)
           s == SubSeq(f.history, n + 1, Len(f.history))
           g == TruncatedBelow(f, keep_from)
<1>1. f.history \in Seq(Changes) /\ f.base_revision \in 0 .. MaxRevision /\ MaxRevision \in Nat
  BY SyncPeersAssumption DEF Footprint
<1>2. f.base_revision \in Nat /\ Len(f.history) \in Nat
  BY <1>1
<1>3. n \in Nat /\ n <= Len(f.history)
  BY <1>2
<1>4. g = [history |-> s, base_revision |-> f.base_revision + n]
  BY DEF TruncatedBelow
<1> HIDE DEF n, g
<1>5. /\ s \in Seq(Changes) /\ Len(s) = Len(f.history) - n
      /\ \A i \in 1 .. Len(s) : s[i] = f.history[i + n]
  BY <1>1, <1>2, <1>3, SubSeqProperties
<1> HIDE DEF s
<1>6. f.base_revision + n \in 0 .. MaxRevision /\ (f.base_revision + n) - f.base_revision = n
  BY <1>1, <1>2, <1>3 DEF Revision
<1>7. g \in Footprint
  BY <1>4, <1>5, <1>6 DEF Footprint
<1>8. Revision(g) = Revision(f)
  BY <1>2, <1>3, <1>4, <1>5 DEF Revision
<1>9. g.history = s /\ g.base_revision = f.base_revision + n
  BY <1>4
<1> QED BY <1>3, <1>5, <1>6, <1>7, <1>8, <1>9 DEF g

\* What TypeOK says of one replica.
LEMMA OfReplica ==
  ASSUME PeersInv, NEW r \in Replicas
  PROVE  /\ tracker[r] \in Trail /\ tracker[r] \in Footprint
         /\ Revision(tracker[r]) \in 0 .. MaxRevision
<1>1. /\ tracker[r] \in Footprint
      /\ Revision(tracker[r]) <= MaxRevision
  BY DEF PeersInv, SyncTypeOK, Footprint
<1>2. Changes \subseteq Lists /\ MaxRevision \in Nat
  BY SyncPeersAssumption DEF Lists, Ranges
<1>3. tracker[r].history \in Seq(Lists)
  <2> HIDE DEF Lists
  <2> QED BY <1>1, <1>2 DEF Footprint
<1>4. tracker[r].base_revision \in Nat /\ Len(tracker[r].history) \in Nat
  BY <1>1, <1>2 DEF Footprint
<1>5. Revision(tracker[r]) \in 0 .. MaxRevision
  BY <1>1, <1>2, <1>4 DEF Revision
<1>6. tracker[r] \in Trail
  BY <1>1, <1>3, <1>4 DEF Trail, Footprint
<1> QED BY <1>1, <1>5, <1>6

\* What it says of one packet.
LEMMA OfPacket ==
  ASSUME PeersInv, NEW p \in sent
  PROVE  /\ p.from \in Replicas /\ p.blocks \in Changes /\ p.blocks \in Lists
         /\ p.revision \in Nat /\ p.revision > 0 /\ p.base_revision = p.revision - 1
         /\ p.revision <= Revision(tracker[p.from])
         /\ OpOf(p) \in p.bytes
<1>1. p \in Packet
  BY DEF PeersInv, SyncTypeOK
<1>2. /\ p.from \in Replicas /\ p.blocks \in Changes /\ p.revision \in 1 .. MaxRevision
  BY <1>1 DEF Packet
<1>3. p.blocks \in Lists
  BY <1>2, SyncPeersAssumption DEF Lists, Ranges
<1>4. /\ p.base_revision = p.revision - 1 /\ OpOf(p) \in p.bytes
      /\ p.revision <= Revision(tracker[p.from])
  BY DEF PeersInv, SyncTypeOK
<1>5. p.revision \in Nat /\ p.revision > 0
  BY <1>2, SyncPeersAssumption
<1> QED BY <1>2, <1>3, <1>4, <1>5

\* An edit is recorded behind what was, and its packet has all that was imported.
LEMMA EditKeeps ==
  ASSUME PeersInv, NEW r \in Replicas, NEW blocks \in Changes, Edit(r, blocks)
  PROVE  PeersInv'
<1> DEFINE f == tracker[r]
           g == Recorded(f, blocks)
           rev == Revision(g)
           ops == doc[r] \cup {<<r, rev>>}
           p == [from |-> r, revision |-> rev, base_revision |-> Revision(f),
                 blocks |-> blocks, bytes |-> ops]
<1>1. /\ f \in Footprint /\ Revision(f) \in Nat /\ Revision(f) < MaxRevision
      /\ f.base_revision \in Nat /\ Len(f.history) \in Nat
  BY OfReplica, SyncPeersAssumption DEF Edit, Trail
<1>2. /\ g \in Footprint /\ rev = Revision(f) + 1
      /\ g.base_revision = f.base_revision /\ g.history[Len(f.history) + 1] = blocks
      /\ \A i \in 1 .. Len(f.history) : g.history[i] = f.history[i]
  BY <1>1, RecordedIs
<1>3. /\ doc' = [doc EXCEPT ![r] = ops]
      /\ mirror' = [mirror EXCEPT ![r] = @ \cup {<<r, rev>>}]
      /\ revision' = [revision EXCEPT ![r] = @ + 1]
      /\ tracker' = [tracker EXCEPT ![r] = g]
      /\ sent' = sent \cup {p}
      /\ delivered' = delivered /\ conflicts' = conflicts
  BY Zenon DEF Edit, Exported
<1>4. /\ rev \in 1 .. MaxRevision /\ Revision(f) \in 0 .. MaxRevision
      /\ MaxRevision \in Nat /\ rev - 1 = Revision(f)
  BY <1>1, <1>2, SyncPeersAssumption
<1>5. /\ p.from = r /\ p.revision = rev /\ p.base_revision = Revision(f)
      /\ p.blocks = blocks /\ p.bytes = ops /\ <<r, rev>> \in ops
  OBVIOUS
<1>6. /\ ops \in SUBSET Operations /\ p \in Packet
  <2>1. doc[r] \in SUBSET Operations /\ <<r, rev>> \in Operations
    BY <1>4 DEF PeersInv, SyncTypeOK, Operations
  <2>2. ops \in SUBSET Operations
    BY <2>1
  <2> HIDE DEF rev, ops, f
  <2> QED BY <1>4, <2>2 DEF Packet
<1>7. /\ \A s \in Replicas : s # r => tracker'[s] = tracker[s]
      /\ tracker'[r] = g /\ DOMAIN tracker = Replicas
  BY <1>3 DEF PeersInv, SyncTypeOK
<1> HIDE DEF f, g, p, ops
<1>8. SyncTypeOK'
  <2>1. /\ doc' \in [Replicas -> SUBSET Operations]
        /\ mirror' \in [Replicas -> SUBSET Operations]
    BY <1>3, <1>4, <1>6 DEF PeersInv, SyncTypeOK, Operations
  <2>2. revision' \in [Replicas -> 0 .. MaxRevision]
    BY <1>1, <1>3, <1>4 DEF PeersInv, SyncTypeOK, InStep, f
  <2>3. /\ tracker' \in [Replicas -> [history : Seq(Changes), base_revision : 0 .. MaxRevision]]
        /\ \A s \in Replicas : Revision(tracker'[s]) <= MaxRevision
    <3>1. tracker' \in [Replicas -> [history : Seq(Changes), base_revision : 0 .. MaxRevision]]
      BY <1>2, <1>3 DEF PeersInv, SyncTypeOK, Footprint
    <3>2. Revision(tracker'[r]) <= MaxRevision
      BY <1>4, <1>7
    <3>3. ASSUME NEW s \in Replicas, s # r
          PROVE  Revision(tracker'[s]) <= MaxRevision
      BY <1>7, <3>3 DEF PeersInv, SyncTypeOK
    <3> QED BY <3>1, <3>2, <3>3
  <2>4. /\ sent' \subseteq Packet /\ delivered' \subseteq Replicas \X sent'
        /\ conflicts' \subseteq delivered'
    BY <1>3, <1>6 DEF PeersInv, SyncTypeOK
  <2>5. ASSUME NEW q \in sent'
        PROVE  /\ q.base_revision = q.revision - 1
               /\ OpOf(q) \in q.bytes
               /\ q.revision <= Revision(tracker'[q.from])
    <3>1. CASE q = p
      BY <1>4, <1>5, <1>7, <3>1 DEF OpOf
    <3>2. CASE q \in sent
      <4>1. /\ q.base_revision = q.revision - 1 /\ OpOf(q) \in q.bytes
            /\ q.revision <= Revision(tracker[q.from]) /\ q.revision \in Nat
            /\ q.from \in Replicas
        BY <3>2, OfPacket
      <4>2. CASE q.from = r
        <5>1. q.revision <= Revision(f)
          BY <4>1, <4>2 DEF f
        <5> QED BY <1>1, <1>2, <1>7, <4>1, <4>2, <5>1
      <4>3. CASE q.from # r
        BY <1>7, <4>1, <4>3
      <4> QED BY <4>2, <4>3
    <3> QED BY <1>3, <3>1, <3>2
  <2>6. ASSUME NEW q \in sent
        PROVE  OpOf(q) # OpOf(p)
    <3>1. q.revision \in Nat /\ q.revision <= Revision(tracker[q.from])
      BY OfPacket
    <3>2. q.from = r => q.revision # rev
      BY <1>1, <1>2, <3>1 DEF f
    <3> QED BY <1>5, <3>2 DEF OpOf
  <2>7. \A q, s \in sent' : OpOf(q) = OpOf(s) => q = s
    <3>1. \A q, s \in sent : OpOf(q) = OpOf(s) => q = s
      BY DEF PeersInv, SyncTypeOK
    <3> QED BY <1>3, <2>6, <3>1
  <2> QED BY <2>1, <2>2, <2>3, <2>4, <2>5, <2>7 DEF SyncTypeOK
<1>9. InStep'
  BY <1>1, <1>2, <1>3, <1>7 DEF PeersInv, SyncTypeOK, InStep, f
<1>10. OnTrail'
  <2> SUFFICES ASSUME NEW q \in sent', Retained(q)'
               PROVE  tracker'[q.from].history[q.revision - tracker'[q.from].base_revision]
                        = q.blocks
    BY DEF OnTrail
  <2>1. CASE q = p
    <3>1. rev - g.base_revision = Len(f.history) + 1
      BY <1>1, <1>2 DEF Revision
    <3> QED BY <1>2, <1>5, <1>7, <2>1, <3>1
  <2>2. CASE q \in sent
    <3>1. q.from \in Replicas /\ q.revision \in Nat
          /\ q.revision <= Revision(tracker[q.from])
      BY <2>2, OfPacket
    <3>2. q.from = r => tracker'[q.from].base_revision = tracker[q.from].base_revision
      BY <1>2, <1>7 DEF f
    <3>3. Retained(q)
      BY <1>7, <3>1, <3>2 DEF Retained
    <3>4. tracker[q.from].history[q.revision - tracker[q.from].base_revision] = q.blocks
      BY <2>2, <3>3 DEF PeersInv, OnTrail
    <3>5. CASE q.from = r
      <4>1. q.revision - f.base_revision \in 1 .. Len(f.history)
        BY <1>1, <3>1, <3>3, <3>5 DEF f, Retained, Revision
      <4> QED BY <1>2, <1>7, <3>2, <3>4, <3>5, <4>1 DEF f
    <3>6. CASE q.from # r
      BY <1>7, <3>1, <3>4, <3>6
    <3> QED BY <3>5, <3>6
  <2> QED BY <1>3, <2>1, <2>2
<1>11. Arrived'
  BY <1>3 DEF PeersInv, SyncTypeOK, Arrived, OpOf, ops
<1>12. Told'
  <2> SUFFICES ASSUME NEW d \in delivered, NEW q \in sent', q.from = d[1],
                      Retained(q)',
                      FootprintsOverlap(d[2].blocks, q.blocks),
                      OpOf(d[2]) \notin q.bytes, q.revision >= d[2].revision
               PROVE  d \in conflicts
    BY <1>3 DEF Told
  <2>1. CASE q = p
    <3>1. OpOf(d[2]) \in doc[r]
      BY <1>5, <2>1 DEF PeersInv, Arrived
    <3> QED BY <1>5, <2>1, <3>1 DEF ops
  <2>2. CASE q \in sent
    <3>1. q.from \in Replicas
      BY <2>2, OfPacket
    <3>2. q.from = r => tracker'[q.from].base_revision = tracker[q.from].base_revision
      BY <1>2, <1>7 DEF f
    <3>3. Retained(q)
      BY <1>7, <3>1, <3>2 DEF Retained
    <3> QED BY <2>2, <3>3 DEF PeersInv, Told
  <2> QED BY <1>3, <2>1, <2>2
<1> QED BY <1>8, <1>9, <1>10, <1>11, <1>12 DEF PeersInv

\* A packet that arrives is in the document from then on; if it collides with an
\* edit that it does not know and that is behind its base, it is reported.
LEMMA DeliverKeeps ==
  ASSUME PeersInv, NEW r \in Replicas, NEW p \in sent, Deliver(r, p)
  PROVE  PeersInv'
<1>1. /\ p.from # r /\ delivered' = delivered \cup {<<r, p>>}
      /\ conflicts' = IF Classified(tracker[r], p) # {}
                     THEN conflicts \cup {<<r, p>>} ELSE conflicts
      /\ doc' = [doc EXCEPT ![r] = @ \cup p.bytes]
      /\ mirror' = [mirror EXCEPT ![r] = doc'[r]]
      /\ revision' = revision /\ tracker' = tracker /\ sent' = sent
  BY DEF Deliver, Import
<1>2. p.bytes \in SUBSET Operations
  BY DEF PeersInv, SyncTypeOK, Packet
<1>3. SyncTypeOK'
  <2>1. /\ doc' \in [Replicas -> SUBSET Operations]
        /\ mirror' \in [Replicas -> SUBSET Operations]
    BY <1>1, <1>2 DEF PeersInv, SyncTypeOK
  <2>2. delivered' \subseteq Replicas \X sent' /\ conflicts' \subseteq delivered'
    BY <1>1 DEF PeersInv, SyncTypeOK
  <2> QED BY <1>1, <2>1, <2>2 DEF PeersInv, SyncTypeOK
<1>4. InStep' /\ OnTrail'
  BY <1>1 DEF PeersInv, InStep, OnTrail, Retained
<1>5. Arrived'
  <2> SUFFICES ASSUME NEW d \in delivered'
               PROVE  d[1] # d[2].from /\ OpOf(d[2]) \in doc'[d[1]]
    BY DEF Arrived, OpOf
  <2>1. d[1] \in Replicas /\ doc[d[1]] \subseteq doc'[d[1]]
    BY <1>1 DEF PeersInv, SyncTypeOK
  <2>2. CASE d \in delivered
    BY <2>1, <2>2 DEF PeersInv, Arrived
  <2>3. CASE d = <<r, p>>
    <3>1. OpOf(p) \in doc'[r]
      BY <1>1, OfPacket DEF PeersInv, SyncTypeOK
    <3> QED BY <1>1, <2>3, <3>1
  <2> QED BY <1>1, <2>2, <2>3
<1>6. Told'
  <2> SUFFICES ASSUME NEW d \in delivered', NEW q \in sent, q.from = d[1],
                      Retained(q),
                      FootprintsOverlap(d[2].blocks, q.blocks),
                      OpOf(d[2]) \notin q.bytes, q.revision >= d[2].revision
               PROVE  d \in conflicts'
    BY <1>1 DEF Told, Retained
  <2>1. CASE d \in delivered
    BY <1>1, <2>1 DEF PeersInv, Told
  <2>2. CASE d = <<r, p>>
    <3> DEFINE f == tracker[r]
               i == q.revision - f.base_revision
    <3>1. /\ f \in Trail /\ f.base_revision \in Nat /\ Len(f.history) \in Nat
      BY OfReplica DEF Trail
    <3>2. /\ q.from = r /\ q.revision \in Nat /\ q.revision <= Revision(f)
          /\ q.revision > f.base_revision /\ q.revision >= p.revision
      BY <2>2, OfPacket DEF Retained
    <3>3. /\ p.revision \in Nat /\ p.revision > 0 /\ p.base_revision = p.revision - 1
          /\ p.blocks \in Lists
      BY OfPacket
    <3>4. f.history[i] = q.blocks
      BY <3>2 DEF PeersInv, OnTrail
    <3>5. i \in 1 .. Len(f.history)
      BY <3>1, <3>2 DEF Revision
    <3>6. p.base_revision \in Nat /\ p.base_revision # Revision(f)
      BY <3>1, <3>2, <3>3 DEF Revision
    <3>7. i >= From(f, p.base_revision)
      BY <3>1, <3>2, <3>3, <3>5 DEF From, Revision
    <3>8. FootprintsOverlap(p.blocks, f.history[i])
      BY <2>2, <3>4
    <3> HIDE DEF f, i
    <3>9. Classified(f, p) # {}
      BY <3>1, <3>3, <3>5, <3>6, <3>7, <3>8, Noticed
    <3> QED BY <1>1, <2>2, <3>9 DEF f
  <2> QED BY <1>1, <2>1, <2>2
<1> QED BY <1>3, <1>4, <1>5, <1>6 DEF PeersInv

\* Truncating takes nothing from what is retained.
LEMMA TruncateKeeps ==
  ASSUME PeersInv, NEW r \in Replicas, NEW keep_from \in Nat, Truncate(r, keep_from)
  PROVE  PeersInv'
<1> DEFINE f == tracker[r]
           g == TruncatedBelow(f, keep_from)
           n == g.base_revision - f.base_revision
<1>1. /\ tracker' = [tracker EXCEPT ![r] = g]
      /\ doc' = doc /\ mirror' = mirror /\ revision' = revision /\ sent' = sent
      /\ delivered' = delivered /\ conflicts' = conflicts
  BY DEF Truncate
<1>2. f \in Footprint /\ Revision(f) \in 0 .. MaxRevision /\ MaxRevision \in Nat
  BY OfReplica, SyncPeersAssumption
<1>3. /\ g \in Footprint /\ n \in Nat /\ Revision(g) = Revision(f)
      /\ \A i \in 1 .. Len(g.history) : g.history[i] = f.history[i + n]
  <2>1. Revision(f) <= MaxRevision
    BY <1>2
  <2> HIDE DEF f
  <2> QED BY <1>2, <2>1, TruncatedIs
<1>4. /\ \A s \in Replicas : s # r => tracker'[s] = tracker[s]
      /\ tracker'[r] = g /\ DOMAIN tracker = Replicas
  BY <1>1 DEF PeersInv, SyncTypeOK
<1> HIDE DEF g
<1>5. f.base_revision \in Nat /\ g.base_revision \in Nat /\ Len(g.history) \in Nat
  BY <1>2, <1>3 DEF Footprint
<1>6. \A s \in Replicas : Revision(tracker'[s]) = Revision(tracker[s])
  BY <1>3, <1>4
<1>7. SyncTypeOK' /\ InStep'
  <2>1. tracker' \in [Replicas -> [history : Seq(Changes), base_revision : 0 .. MaxRevision]]
    BY <1>1, <1>3 DEF PeersInv, SyncTypeOK, Footprint
  <2>2. \A p \in sent : p.from \in Replicas
    BY OfPacket
  <2> QED BY <1>1, <1>6, <2>1, <2>2 DEF PeersInv, SyncTypeOK, InStep
<1>8. ASSUME NEW q \in sent, Retained(q)'
      PROVE  /\ Retained(q)
             /\ tracker'[q.from].history[q.revision - tracker'[q.from].base_revision] = q.blocks
  <2>1. q.from \in Replicas /\ q.revision \in Nat
        /\ q.revision <= Revision(tracker[q.from])
    BY OfPacket
  <2>2. CASE q.from # r
    BY <1>4, <1>8, <2>1, <2>2 DEF PeersInv, OnTrail, Retained
  <2>3. CASE q.from = r
    <3>1. q.revision > g.base_revision /\ q.revision <= Revision(g)
      BY <1>3, <1>4, <1>8, <2>1, <2>3 DEF Retained
    <3>2. Retained(q)
      BY <1>3, <1>5, <2>1, <2>3, <3>1 DEF Retained
    <3>3. q.revision - g.base_revision \in 1 .. Len(g.history)
      BY <1>5, <2>1, <3>1 DEF Revision
    <3>4. (q.revision - g.base_revision) + n = q.revision - f.base_revision
      BY <1>5, <2>1
    <3>5. f.history[q.revision - f.base_revision] = q.blocks
      BY <2>3, <3>2 DEF PeersInv, OnTrail
    <3> QED BY <1>3, <1>4, <2>3, <3>2, <3>3, <3>4, <3>5
  <2> QED BY <2>2, <2>3
<1>9. OnTrail'
  BY <1>1, <1>8 DEF OnTrail
<1>10. Arrived' /\ Told'
  BY <1>1, <1>8 DEF PeersInv, Arrived, Told, OpOf
<1> QED BY <1>7, <1>9, <1>10 DEF PeersInv

\* Of two edits that collide and have both arrived, at least one is reported where it
\* arrived, as long as neither was truncated (Footprint::since, classify): the one
\* whose revision is no greater than the other's.
THEOREM OneSideIsTold == SyncSpec => []OneSideReports
<1>1. PeersInv /\ [SyncNext]_syncVars => PeersInv'
  <2> SUFFICES ASSUME PeersInv, [SyncNext]_syncVars
               PROVE  PeersInv'
    OBVIOUS
  <2>1. CASE UNCHANGED syncVars
    BY <2>1 DEF syncVars, PeersInv, SyncTypeOK, InStep, OnTrail, Arrived, Told,
                Retained
  <2>2. ASSUME NEW r \in Replicas, NEW blocks \in Changes, Edit(r, blocks)
        PROVE  PeersInv'
    BY <2>2, EditKeeps
  <2>3. ASSUME NEW r \in Replicas, NEW p \in sent, Deliver(r, p)
        PROVE  PeersInv'
    BY <2>3, DeliverKeeps
  <2>4. ASSUME NEW r \in Replicas, NEW keep_from \in 2 .. MaxRevision,
               Truncate(r, keep_from)
        PROVE  PeersInv'
    <3>1. keep_from \in Nat
      BY SyncPeersAssumption
    <3> QED BY <2>4, <3>1, TruncateKeeps
  <2> QED BY <2>1, <2>2, <2>3, <2>4 DEF SyncNext
<1>2. PeersInv => OneSideReports
  <2> SUFFICES ASSUME PeersInv, NEW p \in sent, NEW q \in sent, Collide(p, q),
                      Retained(p), Retained(q),
                      <<q.from, p>> \in delivered, <<p.from, q>> \in delivered
               PROVE  <<q.from, p>> \in conflicts \/ <<p.from, q>> \in conflicts
    BY DEF OneSideReports
  <2>1. /\ OpOf(p) \notin q.bytes /\ OpOf(q) \notin p.bytes
        /\ FootprintsOverlap(p.blocks, q.blocks)
    BY DEF Collide, Concurrent
  <2>2. FootprintsOverlap(q.blocks, p.blocks)
    <3>1. p.blocks \in Lists /\ q.blocks \in Lists
      BY OfPacket
    <3>2. PICK i \in 1 .. Len(p.blocks), j \in 1 .. Len(q.blocks) :
            OverlapsWith(p.blocks[i], q.blocks[j])
      BY <2>1, <3>1, PairsCollide DEF FootprintsOverlap
    <3>3. p.blocks[i] \in Ranges /\ q.blocks[j] \in Ranges
      BY <3>1 DEF Lists
    <3>4. OverlapsWith(q.blocks[j], p.blocks[i])
      BY <3>2, <3>3, CollidesBothWays
    <3> QED BY <3>1, <3>4, PairsCollide DEF FootprintsOverlap
  <2>3. p.revision \in Nat /\ q.revision \in Nat
    BY OfPacket
  <2>4. CASE q.revision >= p.revision
    BY <2>1, <2>4 DEF PeersInv, Told
  <2>5. CASE p.revision >= q.revision
    BY <2>1, <2>2, <2>5 DEF PeersInv, Told
  <2> QED BY <2>3, <2>4, <2>5
<1> QED BY <1>1, <1>2, PeersInit, PTL DEF SyncSpec
=============================================================================
