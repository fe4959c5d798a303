---------------------------- MODULE OrgHostProofs ----------------------------
(***************************************************************************)
(* What OrgHost keeps for every number of workers and scopes, every        *)
(* overlap rule, and every pattern of crashes and failed saves.            *)
(*                                                                         *)
(* The claims alone are not inductive: a restart replays scopes from disk, *)
(* so the record of a worker that is not running has to be constrained     *)
(* too.  DiskBacked says a record never names two scopes, and names one    *)
(* only together with a step past Claim.                                   *)
(*                                                                         *)
(* That no nudge is given twice needs that one that was given is both in   *)
(* the loop that runs and in the record a restart begins with (Remembered).*)
(* The refinement of the scope ledger and what a ledger promises come last.*)
(***************************************************************************)
EXTENDS OrgHost, TLAPS, FiniteSetTheorems

DiskBacked ==
  \A w \in Workers :
    /\ \A s, t \in disk[w].scopes : s = t
    /\ disk[w].scopes # {} => disk[w].loop.step \in PastClaim

IInv == TypeOK /\ ClaimsExclusive /\ ClaimsBacked /\ DiskBacked

-----------------------------------------------------------------------------
(* The loop's operators keep a loop record a loop record.                  *)

\* Handing over deliveries and nudges keeps the step; advancing sets it.
LEMMA LoopOperators ==
  ASSUME NEW l \in LoopRecord, NEW ids \in SUBSET DeliveryIds,
         NEW kinds \in SUBSET NudgeKinds, NEW next \in Step
  PROVE  /\ DeliverAll(l, ids) \in LoopRecord /\ DeliverAll(l, ids).step = l.step
         /\ MarkNudged(l, kinds) \in LoopRecord /\ MarkNudged(l, kinds).step = l.step
         /\ Advance(l, next) \in LoopRecord /\ Advance(l, next).step = next
<1>1. DeliverAll(l, ids) \in LoopRecord /\ DeliverAll(l, ids).step = l.step
  BY DEF DeliverAll, LoopRecord
<1>2. MarkNudged(l, kinds) \in LoopRecord /\ MarkNudged(l, kinds).step = l.step
  BY DEF MarkNudged, LoopRecord
<1>3. Advance(l, next) \in LoopRecord /\ Advance(l, next).step = next
  BY DEF Advance, LoopRecord
<1> QED BY <1>1, <1>2, <1>3

\* A backtrack never leaves a worker before Claim that was past it, except
\* from Act, from which the host never backtracks.
LEMMA BacktrackKeeps ==
  ASSUME NEW l \in LoopRecord
  PROVE  /\ Backtrack(l) \in LoopRecord
         /\ l.step \in PastClaim => Backtrack(l).step \in PastClaim \/ l.step = "Act"
<1>1. CASE BackTo(l.step) = "None" \/ l.backtracks >= BacktrackBudget(l.step)
  BY <1>1 DEF Backtrack
<1>2. CASE ~ (BackTo(l.step) = "None" \/ l.backtracks >= BacktrackBudget(l.step))
  <2>1. Backtrack(l) = [l EXCEPT !.step = BackTo(l.step), !.backtracks = @ + 1]
    BY <1>2 DEF Backtrack
  <2>2. BackTo(l.step) \in Step /\ (l.step \in {"Verify", "Merge"} => BackTo(l.step) \in PastClaim)
    BY <1>2 DEF BackTo, Step, PastClaim, LoopRecord
  <2>3. Backtrack(l) \in LoopRecord /\ Backtrack(l).step = BackTo(l.step)
    <3>1. l.backtracks + 1 \in Nat
      BY DEF LoopRecord
    <3> QED BY <2>1, <2>2, <3>1 DEF LoopRecord
  <2> QED BY <2>2, <2>3 DEF PastClaim
<1> QED BY <1>1, <1>2

\* Draining the inbox keeps the loop's type and its step.
LEMMA DeliveredKeeps ==
  ASSUME TypeOK, NEW w \in Workers
  PROVE  Delivered(w) \in LoopRecord /\ Delivered(w).step = loop[w].step
<1>1. loop[w] \in LoopRecord /\ inbox[w] \in SUBSET DeliveryIds
  BY DEF TypeOK
<1> QED BY <1>1 DEF Delivered, DeliverAll, LoopRecord

-----------------------------------------------------------------------------
(* What a batch of saves does to the disk, whichever of them fail.         *)

\* A batch of saves keeps the types of the disk, the counters and failedSave.
LEMMA PersistType ==
  ASSUME TypeOK, NEW batch \in SUBSET Workers, NEW spent \in Nat,
         loop' \in [Workers -> LoopRecord], claims' \subseteq LiveClaim,
         Persist(batch, spent)
  PROVE  /\ disk' \in [Workers -> SessionRecord]
         /\ sessionError' \in BOOLEAN /\ events' \in Nat
         /\ failedSave' \subseteq failedSave \cup batch
<1>1. PICK failed \in SUBSET batch :
        /\ disk' = [w \in Workers |-> IF w \in batch \ failed THEN Record(w)' ELSE disk[w]]
        /\ events' = events + spent + (IF failed = {} \/ damaged THEN 0 ELSE 1)
        /\ sessionError' = (failed # {})
        /\ failedSave' = (failedSave \ batch) \cup failed
  BY DEF Persist
<1>2. \A w \in Workers : Record(w)' \in SessionRecord
  BY DEF Record, SessionRecord, ScopesOf, ClaimsOf, LiveClaim
<1>3. disk' \in [Workers -> SessionRecord]
  BY <1>1, <1>2 DEF TypeOK
<1>4. events' \in Nat
  BY <1>1 DEF TypeOK
<1> QED BY <1>1, <1>3, <1>4

\* A batch of saves of well-formed workers leaves well-formed records.
LEMMA PersistBacked ==
  ASSUME NEW batch \in SUBSET Workers, NEW spent, Persist(batch, spent),
         TypeOK', DiskBacked, ClaimsBacked'
  PROVE  DiskBacked'
<1>1. PICK failed \in SUBSET batch :
        disk' = [w \in Workers |-> IF w \in batch \ failed THEN Record(w)' ELSE disk[w]]
  BY DEF Persist
<1> SUFFICES ASSUME NEW w \in Workers
             PROVE  /\ \A s, t \in disk'[w].scopes : s = t
                    /\ disk'[w].scopes # {} => disk'[w].loop.step \in PastClaim
  BY DEF DiskBacked
<1>2. CASE w \in batch \ failed
  <2>1. disk'[w].scopes = {c.scope : c \in {d \in claims' : d.worker = w}}
        /\ disk'[w].loop = loop'[w]
    BY <1>1, <1>2 DEF Record, ScopesOf, ClaimsOf
  <2>2. \A c \in claims' : c.worker = w => c.scope = assigned'[w] /\ loop'[w].step \in PastClaim
    BY DEF ClaimsBacked
  <2> QED BY <2>1, <2>2
<1>3. CASE w \notin batch \ failed
  BY <1>1, <1>3 DEF DiskBacked
<1> QED BY <1>2, <1>3

-----------------------------------------------------------------------------
(* A turn that leaves the ledger alone keeps the invariant as long as the  *)
(* worker does not fall back past the claim it holds.                      *)

\* The end of a turn keeps the host's type.
LEMMA EndTurnType ==
  ASSUME TypeOK, NEW w \in live, NEW l \in LoopRecord,
         claims' \subseteq LiveClaim, cursor' \in Nat,
         assigned' \in [Workers -> Scopes \cup {NoScope}],
         EndTurn(w, l)
  PROVE  /\ TypeOK' /\ live' = live
         /\ loop' = [loop EXCEPT ![w] = l]
         /\ Persist({w}, 0)
<1>1. w \in Workers /\ {w} \in SUBSET Workers /\ 0 \in Nat
  BY DEF TypeOK
<1>2. /\ loop' = [loop EXCEPT ![w] = l] /\ inbox' = [inbox EXCEPT ![w] = {}]
      /\ Persist({w}, 0)
      /\ UNCHANGED <<live, damaged, lives, told>>
  BY DEF EndTurn
<1>3. loop' \in [Workers -> LoopRecord] /\ inbox' \in [Workers -> SUBSET DeliveryIds]
  BY <1>1, <1>2 DEF TypeOK
<1>4. /\ disk' \in [Workers -> SessionRecord]
      /\ sessionError' \in BOOLEAN /\ events' \in Nat
      /\ failedSave' \subseteq failedSave \cup {w}
  BY <1>1, <1>2, <1>3, PersistType
<1> QED BY <1>2, <1>3, <1>4 DEF TypeOK

\* A turn that leaves the ledger alone keeps the invariant.
LEMMA QuietTurn ==
  ASSUME IInv, NEW w \in live, NEW l \in LoopRecord,
         claims' = claims, assigned' = assigned, cursor' \in Nat,
         loop[w].step \in PastClaim => l.step \in PastClaim,
         EndTurn(w, l)
  PROVE  IInv'
<1>1. TypeOK /\ ClaimsExclusive /\ ClaimsBacked /\ DiskBacked /\ w \in Workers
  BY DEF IInv, TypeOK
<1>2. claims' \subseteq LiveClaim /\ assigned' \in [Workers -> Scopes \cup {NoScope}]
  BY <1>1 DEF TypeOK
<1>3. TypeOK' /\ live' = live /\ loop' = [loop EXCEPT ![w] = l] /\ Persist({w}, 0)
  BY <1>1, <1>2, EndTurnType
<1>4. ClaimsExclusive'
  BY <1>1 DEF ClaimsExclusive
<1>5. ClaimsBacked'
  BY <1>1, <1>3 DEF ClaimsBacked, TypeOK
<1>6. DiskBacked'
  BY <1>1, <1>3, <1>5, PersistBacked
<1> QED BY <1>3, <1>4, <1>5, <1>6 DEF IInv

-----------------------------------------------------------------------------
(* The steps that change the ledger.                                       *)

\* A granted claim keeps the invariant: the worker held nothing before it.
LEMMA ClaimGrantedKeeps ==
  ASSUME IInv, NEW w \in Workers, NEW s \in Scopes, ClaimGranted(w, s)
  PROVE  IInv'
<1> DEFINE new == [worker |-> w, scope |-> s, cursor |-> cursor + 1]
           l == Advance(Delivered(w), "Act")
<1>1. TypeOK /\ ClaimsExclusive /\ ClaimsBacked /\ DiskBacked
  BY DEF IInv
<1>2. /\ w \in live /\ loop[w].step = "Claim" /\ Conflicting(w, s) = {}
      /\ cursor' = cursor + 1 /\ claims' = claims \cup {new}
      /\ assigned' = [assigned EXCEPT ![w] = s]
      /\ EndTurn(w, l)
  BY DEF ClaimGranted, Turn
<1>3. l \in LoopRecord /\ l.step = "Act"
  BY <1>1, DeliveredKeeps DEF Advance, LoopRecord, Step
<1>4. /\ claims' \subseteq LiveClaim /\ cursor' \in Nat
      /\ assigned' \in [Workers -> Scopes \cup {NoScope}]
  BY <1>1, <1>2 DEF TypeOK, LiveClaim
<1>5. TypeOK' /\ live' = live /\ loop' = [loop EXCEPT ![w] = l] /\ Persist({w}, 0)
  <2> HIDE DEF l
  <2> QED BY <1>1, <1>2, <1>3, <1>4, EndTurnType
<1>6. \A c \in claims : c.worker # w
  BY <1>1, <1>2 DEF ClaimsBacked, PastClaim
<1>7. ClaimsExclusive'
  <2>1. \A c \in claims : c.worker # w => <<c.scope, s>> \notin Overlap /\ <<s, c.scope>> \notin Overlap
    BY <1>1, <1>2, OrgAssumption DEF Conflicting, TypeOK, LiveClaim
  <2>2. ASSUME NEW c \in claims', NEW d \in claims', c.worker # d.worker
        PROVE  <<c.scope, d.scope>> \notin Overlap
    <3>1. CASE c \in claims /\ d \in claims
      BY <1>1, <2>2, <3>1 DEF ClaimsExclusive
    <3>2. CASE c \in claims /\ d = new
      BY <1>6, <2>1, <3>2
    <3>3. CASE c = new /\ d \in claims
      BY <1>6, <2>1, <3>3
    <3> QED BY <1>2, <2>2, <3>1, <3>2, <3>3
  <2> QED BY <2>2 DEF ClaimsExclusive
<1>8. ClaimsBacked'
  <2>1. loop'[w].step = "Act" /\ assigned'[w] = s
    BY <1>1, <1>2, <1>3, <1>5 DEF TypeOK
  <2>2. ASSUME NEW c \in claims
        PROVE  c.worker \in live' /\ loop'[c.worker].step \in PastClaim /\ c.scope = assigned'[c.worker]
    BY <1>1, <1>2, <1>5, <1>6 DEF ClaimsBacked, TypeOK, LiveClaim
  <2> QED BY <1>2, <1>5, <2>1, <2>2 DEF ClaimsBacked, PastClaim
<1>9. DiskBacked'
  BY <1>1, <1>2, <1>5, <1>8, PersistBacked
<1> QED BY <1>5, <1>7, <1>8, <1>9 DEF IInv

\* Releasing old claims keeps the invariant, and saves what is left.
LEMMA ExpireKeeps ==
  ASSUME IInv, NEW before \in Nat, ExpireClaims(before)
  PROVE  IInv'
<1>1. TypeOK /\ ClaimsExclusive /\ ClaimsBacked /\ DiskBacked
  BY DEF IInv
<1>2. /\ claims' \subseteq claims /\ Persist(live, 0)
      /\ UNCHANGED <<loop, live, inbox, cursor, damaged, lives, assigned, told>>
  BY DEF ExpireClaims
<1>3. /\ disk' \in [Workers -> SessionRecord]
      /\ sessionError' \in BOOLEAN /\ events' \in Nat
      /\ failedSave' \subseteq failedSave \cup live
  <2>1. live \in SUBSET Workers /\ loop' \in [Workers -> LoopRecord] /\ claims' \subseteq LiveClaim
    BY <1>1, <1>2 DEF TypeOK
  <2> QED BY <1>1, <1>2, <2>1, PersistType
<1>4. TypeOK'
  BY <1>1, <1>2, <1>3 DEF TypeOK
<1>5. ClaimsExclusive' /\ ClaimsBacked'
  BY <1>1, <1>2 DEF ClaimsExclusive, ClaimsBacked
<1>6. DiskBacked'
  BY <1>1, <1>2, <1>4, <1>5, PersistBacked DEF TypeOK
<1> QED BY <1>4, <1>5, <1>6 DEF IInv

\* A tick only touches nudges, inboxes and the disk.
LEMMA TickKeeps ==
  ASSUME IInv, NEW due \in DueSets, Tick(due)
  PROVE  IInv'
<1>1. TypeOK /\ ClaimsExclusive /\ ClaimsBacked /\ DiskBacked
  BY DEF IInv
<1>2. /\ loop' = [w \in Workers |->
           IF w \in live THEN MarkNudged(loop[w], Given(w, due)) ELSE loop[w]]
      /\ inbox' = [w \in Workers |->
           IF w \in live THEN inbox[w] \cup NudgeIds(w, due) ELSE inbox[w]]
      /\ Persist(live, 1) /\ live \in SUBSET Workers
      /\ UNCHANGED <<claims, live, cursor, damaged, lives, assigned>>
      /\ told' \subseteq Workers \X NudgeKinds
  BY <1>1 DEF Tick, TypeOK
<1>3. \A w \in Workers : /\ Given(w, due) \in SUBSET NudgeKinds
                         /\ NudgeIds(w, due) \subseteq DeliveryIds
  BY OrgAssumption, NudgeAssumption DEF Given, NudgeIds, DeliveryIds
<1>4. \A w \in Workers : loop'[w] \in LoopRecord /\ loop'[w].step = loop[w].step
  BY <1>1, <1>2, <1>3 DEF TypeOK, MarkNudged, LoopRecord
<1>5. loop' \in [Workers -> LoopRecord] /\ inbox' \in [Workers -> SUBSET DeliveryIds]
  BY <1>1, <1>2, <1>3, <1>4 DEF TypeOK
<1>6. /\ disk' \in [Workers -> SessionRecord]
      /\ sessionError' \in BOOLEAN /\ events' \in Nat
      /\ failedSave' \subseteq failedSave \cup live
  BY <1>1, <1>2, <1>5, PersistType DEF TypeOK
<1>7. TypeOK'
  BY <1>1, <1>2, <1>5, <1>6 DEF TypeOK
<1>8. ClaimsExclusive' /\ ClaimsBacked'
  BY <1>1, <1>2, <1>4 DEF ClaimsExclusive, ClaimsBacked, TypeOK, LiveClaim
<1>9. DiskBacked'
  BY <1>1, <1>2, <1>7, <1>8, PersistBacked
<1> QED BY <1>7, <1>8, <1>9 DEF IInv

-----------------------------------------------------------------------------
(* A restart: the replayed scopes are claimed against the claims of this   *)
(* life, and the loop resumes past Claim only with all of them.            *)

\* A restored loop is a well-typed loop.
LEMMA ResumedType ==
  ASSUME TypeOK, NEW w \in Workers
  PROVE  Resumed(w) \in LoopRecord
<1>1. disk[w].loop \in LoopRecord
  BY DEF TypeOK, SessionRecord
<1> QED BY <1>1, LoopOperators DEF Resumed, Advance, LoopRecord, Step

\* A worker that is started, new or restored, keeps the invariant.
LEMMA SpawnKeeps ==
  ASSUME IInv, NEW w \in Workers, Spawn(w)
  PROVE  IInv'
<1>1. TypeOK /\ ClaimsExclusive /\ ClaimsBacked /\ DiskBacked
  BY DEF IInv
<1>2. PICK at \in [Reseated(w) -> (cursor + 1) .. cursor'] :
        claims' = claims \cup {[worker |-> w, scope |-> s, cursor |-> at[s]] : s \in Reseated(w)}
  BY DEF Spawn
<1>3. /\ w \notin live /\ live' = live \cup {w}
      /\ loop' = [loop EXCEPT ![w] = Resumed(w)]
      /\ inbox' = [inbox EXCEPT ![w] = {}]
      /\ cursor' = cursor + Cardinality(disk[w].scopes)
      /\ assigned' = [assigned EXCEPT ![w] =
           IF Resumed(w).step \in PastClaim /\ Reseated(w) # {}
           THEN CHOOSE s \in Reseated(w) : TRUE ELSE NoScope]
      /\ UNCHANGED <<disk, damaged, sessionError, lives, events, told, failedSave>>
  BY DEF Spawn
<1>4. /\ disk[w].scopes \subseteq Scopes /\ Reseated(w) \subseteq disk[w].scopes
      /\ \A s, t \in Reseated(w) : s = t
  BY <1>1 DEF TypeOK, SessionRecord, Reseated, DiskBacked
<1>5. cursor \in Nat /\ Cardinality(disk[w].scopes) \in Nat /\ cursor' \in Nat
  BY <1>1, <1>3, <1>4, OrgAssumption, FS_Subset, FS_CardinalityType DEF TypeOK
<1>6. \A s \in Reseated(w) : at[s] \in Nat
  BY <1>2, <1>5
<1>7. TypeOK'
  <2>1. claims' \subseteq LiveClaim
    BY <1>1, <1>2, <1>4, <1>6 DEF TypeOK, LiveClaim
  <2>2. loop' \in [Workers -> LoopRecord] /\ inbox' \in [Workers -> SUBSET DeliveryIds]
    BY <1>1, <1>3, ResumedType DEF TypeOK
  <2>3. assigned' \in [Workers -> Scopes \cup {NoScope}]
    BY <1>1, <1>3, <1>4 DEF TypeOK
  <2> QED BY <1>1, <1>3, <1>5, <2>1, <2>2, <2>3 DEF TypeOK
<1>8. \A c \in claims : c.worker # w
  BY <1>1, <1>3 DEF ClaimsBacked
<1>9. \A c \in claims' \ claims : c.worker = w /\ c.scope \in Reseated(w)
  BY <1>2
<1>10. ClaimsExclusive'
  <2>1. \A c \in claims, s \in Reseated(w) :
          <<c.scope, s>> \notin Overlap /\ <<s, c.scope>> \notin Overlap
    BY <1>1, <1>4, <1>8, OrgAssumption DEF Reseated, Conflicting, TypeOK, LiveClaim
  <2>2. ASSUME NEW c \in claims', NEW d \in claims', c.worker # d.worker
        PROVE  <<c.scope, d.scope>> \notin Overlap
    <3>1. CASE c \in claims /\ d \in claims
      BY <1>1, <2>2, <3>1 DEF ClaimsExclusive
    <3>2. CASE c \in claims /\ d \notin claims
      BY <1>9, <2>1, <3>2
    <3>3. CASE c \notin claims /\ d \in claims
      BY <1>9, <2>1, <3>3
    <3>4. CASE c \notin claims /\ d \notin claims
      BY <1>9, <2>2, <3>4
    <3> QED BY <3>1, <3>2, <3>3, <3>4
  <2> QED BY <2>2 DEF ClaimsExclusive
<1>11. ClaimsBacked'
  <2>1. ASSUME NEW c \in claims
        PROVE  c.worker \in live' /\ loop'[c.worker].step \in PastClaim /\ c.scope = assigned'[c.worker]
    BY <1>1, <1>3, <1>8 DEF ClaimsBacked, TypeOK, LiveClaim
  <2>2. ASSUME NEW s \in Reseated(w)
        PROVE  w \in live' /\ loop'[w].step \in PastClaim /\ s = assigned'[w]
    <3>1. disk[w].loop.step \in PastClaim /\ Reseated(w) = disk[w].scopes
      <4>1. s \in disk[w].scopes /\ \A t \in disk[w].scopes : t = s
        BY <1>1, <1>4 DEF DiskBacked
      <4>2. disk[w].loop.step \in PastClaim
        BY <1>1, <4>1 DEF DiskBacked
      <4> QED BY <1>4, <4>1, <4>2
    <3>2. Resumed(w) = disk[w].loop
      BY <1>4, <3>1 DEF Resumed
    <3>3. assigned'[w] \in Reseated(w)
      BY <1>1, <1>3, <3>1, <3>2 DEF TypeOK
    <3> QED BY <1>1, <1>3, <1>4, <3>1, <3>2, <3>3 DEF TypeOK
  <2> QED BY <1>9, <2>1, <2>2 DEF ClaimsBacked
<1>12. DiskBacked'
  BY <1>1, <1>3 DEF DiskBacked
<1> QED BY <1>7, <1>10, <1>11, <1>12 DEF IInv

-----------------------------------------------------------------------------
(* One step per action.                                                    *)

\* The organisation starts within the invariant.
LEMMA InitKeeps == Init => IInv
<1> SUFFICES ASSUME Init PROVE IInv
  OBVIOUS
<1>1. NewLoop \in LoopRecord
  BY DEF NewLoop, LoopRecord, Step
<1>2. TypeOK
  BY <1>1 DEF Init, TypeOK, SessionRecord, NoRecord
<1>3. ClaimsExclusive /\ ClaimsBacked /\ DiskBacked
  BY DEF Init, ClaimsExclusive, ClaimsBacked, DiskBacked, NoRecord
<1> QED BY <1>2, <1>3 DEF IInv

\* Every outcome of OrgHost::step keeps the invariant.
LEMMA WorkerStepKeeps ==
  ASSUME IInv, NEW w \in Workers, WorkerStep(w)
  PROVE  IInv'
<1>1. TypeOK /\ cursor \in Nat
  BY DEF IInv, TypeOK
<1>2. Delivered(w) \in LoopRecord /\ Delivered(w).step = loop[w].step
  BY <1>1, DeliveredKeeps
<1>3. \A next \in Step : /\ Advance(Delivered(w), next) \in LoopRecord
                         /\ Advance(Delivered(w), next).step = next
  BY <1>2 DEF Advance, LoopRecord
<1>4. /\ Backtrack(Delivered(w)) \in LoopRecord
      /\ loop[w].step \in PastClaim =>
           Backtrack(Delivered(w)).step \in PastClaim \/ loop[w].step = "Act"
  BY <1>2, BacktrackKeeps
<1>5. CASE Interrupt(w)
  BY <1>1, <1>2, <1>5, QuietTurn DEF Interrupt
<1>6. CASE Gather(w)
  <2>1. "Claim" \in Step /\ loop[w].step \notin PastClaim
    BY <1>6 DEF Gather, Turn, Step, PastClaim
  <2> QED BY <1>1, <1>3, <1>6, <2>1, QuietTurn DEF Gather, Turn
<1>7. CASE Idle(w)
  BY <1>1, <1>2, <1>7, QuietTurn DEF Idle, Turn
<1>8. ASSUME NEW s \in Scopes, ClaimGranted(w, s) PROVE IInv'
  BY <1>8, ClaimGrantedKeeps
<1>9. ASSUME NEW s \in Scopes, ClaimOverlaps(w, s) PROVE IInv'
  <2>1. loop[w].step \notin PastClaim /\ w \in live /\ cursor' \in Nat
    BY <1>1, <1>9 DEF ClaimOverlaps, Turn, PastClaim
  <2>2. EndTurn(w, Backtrack(Delivered(w))) /\ claims' = claims /\ assigned' = assigned
    BY <1>9 DEF ClaimOverlaps
  <2> QED BY <1>4, <2>1, <2>2, QuietTurn
<1>10. CASE Act(w)
  <2>1. "Verify" \in Step /\ "Verify" \in PastClaim
    BY DEF Step, PastClaim
  <2> QED BY <1>1, <1>3, <1>10, <2>1, QuietTurn DEF Act, Turn
<1>11. CASE EvidenceUnreadable(w)
  BY <1>1, <1>2, <1>11, QuietTurn DEF EvidenceUnreadable, Turn
<1>12. ASSUME NEW pass \in BOOLEAN, NEW rc \in 0 .. MaxCursor, EvidenceRefused(w, pass, rc)
       PROVE  IInv'
  <2>1. /\ loop[w].step = "Verify" /\ w \in live
        /\ EndTurn(w, Backtrack(Delivered(w)))
        /\ claims' = claims /\ assigned' = assigned /\ cursor' = cursor
    BY <1>12 DEF EvidenceRefused, Turn
  <2> QED BY <1>1, <1>4, <2>1, QuietTurn
<1>13. ASSUME NEW pass \in BOOLEAN, NEW rc \in 0 .. MaxCursor, Merge(w, pass, rc)
       PROVE  IInv'
  <2>1. "Merge" \in Step /\ "Merge" \in PastClaim
    BY DEF Step, PastClaim
  <2> QED BY <1>1, <1>3, <1>13, <2>1, QuietTurn DEF Merge, Turn
<1> QED BY <1>5, <1>6, <1>7, <1>8, <1>9, <1>10, <1>11, <1>12, <1>13 DEF WorkerStep

\* Every call of the host, every crash and every damage keeps the invariant.
LEMMA NextKeeps == IInv /\ [Next]_vars => IInv'
<1> SUFFICES ASSUME IInv, [Next]_vars PROVE IInv'
  OBVIOUS
<1>0. TypeOK /\ ClaimsExclusive /\ ClaimsBacked /\ DiskBacked
  BY DEF IInv
<1>1. ASSUME NEW w \in Workers, Spawn(w) PROVE IInv'
  BY <1>1, SpawnKeeps
<1>2. ASSUME NEW w \in Workers, WorkerStep(w) PROVE IInv'
  BY <1>2, WorkerStepKeeps
<1>3. ASSUME NEW w \in Workers, NEW m \in MsgIds, Deliver(w, m) PROVE IInv'
  <2>1. <<"msg", m>> \in DeliveryIds
    BY DEF DeliveryIds
  <2>2. inbox' \in [Workers -> SUBSET DeliveryIds]
    BY <1>0, <1>3, <2>1 DEF Deliver, TypeOK
  <2>3. events' \in Nat
    BY <1>0, <1>3 DEF Deliver, Input, TypeOK
  <2>4. UNCHANGED <<live, loop, claims, cursor, disk, damaged, sessionError,
                    lives, assigned, told, failedSave>>
    BY <1>3 DEF Deliver
  <2>5. TypeOK'
    BY <1>0, <2>2, <2>3, <2>4, Zenon DEF TypeOK
  <2>6. ClaimsExclusive' /\ ClaimsBacked'
    BY <1>0, <2>4 DEF ClaimsExclusive, ClaimsBacked
  <2>7. DiskBacked'
    BY <1>0, <2>4 DEF DiskBacked
  <2> QED BY <2>5, <2>6, <2>7 DEF IInv
<1>4. CASE Post
  BY <1>0, <1>4 DEF IInv, Post, Input, TypeOK, ClaimsExclusive, ClaimsBacked, DiskBacked
<1>5. ASSUME NEW before \in 1 .. MaxCursor, ExpireClaims(before) PROVE IInv'
  BY <1>5, ExpireKeeps
<1>6. ASSUME NEW due \in DueSets, Tick(due) PROVE IInv'
  BY <1>6, TickKeeps
<1>7. CASE Crash
  <2>1. NewLoop \in LoopRecord
    BY DEF NewLoop, LoopRecord, Step
  <2>2. lives' \in Nat /\ cursor' \in Nat
    BY <1>0, <1>7 DEF Crash, TypeOK
  <2>3. /\ loop' \in [Workers -> LoopRecord]
        /\ inbox' \in [Workers -> SUBSET DeliveryIds]
        /\ assigned' \in [Workers -> Scopes \cup {NoScope}]
    BY <1>7, <2>1 DEF Crash
  <2>4. /\ live' = {} /\ claims' = {} /\ sessionError' = FALSE /\ failedSave' = {}
        /\ UNCHANGED <<disk, damaged, events, told>>
    BY <1>7 DEF Crash
  <2>5. TypeOK'
    BY <1>0, <2>2, <2>3, <2>4, Zenon DEF TypeOK
  <2>6. DiskBacked'
    BY <1>0, <2>4 DEF DiskBacked
  <2> QED BY <2>4, <2>5, <2>6 DEF IInv, ClaimsExclusive, ClaimsBacked
<1>8. CASE Damage
  BY <1>0, <1>8 DEF IInv, Damage, Input, TypeOK, ClaimsExclusive, ClaimsBacked, DiskBacked
<1>9. CASE UNCHANGED vars
  <2>1. TypeOK'
    BY <1>0, <1>9 DEF vars, TypeOK
  <2> QED BY <1>0, <1>9, <2>1 DEF IInv, vars, ClaimsExclusive, ClaimsBacked, DiskBacked
<1> QED BY <1>1, <1>2, <1>3, <1>4, <1>5, <1>6, <1>7, <1>8, <1>9 DEF Next

-----------------------------------------------------------------------------
(* The results.                                                            *)

\* The invariant holds in every state of every behaviour.
THEOREM Inductive == Spec => []IInv
<1> QED BY InitKeeps, NextKeeps, PTL DEF Spec

\* The host's state keeps its type through every call, save and crash.
THEOREM TypeCorrect == Spec => []TypeOK
<1>1. IInv => TypeOK
  BY DEF IInv
<1> QED BY <1>1, Inductive, PTL

\* No two workers ever hold overlapping claims: by claiming, by expiry or by
\* the replay of sessions after any crash.
THEOREM Exclusive == Spec => []ClaimsExclusive
<1>1. IInv => ClaimsExclusive
  BY DEF IInv
<1> QED BY <1>1, Inductive, PTL

\* Every live claim belongs to a running worker past Claim, and is the one
\* scope it was last told to work on.
THEOREM Backed == Spec => []ClaimsBacked
<1>1. IInv => ClaimsBacked
  BY DEF IInv
<1> QED BY <1>1, Inductive, PTL

\* A worker that comes back past Claim holds the scopes of its record.
THEOREM Resumes == Spec => ResumeOnlyWhatIsHeld
<1> DEFINE A == \A w \in live' \ live :
                  loop'[w].step \in PastClaim =>
                    ScopesOf(w)' = disk[w].scopes /\ ScopesOf(w)' # {}
<1>1. IInv /\ [Next]_vars => [A]_vars
  <2> SUFFICES ASSUME IInv, Next, NEW w \in live' \ live, loop'[w].step \in PastClaim
               PROVE  ScopesOf(w)' = disk[w].scopes /\ ScopesOf(w)' # {}
    OBVIOUS
  <2>1. TypeOK /\ ClaimsBacked
    BY DEF IInv
  <2>2. PICK v \in Workers : Spawn(v)
    BY DEF Next, WorkerStep, Interrupt, Gather, Idle, ClaimGranted, ClaimOverlaps, Act,
           EvidenceUnreadable, EvidenceRefused, Merge, EndTurn, Deliver, Post,
           ExpireClaims, Tick, Crash, Damage
  <2>3. v = w /\ w \in Workers /\ w \notin live
    BY <2>2 DEF Spawn
  <2>4. loop' = [loop EXCEPT ![w] = Resumed(w)]
    BY <2>2, <2>3 DEF Spawn
  <2>5. Resumed(w).step \in PastClaim
    BY <2>1, <2>3, <2>4 DEF TypeOK
  <2>6. Reseated(w) = disk[w].scopes /\ disk[w].scopes # {}
    BY <2>1, <2>3, <2>5 DEF Resumed, Advance, PastClaim, TypeOK, SessionRecord, LoopRecord
  <2>7. PICK at : claims' = claims \cup
          {[worker |-> w, scope |-> s, cursor |-> at[s]] : s \in Reseated(w)}
    BY <2>2, <2>3 DEF Spawn
  <2>8. \A c \in claims : c.worker # w
    BY <2>1, <2>3 DEF ClaimsBacked
  <2>9. ScopesOf(w)' = Reseated(w)
    <3>1. ASSUME NEW s \in Reseated(w) PROVE s \in ScopesOf(w)'
      <4> DEFINE c == [worker |-> w, scope |-> s, cursor |-> at[s]]
      <4>1. c \in claims' /\ c.worker = w /\ c.scope = s
        BY <2>7
      <4> HIDE DEF c
      <4> QED BY <4>1 DEF ScopesOf, ClaimsOf
    <3>2. ASSUME NEW c \in claims', c.worker = w PROVE c.scope \in Reseated(w)
      BY <2>7, <2>8, <3>2
    <3>3. \A s \in ScopesOf(w)' : s \in Reseated(w)
      BY <3>2 DEF ScopesOf, ClaimsOf
    <3> QED BY <3>1, <3>3
  <2> QED BY <2>6, <2>9
<1> QED BY <1>1, Inductive, PTL DEF Spec, ResumeOnlyWhatIsHeld

-----------------------------------------------------------------------------
(* What the session file remembers: the records of the workers whose last  *)
(* save succeeded, and every nudge whose giving it has seen.  A nudge is   *)
(* in the loop that runs and in the record a restart would begin with, so  *)
(* neither gives it again.                                                 *)

Remembered ==
  \A p \in told : /\ p[2] \in disk[p[1]].loop.nudged
                  /\ p[1] \in live => p[2] \in loop[p[1]].nudged

SInv == RecordFaithful /\ Remembered

\* A worker of a batch is saved, or its save failed; no other is touched.
LEMMA PersistSaves ==
  ASSUME NEW batch \in SUBSET Workers, NEW spent, Persist(batch, spent), NEW w \in Workers
  PROVE  /\ w \in batch =>
              disk'[w] = Record(w)' \/ (disk'[w] = disk[w] /\ w \in failedSave')
         /\ w \notin batch => disk'[w] = disk[w] /\ (w \in failedSave' <=> w \in failedSave)
<1>1. PICK failed \in SUBSET batch :
        /\ disk' = [v \in Workers |-> IF v \in batch \ failed THEN Record(v)' ELSE disk[v]]
        /\ failedSave' = (failedSave \ batch) \cup failed
  BY DEF Persist
<1>2. disk'[w] = IF w \in batch \ failed THEN Record(w)' ELSE disk[w]
  BY <1>1
<1> QED BY <1>1, <1>2

\* A batch of saves, of whatever changed, leaves nothing behind on disk.
LEMMA SavesRemember ==
  ASSUME IInv, SInv, NEW batch \in SUBSET live, NEW spent, Persist(batch, spent),
         live' = live,
         \A v \in live : loop[v].nudged \subseteq loop'[v].nudged,
         \A v \in live \ batch : loop'[v] = loop[v] /\ ScopesOf(v)' = ScopesOf(v),
         told' \subseteq Workers \X NudgeKinds,
         \A p \in told' \ told : /\ p[1] \in live /\ p[2] \in loop'[p[1]].nudged
                                 /\ disk'[p[1]] = Record(p[1])'
  PROVE  SInv'
<1>1. batch \in SUBSET Workers /\ live \subseteq Workers /\ told \subseteq Workers \X NudgeKinds
  BY DEF IInv, TypeOK
<1>2. RecordFaithful'
  <2> SUFFICES ASSUME NEW w \in live' \ failedSave'
               PROVE  \/ disk'[w] = Record(w)'
                      \/ /\ disk'[w].loop.step \in PastClaim
                         /\ loop'[w] = Advance(disk'[w].loop, "Gather")
                         /\ ScopesOf(w)' = {}
    BY DEF RecordFaithful
  <2>0. w \in Workers /\ w \in live
    BY <1>1
  <2>1. CASE w \in batch
    BY <1>1, <2>0, <2>1, PersistSaves
  <2>2. CASE w \notin batch
    <3>1. disk'[w] = disk[w] /\ w \in live \ failedSave
      BY <1>1, <2>0, <2>2, PersistSaves
    <3>2. loop'[w] = loop[w] /\ ScopesOf(w)' = ScopesOf(w)
      BY <2>0, <2>2
    <3>3. Record(w)' = Record(w)
      BY <3>2 DEF Record
    <3> QED BY <3>1, <3>2, <3>3 DEF SInv, RecordFaithful
  <2> QED BY <2>1, <2>2
<1>3. Remembered'
  <2> SUFFICES ASSUME NEW p \in told'
               PROVE  /\ p[2] \in disk'[p[1]].loop.nudged
                      /\ p[1] \in live' => p[2] \in loop'[p[1]].nudged
    BY DEF Remembered
  <2>0. p[1] \in Workers
    OBVIOUS
  <2>1. CASE p \in told
    <3>1. p[2] \in disk[p[1]].loop.nudged /\ (p[1] \in live => p[2] \in loop'[p[1]].nudged)
      BY <2>1 DEF SInv, Remembered
    <3>2. CASE p[1] \in batch /\ disk'[p[1]] = Record(p[1])'
      <4>1. disk'[p[1]].loop = loop'[p[1]]
        BY <3>2 DEF Record
      <4> QED BY <3>1, <3>2, <4>1
    <3>3. CASE disk'[p[1]] = disk[p[1]]
      BY <3>1, <3>3
    <3> QED BY <1>1, <2>0, <3>2, <3>3, PersistSaves
  <2>2. CASE p \notin told
    <3>1. p[2] \in loop'[p[1]].nudged /\ disk'[p[1]] = Record(p[1])'
      BY <2>2
    <3>2. disk'[p[1]].loop = loop'[p[1]]
      BY <3>1 DEF Record
    <3> QED BY <3>1, <3>2
  <2> QED BY <2>1, <2>2
<1> QED BY <1>2, <1>3 DEF SInv

\* The end of a turn saves the worker it was the turn of, and forgets no nudge.
LEMMA TurnRemembers ==
  ASSUME IInv, SInv, NEW w \in live, NEW l, EndTurn(w, l),
         loop[w].nudged \subseteq l.nudged,
         \A c : c.worker # w => (c \in claims' <=> c \in claims)
  PROVE  SInv'
<1>1. /\ loop' = [loop EXCEPT ![w] = l] /\ Persist({w}, 0) /\ live' = live /\ told' = told
  BY DEF EndTurn
<1>2. /\ loop \in [Workers -> LoopRecord] /\ w \in Workers /\ live \subseteq Workers
      /\ told \subseteq Workers \X NudgeKinds
  BY DEF IInv, TypeOK
<1>3. \A v \in live : loop[v].nudged \subseteq loop'[v].nudged
  BY <1>1, <1>2
<1>4. ASSUME NEW v \in live \ {w}
      PROVE  loop'[v] = loop[v] /\ ScopesOf(v)' = ScopesOf(v)
  <2>1. loop'[v] = loop[v]
    BY <1>1, <1>2
  <2>2. ClaimsOf(v)' = ClaimsOf(v)
    BY DEF ClaimsOf
  <2> QED BY <2>1, <2>2 DEF ScopesOf
<1> QED BY <1>1, <1>2, <1>3, <1>4, SavesRemember

\* Nothing a turn does to a loop takes a nudge back.
LEMMA NudgesStay ==
  ASSUME TypeOK, NEW w \in Workers
  PROVE  /\ loop[w].nudged \subseteq Delivered(w).nudged
         /\ \A next : loop[w].nudged \subseteq Advance(Delivered(w), next).nudged
         /\ loop[w].nudged \subseteq Backtrack(Delivered(w)).nudged
<1>1. Delivered(w) \in LoopRecord /\ Delivered(w).nudged = loop[w].nudged
  <2>1. loop[w] \in LoopRecord /\ inbox[w] \in SUBSET DeliveryIds
    BY DEF TypeOK
  <2> QED BY <2>1 DEF Delivered, DeliverAll, LoopRecord
<1>2. \A next : Advance(Delivered(w), next).nudged = Delivered(w).nudged
  BY <1>1 DEF Advance, LoopRecord
<1>3. Backtrack(Delivered(w)).nudged = Delivered(w).nudged
  BY <1>1 DEF Backtrack, LoopRecord
<1> QED BY <1>1, <1>2, <1>3

\* Every outcome of OrgHost::step ends with a save of its worker.
LEMMA WorkerStepRemembers ==
  ASSUME IInv, SInv, NEW w \in Workers, WorkerStep(w)
  PROVE  SInv'
<1>1. /\ loop[w].nudged \subseteq Delivered(w).nudged
      /\ \A next : loop[w].nudged \subseteq Advance(Delivered(w), next).nudged
      /\ loop[w].nudged \subseteq Backtrack(Delivered(w)).nudged
  BY NudgesStay DEF IInv
<1>2. CASE claims' = claims
  <2>1. PICK l : EndTurn(w, l) /\ loop[w].nudged \subseteq l.nudged /\ w \in live
    <3>1. CASE Interrupt(w)
      BY <1>1, <3>1 DEF Interrupt
    <3>2. CASE Gather(w) \/ Act(w)
      BY <1>1, <3>2 DEF Gather, Act, Turn
    <3>3. CASE Idle(w) \/ EvidenceUnreadable(w)
      BY <1>1, <3>3 DEF Idle, EvidenceUnreadable, Turn
    <3>4. CASE \E s \in Scopes : ClaimGranted(w, s) \/ ClaimOverlaps(w, s)
      BY <1>1, <3>4 DEF ClaimGranted, ClaimOverlaps, Turn
    <3>5. CASE \E pass \in BOOLEAN, rc \in 0 .. MaxCursor :
                 EvidenceRefused(w, pass, rc) \/ Merge(w, pass, rc)
      BY <1>1, <3>5 DEF EvidenceRefused, Merge, Turn
    <3> QED BY <3>1, <3>2, <3>3, <3>4, <3>5 DEF WorkerStep
  <2> QED BY <1>2, <2>1, TurnRemembers
<1>3. CASE claims' # claims
  <2>1. PICK s \in Scopes : ClaimGranted(w, s)
    BY <1>3 DEF WorkerStep, Interrupt, Gather, Idle, ClaimOverlaps, Act,
                EvidenceUnreadable, EvidenceRefused, Merge
  <2>2. /\ w \in live /\ EndTurn(w, Advance(Delivered(w), "Act"))
        /\ claims' = claims \cup {[worker |-> w, scope |-> s, cursor |-> cursor + 1]}
    BY <2>1 DEF ClaimGranted, Turn
  <2>3. \A c : c.worker # w => (c \in claims' <=> c \in claims)
    BY <2>2
  <2> QED BY <1>1, <2>2, <2>3, TurnRemembers
<1> QED BY <1>2, <1>3

\* An expiry saves every live worker.
LEMMA ExpireRemembers ==
  ASSUME IInv, SInv, NEW before, ExpireClaims(before)
  PROVE  SInv'
<1>1. Persist(live, 0) /\ UNCHANGED <<loop, live, told>>
  BY DEF ExpireClaims
<1>2. told' \subseteq Workers \X NudgeKinds
  BY <1>1 DEF IInv, TypeOK
<1>3. \A v \in live : loop[v].nudged \subseteq loop'[v].nudged
  BY <1>1
<1> QED BY <1>1, <1>2, <1>3, SavesRemember

\* A tick saves every live worker, and counts as told what reached the disk.
LEMMA TickRemembers ==
  ASSUME IInv, SInv, NEW due \in DueSets, Tick(due)
  PROVE  SInv'
<1>1. /\ loop' = [w \in Workers |->
           IF w \in live THEN MarkNudged(loop[w], Given(w, due)) ELSE loop[w]]
      /\ Persist(live, 1) /\ live' = live
      /\ told' = told \cup {p \in live \X NudgeKinds :
           p[2] \in Given(p[1], due) /\ disk'[p[1]] = Record(p[1])'}
  BY DEF Tick
<1>2. /\ live \subseteq Workers /\ told \subseteq Workers \X NudgeKinds
      /\ loop \in [Workers -> LoopRecord]
  BY DEF IInv, TypeOK
<1>3. ASSUME NEW w \in live
      PROVE  /\ loop[w].nudged \subseteq loop'[w].nudged
             /\ Given(w, due) \subseteq loop'[w].nudged
  BY <1>1, <1>2 DEF MarkNudged, LoopRecord
<1>4. told' \subseteq Workers \X NudgeKinds
  BY <1>1, <1>2
<1>5. ASSUME NEW p \in told' \ told
      PROVE  /\ p[1] \in live /\ p[2] \in loop'[p[1]].nudged
             /\ disk'[p[1]] = Record(p[1])'
  BY <1>1, <1>3
<1> QED BY <1>1, <1>3, <1>4, <1>5, SavesRemember

\* A worker resumes with the nudges of its record, and with what it holds of
\* its scopes or, when it gives up its claim, with none of them.
LEMMA SpawnRemembers ==
  ASSUME IInv, SInv, NEW w \in Workers, Spawn(w)
  PROVE  SInv'
<1>1. /\ w \notin live /\ live' = live \cup {w}
      /\ loop' = [loop EXCEPT ![w] = Resumed(w)]
      /\ UNCHANGED <<disk, told, failedSave>>
  BY DEF Spawn
<1>2. /\ loop \in [Workers -> LoopRecord] /\ disk[w] \in SessionRecord
      /\ live \subseteq Workers /\ claims \subseteq LiveClaim
      /\ told \subseteq Workers \X NudgeKinds
      /\ \A c \in claims : c.worker \in live
  BY DEF IInv, TypeOK, ClaimsBacked
<1>3. ScopesOf(w)' = Reseated(w)
  <2>1. PICK at : claims' = claims \cup
          {[worker |-> w, scope |-> s, cursor |-> at[s]] : s \in Reseated(w)}
    BY DEF Spawn
  <2>2. ASSUME NEW s \in Reseated(w) PROVE s \in ScopesOf(w)'
    <3> DEFINE c == [worker |-> w, scope |-> s, cursor |-> at[s]]
    <3>1. c \in claims' /\ c.worker = w /\ c.scope = s
      BY <2>1
    <3> HIDE DEF c
    <3> QED BY <3>1 DEF ScopesOf, ClaimsOf
  <2>3. ASSUME NEW c \in claims', c.worker = w PROVE c.scope \in Reseated(w)
    BY <1>1, <1>2, <2>1, <2>3
  <2>4. \A s \in ScopesOf(w)' : s \in Reseated(w)
    BY <2>3 DEF ScopesOf, ClaimsOf
  <2> QED BY <2>2, <2>4
<1>4. ASSUME NEW v \in live
      PROVE  v # w /\ v \in Workers /\ loop'[v] = loop[v] /\ ScopesOf(v)' = ScopesOf(v)
  <2>1. v # w /\ v \in Workers /\ loop'[v] = loop[v]
    BY <1>1, <1>2
  <2>2. ClaimsOf(v)' = ClaimsOf(v)
    BY <2>1 DEF ClaimsOf, Spawn
  <2> QED BY <2>1, <2>2 DEF ScopesOf
<1>5. Resumed(w).nudged = disk[w].loop.nudged
  BY <1>2 DEF Resumed, Advance, SessionRecord, LoopRecord
<1>6. RecordFaithful'
  <2> SUFFICES ASSUME NEW v \in live' \ failedSave'
               PROVE  \/ disk'[v] = Record(v)'
                      \/ /\ disk'[v].loop.step \in PastClaim
                         /\ loop'[v] = Advance(disk'[v].loop, "Gather")
                         /\ ScopesOf(v)' = {}
    BY DEF RecordFaithful
  <2>1. CASE v \in live
    <3>1. Record(v)' = Record(v)
      BY <1>4, <2>1 DEF Record
    <3> QED BY <1>1, <1>4, <2>1, <3>1 DEF SInv, RecordFaithful
  <2>2. CASE v = w
    <3>0. loop'[w] = Resumed(w) /\ disk'[w] = disk[w]
      BY <1>1, <1>2
    <3>1. /\ \A s, t \in disk[w].scopes : s = t
          /\ disk[w].scopes # {} => disk[w].loop.step \in PastClaim
      BY DEF IInv, DiskBacked
    <3>2. Reseated(w) \subseteq disk[w].scopes
      BY DEF Reseated
    <3>3. CASE disk[w].loop.step \in PastClaim /\ (disk[w].scopes = {} \/ Reseated(w) # disk[w].scopes)
      <4>1. Resumed(w) = Advance(disk[w].loop, "Gather")
        BY <3>3 DEF Resumed
      <4>2. Reseated(w) = {}
        BY <3>1, <3>2, <3>3
      <4> QED BY <1>3, <2>2, <3>0, <3>3, <4>1, <4>2
    <3>4. CASE ~ (disk[w].loop.step \in PastClaim /\ (disk[w].scopes = {} \/ Reseated(w) # disk[w].scopes))
      <4>1. Resumed(w) = disk[w].loop
        BY <3>4 DEF Resumed
      <4>2. Reseated(w) = disk[w].scopes
        BY <3>1, <3>2, <3>4
      <4>3. Record(w)' = [loop |-> disk[w].loop, scopes |-> disk[w].scopes]
        BY <1>3, <3>0, <4>1, <4>2 DEF Record
      <4>4. disk[w] = [loop |-> disk[w].loop, scopes |-> disk[w].scopes]
        BY <1>2 DEF SessionRecord
      <4> QED BY <2>2, <3>0, <4>3, <4>4
    <3> QED BY <3>3, <3>4
  <2> QED BY <1>1, <2>1, <2>2
<1>7. Remembered'
  <2> SUFFICES ASSUME NEW p \in told
               PROVE  /\ p[2] \in disk[p[1]].loop.nudged
                      /\ p[1] \in live' => p[2] \in loop'[p[1]].nudged
    BY <1>1 DEF Remembered
  <2>1. /\ p[2] \in disk[p[1]].loop.nudged
        /\ p[1] \in live => p[2] \in loop[p[1]].nudged
    BY DEF SInv, Remembered
  <2>2. CASE p[1] = w
    <3>1. loop'[w] = Resumed(w)
      BY <1>1, <1>2
    <3> QED BY <1>5, <2>1, <2>2, <3>1
  <2>3. CASE p[1] # w
    BY <1>1, <1>4, <2>1, <2>3
  <2> QED BY <2>2, <2>3
<1> QED BY <1>6, <1>7 DEF SInv

\* Every call, crash and damage leaves the session file as good as it was.
LEMMA NextRemembers == IInv /\ SInv /\ [Next]_vars => SInv'
<1> SUFFICES ASSUME IInv, SInv, [Next]_vars PROVE SInv'
  OBVIOUS
<1>1. ASSUME NEW w \in Workers, Spawn(w) PROVE SInv'
  BY <1>1, SpawnRemembers
<1>2. ASSUME NEW w \in Workers, WorkerStep(w) PROVE SInv'
  BY <1>2, WorkerStepRemembers
<1>3. ASSUME NEW before, ExpireClaims(before) PROVE SInv'
  BY <1>3, ExpireRemembers
<1>4. ASSUME NEW due \in DueSets, Tick(due) PROVE SInv'
  BY <1>4, TickRemembers
<1>5. CASE Crash
  <2>1. live' = {} /\ UNCHANGED <<disk, told>>
    BY <1>5 DEF Crash
  <2> QED BY <2>1 DEF SInv, RecordFaithful, Remembered
<1>6. CASE UNCHANGED <<live, loop, claims, disk, told, failedSave>>
  BY <1>6 DEF SInv, RecordFaithful, Remembered, Record, ScopesOf, ClaimsOf
<1>7. \/ \E w \in Workers : Spawn(w) \/ WorkerStep(w)
      \/ \E before : ExpireClaims(before)
      \/ \E due \in DueSets : Tick(due)
      \/ Crash
      \/ UNCHANGED <<live, loop, claims, disk, told, failedSave>>
  BY DEF Next, vars, Deliver, Post, Damage
<1> QED BY <1>1, <1>2, <1>3, <1>4, <1>5, <1>6, <1>7

\* A worker whose last save succeeded finds on disk its loop and its scopes,
\* but for a claim that a restart gave up and has not saved yet.
THEOREM Faithful == Spec => []RecordFaithful
<1>1. Init => SInv
  BY DEF Init, SInv, RecordFaithful, Remembered
<1>2. SInv => RecordFaithful
  BY DEF SInv
<1> QED BY <1>1, <1>2, NextRemembers, Inductive, PTL DEF Spec

\* A nudge whose giving reached the disk is never queued again, in this life
\* of the host or a later one.
THEOREM Nudged == Spec => NudgedOnce
<1> DEFINE A == \A w \in Workers, k \in NudgeKinds :
                  <<w, k>> \in told => IdsOf(k) \cap (inbox'[w] \ inbox[w]) = {}
<1>0. Init => SInv
  BY DEF Init, SInv, RecordFaithful, Remembered
<1>1. IInv /\ SInv /\ [Next]_vars => [A]_vars
  <2> SUFFICES ASSUME IInv, SInv, Next, NEW w \in Workers, NEW k \in NudgeKinds,
                      <<w, k>> \in told, NEW id \in IdsOf(k), id \in inbox'[w], id \notin inbox[w]
               PROVE  FALSE
    OBVIOUS
  <2>1. inbox \in [Workers -> SUBSET DeliveryIds] /\ live \subseteq Workers
    BY DEF IInv, TypeOK
  <2>2. w \in live => k \in loop[w].nudged
    BY DEF SInv, Remembered
  <2>3. id \in {NudgeId(k)} \cup (IF k = WrapUp THEN {IdleId} ELSE {})
    BY DEF IdsOf
  <2>4. ASSUME NEW v \in Workers, NEW m \in MsgIds, Deliver(v, m) PROVE FALSE
    <3>1. id = <<"msg", m>>
      BY <2>1, <2>4 DEF Deliver
    <3> QED BY <2>3, <3>1 DEF NudgeId, IdleId
  <2>5. ASSUME NEW due \in DueSets, Tick(due) PROVE FALSE
    <3>1. w \in live /\ id \in NudgeIds(w, due)
      BY <2>1, <2>5 DEF Tick
    <3>2. CASE IdleDue(loop[w])
      <4>1. id = IdleId /\ k # WrapUp
        BY <2>2, <3>1, <3>2 DEF NudgeIds, IdleDue
      <4> QED BY <2>3, <4>1 DEF NudgeId, IdleId
    <3>3. CASE ~ IdleDue(loop[w])
      <4>1. PICK j \in due \ loop[w].nudged : id = NudgeId(j)
        BY <3>1, <3>3 DEF NudgeIds, Given
      <4>2. j = k
        BY <2>3, <4>1 DEF NudgeId, IdleId
      <4> QED BY <2>2, <3>1, <4>1, <4>2
    <3> QED BY <3>2, <3>3
  <2>6. inbox'[w] \subseteq inbox[w] \/ (\E v \in Workers, m \in MsgIds : Deliver(v, m))
          \/ (\E due \in DueSets : Tick(due))
    BY <2>1 DEF Next, WorkerStep, Spawn, Interrupt, Gather, Idle, ClaimGranted, ClaimOverlaps,
           Act, EvidenceUnreadable, EvidenceRefused, Merge, EndTurn, Post,
           ExpireClaims, Crash, Damage
  <2> QED BY <2>4, <2>5, <2>6
<1> QED BY <1>0, <1>1, NextRemembers, Inductive, PTL DEF Spec, NudgedOnce

-----------------------------------------------------------------------------
(* The refinement: a grant, a taking back, or no change to the ledger.     *)

\* Claims added where nothing conflicts are one Grant of the abstract ledger.
LEMMA GrantMaps ==
  ASSUME NEW w \in Workers, NEW S \in SUBSET Scopes, NEW at,
         \A s \in S : Conflicting(w, s) = {},
         claims' = claims \cup {[worker |-> w, scope |-> s, cursor |-> at[s]] : s \in S}
  PROVE  Ledger!Grant(w, S)
<1>1. \A s \in S : ~ Ledger!Taken(w, s)
  <2> SUFFICES ASSUME NEW s \in S, NEW h \in Held, h[1] # w, <<h[2], s>> \in Overlap
               PROVE  FALSE
    BY DEF Ledger!Taken
  <2>1. PICK c \in claims : h = <<c.worker, c.scope>>
    BY DEF Held
  <2>2. c \in Conflicting(w, s)
    BY <2>1 DEF Conflicting
  <2> QED BY <2>2
<1>2. Held' = Held \cup {<<w, s>> : s \in S}
  <2> DEFINE new == {[worker |-> w, scope |-> s, cursor |-> at[s]] : s \in S}
  <2>1. ASSUME NEW h \in Held' PROVE h \in Held \cup {<<w, s>> : s \in S}
    <3>1. PICK c \in claims' : h = <<c.worker, c.scope>>
      BY <2>1 DEF Held
    <3>2. CASE c \in claims
      BY <3>1, <3>2 DEF Held
    <3>3. CASE c \in new
      BY <3>1, <3>3
    <3> QED BY <3>2, <3>3
  <2>2. ASSUME NEW h \in Held PROVE h \in Held'
    BY <2>2 DEF Held
  <2>3. ASSUME NEW s \in S PROVE <<w, s>> \in Held'
    <3> DEFINE c == [worker |-> w, scope |-> s, cursor |-> at[s]]
    <3>1. c \in claims' /\ c.worker = w /\ c.scope = s
      OBVIOUS
    <3> HIDE DEF c
    <3> QED BY <3>1 DEF Held
  <2> QED BY <2>1, <2>2, <2>3
<1> QED BY <1>1, <1>2 DEF Ledger!Grant

\* Every step of the host is a step of the abstract ledger or leaves it alone.
LEMMA StepMaps == IInv /\ [Next]_vars => [Ledger!LedgerNext]_Held
<1> SUFFICES ASSUME IInv, [Next]_vars, Held' # Held
             PROVE  Ledger!LedgerNext
  OBVIOUS
<1>1. TypeOK /\ claims' # claims
  BY DEF IInv, Held
<1>2. ASSUME NEW w \in Workers, Spawn(w) PROVE Ledger!LedgerNext
  <2>1. PICK at : claims' = claims \cup
          {[worker |-> w, scope |-> s, cursor |-> at[s]] : s \in Reseated(w)}
    BY <1>2 DEF Spawn
  <2>2. Reseated(w) \in SUBSET Scopes /\ \A s \in Reseated(w) : Conflicting(w, s) = {}
    BY <1>1 DEF Reseated, TypeOK, SessionRecord
  <2>3. Ledger!Grant(w, Reseated(w))
    BY <2>1, <2>2, GrantMaps
  <2> QED BY <2>2, <2>3 DEF Ledger!LedgerNext
<1>3. ASSUME NEW w \in Workers, NEW s \in Scopes, ClaimGranted(w, s) PROVE Ledger!LedgerNext
  <2> DEFINE at == [t \in {s} |-> cursor + 1]
  <2>1. claims' = claims \cup {[worker |-> w, scope |-> t, cursor |-> at[t]] : t \in {s}}
    BY <1>3 DEF ClaimGranted
  <2>2. {s} \in SUBSET Scopes /\ \A t \in {s} : Conflicting(w, t) = {}
    BY <1>3 DEF ClaimGranted
  <2> HIDE DEF at
  <2>3. Ledger!Grant(w, {s})
    BY <2>1, <2>2, GrantMaps
  <2> QED BY <2>2, <2>3 DEF Ledger!LedgerNext
<1>4. CASE claims' \subseteq claims
  <2>1. Held' \subseteq Held
    BY <1>4 DEF Held
  <2>2. Ledger!TakeBack(Held \ Held') /\ (Held \ Held') \in SUBSET Held
    BY <2>1 DEF Ledger!TakeBack
  <2> QED BY <2>2 DEF Ledger!LedgerNext
<1>5. \/ \E w \in Workers : Spawn(w) \/ \E s \in Scopes : ClaimGranted(w, s)
      \/ claims' \subseteq claims
  BY DEF Next, WorkerStep, Interrupt, Gather, Idle, ClaimOverlaps, Act, vars,
         EvidenceUnreadable, EvidenceRefused, Merge, EndTurn, Deliver, Post,
         ExpireClaims, Tick, Crash, Damage
<1> QED BY <1>2, <1>3, <1>4, <1>5

\* The organisation implements the ledger: every behaviour of the host, with
\* its restarts and failed saves, is a behaviour of ScopeLedger.
THEOREM Implements == Spec => ImplementsLedger
<1>1. Init => Ledger!LedgerInit
  BY DEF Init, Held, Ledger!LedgerInit
<1> QED BY <1>1, StepMaps, Inductive, PTL DEF Spec, ImplementsLedger, Ledger!LedgerSpec

-----------------------------------------------------------------------------
(* The ledger itself, for any grants: what every component that implements *)
(* it inherits.                                                            *)

VARIABLE grants
AnyLedger == INSTANCE ScopeLedger WITH held <- grants

LedgerInv == AnyLedger!LedgerTypeOK /\ AnyLedger!MutualExclusion

\* Grants are made against the grants of the others in both directions, so
\* every step keeps two workers off overlapping scopes (Coop::claim as
\* org_runner.rs uses it).
THEOREM LedgerExclusive ==
  ASSUME \A s, t \in Scopes : <<s, t>> \in Overlap => <<t, s>> \in Overlap
  PROVE  AnyLedger!LedgerSpec => []AnyLedger!MutualExclusion
<1>1. AnyLedger!LedgerInit => LedgerInv
  BY DEF AnyLedger!LedgerInit, LedgerInv, AnyLedger!LedgerTypeOK, AnyLedger!MutualExclusion
<1>2. ASSUME LedgerInv, [AnyLedger!LedgerNext]_grants  PROVE LedgerInv'
  <2>1. CASE UNCHANGED grants
    BY <1>2, <2>1 DEF LedgerInv, AnyLedger!LedgerTypeOK, AnyLedger!MutualExclusion
  <2>2. ASSUME NEW w \in Workers, NEW S \in SUBSET Scopes, AnyLedger!Grant(w, S)
        PROVE  LedgerInv'
    <3>1. AnyLedger!LedgerTypeOK'
      BY <1>2, <2>2 DEF LedgerInv, AnyLedger!LedgerTypeOK, AnyLedger!Grant
    <3>2. ASSUME NEW g \in grants', NEW h \in grants', g[1] # h[1]
          PROVE  <<g[2], h[2]>> \notin Overlap
      <4>0. /\ g[2] \in Scopes /\ h[2] \in Scopes
        BY <3>1, <3>2 DEF AnyLedger!LedgerTypeOK
      <4>1. CASE g \in grants /\ h \in grants
        BY <1>2, <3>2, <4>1 DEF LedgerInv, AnyLedger!MutualExclusion
      <4>2. CASE g \in grants /\ h \notin grants
        <5>1. h[1] = w /\ h[2] \in S
          BY <2>2, <3>2, <4>2 DEF AnyLedger!Grant
        <5>2. ~ AnyLedger!Taken(w, h[2])
          BY <2>2, <5>1 DEF AnyLedger!Grant
        <5> QED BY <3>2, <4>2, <5>1, <5>2 DEF AnyLedger!Taken
      <4>3. CASE g \notin grants /\ h \in grants
        <5>1. g[1] = w /\ g[2] \in S
          BY <2>2, <3>2, <4>3 DEF AnyLedger!Grant
        <5>2. ~ AnyLedger!Taken(w, g[2])
          BY <2>2, <5>1 DEF AnyLedger!Grant
        <5>3. <<h[2], g[2]>> \notin Overlap
          BY <3>2, <4>3, <5>1, <5>2 DEF AnyLedger!Taken
        <5> QED BY <4>0, <5>3
      <4>4. CASE g \notin grants /\ h \notin grants
        BY <2>2, <3>2, <4>4 DEF AnyLedger!Grant
      <4> QED BY <4>1, <4>2, <4>3, <4>4
    <3> QED BY <3>1, <3>2 DEF LedgerInv, AnyLedger!MutualExclusion
  <2>3. ASSUME NEW H \in SUBSET grants, AnyLedger!TakeBack(H)  PROVE LedgerInv'
    BY <1>2, <2>3 DEF LedgerInv, AnyLedger!LedgerTypeOK, AnyLedger!MutualExclusion, AnyLedger!TakeBack
  <2> QED BY <1>2, <2>1, <2>2, <2>3 DEF AnyLedger!LedgerNext
<1>3. LedgerInv => AnyLedger!MutualExclusion
  BY DEF LedgerInv
<1> QED BY <1>1, <1>2, <1>3, PTL DEF AnyLedger!LedgerSpec
=============================================================================
