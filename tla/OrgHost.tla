------------------------------- MODULE OrgHost -------------------------------
(***************************************************************************)
(* The organisation host of crates/kernel_client/src/org_runner.rs: many   *)
(* worker loops over one claim ledger, one inbox per worker and one        *)
(* session record per worker on disk, through crashes and restarts of the  *)
(* host process.                                                           *)
(*                                                                         *)
(* Every public call of OrgHost is one action: the host is a single value  *)
(* behind &mut self, so calls do not interleave, but a crash can fall      *)
(* between any two of them, and a save can fail inside any of them.  A     *)
(* crash in the middle of a batch of saves is a batch in which the         *)
(* remaining saves failed, followed by Crash.                              *)
(*                                                                         *)
(* External: the ledger (unfer_protocol::coop::Coop), the board and the    *)
(* gate runs, modelled as org_runner.rs uses them.  Not kept: statistics,  *)
(* presets, per-worker memory, board texts.                                *)
(***************************************************************************)
EXTENDS LoopState, FiniteSets

CONSTANTS
  Workers,      \* worker ids
  Scopes,       \* scopes a model may ask for
  Overlap,      \* the overlap rule of the ledger, as a set of pairs
  SpawnBudget,  \* OrgHost::with_spawn_budget
  DueSets,      \* what nudge::due may answer to a tick
  NoScope,
  MaxCursor,    \* bound: entries on one board
  MaxLives,     \* bound: lives of the host process
  MaxEvents     \* bound: messages, posts, ticks, failed batches of saves and
                \* damaged files in one behaviour

ASSUME OrgAssumption ==
  /\ IsFiniteSet(Workers) /\ IsFiniteSet(Scopes)
  /\ NoScope \notin Scopes
  /\ Overlap \subseteq Scopes \X Scopes
  /\ \A s \in Scopes : <<s, s>> \in Overlap
  /\ \A s, t \in Scopes : <<s, t>> \in Overlap => <<t, s>> \in Overlap
  /\ DueSets \subseteq SUBSET NudgeKinds
  /\ SpawnBudget \in Nat

VARIABLES
  live,         \* workers spawned in this life of the host
  loop,         \* each worker's LoopState; meaningful for live workers
  inbox,        \* ids queued for each worker
  claims,       \* live claims of the ledger
  cursor,       \* cursor of the newest board entry, 0 on a fresh board
  disk,         \* the session file: a record or NoRecord per worker
  damaged,      \* the session file exists and cannot be read
  sessionError, \* OrgHost.session_error is Some
  lives, events, \* for the bounds
  assigned,     \* history: the scope a worker was last told to work on
  told,         \* history: nudges whose giving reached the disk
  failedSave    \* history: workers whose last save failed

vars == <<live, loop, inbox, claims, cursor, disk, damaged, sessionError,
          lives, events, assigned, told, failedSave>>

SessionRecord == [loop : LoopRecord, scopes : SUBSET Scopes]
NoRecord == [loop |-> NewLoop, scopes |-> {}]

LiveClaim == [worker : Workers, scope : Scopes, cursor : Nat]

TypeOK ==
  /\ live \subseteq Workers
  /\ loop \in [Workers -> LoopRecord]
  /\ inbox \in [Workers -> SUBSET DeliveryIds]
  /\ claims \subseteq LiveClaim
  /\ cursor \in Nat
  /\ disk \in [Workers -> SessionRecord]
  /\ damaged \in BOOLEAN /\ sessionError \in BOOLEAN
  /\ lives \in Nat /\ events \in Nat
  /\ assigned \in [Workers -> Scopes \cup {NoScope}]
  /\ told \subseteq Workers \X NudgeKinds
  /\ failedSave \subseteq live

ClaimsOf(w) == {c \in claims : c.worker = w}
ScopesOf(w) == {c.scope : c \in ClaimsOf(w)}

\* Claims of other workers that overlap a scope (Coop's conflict rule).
Conflicting(w, s) == {c \in claims : c.worker # w /\ <<c.scope, s>> \in Overlap}

Record(w) == [loop |-> loop[w], scopes |-> ScopesOf(w)]

Init ==
  /\ live = {}
  /\ loop = [w \in Workers |-> NewLoop]
  /\ inbox = [w \in Workers |-> {}]
  /\ claims = {} /\ cursor = 0
  /\ disk = [w \in Workers |-> NoRecord]
  /\ damaged = FALSE /\ sessionError = FALSE
  /\ lives = 1 /\ events = 0
  /\ assigned = [w \in Workers |-> NoScope]
  /\ told = {} /\ failedSave = {}

-----------------------------------------------------------------------------
(* Saving.  save() loads the whole file first, so a damaged file refuses   *)
(* every write; the batch keeps going after a failure.  `spent` is what    *)
(* the caller itself takes from the bound on events.                       *)

Persist(batch, spent) ==
  \E failed \in SUBSET batch :
    /\ damaged => failed = batch
    /\ events' = events + spent + (IF failed = {} \/ damaged THEN 0 ELSE 1)
    /\ events' <= MaxEvents
    /\ disk' = [w \in Workers |-> IF w \in batch \ failed THEN Record(w)' ELSE disk[w]]
    /\ sessionError' = (failed # {})
    /\ failedSave' = (failedSave \ batch) \cup failed

-----------------------------------------------------------------------------
(* spawn: refused when live already, over budget, or the record cannot be  *)
(* read.  A missing record reads as a new loop with no scopes.  The saved  *)
(* scopes are claimed again one after the other, each writing an entry.    *)

SlipReseatedBlindly(w) == disk[w].scopes  \* slip: scopes injected, not claimed

Reseated(w) == {s \in disk[w].scopes : Conflicting(w, s) = {}}

SlipResumedAsSaved(w) == disk[w].loop  \* slip: the presumed claim is not checked

SlipResumedUnnudged(w) ==  \* slip: nudges are not part of the record
  LET saved == disk[w] IN
  IF saved.loop.step \in PastClaim /\ (saved.scopes = {} \/ Reseated(w) # saved.scopes)
  THEN Advance([saved.loop EXCEPT !.nudged = {}], "Gather")
  ELSE [saved.loop EXCEPT !.nudged = {}]

Resumed(w) ==
  LET saved == disk[w] IN
  IF saved.loop.step \in PastClaim /\ (saved.scopes = {} \/ Reseated(w) # saved.scopes)
  THEN Advance(saved.loop, "Gather")
  ELSE saved.loop

Spawn(w) ==
  /\ w \notin live
  /\ Cardinality(live) < SpawnBudget
  /\ ~ damaged
  /\ cursor + Cardinality(disk[w].scopes) <= MaxCursor
  /\ live' = live \cup {w}
  /\ loop' = [loop EXCEPT ![w] = Resumed(w)]
  /\ inbox' = [inbox EXCEPT ![w] = {}]
  /\ cursor' = cursor + Cardinality(disk[w].scopes)
  /\ \E at \in [Reseated(w) -> (cursor + 1) .. cursor'] :
       /\ \A s, t \in Reseated(w) : at[s] = at[t] => s = t
       /\ claims' = claims \cup {[worker |-> w, scope |-> s, cursor |-> at[s]] : s \in Reseated(w)}
  /\ assigned' = [assigned EXCEPT ![w] =
       IF Resumed(w).step \in PastClaim /\ Reseated(w) # {}
       THEN CHOOSE s \in Reseated(w) : TRUE ELSE NoScope]
  /\ UNCHANGED <<disk, damaged, sessionError, lives, events, told, failedSave>>

-----------------------------------------------------------------------------
(* step: deliver the inbox, then act on the step the worker is on, then    *)
(* save.  Off the Gather step, news interrupts the turn instead.           *)

Delivered(w) == DeliverAll(loop[w], inbox[w])

\* A turn that is not interrupted; `step` is the worker's current step.
Turn(w, step) ==
  /\ w \in live
  /\ loop[w].step = step
  /\ step = "Gather" \/ ~ HasNews(loop[w], inbox[w])

\* What every outcome of a turn does: new loop, drained inbox, save.
EndTurn(w, l) ==
  /\ loop' = [loop EXCEPT ![w] = l]
  /\ inbox' = [inbox EXCEPT ![w] = {}]
  /\ Persist({w}, 0)
  /\ UNCHANGED <<live, damaged, lives, told>>

Interrupt(w) ==
  /\ w \in live
  /\ loop[w].step # "Gather" /\ HasNews(loop[w], inbox[w])
  /\ UNCHANGED <<claims, cursor, assigned>>
  /\ EndTurn(w, Delivered(w))

Gather(w) ==
  /\ Turn(w, "Gather")
  /\ UNCHANGED <<claims, cursor, assigned>>
  /\ EndTurn(w, Advance(Delivered(w), "Claim"))

\* No scope named, no gate run given, or already merged.
Idle(w) ==
  /\ \E step \in {"Claim", "Verify", "Merge"} : Turn(w, step)
  /\ UNCHANGED <<claims, cursor, assigned>>
  /\ EndTurn(w, Delivered(w))

SlipClaimUnchecked(w, s) ==  \* slip: the outcome of the claim is not looked at
  /\ Turn(w, "Claim")
  /\ cursor < MaxCursor
  /\ cursor' = cursor + 1
  /\ claims' = claims \cup {[worker |-> w, scope |-> s, cursor |-> cursor + 1]}
  /\ assigned' = [assigned EXCEPT ![w] = s]
  /\ EndTurn(w, Advance(Delivered(w), "Act"))

ClaimGranted(w, s) ==
  /\ Turn(w, "Claim")
  /\ cursor < MaxCursor
  /\ Conflicting(w, s) = {}
  /\ cursor' = cursor + 1
  /\ claims' = claims \cup {[worker |-> w, scope |-> s, cursor |-> cursor + 1]}
  /\ assigned' = [assigned EXCEPT ![w] = s]
  /\ EndTurn(w, Advance(Delivered(w), "Act"))

\* The collision is written to the board too.
ClaimOverlaps(w, s) ==
  /\ Turn(w, "Claim")
  /\ cursor < MaxCursor
  /\ Conflicting(w, s) # {}
  /\ cursor' = cursor + 1
  /\ UNCHANGED <<claims, assigned>>
  /\ EndTurn(w, Backtrack(Delivered(w)))

Act(w) ==
  /\ Turn(w, "Act")
  /\ UNCHANGED <<claims, cursor, assigned>>
  /\ EndTurn(w, Advance(Delivered(w), "Verify"))

\* The reply is not a gate run: refused without stepping back.
EvidenceUnreadable(w) ==
  /\ Turn(w, "Verify")
  /\ UNCHANGED <<claims, cursor, assigned>>
  /\ EndTurn(w, Delivered(w))

\* The claim whose cursor evidence is compared with; 0 when there is none.
ClaimCursor(w) ==
  IF ClaimsOf(w) = {} THEN 0 ELSE (CHOOSE c \in ClaimsOf(w) : TRUE).cursor

TooNew(w, runCursor) == runCursor > ClaimCursor(w) /\ ClaimCursor(w) # 0

\* The gate did not pass, or its run is refused as stale.
EvidenceRefused(w, pass, runCursor) ==
  /\ Turn(w, "Verify")
  /\ ~ pass \/ TooNew(w, runCursor)
  /\ UNCHANGED <<claims, cursor, assigned>>
  /\ EndTurn(w, Backtrack(Delivered(w)))

Merge(w, pass, runCursor) ==
  /\ Turn(w, "Verify")
  /\ pass /\ ~ TooNew(w, runCursor)
  /\ UNCHANGED <<claims, cursor, assigned>>
  /\ EndTurn(w, Advance(Delivered(w), "Merge"))

-----------------------------------------------------------------------------
(* The other calls of the host.                                            *)

Input == events < MaxEvents /\ events' = events + 1

Deliver(w, m) ==
  /\ Input
  /\ w \in live
  /\ inbox' = [inbox EXCEPT ![w] = @ \cup {<<"msg", m>>}]
  /\ UNCHANGED <<live, loop, claims, cursor, disk, damaged, sessionError,
                 lives, assigned, told, failedSave>>

Post ==
  /\ Input
  /\ cursor < MaxCursor
  /\ cursor' = cursor + 1
  /\ UNCHANGED <<live, loop, inbox, claims, disk, damaged, sessionError,
                 lives, assigned, told, failedSave>>

SlipExpireUnsaved(before) ==  \* slip: sessions are not saved after an expiry
  LET released == {c \in claims : c.cursor < before} IN
  /\ released # {}
  /\ claims' = claims \ released
  /\ UNCHANGED <<live, loop, inbox, cursor, disk, damaged, sessionError, lives,
                 events, assigned, told, failedSave>>

\* Claims recorded before `before` are released; sessions are saved again
\* only when something was released.
ExpireClaims(before) ==
  LET released == {c \in claims : c.cursor < before} IN
  /\ released # {}
  /\ claims' = claims \ released
  /\ UNCHANGED loop
  /\ Persist(live, 0)
  /\ UNCHANGED <<live, inbox, cursor, damaged, lives, assigned, told>>

\* The kinds a tick gives worker w: the idle prompt takes the whole turn.
Given(w, due) ==
  IF IdleDue(loop[w]) THEN {WrapUp} ELSE due \ loop[w].nudged

NudgeIds(w, due) ==
  IF IdleDue(loop[w]) THEN {IdleId} ELSE {NudgeId(k) : k \in Given(w, due)}

Tick(due) ==
  /\ loop' = [w \in Workers |->
       IF w \in live THEN MarkNudged(loop[w], Given(w, due)) ELSE loop[w]]
  /\ inbox' = [w \in Workers |->
       IF w \in live THEN inbox[w] \cup NudgeIds(w, due) ELSE inbox[w]]
  /\ UNCHANGED claims
  /\ Persist(live, 1)
  /\ told' = told \cup {p \in live \X NudgeKinds :
       p[2] \in Given(p[1], due) /\ disk'[p[1]] = Record(p[1])'}
  /\ UNCHANGED <<live, cursor, damaged, lives, assigned>>

-----------------------------------------------------------------------------
(* The process dies: the host is rebuilt empty, the session file stays.    *)

Crash ==
  /\ lives < MaxLives
  /\ lives' = lives + 1
  /\ live' = {}
  /\ loop' = [w \in Workers |-> NewLoop]
  /\ inbox' = [w \in Workers |-> {}]
  /\ claims' = {} /\ cursor' = 0
  /\ sessionError' = FALSE
  /\ assigned' = [w \in Workers |-> NoScope]
  /\ failedSave' = {}
  /\ UNCHANGED <<disk, damaged, events, told>>

\* Something outside the program leaves the session file unreadable.
Damage ==
  /\ ~ damaged
  /\ damaged' = TRUE
  /\ Input
  /\ UNCHANGED <<live, loop, inbox, claims, cursor, disk, sessionError,
                 lives, assigned, told, failedSave>>

WorkerStep(w) ==
  \/ Interrupt(w)
  \/ Gather(w)
  \/ Idle(w)
  \/ \E s \in Scopes : ClaimGranted(w, s) \/ ClaimOverlaps(w, s)
  \/ Act(w)
  \/ EvidenceUnreadable(w)
  \/ \E pass \in BOOLEAN, rc \in 0 .. MaxCursor :
       EvidenceRefused(w, pass, rc) \/ Merge(w, pass, rc)

Next ==
  \/ \E w \in Workers : Spawn(w) \/ WorkerStep(w)
  \/ \E w \in Workers, m \in MsgIds : Deliver(w, m)
  \/ Post
  \/ \E before \in 1 .. MaxCursor : ExpireClaims(before)
  \/ \E due \in DueSets : Tick(due)
  \/ Crash
  \/ Damage

Spec == Init /\ [][Next]_vars

-----------------------------------------------------------------------------
(* Properties.                                                             *)

\* No two workers hold overlapping claims, whatever was claimed, expired or
\* replayed from disk (org_runner.rs, spawn and step; its test
\* contending_for_one_scope_serialises_instead_of_corrupting).
ClaimsExclusive ==
  \A c, d \in claims : c.worker # d.worker => <<c.scope, d.scope>> \notin Overlap

\* Every live claim is backed by a worker that is past Claim and was last told
\* to work on exactly that scope: no claim is left behind that blocks peers
\* with nobody working under it, and no worker holds two.  step() relies on it
\* when it takes the first claim of a worker to be the claim of that worker.
ClaimsBacked ==
  \A c \in claims :
    /\ c.worker \in live
    /\ loop[c.worker].step \in PastClaim
    /\ c.scope = assigned[c.worker]

\* A worker restored from disk resumes past Claim only with its scopes held
\* again in the new ledger (spawn: the ledger is the authority).
ResumeOnlyWhatIsHeld ==
  [][\A w \in live' \ live :
       loop'[w].step \in PastClaim =>
         ScopesOf(w)' = disk[w].scopes /\ ScopesOf(w)' # {}]_vars

\* A worker whose last save succeeded finds on disk exactly its loop and the
\* scopes it holds; the only difference ever left is the claim a restart gave
\* up and has not saved yet (persist after step, tick and expire_claims).
RecordFaithful ==
  \A w \in live \ failedSave :
    \/ disk[w] = Record(w)
    \/ /\ disk[w].loop.step \in PastClaim
       /\ loop[w] = Advance(disk[w].loop, "Gather")
       /\ ScopesOf(w) = {}

\* The ids under which a nudge of a kind reaches an inbox.
IdsOf(k) == {NudgeId(k)} \cup (IF k = WrapUp THEN {IdleId} ELSE {})

\* A nudge whose giving reached the disk is never queued again, in this life
\* of the host or a later one (tick: a worker told twice learns to ignore it).
NudgedOnce ==
  [][\A w \in Workers, k \in NudgeKinds :
       <<w, k>> \in told => IdsOf(k) \cap (inbox'[w] \ inbox[w]) = {}]_vars

\* The host implements the ledger it is built around: each of its steps
\* grants free scopes to one worker, takes grants back, or leaves them alone.
Held == {<<c.worker, c.scope>> : c \in claims}
Ledger == INSTANCE ScopeLedger WITH held <- Held
ImplementsLedger == Ledger!LedgerSpec
=============================================================================
