----------------------------- MODULE AgentBoard -----------------------------
(***************************************************************************)
(* The cooperation side of the agent server (crates/kernel_client/src/bin/ *)
(* unfer_agent.rs): the shared board and what its operations keep beside   *)
(* it, and how much of that a restart brings back.                         *)
(*                                                                         *)
(* The board is bounded and, with a directory, written through: handle     *)
(* flushes it behind every operation, before the reply.  The claims,       *)
(* messages, gate runs, nudges and conflicts beside it are in memory only. *)
(*                                                                         *)
(* Requests are served one at a time, so an operation with its flush is    *)
(* one action; the process can stop between any two, and also inside one,  *)
(* which is the operation with a flush that failed, then Restart.          *)
(***************************************************************************)
EXTENDS Naturals, Sequences, FiniteSets, ConflictTracker

CONSTANTS
  Workers, Scopes, Overlap,  \* Overlap: the pairs of scopes that collide
  NudgeKinds,
  NoSubject,     \* what an entry about nothing in particular is about
  Footprints,    \* what a local edit or a packet may declare
  Peers,         \* who a packet may come from
  Capacity,      \* board::CAPACITY
  MaxCursor,     \* bound: cursors handed out
  MaxRuns,       \* bound: gate runs in a life
  MaxEdits,      \* bound: local edits in a life
  MaxMessages,   \* bound: unread messages
  MaxRestarts    \* bound: restarts

ASSUME AgentBoardAssumption ==
  /\ Overlap \subseteq Scopes \X Scopes
  /\ \A s \in Scopes : <<s, s>> \in Overlap
  /\ \A p \in Overlap : <<p[2], p[1]>> \in Overlap
  /\ IsFiniteSet(NudgeKinds)
  /\ Capacity \in Nat \ {0} /\ MaxCursor \in Nat
  /\ MaxRuns \in Nat /\ MaxEdits \in Nat /\ MaxMessages \in Nat /\ MaxRestarts \in Nat

VARIABLES
  board_on_disk,      \* a directory is configured
  board, latest,      \* the retained entries, the newest cursor
  persisted, store,   \* persisted_through, and what the directory holds
  unsaved,            \* entries written since the last flush that worked
  claims, inbox,      \* Coop: claims, and the messages of each worker
  runs,               \* the gate runs recorded
  nudges_sent, sync_conflicts,
  mine,               \* the footprint of the document
  restarts,
  written,            \* every entry of this life
  acked,              \* every entry a reply said is on disk
  accepted            \* the patches accepted in this life: worker and run

boardVars == <<board, latest, persisted, store, unsaved, written, acked>>
vars == <<board_on_disk, boardVars, claims, inbox, runs, nudges_sent,
          sync_conflicts, mine, restarts, accepted>>

Cursors == 1 .. MaxCursor
Packets == [peer : Peers, base_revision : 0 .. MaxEdits, blocks : Footprints]
Subjects == Scopes \cup NudgeKinds \cup Packets \cup {NoSubject}
Kinds == {"FACT", "CLAIM", "ESCALATE", "FAIL", "OBSERVED", "PATCH_SUMMARY"}

\* about: the scope, nudge kind or packet that an entry records.
Entry == [cursor : Cursors, kind : Kinds, worker : Workers, about : Subjects]

\* What a bounded board keeps of a log.
Newest(S) == {e \in S : Cardinality({f \in S : f.cursor > e.cursor}) < Capacity}

LastCursor(S) == IF S = {} THEN 0
                 ELSE CHOOSE k \in {e.cursor : e \in S} : \A e \in S : e.cursor <= k

TypeOK ==
  /\ board_on_disk \in BOOLEAN
  /\ board \subseteq Entry /\ Cardinality(board) <= Capacity
  /\ latest \in 0 .. MaxCursor /\ persisted \in 0 .. latest
  /\ store \subseteq Entry /\ unsaved \subseteq Entry
  /\ claims \subseteq [worker : Workers, scope : Scopes, cursor : Cursors]
  /\ inbox \in [Workers -> SUBSET Cursors]
  /\ runs \in Seq([pass : BOOLEAN, cursor : Cursors]) /\ Len(runs) <= MaxRuns
  /\ nudges_sent \subseteq Workers \X NudgeKinds
  /\ sync_conflicts \subseteq [key : Packets, cursor : Cursors]
  /\ \A i \in DOMAIN mine.history : mine.history[i] \in Footprints
  /\ restarts \in 0 .. MaxRestarts
  /\ written \subseteq Entry /\ acked \subseteq Entry
  /\ \A e, f \in written : e.cursor = f.cursor => e = f
  /\ accepted \subseteq [worker : Workers, run : DOMAIN runs, at : Cursors]

Init ==
  /\ board_on_disk \in BOOLEAN
  /\ board = {} /\ latest = 0 /\ persisted = 0 /\ store = {} /\ unsaved = {}
  /\ claims = {} /\ inbox = [w \in Workers |-> {}]
  /\ runs = <<>> /\ nudges_sent = {} /\ sync_conflicts = {}
  /\ mine = NewFootprint
  /\ restarts = 0 /\ written = {} /\ acked = {} /\ accepted = {}

-----------------------------------------------------------------------------
(* handle: the flush behind the operation.                                 *)

SlipFlush(entries) ==  \* slip: flushed before the operation
  \/ /\ persisted' = latest' /\ store' = board
     /\ unsaved' = {} /\ acked' = acked \cup written'
  \/ /\ UNCHANGED <<persisted, store, acked>>
     /\ unsaved' = unsaved \cup entries

\* What the operation wrote, or the directory as it was when that failed.
Flush(entries) ==
  \/ /\ persisted' = latest' /\ store' = board'
     /\ unsaved' = {} /\ acked' = acked \cup written'
  \/ /\ UNCHANGED <<persisted, store, acked>>
     /\ unsaved' = unsaved \cup entries

\* The operation wrote these entries and moved the cursor there.
Handle(entries, cursor) ==
  /\ cursor <= MaxCursor
  /\ board' = Newest(board \cup entries)
  /\ latest' = cursor
  /\ written' = written \cup entries
  /\ IF board_on_disk /\ latest' > persisted
     THEN Flush(entries)
     ELSE UNCHANGED <<persisted, store, unsaved, acked>>
  /\ UNCHANGED <<board_on_disk, restarts>>

\* One entry, at the next cursor.
EntryOf(kind, w, about) ==
  [cursor |-> latest + 1, kind |-> kind, worker |-> w, about |-> about]
Write(kind, w, about) == Handle({EntryOf(kind, w, about)}, latest + 1)

\* Any operation that writes nothing: the reads, or one that is refused.
Read ==
  /\ board_on_disk /\ latest > persisted
  /\ Handle({}, latest)
  /\ UNCHANGED <<claims, inbox, runs, nudges_sent, sync_conflicts, mine, accepted>>

\* board_write, and agent_handoff, which writes its entry the same way.
BoardWrite(w) ==
  /\ Write("FACT", w, NoSubject)
  /\ UNCHANGED <<claims, inbox, runs, nudges_sent, sync_conflicts, mine, accepted>>

-----------------------------------------------------------------------------
(* Claims, messages, escalations.                                          *)

SlipHolders(w, s) ==  \* slip: one's own claims
  {c \in claims : c.worker = w /\ <<c.scope, s>> \in Overlap}

Holders(w, s) == {c \in claims : c.worker # w /\ <<c.scope, s>> \in Overlap}

\* agent_claim: the attempt is written either way.
AgentClaim(w, s) ==
  /\ Write("CLAIM", w, s)
  /\ IF Holders(w, s) = {}
     THEN claims' = claims \cup {[worker |-> w, scope |-> s, cursor |-> latest + 1]}
     ELSE UNCHANGED claims
  /\ UNCHANGED <<inbox, runs, nudges_sent, sync_conflicts, mine, accepted>>

\* The escalations of a life: Coop remembers the first entry of each.
Escalated(w, s) ==
  \E e \in written : e.kind = "ESCALATE" /\ e.worker = w /\ e.about = s

\* agent_escalate: an entry for the first, that entry's cursor for the others.
AgentEscalate(w, s) ==
  /\ IF Escalated(w, s)
     THEN Handle({}, latest) /\ latest > persisted /\ board_on_disk
     ELSE Write("ESCALATE", w, s)
  /\ UNCHANGED <<claims, inbox, runs, nudges_sent, sync_conflicts, mine, accepted>>

\* agent_dm: into the inbox, and on the board.
AgentDm(from, to) ==
  /\ Cardinality(UNION {inbox[w] : w \in Workers}) < MaxMessages
  /\ Write("FACT", from, NoSubject)
  /\ inbox' = [inbox EXCEPT ![to] = @ \cup {latest + 1}]
  /\ UNCHANGED <<claims, runs, nudges_sent, sync_conflicts, mine, accepted>>

\* agent_dm_read with consume.
AgentDmTake(w) ==
  /\ inbox[w] # {}
  /\ inbox' = [inbox EXCEPT ![w] = {}]
  /\ Handle({}, latest)
  /\ UNCHANGED <<claims, runs, nudges_sent, sync_conflicts, mine, accepted>>

-----------------------------------------------------------------------------
(* Gate runs and the patches that cite them.                               *)

SlipGateRecord(pass) ==  \* slip: the cursor is predicted, not reserved
  /\ Len(runs) < MaxRuns /\ latest < MaxCursor
  /\ Handle({}, latest)
  /\ runs' = Append(runs, [pass |-> pass, cursor |-> latest + 1])
  /\ UNCHANGED <<claims, inbox, nudges_sent, sync_conflicts, mine, accepted>>

\* gate_record: the cursor is reserved, so no entry ever has it.  A verdict of
\* fail and one that cannot be read are alike: not a pass.
GateRecord(pass) ==
  /\ Len(runs) < MaxRuns
  /\ Handle({}, latest + 1)
  /\ runs' = Append(runs, [pass |-> pass, cursor |-> latest + 1])
  /\ UNCHANGED <<claims, inbox, nudges_sent, sync_conflicts, mine, accepted>>

\* The worker's base: the newest entry of it that the board still holds.
Base(w) == LastCursor({e \in board : e.worker = w})

SlipFresh(w, r) ==  \* slip: no base means no change
  /\ r \in DOMAIN runs /\ runs[r].pass
  /\ Base(w) < runs[r].cursor

\* evidence::submit's verdict: the run is there, it passed, the worker has a
\* base, and the run is newer.
Fresh(w, r) ==
  /\ r \in DOMAIN runs /\ runs[r].pass
  /\ Base(w) # 0 /\ Base(w) < runs[r].cursor

\* patch_submit: the summary is written whether or not it is accepted.
PatchSubmit(w, r) ==
  /\ Write("PATCH_SUMMARY", w, NoSubject)
  /\ accepted' = IF Fresh(w, r)
                 THEN accepted \cup {[worker |-> w, run |-> r, at |-> latest + 1]}
                 ELSE accepted
  /\ UNCHANGED <<claims, inbox, runs, nudges_sent, sync_conflicts, mine>>

-----------------------------------------------------------------------------
(* Nudges and conflicts.                                                   *)

\* agent_nudge: an entry for each kind that is due and was not sent yet.
AgentNudge(w, due) ==
  /\ LET fresh == {k \in due : <<w, k>> \notin nudges_sent} IN
       /\ fresh # {}
       /\ \E order \in [fresh -> 1 .. Cardinality(fresh)] :
            /\ \A j, k \in fresh : order[j] = order[k] => j = k
            /\ Handle({[cursor |-> latest + order[k], kind |-> "OBSERVED",
                        worker |-> w, about |-> k] : k \in fresh},
                      latest + Cardinality(fresh))
       /\ nudges_sent' = nudges_sent \cup {<<w, k>> : k \in fresh}
  /\ UNCHANGED <<claims, inbox, runs, sync_conflicts, mine, accepted>>

\* sync_edit.
SyncEdit(blocks) ==
  /\ Len(mine.history) < MaxEdits
  /\ mine' = Recorded(mine, blocks)
  /\ Handle({}, latest)
  /\ UNCHANGED <<claims, inbox, runs, nudges_sent, sync_conflicts, accepted>>

\* sync_import of a packet that overlaps: a FAIL entry, unless that packet has
\* one.  A clean import writes nothing and is a Read.
SyncImport(w, p) ==
  /\ Classified(mine, p) # {}
  /\ IF \E c \in sync_conflicts : c.key = p
     THEN Handle({}, latest) /\ UNCHANGED sync_conflicts
     ELSE /\ Write("FAIL", w, p)
          /\ sync_conflicts' = sync_conflicts \cup {[key |-> p, cursor |-> latest + 1]}
  /\ UNCHANGED <<claims, inbox, runs, nudges_sent, mine, accepted>>

-----------------------------------------------------------------------------
(* The process ends and AgentState::from_store starts over: the board is   *)
(* replayed, with as much of what was never flushed as had reached the     *)
(* directory; the rest is new.                                             *)

Restart ==
  /\ restarts < MaxRestarts
  /\ restarts' = restarts + 1
  /\ \E k \in persisted .. latest :
       LET log == IF board_on_disk THEN store \cup {e \in unsaved : e.cursor <= k} ELSE {}
       IN  /\ board' = Newest(log) /\ store' = Newest(log)
           /\ latest' = LastCursor(log) /\ persisted' = LastCursor(log)
  /\ unsaved' = {} /\ written' = {}
  /\ claims' = {} /\ inbox' = [w \in Workers |-> {}]
  /\ runs' = <<>> /\ nudges_sent' = {} /\ sync_conflicts' = {}
  /\ mine' = NewFootprint /\ accepted' = {}
  /\ UNCHANGED <<board_on_disk, acked>>

Next ==
  \/ Read
  \/ \E w \in Workers :
       \/ BoardWrite(w) \/ AgentDmTake(w)
       \/ \E s \in Scopes : AgentClaim(w, s) \/ AgentEscalate(w, s)
       \/ \E to \in Workers : AgentDm(w, to)
       \/ \E r \in 1 .. MaxRuns : PatchSubmit(w, r)
       \/ \E due \in SUBSET NudgeKinds : AgentNudge(w, due)
       \/ \E p \in Packets : SyncImport(w, p)
  \/ \E pass \in BOOLEAN : GateRecord(pass)
  \/ \E blocks \in Footprints : SyncEdit(blocks)
  \/ Restart

Spec == Init /\ [][Next]_vars

-----------------------------------------------------------------------------
(* Properties.                                                             *)

\* An entry that a reply said is on disk is on the board in every later life,
\* until newer entries fill it (handle: '"the caller saw ok" and "the log has
\* it" coincide').
AckedSurvives ==
  \A e \in acked :
    e \in board \/ Cardinality({f \in board : f.cursor > e.cursor}) = Capacity

\* An accepted patch cites a passing run that is newer than everything its
\* worker wrote before the patch, also what the board no longer holds
\* (patch_submit; tests evidence_from_before_the_last_change_is_stale_and_
\* refused, freshness_fails_closed_when_the_workers_base_is_gone).
FreshEvidence ==
  \A a \in accepted :
    /\ runs[a.run].pass
    /\ \A e \in written :
         e.worker = a.worker /\ e.cursor < a.at => e.cursor < runs[a.run].cursor

\* Every cursor kept beside the board is that of the entry it stands for: a
\* claim's, a conflict's, a message's; and no run has the cursor of an entry
\* (claims_and_board_entries_share_one_cursor_sequence,
\* a_gate_run_and_the_next_entry_never_share_a_cursor).
CursorsAgree ==
  /\ \A c \in claims : \E e \in written :
       e.kind = "CLAIM" /\ e.cursor = c.cursor /\ e.worker = c.worker /\ e.about = c.scope
  /\ \A c \in sync_conflicts : \E e \in written :
       e.kind = "FAIL" /\ e.cursor = c.cursor /\ e.about = c.key
  /\ \A w \in Workers : \A k \in inbox[w] : \E e \in written : e.cursor = k
  /\ \A r \in DOMAIN runs : \A e \in written \cup board : e.cursor # runs[r].cursor

\* The claims of one life implement the ledger of the cooperation loop: what is
\* granted is free, and a restart takes everything back.
Held == {<<c.worker, c.scope>> : c \in claims}
Ledger == INSTANCE ScopeLedger WITH held <- Held
ImplementsLedger == Ledger!LedgerSpec
=============================================================================
