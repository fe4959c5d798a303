------------------------------ MODULE SyncPeers ------------------------------
(***************************************************************************)
(* Replicas of one document that exchange deltas                           *)
(* (crates/mathed_core/src/sync.rs and doc.rs): what the CRDT makes of     *)
(* them, and which collisions the conflict trackers report.                *)
(*                                                                         *)
(* An edit (insert, delete, replace, undo or redo) is one operation of the *)
(* CRDT, and a document is the set of operations it holds.  A host records *)
(* an edit with its tracker and sends the packet; a host that receives one *)
(* classifies it and then imports its bytes.  Packets arrive late, twice,  *)
(* out of order, or not at all.                                            *)
(***************************************************************************)
EXTENDS Naturals, Sequences, FiniteSets, ConflictTracker

CONSTANTS
  Replicas,
  Changes,        \* what an edit may declare
  MaxRevision     \* bound: the revision of each replica

ASSUME SyncPeersAssumption ==
  /\ MaxRevision \in Nat
  /\ Changes \subseteq Seq([start : Nat, end : Nat])

VARIABLES
  doc,        \* of each replica, the operations its LoroDoc holds
  mirror,     \* the text it shows: the operations as last read
  revision,   \* MathDoc's counter
  tracker,    \* the footprint of its ConflictTracker
  sent,       \* every packet sent
  delivered,  \* the <<replica, packet>> pairs that arrived
  conflicts    \* those that were a conflict

syncVars == <<doc, mirror, revision, tracker, sent, delivered, conflicts>>

\* An operation is named for its replica and the revision that recorded it.
Operations == Replicas \X (1 .. MaxRevision)

Packet == [from : Replicas, revision : 1 .. MaxRevision, base_revision : 0 .. MaxRevision,
           blocks : Changes, bytes : SUBSET Operations]

OpOf(p) == <<p.from, p.revision>>

SyncTypeOK ==
  /\ doc \in [Replicas -> SUBSET Operations]
  /\ mirror \in [Replicas -> SUBSET Operations]
  /\ revision \in [Replicas -> 0 .. MaxRevision]
  /\ tracker \in [Replicas -> [history : Seq(Changes), base_revision : 0 .. MaxRevision]]
  /\ \A r \in Replicas : Revision(tracker[r]) <= MaxRevision
  /\ sent \subseteq Packet
  /\ \A p \in sent : /\ p.base_revision = p.revision - 1
                     /\ OpOf(p) \in p.bytes
                     /\ p.revision <= Revision(tracker[p.from])
  /\ \A p, q \in sent : OpOf(p) = OpOf(q) => p = q
  /\ delivered \subseteq Replicas \X sent
  /\ conflicts \subseteq delivered

SyncInit ==
  /\ doc = [r \in Replicas |-> {}] /\ mirror = doc
  /\ revision = [r \in Replicas |-> 0]
  /\ tracker = [r \in Replicas |-> NewFootprint]
  /\ sent = {} /\ delivered = {} /\ conflicts = {}

\* slip: what the docs say, only what is new since the last export
SlipExported(r, ops) == ops \ doc[r]

\* export_delta: all operations, also the imported ones and those exported before.
\* Its docs (sync.rs 3-4 and 24) say "all operations since the last export"; the
\* code keeps no mark of that export and calls all_updates (28).
Exported(r, ops) == ops

\* MathDoc's edit, with ConflictTracker::local_edit of its footprint.
Edit(r, blocks) ==
  /\ Revision(tracker[r]) < MaxRevision
  /\ LET after == Recorded(tracker[r], blocks)
         ops == doc[r] \cup {<<r, Revision(after)>>}
     IN  /\ doc' = [doc EXCEPT ![r] = ops]
         /\ mirror' = [mirror EXCEPT ![r] = @ \cup {<<r, Revision(after)>>}]
         /\ revision' = [revision EXCEPT ![r] = @ + 1]
         /\ tracker' = [tracker EXCEPT ![r] = after]
         /\ sent' = sent \cup
              {[from |-> r, revision |-> Revision(after),
                base_revision |-> Revision(tracker[r]),
                blocks |-> blocks, bytes |-> Exported(r, ops)]}
  /\ UNCHANGED <<delivered, conflicts>>

\* import_delta: the mirror is read again; the revision does not move.
Import(r, p) ==
  /\ doc' = [doc EXCEPT ![r] = @ \cup p.bytes]
  /\ mirror' = [mirror EXCEPT ![r] = doc'[r]]
  /\ UNCHANGED <<revision, tracker>>

\* A packet arrives, for the first time or again: classify, then import.
Deliver(r, p) ==
  /\ p \in sent /\ p.from # r
  /\ delivered' = delivered \cup {<<r, p>>}
  /\ conflicts' = IF Classified(tracker[r], p) # {} THEN conflicts \cup {<<r, p>>} ELSE conflicts
  /\ Import(r, p)
  /\ UNCHANGED sent

\* The host bounds its memory: truncate_below.
Truncate(r, keep_from) ==
  /\ tracker' = [tracker EXCEPT ![r] = TruncatedBelow(@, keep_from)]
  /\ tracker' # tracker
  /\ UNCHANGED <<doc, mirror, revision, sent, delivered, conflicts>>

SyncNext ==
  \E r \in Replicas :
    \/ \E blocks \in Changes : Edit(r, blocks)
    \/ \E p \in sent : Deliver(r, p)
    \/ \E keep_from \in 2 .. MaxRevision : Truncate(r, keep_from)

SyncSpec == SyncInit /\ [][SyncNext]_syncVars

\* The last packet of a replica: every other one may be lost for ever.
Latest(s, p) == p.from = s /\ \A q \in sent : q.from = s => q.revision <= p.revision

ImportLatest(r, s) == r # s /\ \E p \in sent : Latest(s, p) /\ Import(r, p)

FairSyncSpec ==
  SyncSpec /\ \A r, s \in Replicas : WF_<<doc, mirror>>(ImportLatest(r, s))

-----------------------------------------------------------------------------
(* Properties.                                                             *)

\* Replicas converge on every edit made, although every packet but the last of
\* each replica may be lost, and whatever was reported (sync.rs 5-6: "Two MathDoc
\* instances exchanging deltas converge to identical text").  It holds because a
\* later packet carries all that an earlier one did, against the docs of
\* export_delta: the deltas that they promise would leave the replicas apart as soon
\* as a packet that is not the last is lost.
AllEdits == {OpOf(p) : p \in sent}
Converge == <>[](\A r \in Replicas : mirror[r] = AllEdits)

\* Neither of two edits was made in view of the other.
Concurrent(p, q) == OpOf(p) \notin q.bytes /\ OpOf(q) \notin p.bytes

Collide(p, q) == p.from # q.from /\ Concurrent(p, q) /\ FootprintsOverlap(p.blocks, q.blocks)

Retained(p) == p.revision > tracker[p.from].base_revision

\* Of two edits that collide and have both arrived, at least one is reported
\* where it arrived, however the revisions of the replicas compare, as long as
\* neither was truncated.
OneSideReports ==
  \A p, q \in sent :
    /\ Collide(p, q) /\ Retained(p) /\ Retained(q)
    /\ <<q.from, p>> \in delivered /\ <<p.from, q>> \in delivered
    => <<q.from, p>> \in conflicts \/ <<p.from, q>> \in conflicts
=============================================================================
