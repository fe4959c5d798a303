--------------------------- MODULE ConflictTracker ---------------------------
(***************************************************************************)
(* Write-time conflict detection (crates/mathed_core/src/sync.rs): which   *)
(* byte ranges a document changed, revision by revision, and whether a     *)
(* packet of a peer overlaps what was changed since the packet's base.     *)
(*                                                                         *)
(* A range is [start, end); a footprint is a sequence of ranges.           *)
(***************************************************************************)
EXTENDS Naturals, Sequences, SequencesExt

BlockRange(start, end) == [start |-> start, end |-> end]

IsEmptyRange(r) == r.end <= r.start

\* At least one byte in common.
Overlaps(a, b) ==
  /\ ~ IsEmptyRange(a) /\ ~ IsEmptyRange(b)
  /\ a.start < b.end /\ b.start < a.end

\* An insertion point inside or at the edge of the range.
Touches(point, r) == r.start <= point.start /\ point.start <= r.end

\* Overlap, or an insertion point inside or at the edge of the other range.
OverlapsWith(a, b) ==
  \/ Overlaps(a, b)
  \/ IsEmptyRange(a) /\ ~ IsEmptyRange(b) /\ Touches(a, b)
  \/ IsEmptyRange(b) /\ ~ IsEmptyRange(a) /\ Touches(b, a)

RangeUnion(a, b) ==
  BlockRange(IF a.start <= b.start THEN a.start ELSE b.start,
             IF a.end >= b.end THEN a.end ELSE b.end)

OverlappingPairs(A, B) == {p \in ToSet(A) \X ToSet(B) : OverlapsWith(p[1], p[2])}

FootprintsOverlap(A, B) == OverlappingPairs(A, B) # {}

-----------------------------------------------------------------------------
(* Footprint: what changed at each retained revision.                      *)

NewFootprint == [history |-> <<>>, base_revision |-> 0]

Revision(f) == f.base_revision + Len(f.history)

Recorded(f, blocks) == [f EXCEPT !.history = Append(@, blocks)]

\* Into the first range it shares a byte with, or as one more.
Coalesced(out, r) ==
  LET hits == {i \in DOMAIN out : Overlaps(out[i], r)} IN
    IF hits = {} THEN Append(out, r)
    ELSE LET i == CHOOSE i \in hits : \A j \in hits : i <= j
         IN  [out EXCEPT ![i] = RangeUnion(@, r)]

SlipFrom(f, base) ==  \* slip: the first revision after base is passed over
  IF base > Revision(f) \/ base < f.base_revision THEN 1
  ELSE base - f.base_revision + 2

\* Where the revisions after base begin in the history.  A base that is ahead
\* of the document, or below what it retains, gets all of it.
From(f, base) ==
  IF base > Revision(f) \/ base <= f.base_revision THEN 1
  ELSE base - f.base_revision + 1

\* The ranges of one revision, one after the other.
CoalescedAll(out, blocks) ==
  LET into[k \in 0 .. Len(blocks)] ==
        IF k = 0 THEN out ELSE Coalesced(into[k - 1], blocks[k])
  IN  into[Len(blocks)]

\* Everything changed after base, coalesced.
Since(f, base) ==
  LET upTo[k \in 0 .. Len(f.history)] ==
        IF k < From(f, base) THEN <<>> ELSE CoalescedAll(upTo[k - 1], f.history[k])
  IN  IF base = Revision(f) THEN <<>> ELSE upTo[Len(f.history)]

\* The revisions from keep_from on are kept, and the number does not move.
TruncatedBelow(f, keep_from) ==
  LET asked == IF keep_from > f.base_revision + 1
               THEN keep_from - (f.base_revision + 1) ELSE 0
      n == IF asked <= Len(f.history) THEN asked ELSE Len(f.history)
  IN  [history |-> SubSeq(f.history, n + 1, Len(f.history)),
       base_revision |-> f.base_revision + n]

\* A packet: the sender's revision, the one it worked on, what it touched.
DeltaPacket(revision, base, blocks) ==
  [revision |-> revision, base_revision |-> base, blocks |-> blocks]

\* The overlaps of a packet with what was changed since its base; none means
\* that the import is clean.
Classified(f, packet) ==
  OverlappingPairs(packet.blocks, Since(f, packet.base_revision))
=============================================================================
