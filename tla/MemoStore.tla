------------------------------ MODULE MemoStore ------------------------------
(* The content-keyed raster store of the editor (mathed_mini memo.rs): one  *)
(* raster per slot (a site at a width), a recency queue, a byte count and a *)
(* byte budget.  A store is a value; DocPreview keeps one and applies these *)
(* operators to it in the order in which a frame does.                      *)
EXTENDS Naturals, Sequences, Functions, SequencesExt, FiniteSetsExt

CONSTANT
  Slots,   \* the slots, a site at a width
  Cap      \* cap_bytes

ASSUME CapAssumption == Cap \in Nat

\* What may be stored: a raster, its size, and the key it was filed under.
Rasters(keys, origins) == [key : keys, of : origins, bytes : Nat]

EmptyStore == [memos |-> <<>>, lru |-> <<>>, total |-> 0]

Has(s, slot) == slot \in DOMAIN s.memos

\* get finds a raster only under the key it was filed under.
Hits(s, slot, key) == Has(s, slot) /\ s.memos[slot].key = key

\* retain: the queue without what is gone.
Retained(lru, gone) ==
  LET kept[n \in 0 .. Len(lru)] ==
        IF n = 0 THEN <<>>
        ELSE IF lru[n] \in gone THEN kept[n - 1] ELSE Append(kept[n - 1], lru[n])
  IN kept[Len(lru)]

SlipTouchKeepsPlace(lru, slot) ==  \* slip: a slot in the queue keeps its place
  IF slot \in ToSet(lru) THEN lru ELSE Append(lru, slot)

Touched(lru, slot) == Append(Retained(lru, {slot}), slot)

\* The store after a get that hits.
Got(s, slot) == [s EXCEPT !.lru = Touched(@, slot)]

Monus(a, b) == IF a < b THEN 0 ELSE a - b

\* What rasters add up to.
BytesOf(memos, slots) == MapThenSumSet(LAMBDA slot : memos[slot].bytes, slots)

SlipBytesKept(s, slots) == s.total  \* slip: a replaced raster's bytes are not given back

BytesWithout(s, slots) == Monus(s.total, BytesOf(s.memos, slots \cap DOMAIN s.memos))

\* remove_site, for the slots of one site
RemovedAll(s, slots) ==
  [memos |-> Restrict(s.memos, DOMAIN s.memos \ slots),
   lru   |-> Retained(s.lru, slots),
   total |-> BytesWithout(s, slots)]

\* remove
Removed(s, slot) == RemovedAll(s, {slot})

\* Evict from the front while over budget, so as few as will do; the last one
\* stays whatever its size.
Evicted(s) ==
  LET left(n) == RemovedAll(s, {s.lru[i] : i \in 1 .. n})
      enough == {n \in 0 .. Len(s.lru) - 1 : n = Len(s.lru) - 1 \/ left(n).total <= Cap}
  IN left(Min(enough))

\* insert, before it evicts: what the slot had is replaced.
Filing(s, slot, raster) ==
  [memos |-> [k \in DOMAIN s.memos \cup {slot} |-> IF k = slot THEN raster ELSE s.memos[k]],
   lru   |-> Touched(s.lru, slot),
   total |-> BytesWithout(s, {slot}) + raster.bytes]

\* insert
Inserted(s, slot, raster) == Evicted(Filing(s, slot, raster))

-----------------------------------------------------------------------------

\* The queue lists each stored slot once, the byte count is what is stored,
\* and only a lone raster may exceed the budget: whatever was replaced, removed
\* or evicted, no raster is leaked and none is counted twice.
Sound(s) ==
  /\ ToSet(s.lru) = DOMAIN s.memos
  /\ Len(s.lru) = Cardinality(DOMAIN s.memos)
  /\ s.total = BytesOf(s.memos, DOMAIN s.memos)
  /\ s.total > Cap => Cardinality(DOMAIN s.memos) = 1
=============================================================================
