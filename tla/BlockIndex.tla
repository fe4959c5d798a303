------------------------------ MODULE BlockIndex ------------------------------
(***************************************************************************)
(* The index of a document's blocks (crates/mathed_core/src/blocks.rs): how *)
(* a block keeps its id while the text around it, or its own, changes.     *)
(*                                                                         *)
(* A document is a sequence of block texts with one separator between two  *)
(* blocks; Size gives a text's bytes.  A hash is the text itself, and a    *)
(* new id the pair that the code hashes.                                   *)
(***************************************************************************)
EXTENDS Integers, SequencesExt

CONSTANTS
  Size,  \* the bytes of each text
  Near   \* how far a block with the same hash may have moved: 1000 in the code

\* split_blocks: where block i of a document starts, and where the text ends.
Start(doc, i) ==
  LET after[n \in 0 .. Len(doc)] == IF n = 0 THEN 0 ELSE after[n - 1] + Size[doc[n]] + 1
  IN after[i - 1]
BytesOf(doc) == IF doc = <<>> THEN 0 ELSE Start(doc, Len(doc) + 1) - 1

Block(id, start, text) == [id |-> id, start |-> start, stop |-> start + Size[text], hash |-> text]

IdsOf(blocks) == {blocks[k].id : k \in DOMAIN blocks}
Distance(a, b) == IF a >= b THEN a - b ELSE b - a

\* The old blocks a new one may take its id from: the same range and hash, or
\* else the first of the same hash, if it has not moved far.
Kept(old, start, text) ==
  LET exact == {k \in DOMAIN old : old[k].start = start /\ old[k].hash = text}
      alike == {k \in DOMAIN old : old[k].hash = text}
      first == {k \in alike : \A j \in alike : k <= j}
  IN  IF exact # {} THEN exact
      ELSE {k \in first : Distance(start, old[k].start) < Near}

KeptId(old, start, text) ==
  LET kept == Kept(old, start, text)
  IN  old[CHOOSE k \in kept : \A j \in kept : k <= j].id

\* The ids nobody kept, in the order of the old blocks, each once.
Spare(old, taken) ==
  LET ids == [k \in DOMAIN old |-> old[k].id]
      keep(k) == ids[k] \notin taken /\ \A j \in 1 .. k - 1 : ids[j] # ids[k]
      places == SetToSortSeq({k \in DOMAIN old : keep(k)}, <)
  IN  [n \in DOMAIN places |-> ids[places[n]]]

\* update: kept ids first; the other blocks take the spare ids in order, and a
\* new id, made of place and text, when those are used up.
Update(old, doc) ==
  LET starts == [i \in DOMAIN doc |-> Start(doc, i)]
      known(i) == Kept(old, starts[i], doc[i]) # {}
      idOf(i) == KeptId(old, starts[i], doc[i])
      spare == Spare(old, {idOf(i) : i \in {j \in DOMAIN doc : known(j)}})
      rank(i) == Cardinality({j \in 1 .. i : ~known(j)})
      id(i) == IF known(i) THEN idOf(i)
               ELSE IF rank(i) <= Len(spare) THEN spare[rank(i)]
               ELSE <<starts[i], doc[i]>>
  IN  [i \in DOMAIN doc |-> Block(id(i), starts[i], doc[i])]
=============================================================================
