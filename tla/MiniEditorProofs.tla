--------------------------- MODULE MiniEditorProofs ---------------------------
(***************************************************************************)
(* Proofs about MiniEditor, for every document and every number of edits,  *)
(* answers and frames: the caret stays in the text, and what is drawn is   *)
(* what there is to see, whatever frames and passes were left out.         *)
(*                                                                         *)
(* Places in a text are sums of the sizes before them; the first lemmas    *)
(* say how they lie to each other.  The caret needs no more than that the  *)
(* index is of the document and that rows of this revision are in it.      *)
(* What is drawn needs the revision, version, width and caret that each of *)
(* the kept things is of: none is newer than what there is now, and the    *)
(* passes are of the last frame.                                           *)
(***************************************************************************)
EXTENDS MiniEditor, NaturalLemmas, SequenceTheorems, TLAPS

-----------------------------------------------------------------------------
(* Places.                                                                 *)

Sized(d) == d \in Seq(DOMAIN Size) /\ \A i \in DOMAIN d : Size[d[i]] \in Nat

\* Blocks follow each other, with one separator between two.
LEMMA StartMoves ==
  ASSUME NEW d, Sized(d)
  PROVE  /\ Start(d, 1) = 0
         /\ \A i \in 1 .. Len(d) : Start(d, i + 1) = Start(d, i) + Size[d[i]] + 1
<1> DEFINE n == Len(d)
           next(k, s) == s + Size[d[k]] + 1
           body(h) == [k \in 0 .. n |-> IF k = 0 THEN 0 ELSE h[k - 1] + Size[d[k]] + 1]
           g == CHOOSE h : h = body(h)
           step == [p \in (1 .. n) \X Nat |-> next(p[1], p[2])]
<1>0. n \in Nat /\ DOMAIN d = 1 .. n /\ \A k \in 1 .. n : Size[d[k]] \in Nat
  BY LenProperties DEF Sized
<1>1. \A i : Start(d, i) = g[i - 1]
  BY DEF Start
<1>2. step \in [(1 .. n) \X Nat -> Nat]
  <2>1. ASSUME NEW p \in (1 .. n) \X Nat
        PROVE  next(p[1], p[2]) \in Nat
    <3>1. p[1] \in 1 .. n /\ p[2] \in Nat /\ Size[d[p[1]]] \in Nat
      BY <1>0
    <3> QED BY <3>1
  <2> HIDE DEF next
  <2> QED BY <2>1
<1>3. \A k \in 1 .. n, s \in Nat : step[<<k, s>>] = next(k, s)
  <2> HIDE DEF next
  <2> QED OBVIOUS
<1> HIDE DEF n, step
<1>4. PICK f \in [0 .. n -> Nat] : Iterates(f, n, 0, step)
  BY <1>0, <1>2, Iterated
<1>5. f = body(f)
  <2>1. ASSUME NEW k \in 0 .. n
        PROVE  f[k] = IF k = 0 THEN 0 ELSE next(k, f[k - 1])
    <3>1. CASE k = 0
      BY <1>4, <3>1 DEF Iterates
    <3>2. CASE k # 0
      <4>1. k \in 1 .. n /\ k - 1 \in 0 .. n
        BY <1>0, <3>2
      <4>2. f[k] = step[<<k, f[k - 1]>>] /\ f[k - 1] \in Nat
        BY <1>4, <4>1 DEF Iterates
      <4> HIDE DEF next
      <4> QED BY <1>3, <3>2, <4>1, <4>2
    <3> HIDE DEF next
    <3> QED BY <3>1, <3>2
  <2> QED BY <1>4, <2>1
<1>6. g = body(g)
  BY <1>5
<1> HIDE DEF g
<1>7. ASSUME NEW k \in 0 .. n
      PROVE  g[k] = IF k = 0 THEN 0 ELSE g[k - 1] + Size[d[k]] + 1
  <2>1. g[k] = body(g)[k]
    BY <1>6
  <2> QED BY <2>1
<1> HIDE DEF body
<1>8. Start(d, 1) = 0
  <2>1. 0 \in 0 .. n /\ 1 - 1 = 0
    BY <1>0
  <2> QED BY <1>1, <1>7, <2>1
<1>9. ASSUME NEW i \in 1 .. n
      PROVE  Start(d, i + 1) = Start(d, i) + Size[d[i]] + 1
  <2>1. i \in 0 .. n /\ i # 0 /\ (i + 1) - 1 = i
    BY <1>0
  <2>2. Start(d, i + 1) = g[i] /\ Start(d, i) = g[i - 1]
    BY <1>1, <2>1
  <2> QED BY <1>7, <2>1, <2>2
<1> QED BY <1>8, <1>9 DEF n

\* A place is a number.
LEMMA StartIsNat ==
  ASSUME NEW d, Sized(d)
  PROVE  \A i \in 1 .. Len(d) + 1 : Start(d, i) \in Nat
<1> DEFINE T == {k \in Nat : Start(d, k + 1) \in Nat}
<1>0. Len(d) \in Nat /\ DOMAIN d = 1 .. Len(d) /\ \A k \in 1 .. Len(d) : Size[d[k]] \in Nat
  BY LenProperties DEF Sized
<1>1. 0 \in T
  BY StartMoves
<1>2. ASSUME NEW k \in 1 .. Len(d), k - 1 \in T
      PROVE  k \in T
  <2>1. Start(d, k + 1) = Start(d, k) + Size[d[k]] + 1
    BY StartMoves
  <2>2. k \in Nat /\ (k - 1) + 1 = k
    BY <1>0
  <2>3. Start(d, k) \in Nat
    BY <1>2, <2>2
  <2> QED BY <1>0, <2>1, <2>2, <2>3
<1>3. \A k \in 0 .. Len(d) : k \in T
  <2> HIDE DEF T
  <2> QED BY <1>0, <1>1, <1>2, StepByStep
<1>4. ASSUME NEW i \in 1 .. Len(d) + 1
      PROVE  Start(d, i) \in Nat
  <2>1. i - 1 \in 0 .. Len(d) /\ (i - 1) + 1 = i
    BY <1>0
  <2>2. i - 1 \in T
    BY <1>3, <2>1
  <2> QED BY <2>1, <2>2
<1> QED BY <1>4

\* A later block begins beyond the end of an earlier one.
LEMMA StartsRise ==
  ASSUME NEW d, Sized(d), NEW i \in 1 .. Len(d), NEW j \in 1 .. Len(d) + 1, i < j
  PROVE  Stop(d, i) < Start(d, j)
<1> DEFINE T == {k \in Nat : i <= k => Stop(d, i) < Start(d, k + 1)}
<1>0. Len(d) \in Nat /\ DOMAIN d = 1 .. Len(d) /\ \A k \in 1 .. Len(d) : Size[d[k]] \in Nat
  BY LenProperties DEF Sized
<1>1. 0 \in T
  <2>1. 0 \in Nat /\ ~ (i <= 0)
    BY <1>0
  <2> QED BY <2>1
<1>2. ASSUME NEW k \in 1 .. Len(d), k - 1 \in T
      PROVE  k \in T
  <2>1. Start(d, k + 1) = Start(d, k) + Size[d[k]] + 1
    BY StartMoves
  <2>2. k \in Nat /\ (k - 1) + 1 = k /\ k \in 1 .. Len(d) + 1 /\ i \in 1 .. Len(d) + 1
    BY <1>0
  <2>3. Start(d, k) \in Nat /\ Start(d, i) \in Nat /\ Size[d[i]] \in Nat /\ Size[d[k]] \in Nat
    BY <1>0, <2>2, StartIsNat
  <2>4. Stop(d, i) = Start(d, i) + Size[d[i]]
    BY DEF Stop
  <2>5. CASE i = k
    BY <2>1, <2>2, <2>3, <2>4, <2>5
  <2>6. CASE i < k
    <3>1. i <= k - 1
      BY <1>0, <2>2, <2>6
    <3>2. Stop(d, i) < Start(d, (k - 1) + 1)
      BY <1>2, <3>1
    <3>3. Stop(d, i) < Start(d, k)
      BY <2>2, <3>2
    <3>4. Stop(d, i) \in Nat
      BY <2>3, <2>4
    <3>5. Stop(d, i) < Start(d, k + 1)
      BY <2>1, <2>3, <3>3, <3>4
    <3> QED BY <2>2, <3>5
  <2>7. i <= k => i = k \/ i < k
    BY <1>0
  <2> QED BY <2>2, <2>5, <2>6, <2>7
<1>3. \A k \in 0 .. Len(d) : k \in T
  <2> HIDE DEF T
  <2> QED BY <1>0, <1>1, <1>2, StepByStep
<1>4. j - 1 \in 0 .. Len(d) /\ (j - 1) + 1 = j /\ i <= j - 1
  BY <1>0
<1>5. j - 1 \in T
  BY <1>3, <1>4
<1> QED BY <1>4, <1>5

\* A block lies inside of its text.
LEMMA StopInText ==
  ASSUME NEW d, Sized(d), NEW i \in 1 .. Len(d)
  PROVE  /\ Start(d, i) \in Nat /\ Stop(d, i) \in Nat /\ Size[d[i]] \in Nat
         /\ Stop(d, i) = Start(d, i) + Size[d[i]]
         /\ Stop(d, i) <= BytesOf(d) /\ BytesOf(d) \in Nat
<1>0. /\ Len(d) \in Nat /\ DOMAIN d = 1 .. Len(d) /\ \A k \in 1 .. Len(d) : Size[d[k]] \in Nat
      /\ i \in Nat
  BY LenProperties DEF Sized
<1>1. Len(d) + 1 \in 1 .. Len(d) + 1 /\ i < Len(d) + 1 /\ i \in 1 .. Len(d) + 1
  BY <1>0
<1>2. Start(d, Len(d) + 1) \in Nat /\ Start(d, i) \in Nat
  BY <1>1, StartIsNat
<1>3. Stop(d, i) < Start(d, Len(d) + 1)
  BY <1>1, StartsRise
<1>4. d # <<>>
  BY <1>0
<1>5. BytesOf(d) = Start(d, Len(d) + 1) - 1
  BY <1>4 DEF BytesOf
<1>6. Stop(d, i) = Start(d, i) + Size[d[i]] /\ Size[d[i]] \in Nat
  BY <1>0 DEF Stop
<1> QED BY <1>2, <1>3, <1>5, <1>6

\* A text has a number of bytes.
LEMMA BytesIsNat ==
  ASSUME NEW d, Sized(d)
  PROVE  BytesOf(d) \in Nat
<1>1. CASE d = <<>>
  BY <1>1 DEF BytesOf
<1>2. CASE d # <<>>
  <2>1. 1 \in 1 .. Len(d)
    BY <1>2, LenProperties, EmptySeq DEF Sized
  <2> QED BY <2>1, StopInText
<1> QED BY <1>1, <1>2

\* Where a block begins is a matter of the blocks before it.
LEMMA SameStart ==
  ASSUME NEW d, Sized(d), NEW e, Sized(e), NEW i \in 1 .. Len(d), i \in 1 .. Len(e),
         \A j \in 1 .. i - 1 : d[j] = e[j]
  PROVE  Start(d, i) = Start(e, i)
<1> DEFINE T == {k \in Nat : Start(d, k + 1) = Start(e, k + 1)}
<1>0. Len(d) \in Nat /\ Len(e) \in Nat /\ i \in Nat /\ i - 1 \in Nat
  BY LenProperties DEF Sized
<1>1. 0 \in T
  BY StartMoves
<1>2. ASSUME NEW k \in 1 .. i - 1, k - 1 \in T
      PROVE  k \in T
  <2>1. k \in 1 .. Len(d) /\ k \in 1 .. Len(e) /\ k \in Nat /\ (k - 1) + 1 = k
    BY <1>0
  <2>2. /\ Start(d, k + 1) = Start(d, k) + Size[d[k]] + 1
        /\ Start(e, k + 1) = Start(e, k) + Size[e[k]] + 1
    BY <2>1, StartMoves
  <2>3. Start(d, k) = Start(e, k)
    BY <1>2, <2>1
  <2> QED BY <2>1, <2>2, <2>3
<1>3. \A k \in 0 .. i - 1 : k \in T
  <2> HIDE DEF T
  <2> QED BY <1>0, <1>1, <1>2, StepByStep
<1>4. i - 1 \in 0 .. i - 1 /\ (i - 1) + 1 = i
  BY <1>0
<1>5. i - 1 \in T
  BY <1>3, <1>4
<1> QED BY <1>4, <1>5

\* Every document has its sizes.
LEMMA DocsSized ==
  ASSUME NEW d \in Docs
  PROVE  Sized(d) /\ DOMAIN d = 1 .. Len(d) /\ Len(d) \in Nat
<1>1. Sized(d)
  BY TextsAssumption DEF Sized
<1> QED BY <1>1, LenProperties DEF Sized

\* What is typed in, or taken out, leaves the block where it was.
LEMMA WithInText ==
  ASSUME NEW d \in Docs, NEW i \in DOMAIN d, NEW t, With(d, i, t) \in Docs
  PROVE  /\ Start(d, i) \in Nat /\ Size[d[i]] \in Nat /\ Size[t] \in Nat
         /\ Start(d, i) + Size[t] <= BytesOf(With(d, i, t))
         /\ BytesOf(With(d, i, t)) \in Nat
<1> DEFINE e == With(d, i, t)
<1>1. /\ Sized(d) /\ DOMAIN d = 1 .. Len(d) /\ Len(d) \in Nat
      /\ Sized(e) /\ DOMAIN e = 1 .. Len(e) /\ Len(e) \in Nat
  BY DocsSized
<1>2. DOMAIN e = DOMAIN d /\ e[i] = t /\ \A j \in DOMAIN d : j # i => e[j] = d[j]
  BY DEF With
<1> HIDE DEF e
<1>3. i \in 1 .. Len(d) /\ i \in 1 .. Len(e)
  BY <1>1, <1>2
<1>4. \A j \in 1 .. i - 1 : d[j] = e[j]
  <2>1. \A j \in 1 .. i - 1 : j \in 1 .. Len(d) /\ j # i
    BY <1>1, <1>3
  <2> QED BY <1>1, <1>2, <2>1
<1>5. Start(d, i) = Start(e, i)
  BY <1>1, <1>3, <1>4, SameStart
<1>6. /\ Start(e, i) \in Nat /\ Size[e[i]] \in Nat /\ Stop(e, i) = Start(e, i) + Size[e[i]]
      /\ Stop(e, i) <= BytesOf(e) /\ BytesOf(e) \in Nat
  BY <1>1, <1>3, StopInText
<1>7. Size[d[i]] \in Nat
  BY <1>1, <1>3, StopInText
<1> QED BY <1>2, <1>5, <1>6, <1>7 DEF e

\* A block before the first moves the others by itself and a separator.
LEMMA BeforeInText ==
  ASSUME NEW d \in Docs, NEW t \in DOMAIN Size, <<t>> \o d \in Docs
  PROVE  /\ Size[t] \in Nat
         /\ Size[t] + (IF d = <<>> THEN 0 ELSE 1) <= BytesOf(<<t>> \o d)
<1> DEFINE e == <<t>> \o d
<1>1. /\ Sized(d) /\ Len(d) \in Nat /\ Sized(e) /\ DOMAIN e = 1 .. Len(e)
      /\ d \in Seq(DOMAIN Size) /\ <<t>> \in Seq(DOMAIN Size)
  <2>1. Sized(d) /\ Len(d) \in Nat /\ Sized(e) /\ DOMAIN e = 1 .. Len(e)
    BY DocsSized
  <2> HIDE DEF e
  <2>2. d \in Seq(DOMAIN Size) /\ <<t>> \in Seq(DOMAIN Size)
    BY TextsAssumption
  <2> QED BY <2>1, <2>2
<1>2. Len(e) = 1 + Len(d) /\ e[1] = t
  <2>1. Len(<<t>>) = 1 /\ <<t>>[1] = t
    OBVIOUS
  <2>2. /\ Len(e) = Len(<<t>>) + Len(d)
        /\ \A k \in 1 .. Len(<<t>>) + Len(d) : e[k] = IF k <= Len(<<t>>) THEN <<t>>[k]
                                                     ELSE d[k - Len(<<t>>)]
    BY <1>1, ConcatProperties
  <2>3. 1 \in 1 .. 1 + Len(d) /\ 1 <= 1
    BY <1>1
  <2> QED BY <2>1, <2>2, <2>3
<1> HIDE DEF e
<1>3. 1 \in 1 .. Len(e)
  BY <1>1, <1>2
<1>4. Start(e, 1) = 0 /\ (1 \in 1 .. Len(e) => Start(e, 1 + 1) = Start(e, 1) + Size[e[1]] + 1)
  BY <1>1, StartMoves
<1>5. /\ Size[e[1]] \in Nat /\ Stop(e, 1) = Start(e, 1) + Size[e[1]]
      /\ Stop(e, 1) <= BytesOf(e) /\ BytesOf(e) \in Nat
  BY <1>1, <1>3, StopInText
<1>6. CASE d = <<>>
  BY <1>2, <1>4, <1>5, <1>6 DEF e
<1>7. CASE d # <<>>
  <2>1. 2 \in 1 .. Len(e)
    BY <1>1, <1>2, <1>7, EmptySeq
  <2>2. /\ Start(e, 2) \in Nat /\ Size[e[2]] \in Nat
        /\ Stop(e, 2) = Start(e, 2) + Size[e[2]] /\ Stop(e, 2) <= BytesOf(e)
    BY <1>1, <2>1, StopInText
  <2>3. Start(e, 2) = Size[t] + 1
    BY <1>2, <1>3, <1>4, <1>5
  <2>4. Size[t] + 1 <= BytesOf(e) /\ Size[t] \in Nat
    BY <1>2, <1>5, <2>2, <2>3
  <2> QED BY <1>7, <2>4 DEF e
<1> QED BY <1>6, <1>7

\* A statement of a document is in it.
LEMMA AtInText ==
  ASSUME NEW d \in Docs, NEW texts, NEW at \in AtOf(d, texts)
  PROVE  at \in Nat /\ at <= BytesOf(d)
<1>1. PICK i \in DOMAIN d : at = Start(d, i)
  BY DEF AtOf
<1>2. Sized(d) /\ i \in 1 .. Len(d)
  BY DocsSized
<1>3. /\ Start(d, i) \in Nat /\ Stop(d, i) \in Nat /\ Size[d[i]] \in Nat
      /\ Stop(d, i) = Start(d, i) + Size[d[i]]
      /\ Stop(d, i) <= BytesOf(d) /\ BytesOf(d) \in Nat
  BY <1>2, StopInText
<1> QED BY <1>1, <1>3

-----------------------------------------------------------------------------
(* The index.                                                              *)

\* A block of the index for each of the document.
Indexed(b, d) ==
  /\ DOMAIN b = DOMAIN d /\ Len(b) = Len(d)
  /\ \A i \in DOMAIN d : b[i].start = Start(d, i) /\ b[i].stop = Stop(d, i) /\ b[i].hash = d[i]

\* update makes one, whatever the index was before.
LEMMA UpdateIndexes ==
  ASSUME NEW b, NEW d \in Docs
  PROVE  Indexed(Update(b, d), d)
<1>1. DOMAIN d = 1 .. Len(d) /\ Len(d) \in Nat
  BY DocsSized
<1>2. /\ DOMAIN Update(b, d) = DOMAIN d
      /\ \A i \in DOMAIN d : /\ Update(b, d)[i].start = Start(d, i)
                             /\ Update(b, d)[i].stop = Start(d, i) + Size[d[i]]
                             /\ Update(b, d)[i].hash = d[i]
  BY DEF Update, Block
<1>3. Len(Update(b, d)) = Len(d)
  <2> DEFINE u == Update(b, d)
  <2>1. DOMAIN u = 1 .. Len(d)
    BY <1>1, <1>2
  <2>2. \E f : u = [i \in 1 .. Len(d) |-> f[i]]
    <3>1. u = [i \in DOMAIN d |-> u[i]]
      BY DEF Update
    <3> HIDE DEF u
    <3> QED BY <1>1, <3>1
  <2> HIDE DEF u
  <2>3. u \in Seq({u[i] : i \in 1 .. Len(d)})
    <3>1. u \in [1 .. Len(d) -> {u[i] : i \in 1 .. Len(d)}]
      BY <2>1, <2>2
    <3> QED BY <1>1, <3>1, SeqDef
  <2>4. Len(u) \in Nat /\ DOMAIN u = 1 .. Len(u)
    BY <2>3, LenProperties
  <2>5. Len(u) = Len(d)
    BY <1>1, <2>1, <2>4
  <2> QED BY <2>5 DEF u
<1> QED BY <1>2, <1>3 DEF Indexed, Stop

\* An index of the same document keeps the ids as they are.
LEMMA UpdateKeepsIds ==
  ASSUME NEW d \in Docs, NEW b, Indexed(b, d), NEW i \in DOMAIN d
  PROVE  Update(b, d)[i].id = b[i].id
<1>1. Sized(d) /\ DOMAIN d = 1 .. Len(d) /\ Len(d) \in Nat
  BY DocsSized
<1>2. Kept(b, Start(d, i), d[i]) = {i}
  <2> DEFINE exact == {k \in DOMAIN b : b[k].start = Start(d, i) /\ b[k].hash = d[i]}
  <2>1. i \in exact
    BY DEF Indexed
  <2>2. ASSUME NEW k \in exact, k # i
        PROVE  FALSE
    <3>1. k \in 1 .. Len(d) /\ Start(d, k) = Start(d, i) /\ i \in 1 .. Len(d)
      BY <1>1 DEF Indexed
    <3>2. k \in 1 .. Len(d) + 1 /\ i \in 1 .. Len(d) + 1 /\ (k < i \/ i < k)
      BY <1>1, <2>2, <3>1
    <3>3. /\ Start(d, i) \in Nat /\ Size[d[i]] \in Nat /\ Stop(d, i) = Start(d, i) + Size[d[i]]
      BY <1>1, <3>1, StopInText
    <3>4. /\ Start(d, k) \in Nat /\ Size[d[k]] \in Nat /\ Stop(d, k) = Start(d, k) + Size[d[k]]
      BY <1>1, <3>1, StopInText
    <3>5. CASE k < i
      <4>1. Stop(d, k) < Start(d, i)
        BY <1>1, <3>1, <3>2, <3>5, StartsRise
      <4> QED BY <3>1, <3>3, <3>4, <4>1
    <3>6. CASE i < k
      <4>1. Stop(d, i) < Start(d, k)
        BY <1>1, <3>1, <3>2, <3>6, StartsRise
      <4> QED BY <3>1, <3>3, <3>4, <4>1
    <3> QED BY <3>2, <3>5, <3>6
  <2>3. exact = {i}
    BY <2>1, <2>2
  <2>4. Kept(b, Start(d, i), d[i]) = exact
    BY <2>1 DEF Kept
  <2> QED BY <2>3, <2>4
<1>3. Kept(b, Start(d, i), d[i]) # {}
      => Update(b, d)[i].id = KeptId(b, Start(d, i), d[i])
  BY DEF Update, Block
<1>4. (CHOOSE k \in {i} : \A j \in {i} : k <= j) = i
  <2>1. i <= i
    BY <1>1
  <2> QED BY <2>1
<1>5. KeptId(b, Start(d, i), d[i]) = b[i].id
  BY <1>2, <1>4 DEF KeptId
<1> QED BY <1>2, <1>3, <1>5

-----------------------------------------------------------------------------
(* The caret.                                                              *)

Known == doc \in Docs /\ rev \in Nat /\ misled \in BOOLEAN

Placed == ~ misled => caret \in Nat /\ caret <= BytesOf(doc)

\* The rows of an open menu are of this revision, or of an earlier one.
RowsKept ==
  menu.open => /\ menu.of[1] \in Nat /\ menu.of[1] <= rev
               /\ menu.of[1] = rev => menu.rows \subseteq AtOf(doc, Probs)

\* Since the first edit the index is of the document.
IndexKept == (rev = 0 /\ blocks = <<>>) \/ Indexed(blocks, doc)

CaretInv == Known /\ Placed /\ RowsKept /\ IndexKept

\* There is no index, no menu, and the caret is at the end.
LEMMA CaretStarts ==
  ASSUME Init
  PROVE  CaretInv
<1>1. doc \in Docs /\ rev = 0 /\ misled = FALSE /\ caret = BytesOf(doc) /\ blocks = <<>>
      /\ menu = Closed
  BY DEF Init
<1>2. BytesOf(doc) \in Nat
  BY <1>1, DocsSized, BytesIsNat
<1>3. Known /\ IndexKept
  BY <1>1 DEF Known, IndexKept
<1>4. Placed
  BY <1>1, <1>2 DEF Placed
<1>5. RowsKept
  BY <1>1 DEF RowsKept, Closed
<1> QED BY <1>3, <1>4, <1>5 DEF CaretInv

\* What leaves the document, the index and the menu as they are, and keeps the
\* caret where the text is.
LEMMA MovedInText ==
  ASSUME CaretInv, UNCHANGED <<doc, rev, blocks>>, UNCHANGED menu \/ ~ menu'.open,
         misled' \in BOOLEAN, Placed'
  PROVE  CaretInv'
<1>1. Known'
  BY DEF CaretInv, Known
<1>2. RowsKept'
  BY DEF CaretInv, RowsKept
<1>3. IndexKept'
  BY DEF CaretInv, IndexKept
<1> QED BY <1>1, <1>2, <1>3 DEF CaretInv

\* An edit makes the rows of the menu old, and the index anew.
LEMMA EditedInText ==
  ASSUME CaretInv, NEW b, doc' \in Docs, rev' \in {rev + 1, rev + 2}, blocks' = Update(b, doc'),
         UNCHANGED <<menu, misled>>, caret' \in Nat, caret' <= BytesOf(doc')
  PROVE  CaretInv'
<1>1. rev \in Nat /\ rev' \in Nat /\ rev' > rev
  BY DEF CaretInv, Known
<1>2. Known'
  BY <1>1 DEF CaretInv, Known
<1>3. RowsKept'
  <2> SUFFICES ASSUME menu.open
               PROVE  menu.of[1] \in Nat /\ menu.of[1] <= rev' /\ menu.of[1] # rev'
    BY DEF RowsKept
  <2>1. menu.of[1] \in Nat /\ menu.of[1] <= rev
    BY DEF CaretInv, RowsKept
  <2> QED BY <1>1, <2>1
<1>4. IndexKept'
  <2>1. Indexed(blocks', doc')
    BY UpdateIndexes
  <2> QED BY <2>1 DEF IndexKept
<1>5. Placed'
  BY DEF Placed
<1> QED BY <1>2, <1>3, <1>4, <1>5 DEF CaretInv

\* Typing, inside of a block or before the first.
LEMMA InsertInText ==
  ASSUME CaretInv, Insert
  PROVE  CaretInv'
<1>0. doc \in Docs /\ menu' = menu /\ misled' = misled /\ caret <= BytesOf(doc)
  BY DEF CaretInv, Known, Insert, Edited, uiVars, InText
<1>1. CASE \E i \in DOMAIN doc, g \in Grows :
             /\ doc[i] = g[1] /\ caret = Start(doc, i) + g[3]
             /\ With(doc, i, g[2]) \in Docs /\ Edited(With(doc, i, g[2]))
             /\ caret' = caret + Size[g[2]] - Size[g[1]]
  <2>1. PICK i \in DOMAIN doc, g \in Grows :
             /\ doc[i] = g[1] /\ caret = Start(doc, i) + g[3]
             /\ With(doc, i, g[2]) \in Docs /\ Edited(With(doc, i, g[2]))
             /\ caret' = caret + Size[g[2]] - Size[g[1]]
    BY <1>1
  <2>2. doc' = With(doc, i, g[2]) /\ rev' = rev + 1 /\ blocks' = Update(blocks, doc')
    BY <2>1 DEF Edited
  <2>3. /\ Start(doc, i) \in Nat /\ Size[g[1]] \in Nat /\ Size[g[2]] \in Nat
        /\ Start(doc, i) + Size[g[2]] <= BytesOf(doc') /\ BytesOf(doc') \in Nat
    BY <1>0, <2>1, <2>2, WithInText
  <2>4. Size[g[1]] < Size[g[2]] /\ g[3] \in 0 .. Size[g[1]]
    BY TextsAssumption
  <2>5. caret' \in Nat /\ caret' <= BytesOf(doc')
    BY <2>1, <2>3, <2>4
  <2> QED BY <1>0, <2>1, <2>2, <2>5, EditedInText
<1>2. CASE \E t \in DOMAIN Size :
             /\ caret = 0 /\ <<t>> \o doc \in Docs /\ Edited(<<t>> \o doc)
             /\ caret' = Size[t] + IF doc = <<>> THEN 0 ELSE 1
  <2>1. PICK t \in DOMAIN Size :
             /\ caret = 0 /\ <<t>> \o doc \in Docs /\ Edited(<<t>> \o doc)
             /\ caret' = Size[t] + IF doc = <<>> THEN 0 ELSE 1
    BY <1>2
  <2>2. doc' = <<t>> \o doc /\ rev' = rev + 1 /\ blocks' = Update(blocks, doc')
    BY <2>1 DEF Edited
  <2>3. Size[t] \in Nat /\ caret' <= BytesOf(doc')
    BY <1>0, <2>1, <2>2, BeforeInText
  <2>4. caret' \in Nat
    BY <2>1, <2>3
  <2>5. doc' \in Docs
    BY <2>1, <2>2
  <2> QED BY <1>0, <2>2, <2>3, <2>4, <2>5, EditedInText
<1> QED BY <1>1, <1>2 DEF Insert

\* Deleting, of all or of what is beside the caret.
LEMMA DeleteInText ==
  ASSUME CaretInv, Delete
  PROVE  CaretInv'
<1>0. doc \in Docs /\ menu' = menu /\ misled' = misled
  BY DEF CaretInv, Known, Delete, Edited, uiVars
<1>1. CASE all
  <2>1. <<>> \in Docs /\ Edited(<<>>) /\ caret' = AfterSelection
    BY <1>1 DEF Delete
  <2>2. doc' = <<>> /\ rev' = rev + 1 /\ blocks' = Update(blocks, doc')
    BY <2>1 DEF Edited
  <2>3. caret' = 0 /\ BytesOf(doc') = 0 /\ doc' \in Docs
    BY <2>1, <2>2 DEF AfterSelection, BytesOf
  <2> QED BY <1>0, <2>2, <2>3, EditedInText
<1>2. CASE ~ all
  <2>1. PICK i \in DOMAIN doc, g \in Grows :
             /\ With(doc, i, g[1]) \in Docs /\ Edited(With(doc, i, g[1]))
             /\ caret' = Start(doc, i) + g[3]
    BY <1>2 DEF Delete
  <2>2. /\ doc' = With(doc, i, g[1]) /\ rev' = rev + 1 /\ blocks' = Update(blocks, doc')
        /\ doc' \in Docs
    BY <2>1 DEF Edited
  <2>3. /\ Start(doc, i) \in Nat /\ Size[g[1]] \in Nat
        /\ Start(doc, i) + Size[g[1]] <= BytesOf(doc') /\ BytesOf(doc') \in Nat
    BY <1>0, <2>1, <2>2, WithInText
  <2>4. g[3] \in 0 .. Size[g[1]]
    BY TextsAssumption
  <2>5. caret' \in Nat /\ caret' <= BytesOf(doc')
    BY <2>1, <2>3, <2>4
  <2> QED BY <1>0, <2>2, <2>5, EditedInText
<1> QED BY <1>1, <1>2

\* Typing over all that there is.
LEMMA ReplaceInText ==
  ASSUME CaretInv, Replace
  PROVE  CaretInv'
<1>1. PICK t \in DOMAIN Size : <<t>> \in Docs /\ doc' = <<t>> /\ caret' = AfterSelection + Size[t]
  BY DEF Replace
<1>2. /\ rev' = rev + 2 /\ blocks' = Update(Update(blocks, <<>>), doc')
      /\ menu' = menu /\ misled' = misled /\ doc' \in Docs
  BY <1>1 DEF Replace, uiVars
<1>3. /\ Sized(doc') /\ 1 \in 1 .. Len(doc') /\ doc'[1] = t
  BY <1>1, <1>2, DocsSized
<1>4. Start(doc', 1) = 0
  BY <1>3, StartMoves
<1>5. /\ Size[t] \in Nat /\ Stop(doc', 1) = Start(doc', 1) + Size[t]
      /\ Stop(doc', 1) <= BytesOf(doc')
  BY <1>3, StopInText
<1>6. caret' \in Nat /\ caret' <= BytesOf(doc')
  BY <1>1, <1>4, <1>5 DEF AfterSelection
<1> QED BY <1>2, <1>6, EditedInText

\* A glyph of a layout that is of its block is in the text.
LEMMA HitsInText ==
  ASSUME CaretInv, NEW id, IsCurrent(id), NEW to \in Hits(layouts[id])
  PROVE  to \in Nat /\ to <= BytesOf(doc)
<1>0. Sized(doc) /\ DOMAIN doc = 1 .. Len(doc) /\ Len(doc) \in Nat
  BY DocsSized DEF CaretInv, Known
<1>1. PICK i \in DOMAIN blocks : /\ layouts[id].at = blocks[i].start
                                /\ layouts[id].key.text = blocks[i].hash
  BY DEF IsCurrent, Range
<1>2. Indexed(blocks, doc)
  BY <1>1 DEF CaretInv, IndexKept
<1>3. i \in 1 .. Len(doc) /\ layouts[id].at = Start(doc, i) /\ layouts[id].key.text = doc[i]
  BY <1>0, <1>1, <1>2 DEF Indexed
<1>4. /\ Start(doc, i) \in Nat /\ Size[doc[i]] \in Nat
      /\ Stop(doc, i) = Start(doc, i) + Size[doc[i]]
      /\ Stop(doc, i) <= BytesOf(doc) /\ BytesOf(doc) \in Nat
  BY <1>0, <1>3, StopInText
<1>5. PICK byte \in Start(doc, i) .. Start(doc, i) + Size[doc[i]] - 1, after \in BOOLEAN :
        to = Resolved(byte, after)
  <2> DEFINE text == layouts[id].key.text
             bytes == IF text \in Hidden /\ layouts[id].key.reveal = {} THEN {}
                      ELSE layouts[id].at .. layouts[id].at + Size[text] - 1
  <2>1. to \in {Resolved(b, after) : b \in bytes, after \in BOOLEAN}
    BY DEF Hits
  <2>2. bytes \subseteq Start(doc, i) .. Start(doc, i) + Size[doc[i]] - 1
    BY <1>3
  <2> HIDE DEF bytes
  <2> QED BY <2>1, <2>2
<1>6. byte \in Nat /\ byte < BytesOf(doc)
  BY <1>4, <1>5
<1>7. to = byte \/ to = byte + 1
  BY <1>5 DEF Resolved
<1> QED BY <1>4, <1>6, <1>7

\* So is a row of a menu of this revision, whatever was typed under an older one.
LEMMA JumpInText ==
  ASSUME CaretInv, Jump
  PROVE  CaretInv'
<1>1. PICK row \in menu.rows : Moved(row)
  BY DEF Jump
<1>2. caret' = row /\ UNCHANGED <<doc, rev, blocks>>
  BY <1>1 DEF Moved, docVars
<1>3. menu.open /\ ~ menu'.open /\ misled' = (misled \/ menu.of[1] # rev)
  BY DEF Jump, Closed
<1>4. Placed'
  <2> SUFFICES ASSUME ~ misled'
               PROVE  caret' \in Nat /\ caret' <= BytesOf(doc')
    BY DEF Placed
  <2>1. row \in AtOf(doc, Probs) /\ doc \in Docs
    BY <1>3 DEF CaretInv, RowsKept, Known
  <2>2. row \in Nat /\ row <= BytesOf(doc)
    BY <2>1, AtInText
  <2> QED BY <1>2, <2>2
<1>5. misled' \in BOOLEAN
  BY <1>3
<1> QED BY <1>2, <1>3, <1>4, <1>5, MovedInText

\* A caret that moves stays in the text: by a byte, by a line, to a segment, to
\* the end, or by the glyphs of a layout that is of its block.
LEMMA MovesInText ==
  ASSUME CaretInv, MoveLeft \/ MoveRight \/ SelectAll \/ GoToSegment \/ MoveByText
  PROVE  CaretInv'
<1>0. doc \in Docs /\ UNCHANGED <<doc, rev, blocks, menu, misled>>
  BY DEF CaretInv, Known, MoveLeft, MoveRight, SelectAll, GoToSegment, MoveByText, Moved,
         docVars, uiVars
<1>1. /\ BytesOf(doc) \in Nat /\ Sized(doc) /\ DOMAIN doc = 1 .. Len(doc)
  BY <1>0, DocsSized, BytesIsNat
<1>2. ~ misled => caret \in Nat /\ caret <= BytesOf(doc)
  BY DEF CaretInv, Placed
<1>3. ASSUME ~ misled
      PROVE  caret' \in Nat /\ caret' <= BytesOf(doc)
  <2>1. CASE MoveLeft
    <3>1. caret' = IF caret > 0 THEN caret - 1 ELSE 0
      BY <2>1 DEF MoveLeft, Moved
    <3> QED BY <1>1, <1>2, <1>3, <3>1
  <2>2. CASE MoveRight
    <3>1. caret' = IF caret < BytesOf(doc) THEN caret + 1 ELSE caret
      BY <2>2 DEF MoveRight, Moved
    <3> QED BY <1>1, <1>2, <1>3, <3>1
  <2>3. CASE SelectAll
    <3>1. caret' = BytesOf(doc)
      BY <2>3 DEF SelectAll
    <3> QED BY <1>1, <3>1
  <2>4. CASE GoToSegment
    <3>1. PICK at \in UNION {AtOf(d, Probs) : d \in Docs} : caret' = Least(at, BytesOf(doc))
      BY <2>4 DEF GoToSegment
    <3>2. PICK d \in Docs : at \in AtOf(d, Probs)
      BY <3>1
    <3>3. at \in Nat
      BY <3>2, AtInText
    <3> QED BY <1>1, <3>1, <3>3 DEF Least
  <2>5. CASE MoveByText
    <3>1. PICK i \in DOMAIN doc : caret' \in {Start(doc, i), Stop(doc, i)}
      BY <2>5 DEF MoveByText, Moved
    <3>2. /\ Start(doc, i) \in Nat /\ Stop(doc, i) \in Nat /\ Size[doc[i]] \in Nat
          /\ Stop(doc, i) = Start(doc, i) + Size[doc[i]] /\ Stop(doc, i) <= BytesOf(doc)
      BY <1>1, StopInText
    <3> QED BY <1>1, <3>1, <3>2
  <2> QED BY <2>1, <2>2, <2>3, <2>4, <2>5
<1>4. Placed'
  BY <1>0, <1>3 DEF Placed
<1>5. misled' \in BOOLEAN
  BY <1>0 DEF CaretInv, Known
<1> QED BY <1>0, <1>4, <1>5, MovedInText

\* A click, Home and End, Up and Down.
LEMMA MoveByGlyphInText ==
  ASSUME CaretInv, MoveByGlyph
  PROVE  CaretInv'
<1>1. PICK id : \E to \in Hits(layouts[id]) :
        Moved(to) /\ misled' = (misled \/ ~ IsCurrent(id)) /\ UNCHANGED menu
  BY DEF MoveByGlyph
<1>2. PICK to \in Hits(layouts[id]) :
        Moved(to) /\ misled' = (misled \/ ~ IsCurrent(id)) /\ UNCHANGED menu
  BY <1>1
<1>3. caret' = to /\ UNCHANGED <<doc, rev, blocks>>
  BY <1>2 DEF Moved, docVars
<1>4. Placed'
  <2> SUFFICES ASSUME ~ misled'
               PROVE  caret' \in Nat /\ caret' <= BytesOf(doc')
    BY DEF Placed
  <2>1. IsCurrent(id)
    BY <1>2
  <2>2. to \in Nat /\ to <= BytesOf(doc)
    BY <1>2, <2>1, HitsInText
  <2> QED BY <1>3, <2>2
<1>5. misled' \in BOOLEAN
  BY <1>2
<1> QED BY <1>2, <1>3, <1>4, <1>5, MovedInText

\* The media menu, opened, closed, or made anew when a result comes.
LEMMA MenuInText ==
  ASSUME CaretInv, UNCHANGED <<doc, rev, blocks, caret, misled>>,
         \/ UNCHANGED menu \/ ~ menu'.open
         \/ menu'.of[1] = rev /\ menu'.rows \subseteq AtOf(doc, Probs)
  PROVE  CaretInv'
<1>1. Known' /\ Placed' /\ IndexKept'
  BY DEF CaretInv, Known, Placed, IndexKept
<1>2. RowsKept'
  <2>1. rev \in Nat
    BY DEF CaretInv, Known
  <2> QED BY <2>1 DEF CaretInv, RowsKept
<1> QED BY <1>1, <1>2 DEF CaretInv

\* What the kernel answers moves the menu at most.
LEMMA RepliesInText ==
  ASSUME CaretInv, Answer \/ Expire
  PROVE  CaretInv'
<1>1. UNCHANGED <<doc, rev, blocks, caret, misled>>
  BY DEF Answer, Expire, Reply, docVars, caretVars
<1>2. \/ UNCHANGED menu
      \/ menu'.of[1] = rev /\ menu'.rows \subseteq AtOf(doc, Probs)
  <2>1. Noticed \/ Unnoticed
    BY DEF Answer, Expire
  <2>2. CASE Noticed
    <3>1. CASE menu.open
      <4>1. menu' = [open |-> TRUE, of |-> <<rev, ver'>>,
                     rows |-> DOMAIN notes' \cap AtOf(doc, Probs)]
        BY <2>2, <3>1 DEF Noticed
      <4> QED BY <4>1
    <3>2. CASE ~ menu.open
      BY <2>2, <3>2 DEF Noticed
    <3> QED BY <3>1, <3>2
  <2>3. CASE Unnoticed
    BY <2>3 DEF Unnoticed
  <2> QED BY <2>1, <2>2, <2>3
<1> QED BY <1>1, <1>2, MenuInText

\* The panel makes the index that there was not, or the one there is.
LEMMA PanelInText ==
  ASSUME CaretInv, TogglePanel
  PROVE  CaretInv'
<1>1. UNCHANGED <<doc, rev, caret, misled, menu>> /\ doc \in Docs
  BY DEF TogglePanel, caretVars, CaretInv, Known
<1>2. blocks' = blocks \/ blocks' = Update(blocks, doc)
  BY DEF TogglePanel
<1>3. IndexKept'
  BY <1>1, <1>2, UpdateIndexes DEF CaretInv, IndexKept
<1>4. Known' /\ Placed' /\ RowsKept'
  BY <1>1 DEF CaretInv, Known, Placed, RowsKept
<1> QED BY <1>3, <1>4 DEF CaretInv

\* Every step keeps the caret where the text is.
LEMMA CaretKept ==
  ASSUME CaretInv, [Next]_vars
  PROVE  CaretInv'
<1>1. CASE Redraw
  BY <1>1, MenuInText DEF Redraw, docVars, caretVars, uiVars
<1>2. CASE Insert
  BY <1>2, InsertInText
<1>3. CASE Delete
  BY <1>3, DeleteInText
<1>4. CASE Replace
  BY <1>4, ReplaceInText
<1>5. CASE MoveLeft \/ MoveRight \/ SelectAll \/ GoToSegment \/ MoveByText
  BY <1>5, MovesInText
<1>6. CASE MoveByGlyph
  BY <1>6, MoveByGlyphInText
<1>7. CASE OpenMenu
  <2>1. menu'.of[1] = rev /\ menu'.rows \subseteq AtOf(doc, Probs)
    BY <1>7 DEF OpenMenu, Rows
  <2> QED BY <1>7, <2>1, MenuInText DEF OpenMenu, docVars, caretVars
<1>8. CASE Jump
  BY <1>8, JumpInText
<1>9. CASE CloseMenu
  <2>1. ~ menu'.open
    BY <1>9 DEF CloseMenu, Closed
  <2> QED BY <1>9, <2>1, MenuInText DEF CloseMenu, docVars, caretVars
<1>10. CASE TogglePanel
  BY <1>10, PanelInText
<1>11. CASE \E w \in Widths \ {width} : Resize(w)
  BY <1>11, MenuInText DEF Resize, docVars, caretVars
<1>12. CASE Run \/ ClearOutputs
  BY <1>12, MenuInText DEF Run, ClearOutputs, docVars, caretVars, uiVars
<1>13. CASE Answer \/ Expire
  BY <1>13, RepliesInText
<1>14. CASE UNCHANGED vars
  BY <1>14, MenuInText DEF vars, docVars, caretVars, uiVars
<1> QED BY <1>1, <1>2, <1>3, <1>4, <1>5, <1>6, <1>7, <1>8, <1>9, <1>10, <1>11, <1>12, <1>13,
           <1>14 DEF Next

\* The caret is in the text, whatever is typed, deleted, selected or jumped to,
\* unless a layout or a menu row of an earlier document put it elsewhere.
THEOREM CaretStaysInText == Spec => []CaretInText
<1>1. CaretInv => CaretInText
  <2> SUFFICES ASSUME CaretInv, ~ misled
               PROVE  ~ (caret > BytesOf(doc))
    BY DEF CaretInText, CaretInv, Known
  <2>1. caret \in Nat /\ caret <= BytesOf(doc) /\ BytesOf(doc) \in Nat
    BY DocsSized, BytesIsNat DEF CaretInv, Placed, Known
  <2> QED BY <2>1
<1> QED BY <1>1, CaretStarts, CaretKept, PTL DEF Spec

-----------------------------------------------------------------------------
(* The layout pass and the output regions, block after block.              *)

\* A layout pass ends with what its last step made.
LEMMA LaidSteps ==
  ASSUME NEW spans, NEW noted, Len(blocks) \in Nat
  PROVE  \E g : /\ LaidOut(spans, noted) = Live(g[Len(blocks)])
               /\ \A k \in 1 .. Len(blocks) : g[k] = Laid(g[k - 1], k, spans, noted)
<1> DEFINE n == Len(blocks)
           body(h) == [k \in 0 .. n |->
                         IF k = 0 THEN layouts ELSE Laid(h[k - 1], k, spans, noted)]
           g == CHOOSE h : h = body(h)
           Runs(f, m) ==
             \A k \in 0 .. m : f[k] = IF k = 0 THEN layouts ELSE Laid(f[k - 1], k, spans, noted)
           T == {m \in Nat : \E f : Runs(f, m)}
<1>1. LaidOut(spans, noted) = Live(g[n])
  BY DEF LaidOut
<1>2. n \in Nat
  OBVIOUS
<1> HIDE DEF n
<1>3. 0 \in T
  <2> DEFINE f == [k \in {0} |-> layouts]
  <2>1. Runs(f, 0)
    OBVIOUS
  <2> HIDE DEF f, Runs
  <2> QED BY <2>1
<1>4. ASSUME NEW m \in 1 .. n, m - 1 \in T
      PROVE  m \in T
  <2>1. PICK f : Runs(f, m - 1)
    BY <1>4
  <2> DEFINE h == [k \in 0 .. m |-> IF k = m THEN Laid(f[m - 1], m, spans, noted) ELSE f[k]]
  <2>2. Runs(h, m)
    <3> SUFFICES ASSUME NEW k \in 0 .. m
                 PROVE  h[k] = IF k = 0 THEN layouts ELSE Laid(h[k - 1], k, spans, noted)
      OBVIOUS
    <3>1. CASE k = m
      <4>1. k # 0 /\ k - 1 \in 0 .. m /\ k - 1 # m
        BY <1>2, <3>1
      <4>2. h[k] = Laid(f[m - 1], m, spans, noted) /\ h[k - 1] = f[k - 1]
        BY <3>1, <4>1
      <4> QED BY <3>1, <4>1, <4>2
    <3>2. CASE k # m
      <4>1. k \in 0 .. m - 1 /\ (k # 0 => k - 1 \in 0 .. m /\ k - 1 # m)
        BY <1>2, <3>2
      <4>2. h[k] = f[k] /\ (k # 0 => h[k - 1] = f[k - 1])
        BY <3>2, <4>1
      <4>3. f[k] = IF k = 0 THEN layouts ELSE Laid(f[k - 1], k, spans, noted)
        BY <2>1, <4>1
      <4> QED BY <4>2, <4>3
    <3> QED BY <3>1, <3>2
  <2>3. m \in Nat
    BY <1>2
  <2> HIDE DEF h, Runs
  <2> QED BY <2>2, <2>3
<1>5. PICK f : Runs(f, n)
  <2>1. \A m \in 0 .. n : m \in T
    <3> HIDE DEF T
    <3> QED BY <1>2, <1>3, <1>4, StepByStep
  <2>2. n \in 0 .. n
    BY <1>2
  <2>3. n \in T
    BY <2>1, <2>2
  <2> HIDE DEF Runs
  <2> QED BY <2>3
<1> DEFINE F == [k \in 0 .. n |-> f[k]]
<1>6. F = body(F)
  <2>1. ASSUME NEW k \in 0 .. n
        PROVE  F[k] = IF k = 0 THEN layouts ELSE Laid(F[k - 1], k, spans, noted)
    <3>1. f[k] = IF k = 0 THEN layouts ELSE Laid(f[k - 1], k, spans, noted)
      BY <1>5
    <3>2. F[k] = f[k] /\ (k # 0 => F[k - 1] = f[k - 1])
      <4>1. k # 0 => k - 1 \in 0 .. n
        BY <1>2
      <4> QED BY <4>1
    <3> QED BY <3>1, <3>2
  <2> QED BY <2>1
<1>7. g = body(g)
  <2> HIDE DEF F
  <2> QED BY <1>6
<1> HIDE DEF g
<1>8. ASSUME NEW k \in 1 .. n
      PROVE  g[k] = Laid(g[k - 1], k, spans, noted)
  <2>1. k \in 0 .. n /\ k # 0
    BY <1>2
  <2>2. g[k] = body(g)[k]
    BY <1>7
  <2> QED BY <2>1, <2>2
<1> HIDE DEF body
<1> QED BY <1>1, <1>8 DEF n

\* So do the regions.
LEMMA RegionSteps ==
  ASSUME Len(blocks) \in Nat, ~ RegionsFresh
  PROVE  \E g : /\ Regions = Live(g[Len(blocks)]) /\ g[0] = regions
               /\ \A k \in 1 .. Len(blocks) : g[k] = Regioned(g[k - 1], k)
<1> DEFINE n == Len(blocks)
           body(h) == [k \in 0 .. n |-> IF k = 0 THEN regions ELSE Regioned(h[k - 1], k)]
           g == CHOOSE h : h = body(h)
           Runs(f, m) == \A k \in 0 .. m : f[k] = IF k = 0 THEN regions ELSE Regioned(f[k - 1], k)
           T == {m \in Nat : \E f : Runs(f, m)}
<1>1. Regions = Live(g[n])
  BY DEF Regions
<1>2. n \in Nat
  OBVIOUS
<1> HIDE DEF n
<1>3. 0 \in T
  <2> DEFINE f == [k \in {0} |-> regions]
  <2>1. Runs(f, 0)
    OBVIOUS
  <2> HIDE DEF f, Runs
  <2> QED BY <2>1
<1>4. ASSUME NEW m \in 1 .. n, m - 1 \in T
      PROVE  m \in T
  <2>1. PICK f : Runs(f, m - 1)
    BY <1>4
  <2> DEFINE h == [k \in 0 .. m |-> IF k = m THEN Regioned(f[m - 1], m) ELSE f[k]]
  <2>2. Runs(h, m)
    <3> SUFFICES ASSUME NEW k \in 0 .. m
                 PROVE  h[k] = IF k = 0 THEN regions ELSE Regioned(h[k - 1], k)
      OBVIOUS
    <3>1. CASE k = m
      <4>1. k # 0 /\ k - 1 \in 0 .. m /\ k - 1 # m
        BY <1>2, <3>1
      <4>2. h[k] = Regioned(f[m - 1], m) /\ h[k - 1] = f[k - 1]
        BY <3>1, <4>1
      <4> QED BY <3>1, <4>1, <4>2
    <3>2. CASE k # m
      <4>1. k \in 0 .. m - 1 /\ (k # 0 => k - 1 \in 0 .. m /\ k - 1 # m)
        BY <1>2, <3>2
      <4>2. h[k] = f[k] /\ (k # 0 => h[k - 1] = f[k - 1])
        BY <3>2, <4>1
      <4>3. f[k] = IF k = 0 THEN regions ELSE Regioned(f[k - 1], k)
        BY <2>1, <4>1
      <4> QED BY <4>2, <4>3
    <3> QED BY <3>1, <3>2
  <2>3. m \in Nat
    BY <1>2
  <2> HIDE DEF h, Runs
  <2> QED BY <2>2, <2>3
<1>5. PICK f : Runs(f, n)
  <2>1. \A m \in 0 .. n : m \in T
    <3> HIDE DEF T
    <3> QED BY <1>2, <1>3, <1>4, StepByStep
  <2>2. n \in 0 .. n
    BY <1>2
  <2>3. n \in T
    BY <2>1, <2>2
  <2> HIDE DEF Runs
  <2> QED BY <2>3
<1> DEFINE F == [k \in 0 .. n |-> f[k]]
<1>6. F = body(F)
  <2>1. ASSUME NEW k \in 0 .. n
        PROVE  F[k] = IF k = 0 THEN regions ELSE Regioned(F[k - 1], k)
    <3>1. f[k] = IF k = 0 THEN regions ELSE Regioned(f[k - 1], k)
      BY <1>5
    <3>2. F[k] = f[k] /\ (k # 0 => F[k - 1] = f[k - 1])
      <4>1. k # 0 => k - 1 \in 0 .. n
        BY <1>2
      <4> QED BY <4>1
    <3> QED BY <3>1, <3>2
  <2> QED BY <2>1
<1>7. g = body(g)
  <2> HIDE DEF F
  <2> QED BY <1>6
<1> HIDE DEF g
<1>8. ASSUME NEW k \in 0 .. n
      PROVE  g[k] = IF k = 0 THEN regions ELSE Regioned(g[k - 1], k)
  <2>1. g[k] = body(g)[k]
    BY <1>7
  <2> QED BY <2>1
<1> HIDE DEF body
<1>9. g[0] = regions /\ \A k \in 1 .. n : g[k] = Regioned(g[k - 1], k)
  <2>1. 0 \in 0 .. n /\ \A k \in 1 .. n : k \in 0 .. n /\ k # 0
    BY <1>2
  <2> QED BY <1>8, <2>1
<1> QED BY <1>1, <1>9 DEF n

\* A pass leaves a block that is alone with its id, and compiles, the layout of
\* what there is to see of it; what the blocks after it do to others is no matter.
LEMMA LaidOutFits ==
  ASSUME NEW spans, NEW noted, Len(blocks) \in Nat, DOMAIN blocks = 1 .. Len(blocks),
         NEW i \in DOMAIN blocks, Alone(i), doc[i] \notin Broken
  PROVE  /\ blocks[i].id \in DOMAIN LaidOut(spans, noted)
         /\ LaidOut(spans, noted)[blocks[i].id].key = LayoutKey(i, spans, noted, width)
<1> DEFINE n == Len(blocks)
           id == blocks[i].id
           key == LayoutKey(i, spans, noted, width)
           Has(f) == id \in DOMAIN f /\ f[id].key = key
<1>1. PICK g : /\ LaidOut(spans, noted) = Live(g[n])
               /\ \A k \in 1 .. n : g[k] = Laid(g[k - 1], k, spans, noted)
  BY LaidSteps
<1>2. n \in Nat /\ i \in 1 .. n
  OBVIOUS
<1>3. Has(g[i])
  <2>1. g[i] = Laid(g[i - 1], i, spans, noted)
    BY <1>1, <1>2
  <2>2. CASE id \in DOMAIN g[i - 1] /\ g[i - 1][id].key = key
    BY <2>1, <2>2 DEF Laid
  <2>3. CASE ~ (id \in DOMAIN g[i - 1] /\ g[i - 1][id].key = key)
    <3>1. g[i] = Put(g[i - 1], id, Layout(i, key))
      BY <2>1, <2>3 DEF Laid
    <3> HIDE DEF id, key
    <3> QED BY <3>1 DEF Put, Layout
  <2> QED BY <2>2, <2>3
<1> DEFINE T == {k \in Nat : i <= k => Has(g[k])}
<1>4. ASSUME NEW k \in 1 .. n, k - 1 \in T
      PROVE  k \in T
  <2>1. k \in Nat /\ (i <= k => k = i \/ (i <= k - 1 /\ k # i))
    BY <1>2
  <2>2. CASE k = i
    <3> HIDE DEF Has
    <3> QED BY <1>3, <2>1, <2>2
  <2>3. CASE i <= k - 1 /\ k # i
    <3>1. Has(g[k - 1])
      BY <1>4, <2>3
    <3>2. blocks[k].id # id
      BY <1>2, <2>3 DEF Alone
    <3>3. g[k] = Laid(g[k - 1], k, spans, noted)
      BY <1>1
    <3>4. g[k] = g[k - 1] \/ \E entry : g[k] = Put(g[k - 1], blocks[k].id, entry)
      BY <3>3 DEF Laid
    <3>5. Has(g[k])
      <4> HIDE DEF id, key
      <4> QED BY <3>1, <3>2, <3>4 DEF Put
    <3> HIDE DEF Has
    <3> QED BY <2>1, <3>5
  <2>4. CASE ~ (i <= k)
    BY <2>1, <2>4
  <2> QED BY <2>1, <2>2, <2>3, <2>4
<1>5. 0 \in T
  <2>1. 0 \in Nat /\ ~ (i <= 0)
    BY <1>2
  <2> QED BY <2>1
<1>6. Has(g[n])
  <2>1. \A k \in 0 .. n : k \in T
    <3> HIDE DEF T, n
    <3> QED BY <1>2, <1>4, <1>5, StepByStep
  <2>2. n \in 0 .. n /\ i <= n
    BY <1>2
  <2>3. n \in T
    BY <2>1, <2>2
  <2> HIDE DEF Has, n
  <2> QED BY <2>2, <2>3
<1>7. id \in IdsOf(blocks)
  BY DEF IdsOf
<1> HIDE DEF id, key
<1>8. Has(Live(g[n]))
  BY <1>6, <1>7 DEF Live, Only
<1> QED BY <1>1, <1>8 DEF id, key

\* No region is kept of nothing.
Real(f) ==
  \A x \in DOMAIN f : /\ (f[x].outs # Empty \/ f[x].stale)
                       /\ f[x].outs = [y \in DOMAIN f[x].outs |-> f[x].outs[y]]

\* A region of the results of block i at a width.
RegionOf(i, w) == [outs |-> Outputs(i), stale |-> Stale(i), width |-> w]

\* One that cannot be told from it by its key.

Shows(f, i, w) ==
  IF Outputs(i) = Empty /\ ~ Stale(i) THEN blocks[i].id \notin DOMAIN f
  ELSE blocks[i].id \in DOMAIN f /\ RegionKey(f[blocks[i].id]) = RegionKey(RegionOf(i, w))

\* The key has the fingerprint of each result: it tells results from none.
LEMMA KeyTellsNone ==
  ASSUME NEW r, NEW q, RegionKey(r) = RegionKey(q), r.outs # Empty \/ r.stale,
         \E S : r.outs = [x \in S |-> r.outs[x]]
  PROVE  q.outs # Empty \/ q.stale
<1>1. Fingerprints(r.outs) = Fingerprints(q.outs) /\ r.stale = q.stale
  BY DEF RegionKey
<1>2. DOMAIN r.outs = DOMAIN q.outs
  BY <1>1 DEF Fingerprints
<1>3. CASE q.outs = Empty /\ ~ q.stale
  <2>1. DOMAIN r.outs = {}
    BY <1>2, <1>3 DEF Empty
  <2>2. r.outs # Empty
    BY <1>1, <1>3
  <2>3. r.outs = Empty
    BY <2>1 DEF Empty
  <2> QED BY <2>2, <2>3
<1> QED BY <1>3

\* The two differ in nothing but id.
AlikeBut(id, f, g) ==
  \A x : x # id => /\ x \in DOMAIN f <=> x \in DOMAIN g
                   /\ x \in DOMAIN f => f[x] = g[x]

\* One more block, and what it does to the regions.
LEMMA RegionedReal ==
  ASSUME NEW kept, Real(kept), NEW k
  PROVE  /\ Real(Regioned(kept, k)) /\ Shows(Regioned(kept, k), k, width)
         /\ AlikeBut(blocks[k].id, Regioned(kept, k), kept)
<1> DEFINE id == blocks[k].id
           region == Region(k)
           next == Regioned(kept, k)
           Same == id \in DOMAIN kept /\ RegionKey(kept[id]) = RegionKey(region)
<1>0. /\ region.outs = Outputs(k) /\ region.stale = Stale(k)
      /\ region = RegionOf(k, width)
  BY DEF Region, RegionOf
<1>1. CASE Same
  <2>1. next = kept
    BY <1>1 DEF Regioned
  <2>2. ~ (Outputs(k) = Empty /\ ~ Stale(k))
    <3>1. /\ kept[id].outs # Empty \/ kept[id].stale
          /\ \E S : kept[id].outs = [y \in S |-> kept[id].outs[y]]
      BY <1>1 DEF Real
    <3> HIDE DEF region, id
    <3> QED BY <1>0, <1>1, <3>1, KeyTellsNone
  <2>3. Shows(next, k, width)
    BY <1>0, <1>1, <2>1, <2>2 DEF Shows
  <2> HIDE DEF next
  <2>4. Real(next) /\ AlikeBut(id, next, kept)
    BY <2>1 DEF AlikeBut
  <2> QED BY <2>3, <2>4 DEF next
<1>2. CASE ~ Same /\ Outputs(k) = Empty /\ ~ Stale(k)
  <2>1. next = Only(kept, DOMAIN kept \ {id})
    BY <1>2 DEF Regioned
  <2> HIDE DEF next
  <2>2. /\ DOMAIN next = DOMAIN kept \ {id} /\ \A x \in DOMAIN next : next[x] = kept[x]
    BY <2>1 DEF Only
  <2>3. Shows(next, k, width)
    BY <1>2, <2>2 DEF Shows
  <2> HIDE DEF id
  <2>4. Real(next) /\ AlikeBut(id, next, kept)
    BY <2>2 DEF Real, AlikeBut
  <2> QED BY <2>3, <2>4 DEF next, id
<1>3. CASE ~ Same /\ ~ (Outputs(k) = Empty /\ ~ Stale(k))
  <2>1. next = Put(kept, id, region)
    BY <1>3 DEF Regioned
  <2>2. /\ region.outs # Empty \/ region.stale
        /\ region.outs = [y \in DOMAIN region.outs |-> region.outs[y]]
    BY <1>0, <1>3 DEF Outputs, Only
  <2> HIDE DEF next, region
  <2>3. /\ DOMAIN next = DOMAIN kept \cup {id} /\ next[id] = region
        /\ \A x \in DOMAIN kept : x # id => next[x] = kept[x]
    BY <2>1 DEF Put
  <2>4. Shows(next, k, width)
    BY <1>0, <1>3, <2>3 DEF Shows
  <2> HIDE DEF id
  <2>5. Real(next)
    BY <2>2, <2>3 DEF Real
  <2>6. AlikeBut(id, next, kept)
    BY <2>3 DEF AlikeBut
  <2> QED BY <2>4, <2>5, <2>6 DEF next, id
<1> QED BY <1>1, <1>2, <1>3

\* After a pass over the regions each block that is alone with its id has its own.
LEMMA RegionsMade ==
  ASSUME Len(blocks) \in Nat, DOMAIN blocks = 1 .. Len(blocks), Real(regions), ~ RegionsFresh
  PROVE  /\ Real(Regions)
         /\ \A i \in DOMAIN blocks : Alone(i) => Shows(Regions, i, width)
<1> DEFINE n == Len(blocks)
<1>1. PICK g : /\ Regions = Live(g[n]) /\ g[0] = regions
               /\ \A k \in 1 .. n : g[k] = Regioned(g[k - 1], k)
  BY RegionSteps
<1>2. n \in Nat /\ DOMAIN blocks = 1 .. n
  OBVIOUS
<1> HIDE DEF n
<1> DEFINE R == {k \in Nat : Real(g[k])}
<1>3. \A k \in 0 .. n : Real(g[k])
  <2>1. 0 \in R
    BY <1>1
  <2>2. ASSUME NEW k \in 1 .. n, k - 1 \in R
        PROVE  k \in R
    <3>1. k \in Nat /\ Real(g[k - 1]) /\ g[k] = Regioned(g[k - 1], k)
      BY <1>1, <1>2, <2>2
    <3>2. Real(Regioned(g[k - 1], k))
      BY <3>1, RegionedReal
    <3> QED BY <3>1, <3>2
  <2>3. \A k \in 0 .. n : k \in R
    <3> HIDE DEF R
    <3> QED BY <1>2, <2>1, <2>2, StepByStep
  <2> QED BY <2>3
<1>4. ASSUME NEW i \in 1 .. n, Alone(i)
      PROVE  Shows(g[n], i, width)
  <2> DEFINE T == {k \in Nat : i <= k => Shows(g[k], i, width)}
  <2>1. 0 \in T
    <3>1. 0 \in Nat /\ ~ (i <= 0)
      BY <1>2
    <3> QED BY <3>1
  <2>2. ASSUME NEW k \in 1 .. n, k - 1 \in T
        PROVE  k \in T
    <3>1. k \in Nat /\ k - 1 \in 0 .. n /\ (i <= k => k = i \/ (i <= k - 1 /\ k # i))
      BY <1>2
    <3>2. Real(g[k - 1]) /\ g[k] = Regioned(g[k - 1], k)
      BY <1>1, <1>3, <3>1
    <3>3. Shows(g[k], k, width) /\ AlikeBut(blocks[k].id, g[k], g[k - 1])
      BY <3>2, RegionedReal
    <3>4. CASE k = i
      BY <3>1, <3>3, <3>4
    <3>5. CASE i <= k - 1 /\ k # i
      <4>1. Shows(g[k - 1], i, width)
        BY <2>2, <3>5
      <4>2. blocks[i].id # blocks[k].id
        BY <1>2, <1>4, <3>5 DEF Alone
      <4>3. Shows(g[k], i, width)
        BY <3>3, <4>1, <4>2 DEF Shows, AlikeBut
      <4> QED BY <3>1, <4>3
    <3> QED BY <3>1, <3>4, <3>5
  <2>3. \A k \in 0 .. n : k \in T
    <3> HIDE DEF T
    <3> QED BY <1>2, <2>1, <2>2, StepByStep
  <2>4. n \in 0 .. n /\ i <= n
    BY <1>2
  <2>5. n \in T
    BY <2>3, <2>4
  <2> QED BY <2>4, <2>5
<1>5. \A x : x \in DOMAIN Regions => x \in DOMAIN g[n] /\ Regions[x] = g[n][x]
  BY <1>1 DEF Live, Only
<1>6. Real(Regions)
  <2>1. Real(g[n])
    BY <1>2, <1>3
  <2> QED BY <1>5, <2>1 DEF Real
<1>7. ASSUME NEW i \in DOMAIN blocks, Alone(i)
      PROVE  Shows(Regions, i, width)
  <2>1. Shows(g[n], i, width)
    BY <1>2, <1>4, <1>7
  <2>2. blocks[i].id \in IdsOf(blocks)
    BY DEF IdsOf
  <2>3. blocks[i].id \in DOMAIN g[n] => blocks[i].id \in DOMAIN Regions
    BY <1>1, <2>2 DEF Live, Only
  <2> QED BY <1>5, <2>1, <2>3 DEF Shows
<1> QED BY <1>6, <1>7

-----------------------------------------------------------------------------
(* What is drawn.  The last frame, and the two passes it ran or left out,   *)
(* are of one revision, version and width; as long as those and the caret   *)
(* are what they are, what is kept is what there is to see.                 *)

OfOnePass ==
  /\ lastFrame = None => lastPass = None /\ regionPass = None
  /\ lastFrame # None =>
       /\ lastFrame[1] \in Nat /\ lastFrame[1] <= rev
       /\ lastFrame[2] \in Nat /\ lastFrame[2] <= ver
       /\ lastPass # None
       /\ lastPass.rev = lastFrame[1] /\ lastPass.ver = lastFrame[2]
       /\ lastPass.width = lastFrame[3]
       /\ regionPass = <<lastFrame[1], lastFrame[2], lastFrame[3]>>

\* The scan is of the document it says it is of, and at least as new as the pass.
ScanKept ==
  /\ front # None => /\ front.rev \in Nat /\ front.rev <= rev
                     /\ front.rev = rev => front.of = doc
  /\ lastPass # None /\ lastPass.rev = rev => front # None /\ front.rev = rev

\* So are the annotations, unless results moved unnoticed.
NotesKept ==
  noteCache # None => /\ noteCache.ver \in Nat /\ noteCache.ver <= ver
                      /\ noteCache.ver = ver /\ ~ silent => noteCache.of = Annotations

LayoutsFit(spans, w) ==
  \A i \in DOMAIN blocks : Alone(i) /\ doc[i] \notin Broken =>
    /\ blocks[i].id \in DOMAIN layouts
    /\ layouts[blocks[i].id].key = LayoutKey(i, spans, Annotations, w)

RegionsFit(w) == \A i \in DOMAIN blocks : Alone(i) => Shows(regions, i, w)

FrameFits ==
  lastFrame # None /\ lastFrame[1] = rev /\ lastFrame[2] = ver /\ ~ silent /\ rev > 0 =>
    /\ LayoutsFit(RevealSpan(doc, lastFrame[4]), lastFrame[3])
    /\ RegionsFit(lastFrame[3])
    /\ lastPass.revealEmpty => RevealSpan(doc, lastFrame[4]) = {}

\* Nothing is left to redraw when the last frame is of all there is now.
Drawn ==
  ~ redraw => /\ lastFrame # None
              /\ lastFrame[1] = rev /\ lastFrame[2] = ver
              /\ lastFrame[3] = width /\ lastFrame[4] = caret

DrawnInv ==
  /\ ver \in Nat /\ Real(regions)
  /\ OfOnePass /\ ScanKept /\ NotesKept /\ FrameFits /\ Drawn

\* Nothing is drawn yet.
LEMMA DrawnStarts ==
  ASSUME Init
  PROVE  DrawnInv
<1>1. /\ rev = 0 /\ ver = 1 /\ front = None /\ noteCache = None /\ regions = Empty
      /\ lastPass = None /\ regionPass = None /\ lastFrame = None /\ redraw = TRUE
  BY DEF Init
<1>2. Real(regions)
  BY <1>1 DEF Real, Empty
<1> QED BY <1>1, <1>2 DEF DrawnInv, OfOnePass, ScanKept, NotesKept, FrameFits, Drawn

\* The index has the document's blocks.
LEMMA BlocksAreIndexed ==
  ASSUME CaretInv, rev > 0 \/ blocks # <<>>
  PROVE  Indexed(blocks, doc) /\ Len(blocks) \in Nat /\ DOMAIN blocks = 1 .. Len(blocks)
<1>1. Indexed(blocks, doc) /\ doc \in Docs
  BY DEF CaretInv, IndexKept, Known
<1> QED BY <1>1, DocsSized DEF Indexed

\* The same holds of no blocks.
LEMMA BlocksAreSome ==
  ASSUME CaretInv
  PROVE  Len(blocks) \in Nat /\ DOMAIN blocks = 1 .. Len(blocks)
<1>1. CASE blocks = <<>>
  <2>1. Len(<<>>) = 0 /\ DOMAIN <<>> = 1 .. 0
    OBVIOUS
  <2> QED BY <1>1, <2>1
<1>2. CASE blocks # <<>>
  BY <1>2, BlocksAreIndexed
<1> QED BY <1>1, <1>2

\* Until a frame is drawn its passes stay, and they are of what is there now only
\* if nothing they look at has moved.
LEMMA UnframedDrawn ==
  ASSUME CaretInv, DrawnInv,
         UNCHANGED <<noteCache, layouts, regions, lastPass, regionPass, lastFrame>>,
         rev' \in Nat, rev' > rev \/ UNCHANGED <<doc, rev>>,
         rev' > rev \/ UNCHANGED blocks \/ blocks' = Update(blocks, doc),
         ver' \in Nat,
         \/ ver' > ver
         \/ ver' = ver /\ (silent' \/ UNCHANGED <<notes, due, fresh, silent>>),
         front' = front \/ front' = [rev |-> rev', of |-> doc'],
         redraw' \/ UNCHANGED <<redraw, rev, ver, width, caret>>
  PROVE  DrawnInv'
<1>1. rev \in Nat /\ ver \in Nat /\ rev <= rev' /\ ver <= ver' /\ doc \in Docs
  BY DEF CaretInv, Known, DrawnInv
<1>2. OfOnePass'
  BY <1>1 DEF DrawnInv, OfOnePass
<1>3. ScanKept'
  <2>1. CASE rev' > rev
    <3>1. ~ (lastPass # None /\ lastPass.rev = rev')
      BY <1>1, <2>1 DEF DrawnInv, OfOnePass
    <3>2. front' # None => /\ front'.rev \in Nat /\ front'.rev <= rev'
                           /\ front'.rev = rev' => front'.of = doc'
      <4>1. CASE front' = front
        BY <1>1, <2>1, <4>1 DEF DrawnInv, ScanKept
      <4>2. CASE front' = [rev |-> rev', of |-> doc']
        BY <1>1, <4>2
      <4> QED BY <4>1, <4>2
    <3> QED BY <3>1, <3>2 DEF ScanKept
  <2>2. CASE UNCHANGED <<doc, rev>>
    <3>1. CASE front' = front
      BY <2>2, <3>1 DEF DrawnInv, ScanKept
    <3>2. CASE front' = [rev |-> rev', of |-> doc']
      <4>1. front' # None
        BY <3>2 DEF None
      <4> QED BY <1>1, <3>2, <4>1 DEF ScanKept
    <3> QED BY <3>1, <3>2
  <2> QED BY <2>1, <2>2
<1>4. NotesKept'
  BY <1>1 DEF DrawnInv, NotesKept, Annotations
<1>5. FrameFits'
  <2> SUFFICES ASSUME lastFrame # None, lastFrame[1] = rev', lastFrame[2] = ver',
                      ~ silent', rev' > 0
               PROVE  /\ LayoutsFit(RevealSpan(doc, lastFrame[4]), lastFrame[3])'
                      /\ RegionsFit(lastFrame[3])'
                      /\ lastPass.revealEmpty => RevealSpan(doc', lastFrame[4]) = {}
    BY DEF FrameFits
  <2>1. lastFrame[1] \in Nat /\ lastFrame[1] <= rev /\ lastFrame[2] \in Nat /\ lastFrame[2] <= ver
    BY DEF DrawnInv, OfOnePass
  <2>2. rev' = rev /\ ver' = ver /\ doc' = doc /\ UNCHANGED <<notes, due, fresh>> /\ ~ silent
    BY <1>1, <2>1
  <2>3. /\ LayoutsFit(RevealSpan(doc, lastFrame[4]), lastFrame[3])
        /\ RegionsFit(lastFrame[3])
        /\ lastPass.revealEmpty => RevealSpan(doc, lastFrame[4]) = {}
    BY <2>2 DEF DrawnInv, FrameFits
  <2>4. DOMAIN blocks' = DOMAIN blocks /\ \A i \in DOMAIN blocks : blocks'[i].id = blocks[i].id
    <3>1. CASE blocks' = blocks
      BY <3>1
    <3>2. CASE blocks' = Update(blocks, doc)
      <4>1. rev > 0
        BY <2>2
      <4>2. Indexed(blocks, doc) /\ Indexed(blocks', doc)
        BY <1>1, <3>2, <4>1, BlocksAreIndexed, UpdateIndexes
      <4>3. DOMAIN blocks = DOMAIN doc /\ DOMAIN blocks' = DOMAIN doc
        BY <4>2 DEF Indexed
      <4>4. \A i \in DOMAIN doc : blocks'[i].id = blocks[i].id
        BY <1>1, <3>2, <4>2, UpdateKeepsIds
      <4> QED BY <4>3, <4>4
    <3> QED BY <1>1, <2>2, <3>1, <3>2
  <2>5. \A i \in DOMAIN blocks : Alone(i)' <=> Alone(i)
    BY <2>4 DEF Alone
  <2>6. LayoutsFit(RevealSpan(doc, lastFrame[4]), lastFrame[3])'
    <3> SUFFICES ASSUME NEW i \in DOMAIN blocks, Alone(i), doc[i] \notin Broken
                 PROVE  /\ blocks'[i].id \in DOMAIN layouts'
                        /\ layouts'[blocks'[i].id].key
                             = LayoutKey(i, RevealSpan(doc, lastFrame[4]), Annotations,
                                         lastFrame[3])'
      BY <2>2, <2>4, <2>5 DEF LayoutsFit
    <3>1. /\ blocks[i].id \in DOMAIN layouts
          /\ layouts[blocks[i].id].key
               = LayoutKey(i, RevealSpan(doc, lastFrame[4]), Annotations, lastFrame[3])
      BY <2>3 DEF LayoutsFit
    <3>2. LayoutKey(i, RevealSpan(doc, lastFrame[4]), Annotations, lastFrame[3])'
            = LayoutKey(i, RevealSpan(doc, lastFrame[4]), Annotations, lastFrame[3])
      BY <2>2 DEF LayoutKey, Annotations
    <3> QED BY <2>4, <3>1, <3>2
  <2>7. RegionsFit(lastFrame[3])'
    <3> SUFFICES ASSUME NEW i \in DOMAIN blocks, Alone(i)
                 PROVE  Shows(regions, i, lastFrame[3])'
      BY <2>4, <2>5 DEF RegionsFit
    <3>1. Shows(regions, i, lastFrame[3])
      BY <2>3 DEF RegionsFit
    <3>2. Outputs(i)' = Outputs(i) /\ Stale(i)' = Stale(i)
      BY <2>2 DEF Outputs, Stale
    <3>3. RegionOf(i, lastFrame[3])' = RegionOf(i, lastFrame[3])
      BY <3>2 DEF RegionOf
    <3> QED BY <2>4, <3>1, <3>2, <3>3 DEF Shows
  <2> QED BY <2>2, <2>3, <2>6, <2>7
<1>6. Drawn'
  BY DEF DrawnInv, Drawn
<1>7. Real(regions)'
  BY DEF DrawnInv, Real
<1> QED BY <1>2, <1>3, <1>4, <1>5, <1>6, <1>7 DEF DrawnInv

\* A frame: it draws what was drawn, when nothing has moved; it leaves out the
\* layout pass, when no reveal was and none is to be drawn; or it makes both.
LEMMA RedrawDrawn ==
  ASSUME CaretInv, DrawnInv, Redraw
  PROVE  DrawnInv'
<1>0. /\ UNCHANGED <<doc, rev, blocks, caret, notes, due, fresh, ver, silent, width, menu>>
      /\ lastFrame' = <<rev, ver, width, caret, menu.open>> /\ ~ redraw'
  BY DEF Redraw, docVars, caretVars, bridgeVars, uiVars, Frame
<1>1. rev \in Nat /\ ver \in Nat /\ doc \in Docs
  BY DEF CaretInv, Known, DrawnInv
<1>2. /\ lastFrame' # None
      /\ lastFrame'[1] = rev /\ lastFrame'[2] = ver
      /\ lastFrame'[3] = width /\ lastFrame'[4] = caret
  BY <1>0 DEF None
<1>3. Drawn'
  BY <1>0, <1>2 DEF Drawn
<1> DEFINE span == RevealSpan(doc, caret)
<1>4. CASE lastFrame = Frame
  <2>1. UNCHANGED <<front, noteCache, layouts, regions, lastPass, regionPass>>
    BY <1>4 DEF Redraw
  <2>2. lastFrame' = lastFrame
    BY <1>0, <1>4 DEF Frame
  <2>3. /\ OfOnePass' /\ ScanKept' /\ NotesKept' /\ Real(regions)'
    BY <1>0, <2>1, <2>2 DEF DrawnInv, OfOnePass, ScanKept, NotesKept, Annotations,
                               Real
  <2>4. FrameFits'
    <3>1. LayoutsFit(RevealSpan(doc, lastFrame[4]), lastFrame[3])'
            <=> LayoutsFit(RevealSpan(doc, lastFrame[4]), lastFrame[3])
      BY <1>0, <2>1, <2>2 DEF LayoutsFit, Alone, LayoutKey, Annotations
    <3>2. RegionsFit(lastFrame[3])' <=> RegionsFit(lastFrame[3])
      BY <1>0, <2>1, <2>2 DEF RegionsFit, Alone, Shows, Outputs, Stale, RegionOf
    <3> QED BY <1>0, <2>1, <2>2, <3>1, <3>2 DEF DrawnInv, FrameFits
  <2> QED BY <1>0, <1>1, <1>3, <2>3, <2>4 DEF DrawnInv
<1>5. CASE lastFrame # Frame
  <2> DEFINE skips == CanSkip(lastPass, EarlyReveal)
             spans == IF skips THEN EarlyReveal ELSE RevealSpan(Scanned.of, caret)
  <2>1. /\ IF skips THEN UNCHANGED <<front, noteCache, layouts>>
           ELSE front' = Scanned /\ noteCache' = Noted /\ layouts' = LaidOut(spans, Noted.of)
        /\ lastPass' = [rev |-> rev, ver |-> ver, width |-> width, revealEmpty |-> spans = {}]
        /\ regions' = Regions /\ regionPass' = <<rev, ver, width>>
    BY <1>5 DEF Redraw
  <2>2. OfOnePass'
    <3>1. lastPass' # None
      <4>1. DOMAIN lastPass' # {} /\ DOMAIN None = {}
        BY <2>1 DEF None
      <4> QED BY <4>1
    <3> QED BY <1>0, <1>1, <1>2, <2>1, <3>1 DEF OfOnePass
  <2>3. ASSUME skips
        PROVE  /\ lastFrame # None /\ lastPass # None /\ lastPass.revealEmpty
               /\ lastFrame[1] = rev /\ lastFrame[2] = ver /\ lastFrame[3] = width
               /\ front # None /\ front.rev = rev /\ span = {} /\ spans = span
    <3>1. /\ lastPass # None /\ lastPass.rev = rev /\ lastPass.ver = ver /\ lastPass.width = width
          /\ EarlyReveal = {} /\ lastPass.revealEmpty
      BY <2>3 DEF CanSkip
    <3>2. front # None /\ front.rev = rev /\ front.of = doc
      BY <3>1 DEF DrawnInv, ScanKept
    <3>3. EarlyReveal = span
      BY <3>1, <3>2 DEF EarlyReveal
    <3>4. lastFrame # None
      BY <3>1 DEF DrawnInv, OfOnePass
    <3>5. lastFrame[1] = rev /\ lastFrame[2] = ver /\ lastFrame[3] = width
      BY <3>1, <3>4 DEF DrawnInv, OfOnePass
    <3> QED BY <2>3, <3>1, <3>2, <3>3, <3>4, <3>5
  <2>4. Scanned # None /\ Scanned.rev = rev /\ Scanned.of = doc
    <3>1. CASE front # None /\ front.rev = rev
      BY <3>1 DEF DrawnInv, ScanKept, Scanned
    <3>2. CASE ~ (front # None /\ front.rev = rev)
      <4>1. Scanned = [rev |-> rev, of |-> doc]
        BY <3>2, Zenon DEF Scanned
      <4>2. DOMAIN Scanned # {} /\ DOMAIN None = {}
        BY <4>1 DEF None
      <4> QED BY <4>1, <4>2
    <3> QED BY <3>1, <3>2
  <2>5. Noted # None /\ Noted.ver = ver /\ (~ silent => Noted.of = Annotations)
    <3>1. CASE noteCache # None /\ noteCache.ver = ver
      BY <3>1 DEF DrawnInv, NotesKept, Noted
    <3>2. CASE ~ (noteCache # None /\ noteCache.ver = ver)
      <4>1. Noted = [ver |-> ver, of |-> Annotations]
        BY <3>2, Zenon DEF Noted
      <4>2. DOMAIN Noted # {} /\ DOMAIN None = {}
        BY <4>1 DEF None
      <4> QED BY <4>1, <4>2
    <3> QED BY <3>1, <3>2
  <2>6. spans = span
    BY <2>3, <2>4
  <2> HIDE DEF skips, spans
  <2>7. ScanKept'
    <3>1. front' # None /\ front'.rev = rev /\ front'.of = doc
      <4>1. CASE skips
        <5>1. front' = front
          BY <2>1, <4>1
        <5>2. front # None /\ front.rev = rev
          BY <2>3, <4>1
        <5> QED BY <5>1, <5>2 DEF DrawnInv, ScanKept
      <4>2. CASE ~ skips
        BY <2>1, <2>4, <4>2
      <4> QED BY <4>1, <4>2
    <3> QED BY <1>0, <1>1, <3>1 DEF ScanKept
  <2>8. NotesKept'
    <3>1. CASE skips
      BY <1>0, <2>1, <3>1 DEF DrawnInv, NotesKept, Annotations
    <3>2. CASE ~ skips
      BY <1>0, <1>1, <2>1, <2>5, <3>2 DEF NotesKept, Annotations
    <3> QED BY <3>1, <3>2
  <2>9. Len(blocks) \in Nat /\ DOMAIN blocks = 1 .. Len(blocks) /\ Real(regions)
    BY BlocksAreSome DEF DrawnInv
  <2>10. Real(regions')
    <3>1. CASE RegionsFresh
      BY <2>1, <2>9, <3>1 DEF Regions
    <3>2. CASE ~ RegionsFresh
      BY <2>1, <2>9, <3>2, RegionsMade
    <3> QED BY <3>1, <3>2
  <2>11. ASSUME ~ silent, rev > 0
         PROVE  \A i \in DOMAIN blocks : Alone(i) => Shows(regions', i, width)
    <3>1. CASE RegionsFresh
      <4>1. regions' = regions /\ regionPass = <<rev, ver, width>>
        BY <2>1, <3>1 DEF Regions, RegionsFresh
      <4>2. lastFrame # None
        <5>1. regionPass # None
          BY <4>1 DEF None
        <5> QED BY <5>1 DEF DrawnInv, OfOnePass
      <4>3. regionPass = <<lastFrame[1], lastFrame[2], lastFrame[3]>>
        BY <4>2 DEF DrawnInv, OfOnePass
      <4>4. lastFrame[1] = rev /\ lastFrame[2] = ver /\ lastFrame[3] = width
        BY <4>1, <4>3
      <4>5. RegionsFit(lastFrame[3])
        BY <2>11, <4>2, <4>4 DEF DrawnInv, FrameFits
      <4> QED BY <4>1, <4>4, <4>5 DEF RegionsFit
    <3>2. CASE ~ RegionsFresh
      BY <2>1, <2>9, <3>2, RegionsMade
    <3> QED BY <3>1, <3>2
  <2>12. ASSUME ~ silent, rev > 0, NEW i \in DOMAIN blocks, Alone(i), doc[i] \notin Broken
         PROVE  /\ blocks[i].id \in DOMAIN layouts'
                /\ layouts'[blocks[i].id].key = LayoutKey(i, span, Annotations, width)
    <3>1. CASE skips
      <4>1. /\ lastFrame # None /\ lastPass.revealEmpty /\ span = {}
            /\ lastFrame[1] = rev /\ lastFrame[2] = ver /\ lastFrame[3] = width
        BY <2>3, <3>1
      <4>2. /\ LayoutsFit(RevealSpan(doc, lastFrame[4]), lastFrame[3])
            /\ RevealSpan(doc, lastFrame[4]) = {}
        BY <2>12, <4>1 DEF DrawnInv, FrameFits
      <4>3. layouts' = layouts
        BY <2>1, <3>1
      <4>4. LayoutsFit(span, width)
        BY <4>1, <4>2
      <4> HIDE DEF span
      <4> QED BY <2>12, <4>3, <4>4 DEF LayoutsFit
    <3>2. CASE ~ skips
      <4>1. layouts' = LaidOut(span, Annotations)
        BY <2>1, <2>5, <2>6, <2>12, <3>2
      <4> HIDE DEF span
      <4> QED BY <2>9, <2>12, <4>1, LaidOutFits
    <3> QED BY <3>1, <3>2
  <2>13. FrameFits'
    <3> SUFFICES ASSUME ~ silent, rev > 0
                 PROVE  /\ LayoutsFit(RevealSpan(doc, lastFrame[4]), lastFrame[3])'
                        /\ RegionsFit(lastFrame[3])'
                        /\ lastPass'.revealEmpty => RevealSpan(doc', lastFrame'[4]) = {}
      BY <1>0 DEF FrameFits
    <3>1. LayoutsFit(RevealSpan(doc, lastFrame[4]), lastFrame[3])'
      BY <1>0, <1>2, <2>12 DEF LayoutsFit, Alone, LayoutKey, Annotations
    <3>2. RegionsFit(lastFrame[3])'
      BY <1>0, <1>2, <2>11 DEF RegionsFit, Alone, Shows, Outputs, Stale, RegionOf
    <3>3. lastPass'.revealEmpty => RevealSpan(doc', lastFrame'[4]) = {}
      BY <1>0, <1>2, <2>1, <2>6
    <3> QED BY <3>1, <3>2, <3>3
  <2> QED BY <1>0, <1>1, <1>3, <2>2, <2>7, <2>8, <2>10, <2>13 DEF DrawnInv, Real
<1> QED BY <1>4, <1>5

\* An edit is a new revision, and so nothing that is kept is of it.
LEMMA EditsDrawn ==
  ASSUME CaretInv, DrawnInv, Insert \/ Delete \/ Replace
  PROVE  DrawnInv'
<1>1. rev \in Nat /\ ver \in Nat
  BY DEF CaretInv, Known, DrawnInv
<1>2. /\ UNCHANGED <<noteCache, layouts, regions, lastPass, regionPass, lastFrame>>
      /\ rev' \in {rev + 1, rev + 2} /\ ver' \in {ver + 1, ver + 2} /\ redraw'
      /\ front' = front \/ front' = [rev |-> rev', of |-> doc']
  <2>1. CASE \E d : Edited(d)
    BY <2>1 DEF Edited, Act, cacheVars, CaretChanged
  <2>2. CASE Replace
    BY <2>2 DEF Replace, Act, cacheVars, CaretChanged
  <2> QED BY <2>1, <2>2 DEF Insert, Delete
<1>3. rev' \in Nat /\ rev' > rev /\ ver' \in Nat /\ ver' > ver
  BY <1>1, <1>2
<1> QED BY <1>2, <1>3, UnframedDrawn

\* What the user does beside editing asks for a frame.
LEMMA ActsDrawn ==
  ASSUME CaretInv, DrawnInv,
         \/ MoveLeft \/ MoveRight \/ SelectAll \/ GoToSegment \/ MoveByGlyph \/ MoveByText
         \/ OpenMenu \/ Jump \/ CloseMenu \/ TogglePanel
         \/ (\E w \in Widths \ {width} : Resize(w)) \/ Run \/ ClearOutputs
  PROVE  DrawnInv'
<1>1. rev \in Nat /\ ver \in Nat
  BY DEF CaretInv, Known, DrawnInv
<1>2. CASE \E to : Moved(to)
  <2>1. /\ UNCHANGED <<noteCache, layouts, regions, lastPass, regionPass, lastFrame>>
        /\ UNCHANGED <<doc, rev, blocks, ver, notes, due, fresh, silent>> /\ redraw'
        /\ front' = front \/ front' = [rev |-> rev', of |-> doc']
    BY <1>2 DEF Moved, Act, docVars, bridgeVars, cacheVars, CaretChanged
  <2> QED BY <1>1, <2>1, UnframedDrawn
<1>3. CASE \/ SelectAll \/ GoToSegment \/ OpenMenu \/ CloseMenu
           \/ \E w \in Widths \ {width} : Resize(w)
  <2>1. /\ UNCHANGED <<noteCache, layouts, regions, lastPass, regionPass, lastFrame>>
        /\ UNCHANGED <<doc, rev, blocks, ver, notes, due, fresh, silent>> /\ redraw'
        /\ front' = front \/ front' = [rev |-> rev', of |-> doc']
    BY <1>3 DEF SelectAll, GoToSegment, OpenMenu, CloseMenu, Resize, Act, docVars, bridgeVars,
                cacheVars, CaretChanged
  <2> QED BY <1>1, <2>1, UnframedDrawn
<1>4. CASE TogglePanel
  <2>1. /\ UNCHANGED <<noteCache, layouts, regions, lastPass, regionPass, lastFrame>>
        /\ UNCHANGED <<doc, rev, ver, notes, due, fresh, silent>> /\ redraw'
        /\ blocks' = blocks \/ blocks' = Update(blocks, doc)
        /\ front' = front \/ front' = Scanned
    BY <1>4 DEF TogglePanel, Act, bridgeVars, cacheVars
  <2>2. Scanned = front \/ Scanned = [rev |-> rev', of |-> doc']
    BY <2>1 DEF Scanned
  <2>3. front' = front \/ front' = [rev |-> rev', of |-> doc']
    BY <2>1, <2>2
  <2> QED BY <1>1, <2>1, <2>3, UnframedDrawn
<1>5. CASE Run \/ ClearOutputs
  <2>1. /\ UNCHANGED <<noteCache, layouts, regions, lastPass, regionPass, lastFrame>>
        /\ UNCHANGED <<doc, rev, blocks, front>> /\ ver' = ver + 1 /\ redraw'
    BY <1>5 DEF Run, ClearOutputs, Act, docVars, cacheVars
  <2>2. ver' \in Nat /\ ver' > ver
    BY <1>1, <2>1
  <2> QED BY <1>1, <2>1, <2>2, UnframedDrawn
<1> QED BY <1>2, <1>3, <1>4, <1>5 DEF MoveLeft, MoveRight, MoveByGlyph, MoveByText, Jump

\* A result is a new version, or it is noted that it moved unnoticed.
LEMMA RepliesDrawn ==
  ASSUME CaretInv, DrawnInv, Answer \/ Expire
  PROVE  DrawnInv'
<1>1. rev \in Nat /\ ver \in Nat
  BY DEF CaretInv, Known, DrawnInv
<1>2. /\ UNCHANGED <<noteCache, layouts, regions, lastPass, regionPass, lastFrame>>
      /\ UNCHANGED <<doc, rev, blocks, caret, width, front>>
  BY DEF Answer, Expire, Reply, docVars, caretVars, cacheVars
<1>3. CASE Noticed
  <2>1. ver' = ver + 1 /\ redraw'
    BY <1>3 DEF Noticed
  <2>2. ver' \in Nat /\ ver' > ver
    BY <1>1, <2>1
  <2> QED BY <1>1, <1>2, <2>1, <2>2, UnframedDrawn
<1>4. CASE Unnoticed
  <2>1. silent' /\ UNCHANGED <<ver, redraw>>
    BY <1>4 DEF Unnoticed
  <2> QED BY <1>1, <1>2, <2>1, UnframedDrawn
<1> QED BY <1>3, <1>4 DEF Answer, Expire

\* Every step keeps what is drawn and what is kept for drawing of one piece.
LEMMA DrawnKept ==
  ASSUME CaretInv, DrawnInv, [Next]_vars
  PROVE  DrawnInv'
<1>1. CASE Redraw
  BY <1>1, RedrawDrawn
<1>2. CASE Insert \/ Delete \/ Replace
  BY <1>2, EditsDrawn
<1>3. CASE \/ MoveLeft \/ MoveRight \/ SelectAll \/ GoToSegment \/ MoveByGlyph \/ MoveByText
           \/ OpenMenu \/ Jump \/ CloseMenu \/ TogglePanel
           \/ (\E w \in Widths \ {width} : Resize(w)) \/ Run \/ ClearOutputs
  BY <1>3, ActsDrawn
<1>4. CASE Answer \/ Expire
  BY <1>4, RepliesDrawn
<1>5. CASE UNCHANGED vars
  <2>1. UNCHANGED <<doc, rev, blocks, caret, notes, due, fresh, ver, silent, width, front, redraw,
                    noteCache, layouts, regions, lastPass, regionPass, lastFrame>>
    BY <1>5 DEF vars, docVars, caretVars, bridgeVars, uiVars, cacheVars
  <2>2. rev \in Nat /\ ver \in Nat
    BY DEF CaretInv, Known, DrawnInv
  <2> QED BY <2>1, <2>2, UnframedDrawn
<1> QED BY <1>1, <1>2, <1>3, <1>4, <1>5 DEF Next

\* Once nothing is left to redraw, each block that is alone with its id is drawn
\* from what there is to see of it now, and its region has the key of its results
\* (in which there are no more than their fingerprints): neither
\* the idle frame nor the pass left out has passed over a change.
THEOREM DrawnIsCurrent == Spec => []DrawnCurrent
<1>1. ASSUME CaretInv, DrawnInv
      PROVE  DrawnCurrent
  <2> SUFFICES ASSUME rev > 0, ~ redraw, ~ silent, NEW i \in DOMAIN blocks, Alone(i)
               PROVE  /\ doc[i] \notin Broken =>
                           /\ blocks[i].id \in DOMAIN layouts
                           /\ layouts[blocks[i].id].key
                                = LayoutKey(i, RevealSpan(doc, caret), Annotations, width)
                      /\ IF Outputs(i) = Empty /\ ~ Stale(i)
                         THEN blocks[i].id \notin DOMAIN regions
                         ELSE /\ blocks[i].id \in DOMAIN regions
                              /\ RegionKey(regions[blocks[i].id]) = RegionKey(Region(i))
    BY DEF DrawnCurrent, AtRest
  <2>1. /\ lastFrame # None /\ lastFrame[1] = rev /\ lastFrame[2] = ver
        /\ lastFrame[3] = width /\ lastFrame[4] = caret
    BY <1>1 DEF DrawnInv, Drawn
  <2>2. LayoutsFit(RevealSpan(doc, caret), width) /\ RegionsFit(width)
    BY <1>1, <2>1 DEF DrawnInv, FrameFits
  <2>3. Shows(regions, i, width)
    BY <2>2 DEF RegionsFit
  <2>4. Region(i) = RegionOf(i, width)
    BY DEF Region, RegionOf
  <2> QED BY <2>2, <2>3, <2>4 DEF LayoutsFit, Shows
<1>2. Init => CaretInv /\ DrawnInv
  BY CaretStarts, DrawnStarts
<1>3. CaretInv /\ DrawnInv /\ [Next]_vars => (CaretInv /\ DrawnInv)'
  BY CaretKept, DrawnKept
<1> QED BY <1>1, <1>2, <1>3, PTL DEF Spec
=============================================================================
