---------------------------- MODULE DocPreviewProofs ---------------------------
(***************************************************************************)
(* Proofs about DocPreview: the raster store leaks nothing, counts nothing *)
(* twice and keeps to its budget, in whatever order frames, the worker's   *)
(* results and closed overlays insert and remove rasters; and a frame      *)
(* finds the raster of each overlay that is open.                          *)
(*                                                                         *)
(* The byte count is a sum over the stored rasters, so that the proofs     *)
(* need what the sum becomes with one more of them, and with some less     *)
(* (BytesOfMore, BytesOfSplit), for every finite set of slots.  That what  *)
(* a frame draws is not evicted needs the order of the queue: behind it    *)
(* there is only what one frame looks up (Guards), and that fits.          *)
(***************************************************************************)
EXTENDS DocPreview, NaturalLemmas, FiniteSetTheorems, SequenceTheorems, TLAPS

-----------------------------------------------------------------------------
(* Sums.                                                                   *)

Pick(s) == CHOOSE x \in s : TRUE

\* A function that adds up the bytes of the subsets of S.
Sums(g, m, S) ==
  \A s \in SUBSET S : g[s] = IF s = {} THEN 0 ELSE m[Pick(s)].bytes + g[s \ {Pick(s)}]

\* One is chosen of a set that is not empty; without it, there is one less.
LEMMA OneLess ==
  ASSUME NEW s, IsFiniteSet(s), s # {}, NEW x \in s
  PROVE  /\ Pick(s) \in s /\ IsFiniteSet(s \ {x})
         /\ Cardinality(s) \in Nat \ {0}
         /\ Cardinality(s \ {x}) = Cardinality(s) - 1
<1>1. Pick(s) \in s
  BY DEF Pick
<1>2. /\ Cardinality(s) \in Nat /\ Cardinality(s) # 0
  BY FS_CardinalityType, FS_EmptySet
<1> QED BY <1>1, <1>2, FS_RemoveElement

\* Two such functions agree where the bytes do.
LEMMA SumsAgree ==
  ASSUME NEW m, NEW n, NEW S, NEW R, NEW g, NEW h, Sums(g, m, S), Sums(h, n, R),
         NEW Q \in SUBSET (S \cap R), IsFiniteSet(Q), \A k \in Q : m[k].bytes = n[k].bytes
  PROVE  g[Q] = h[Q]
<1> DEFINE T == {c \in Nat : \A q \in SUBSET Q : Cardinality(q) = c => g[q] = h[q]}
<1>0. \A q \in SUBSET Q : IsFiniteSet(q) /\ q \in SUBSET S /\ q \in SUBSET R
  BY FS_Subset
<1>1. 0 \in T
  <2> SUFFICES ASSUME NEW q \in SUBSET Q, Cardinality(q) = 0
               PROVE  g[q] = h[q]
    OBVIOUS
  <2>1. q = {}
    BY <1>0, FS_EmptySet
  <2> QED BY <1>0, <2>1 DEF Sums
<1>2. ASSUME NEW c \in 1 .. Cardinality(Q), c - 1 \in T
      PROVE  c \in T
  <2> SUFFICES ASSUME NEW q \in SUBSET Q, Cardinality(q) = c
               PROVE  g[q] = h[q]
    OBVIOUS
  <2>1. q # {}
    BY FS_EmptySet
  <2>2. Pick(q) \in q /\ Cardinality(q \ {Pick(q)}) = c - 1
    BY <1>0, <2>1, OneLess
  <2>3. g[q \ {Pick(q)}] = h[q \ {Pick(q)}]
    BY <1>2, <2>2
  <2>4. /\ g[q] = m[Pick(q)].bytes + g[q \ {Pick(q)}]
        /\ h[q] = n[Pick(q)].bytes + h[q \ {Pick(q)}]
    BY <1>0, <2>1 DEF Sums
  <2> QED BY <2>2, <2>3, <2>4
<1>3. Cardinality(Q) \in Nat
  BY FS_CardinalityType
<1>4. \A c \in 0 .. Cardinality(Q) : c \in T
  <2> HIDE DEF T
  <2> QED BY <1>1, <1>2, <1>3, StepByStep
<1>5. Cardinality(Q) \in T
  BY <1>3, <1>4
<1> QED BY <1>5

\* There is one.
LEMMA SumsExist ==
  ASSUME NEW m, NEW S, IsFiniteSet(S), \A k \in S : m[k].bytes \in Nat
  PROVE  \E g \in [SUBSET S -> Nat] : Sums(g, m, S)
<1> DEFINE Small(c) == {s \in SUBSET S : Cardinality(s) <= c}
           Adds(g, c) == \A s \in Small(c) :
             g[s] = IF s = {} THEN 0 ELSE m[Pick(s)].bytes + g[s \ {Pick(s)}]
           T == {c \in Nat : \E g \in [Small(c) -> Nat] : Adds(g, c)}
<1>0. \A s \in SUBSET S : IsFiniteSet(s) /\ Cardinality(s) \in Nat
  BY FS_Subset, FS_CardinalityType
<1>1. 0 \in T
  <2> DEFINE g == [s \in Small(0) |-> 0]
  <2>1. \A s \in Small(0) : s = {}
    BY <1>0, FS_EmptySet
  <2>2. g \in [Small(0) -> Nat] /\ Adds(g, 0)
    BY <2>1
  <2> HIDE DEF g, Adds
  <2> QED BY <2>2
<1>2. ASSUME NEW c \in 1 .. Cardinality(S), c - 1 \in T
      PROVE  c \in T
  <2>0. c \in Nat /\ c - 1 \in Nat
    BY <1>0
  <2>1. PICK f \in [Small(c - 1) -> Nat] : Adds(f, c - 1)
    BY <1>2
  <2> DEFINE g == [s \in Small(c) |-> IF s = {} THEN 0
                                     ELSE m[Pick(s)].bytes + f[s \ {Pick(s)}]]
  <2>2. ASSUME NEW s \in Small(c), s # {}
        PROVE  Pick(s) \in s /\ s \ {Pick(s)} \in Small(c - 1) /\ s \ {Pick(s)} \in Small(c)
    <3>1. IsFiniteSet(s) /\ Cardinality(s) <= c /\ s \in SUBSET S
      BY <1>0
    <3>2. /\ Pick(s) \in s /\ Cardinality(s) \in Nat
          /\ Cardinality(s \ {Pick(s)}) = Cardinality(s) - 1
      BY <2>2, <3>1, OneLess
    <3>3. s \ {Pick(s)} \in SUBSET S
      BY <3>1
    <3> QED BY <2>0, <3>1, <3>2, <3>3
  <2>3. g \in [Small(c) -> Nat]
    <3>1. ASSUME NEW s \in Small(c), s # {}
          PROVE  m[Pick(s)].bytes + f[s \ {Pick(s)}] \in Nat
      <4>1. Pick(s) \in S /\ f[s \ {Pick(s)}] \in Nat
        <5> HIDE DEF Adds
        <5> QED BY <2>1, <2>2, <3>1
      <4>2. m[Pick(s)].bytes \in Nat
        BY <4>1
      <4> QED BY <4>1, <4>2
    <3> HIDE DEF Small
    <3> QED BY <3>1
  <2>4. ASSUME NEW s \in Small(c - 1)
        PROVE  g[s] = f[s]
    <3>1. s \in Small(c)
      BY <1>0, <2>0
    <3>2. f[s] = IF s = {} THEN 0 ELSE m[Pick(s)].bytes + f[s \ {Pick(s)}]
      BY <2>1
    <3> HIDE DEF Small
    <3> QED BY <3>1, <3>2
  <2>5. Adds(g, c)
    <3> SUFFICES ASSUME NEW s \in Small(c)
                 PROVE  g[s] = IF s = {} THEN 0 ELSE m[Pick(s)].bytes + g[s \ {Pick(s)}]
      OBVIOUS
    <3>1. g[s] = IF s = {} THEN 0 ELSE m[Pick(s)].bytes + f[s \ {Pick(s)}]
      OBVIOUS
    <3>2. s # {} => g[s \ {Pick(s)}] = f[s \ {Pick(s)}]
      <4> HIDE DEF g, Small
      <4> QED BY <2>2, <2>4
    <3> HIDE DEF g, Small
    <3> QED BY <3>1, <3>2
  <2> HIDE DEF g, Adds
  <2> QED BY <2>0, <2>3, <2>5
<1>3. \A c \in 0 .. Cardinality(S) : c \in T
  <2>1. Cardinality(S) \in Nat
    BY <1>0
  <2> HIDE DEF T
  <2> QED BY <1>1, <1>2, <2>1, StepByStep
<1>4. PICK g \in [Small(Cardinality(S)) -> Nat] : Adds(g, Cardinality(S))
  <2>1. Cardinality(S) \in T
    <3>1. Cardinality(S) \in 0 .. Cardinality(S)
      BY <1>0
    <3> HIDE DEF T
    <3> QED BY <1>3, <3>1
  <2> QED BY <2>1
<1>5. Small(Cardinality(S)) = SUBSET S
  BY FS_Subset
<1> QED BY <1>4, <1>5 DEF Sums

\* That of a whole set is what MapThenSumSet chooses.
LEMMA SumChosen ==
  ASSUME NEW m, NEW S, IsFiniteSet(S), NEW g \in [SUBSET S -> Nat], Sums(g, m, S)
  PROVE  BytesOf(m, S) = g[S]
<1> DEFINE body(h) == [s \in SUBSET S |->
                         IF s = {} THEN 0 ELSE m[Pick(s)].bytes + h[s \ {Pick(s)}]]
           iter == CHOOSE h : h = body(h)
<1>1. BytesOf(m, S) = iter[S]
  BY DEF BytesOf, MapThenSumSet, MapThenFoldSet, Pick
<1>2. g = body(g)
  BY DEF Sums
<1>3. iter = body(iter)
  BY <1>2
<1>4. Sums(iter, m, S)
  <2> HIDE DEF iter
  <2> SUFFICES ASSUME NEW s \in SUBSET S
               PROVE  iter[s] = IF s = {} THEN 0
                                ELSE m[Pick(s)].bytes + iter[s \ {Pick(s)}]
    BY DEF Sums
  <2>1. iter[s] = body(iter)[s]
    BY <1>3
  <2> QED BY <2>1
<1>5. iter[S] = g[S]
  <2> HIDE DEF iter
  <2> QED BY <1>4, SumsAgree
<1> QED BY <1>1, <1>5

\* No bytes in nothing.
LEMMA BytesOfNone ==
  ASSUME NEW m
  PROVE  BytesOf(m, {}) = 0
<1>1. PICK g \in [SUBSET {} -> Nat] : Sums(g, m, {})
  BY SumsExist, FS_EmptySet
<1>2. BytesOf(m, {}) = g[{}]
  BY <1>1, SumChosen, FS_EmptySet
<1> QED BY <1>1, <1>2 DEF Sums

\* The bytes of one more: those it has, whichever of the set it is.
LEMMA BytesOfMore ==
  ASSUME NEW m, NEW S, IsFiniteSet(S), \A k \in S : m[k].bytes \in Nat, NEW x \in S
  PROVE  /\ BytesOf(m, S) \in Nat /\ BytesOf(m, S \ {x}) \in Nat
         /\ BytesOf(m, S) = m[x].bytes + BytesOf(m, S \ {x})
<1>1. PICK g \in [SUBSET S -> Nat] : Sums(g, m, S)
  BY SumsExist
<1>2. BytesOf(m, S) = g[S]
  BY <1>1, SumChosen
<1>3. BytesOf(m, S \ {x}) = g[S \ {x}]
  <2>1. IsFiniteSet(S \ {x}) /\ S \ {x} \in SUBSET S
    BY FS_Subset
  <2>2. PICK h \in [SUBSET (S \ {x}) -> Nat] : Sums(h, m, S \ {x})
    BY <2>1, SumsExist
  <2>3. BytesOf(m, S \ {x}) = h[S \ {x}]
    BY <2>1, <2>2, SumChosen
  <2>4. g[S \ {x}] = h[S \ {x}]
    BY <1>1, <2>1, <2>2, SumsAgree
  <2> QED BY <2>3, <2>4
<1> DEFINE T == {c \in Nat : \A s \in SUBSET S : \A y \in s : Cardinality(s) = c =>
                               g[s] = m[y].bytes + g[s \ {y}]}
<1>0. \A s \in SUBSET S : IsFiniteSet(s) /\ Cardinality(s) \in Nat
  BY FS_Subset, FS_CardinalityType
<1>4. 0 \in T
  BY <1>0, FS_EmptySet
<1>5. ASSUME NEW c \in 1 .. Cardinality(S), c - 1 \in T
      PROVE  c \in T
  <2> SUFFICES ASSUME NEW s \in SUBSET S, NEW y \in s, Cardinality(s) = c
               PROVE  g[s] = m[y].bytes + g[s \ {y}]
    BY <1>0
  <2> DEFINE z == Pick(s)
  <2>1. z \in s /\ Cardinality(s \ {z}) = c - 1 /\ Cardinality(s \ {y}) = c - 1
    BY <1>0, OneLess
  <2>2. g[s] = m[z].bytes + g[s \ {z}]
    BY <1>1 DEF Sums
  <2> HIDE DEF z
  <2>3. CASE y = z
    BY <2>2, <2>3
  <2>4. CASE y # z
    <3>1. y \in s \ {z} /\ z \in s \ {y} /\ s \ {z} \in SUBSET S /\ s \ {y} \in SUBSET S
      BY <2>1, <2>4
    <3>2. g[s \ {z}] = m[y].bytes + g[(s \ {z}) \ {y}]
      BY <1>5, <2>1, <3>1
    <3>3. g[s \ {y}] = m[z].bytes + g[(s \ {y}) \ {z}]
      BY <1>5, <2>1, <3>1
    <3>4. (s \ {z}) \ {y} = (s \ {y}) \ {z} /\ (s \ {y}) \ {z} \in SUBSET S
      OBVIOUS
    <3>5. m[y].bytes \in Nat /\ m[z].bytes \in Nat /\ g[(s \ {y}) \ {z}] \in Nat
      BY <2>1, <3>4
    <3> DEFINE rest == g[(s \ {y}) \ {z}]
    <3>6. g[s] = m[z].bytes + (m[y].bytes + rest)
      BY <2>2, <3>2, <3>4, Zenon
    <3>7. m[y].bytes + g[s \ {y}] = m[y].bytes + (m[z].bytes + rest)
      BY <3>3, Zenon
    <3>8. rest \in Nat
      BY <3>5
    <3> HIDE DEF rest
    <3>9. m[z].bytes + (m[y].bytes + rest) = m[y].bytes + (m[z].bytes + rest)
      BY <3>5, <3>8
    <3> QED BY <3>6, <3>7, <3>9, Zenon
  <2> QED BY <2>3, <2>4
<1>6. Cardinality(S) \in T
  <2>1. Cardinality(S) \in Nat /\ Cardinality(S) \in 0 .. Cardinality(S)
    BY <1>0
  <2> HIDE DEF T
  <2> QED BY <1>4, <1>5, <2>1, StepByStep
<1>7. g[S] = m[x].bytes + g[S \ {x}]
  BY <1>6
<1> QED BY <1>2, <1>3, <1>7

\* The bytes are those of the rasters and nothing else.
LEMMA BytesOfSame ==
  ASSUME NEW m, NEW n, NEW S, IsFiniteSet(S), \A k \in S : m[k].bytes \in Nat,
         \A k \in S : m[k].bytes = n[k].bytes
  PROVE  BytesOf(m, S) = BytesOf(n, S)
<1>1. PICK g \in [SUBSET S -> Nat] : Sums(g, m, S)
  BY SumsExist
<1>2. PICK h \in [SUBSET S -> Nat] : Sums(h, n, S)
  BY SumsExist
<1>3. BytesOf(m, S) = g[S] /\ BytesOf(n, S) = h[S]
  BY <1>1, <1>2, SumChosen
<1>4. g[S] = h[S]
  BY <1>1, <1>2, SumsAgree
<1> QED BY <1>3, <1>4
\* Some of them and the others make up all.
LEMMA BytesOfSplit ==
  ASSUME NEW m, NEW S, IsFiniteSet(S), \A k \in S : m[k].bytes \in Nat, NEW Q \in SUBSET S
  PROVE  /\ BytesOf(m, S) \in Nat /\ BytesOf(m, Q) \in Nat /\ BytesOf(m, S \ Q) \in Nat
         /\ BytesOf(m, S) = BytesOf(m, Q) + BytesOf(m, S \ Q)
<1> DEFINE T == {c \in Nat : \A q \in SUBSET S : Cardinality(q) = c =>
                               BytesOf(m, S) = BytesOf(m, q) + BytesOf(m, S \ q)}
<1>0. \A q \in SUBSET S : IsFiniteSet(q) /\ Cardinality(q) \in Nat
  BY FS_Subset, FS_CardinalityType
<1>1. ASSUME NEW q \in SUBSET S
      PROVE  BytesOf(m, q) \in Nat
  <2>1. CASE q = {}
    BY <2>1, BytesOfNone
  <2>2. CASE q # {}
    <3>1. PICK x \in q : TRUE
      BY <2>2
    <3>2. IsFiniteSet(q) /\ \A k \in q : m[k].bytes \in Nat
      BY <1>0
    <3> QED BY <3>1, <3>2, BytesOfMore
  <2> QED BY <2>1, <2>2
<1>2. 0 \in T
  <2> SUFFICES ASSUME NEW q \in SUBSET S, Cardinality(q) = 0
               PROVE  BytesOf(m, S) = BytesOf(m, q) + BytesOf(m, S \ q)
    OBVIOUS
  <2>1. q = {} /\ S \ q = S
    BY <1>0, FS_EmptySet
  <2>2. BytesOf(m, S) = 0 + BytesOf(m, S)
    BY <1>1
  <2> QED BY <2>1, <2>2, BytesOfNone
<1>3. ASSUME NEW c \in 1 .. Cardinality(S), c - 1 \in T
      PROVE  c \in T
  <2> SUFFICES ASSUME NEW q \in SUBSET S, Cardinality(q) = c
               PROVE  BytesOf(m, S) = BytesOf(m, q) + BytesOf(m, S \ q)
    BY <1>0
  <2>1. PICK x \in q : TRUE
    BY <1>0, FS_EmptySet
  <2> DEFINE r == q \ {x}
             a == BytesOf(m, r)
             b == BytesOf(m, S \ q)
  <2>2. r \in SUBSET S /\ Cardinality(r) = c - 1
    BY <1>0, <2>1, OneLess
  <2>3. BytesOf(m, S) = a + BytesOf(m, S \ r)
    BY <1>3, <2>2
  <2>4. BytesOf(m, q) = m[x].bytes + a
    <3>1. IsFiniteSet(q) /\ \A k \in q : m[k].bytes \in Nat
      BY <1>0
    <3> QED BY <2>1, <3>1, BytesOfMore
  <2>5. BytesOf(m, S \ r) = m[x].bytes + b
    <3>1. x \in S \ r /\ (S \ r) \ {x} = S \ q
      BY <2>1
    <3>2. IsFiniteSet(S \ r) /\ \A k \in S \ r : m[k].bytes \in Nat
      BY <1>0
    <3> HIDE DEF r
    <3> QED BY <3>1, <3>2, BytesOfMore
  <2>6. m[x].bytes \in Nat /\ a \in Nat /\ b \in Nat
    BY <1>1, <2>1, <2>2
  <2> HIDE DEF r, a, b
  <2>7. a + (m[x].bytes + b) = (m[x].bytes + a) + b
    BY <2>6
  <2> QED BY <2>3, <2>4, <2>5, <2>7, Zenon DEF b
<1>4. Cardinality(Q) \in T
  <2>1. Cardinality(S) \in Nat /\ Cardinality(Q) \in 0 .. Cardinality(S)
    BY <1>0, FS_Subset
  <2> HIDE DEF T
  <2> QED BY <1>2, <1>3, <2>1, StepByStep
<1> QED BY <1>1, <1>4

\* What is left of a count when some of the rasters are taken from it.
LEMMA BytesLeft ==
  ASSUME NEW m, NEW S, IsFiniteSet(S), \A k \in S : m[k].bytes \in Nat, NEW slots,
         NEW total, total = BytesOf(m, S)
  PROVE  /\ Monus(total, BytesOf(m, slots \cap S)) = BytesOf(m, S \ slots)
         /\ BytesOf(m, S \ slots) \in Nat /\ BytesOf(m, S \ slots) <= total /\ total \in Nat
<1> DEFINE Q == slots \cap S
           x == BytesOf(m, Q)
           y == BytesOf(m, S \ Q)
<1>1. Q \in SUBSET S /\ S \ Q = S \ slots
  OBVIOUS
<1> HIDE DEF Q
<1>2. total \in Nat /\ x \in Nat /\ y \in Nat
  BY <1>1, BytesOfSplit
<1>3. total = x + y
  BY <1>1, BytesOfSplit
<1>4. y = BytesOf(m, S \ slots)
  BY <1>1
<1> HIDE DEF x, y
<1>5. Monus(total, x) = y /\ y <= total
  BY <1>2, <1>3 DEF Monus
<1> QED BY <1>2, <1>4, <1>5 DEF x, Q

-----------------------------------------------------------------------------
(* The recency queue.                                                      *)

Once(q) == \A i, j \in 1 .. Len(q) : q[i] = q[j] => i = j

\* One more at the back of a queue.
LEMMA Queued ==
  ASSUME NEW E, NEW q \in Seq(E), NEW e
  PROVE  /\ Append(q, e) \in Seq(E \cup {e}) /\ Len(Append(q, e)) = Len(q) + 1
         /\ ToSet(Append(q, e)) = ToSet(q) \cup {e}
         /\ Once(q) /\ e \notin ToSet(q) => Once(Append(q, e))
<1> DEFINE a == Append(q, e)
<1>1. q \in Seq(E \cup {e}) /\ Len(q) \in Nat /\ DOMAIN q = 1 .. Len(q)
  BY SeqMonotonic, LenProperties
<1>2. /\ a \in Seq(E \cup {e}) /\ Len(a) = Len(q) + 1 /\ a[Len(q) + 1] = e
      /\ \A i \in 1 .. Len(q) : a[i] = q[i]
  BY <1>1, AppendProperties
<1>3. DOMAIN a = 1 .. Len(q) + 1
  BY <1>2, LenProperties
<1> HIDE DEF a
<1>4. ToSet(a) = ToSet(q) \cup {e}
  <2>1. \A i \in DOMAIN a : i = Len(q) + 1 \/ i \in 1 .. Len(q)
    BY <1>1, <1>3
  <2>2. \A i \in 1 .. Len(q) : i \in DOMAIN a
    BY <1>1, <1>3
  <2>3. Len(q) + 1 \in DOMAIN a
    BY <1>1, <1>3
  <2> QED BY <1>1, <1>2, <2>1, <2>2, <2>3 DEF ToSet
<1>5. Once(q) /\ e \notin ToSet(q) => Once(a)
  <2> SUFFICES ASSUME Once(q), e \notin ToSet(q), NEW i \in 1 .. Len(a), NEW j \in 1 .. Len(a),
                      a[i] = a[j]
               PROVE  i = j
    BY DEF Once
  <2>1. \A k \in 1 .. Len(q) : q[k] # e
    BY <1>1 DEF ToSet
  <2>2. (i \in 1 .. Len(q) \/ i = Len(q) + 1) /\ (j \in 1 .. Len(q) \/ j = Len(q) + 1)
    BY <1>1, <1>2
  <2> QED BY <1>2, <2>1, <2>2 DEF Once
<1> QED BY <1>2, <1>4, <1>5 DEF a

\* A function that retains, entry by entry.
Retains(g, lru, gone) ==
  /\ g[0] = <<>>
  /\ \A k \in 1 .. Len(lru) :
       g[k] = IF lru[k] \in gone THEN g[k - 1] ELSE Append(g[k - 1], lru[k])

\* retain goes through a queue entry by entry.
LEMMA RetainedSteps ==
  ASSUME NEW E, NEW lru \in Seq(E), NEW gone
  PROVE  \E g : Retains(g, lru, gone) /\ Retained(lru, gone) = g[Len(lru)]
<1> DEFINE n == Len(lru)
           next(k, q) == IF lru[k] \in gone THEN q ELSE Append(q, lru[k])
           body(h) == [k \in 0 .. n |->
                         IF k = 0 THEN <<>>
                         ELSE IF lru[k] \in gone THEN h[k - 1] ELSE Append(h[k - 1], lru[k])]
           g == CHOOSE h : h = body(h)
           step == [p \in (1 .. n) \X Seq(E) |-> next(p[1], p[2])]
<1>0. n \in Nat /\ DOMAIN lru = 1 .. n /\ \A k \in 1 .. n : lru[k] \in E
  BY LenProperties
<1>1. Retained(lru, gone) = g[n]
  BY DEF Retained
<1>2. step \in [(1 .. n) \X Seq(E) -> Seq(E)]
  <2>1. ASSUME NEW p \in (1 .. n) \X Seq(E)
        PROVE  next(p[1], p[2]) \in Seq(E)
    <3>1. p[1] \in 1 .. n /\ p[2] \in Seq(E) /\ lru[p[1]] \in E
      BY <1>0
    <3> QED BY <3>1, AppendProperties
  <2> HIDE DEF next
  <2> QED BY <2>1
<1>3. \A k \in 1 .. n, s \in Seq(E) : step[<<k, s>>] = next(k, s)
  <2> HIDE DEF next
  <2> QED OBVIOUS
<1> HIDE DEF n, step
<1>4. PICK f \in [0 .. n -> Seq(E)] : Iterates(f, n, <<>>, step)
  <2>1. <<>> \in Seq(E)
    BY EmptySeq
  <2> QED BY <1>0, <1>2, <2>1, Iterated
<1>5. f = body(f)
  <2>1. ASSUME NEW k \in 0 .. n
        PROVE  f[k] = IF k = 0 THEN <<>> ELSE next(k, f[k - 1])
    <3>1. CASE k = 0
      BY <1>4, <3>1 DEF Iterates
    <3>2. CASE k # 0
      <4>1. k \in 1 .. n /\ k - 1 \in 0 .. n
        BY <1>0, <3>2
      <4>2. f[k] = step[<<k, f[k - 1]>>] /\ f[k - 1] \in Seq(E)
        BY <1>4, <4>1 DEF Iterates
      <4> HIDE DEF next
      <4> QED BY <1>3, <3>2, <4>1, <4>2
    <3> HIDE DEF next
    <3> QED BY <3>1, <3>2
  <2> QED BY <1>4, <2>1
<1>6. g = body(g)
  BY <1>5
<1>7. g[0] = <<>> /\ \A k \in 1 .. n : g[k] = next(k, g[k - 1])
  <2> HIDE DEF g
  <2>1. ASSUME NEW k \in 0 .. n
        PROVE  g[k] = IF k = 0 THEN <<>> ELSE next(k, g[k - 1])
    <3>1. g[k] = body(g)[k]
      BY <1>6
    <3> QED BY <3>1
  <2>2. 0 \in 0 .. n /\ \A k \in 1 .. n : k \in 0 .. n /\ k # 0
    BY <1>0
  <2> HIDE DEF next
  <2>3. g[0] = <<>>
    BY <2>1, <2>2
  <2>4. ASSUME NEW k \in 1 .. n
        PROVE  g[k] = next(k, g[k - 1])
    BY <2>1, <2>2, Zenon
  <2> QED BY <2>3, <2>4
<1>8. Retains(g, lru, gone)
  <2> HIDE DEF g
  <2> QED BY <1>7 DEF Retains, n
<1> QED BY <1>1, <1>8 DEF n

\* retain drops what is gone from a queue, and nothing else.
LEMMA RetainedKeeps ==
  ASSUME NEW E, NEW lru \in Seq(E), Once(lru), NEW gone
  PROVE  /\ Retained(lru, gone) \in Seq(E) /\ Once(Retained(lru, gone))
         /\ ToSet(Retained(lru, gone)) = ToSet(lru) \ gone
<1> DEFINE n == Len(lru)
           next(k, q) == IF lru[k] \in gone THEN q ELSE Append(q, lru[k])
<1>0. n \in Nat /\ DOMAIN lru = 1 .. n /\ \A k \in 1 .. n : lru[k] \in E
  BY LenProperties
<1>1. PICK g : Retains(g, lru, gone) /\ Retained(lru, gone) = g[n]
  BY RetainedSteps
<1>7. g[0] = <<>> /\ \A k \in 1 .. n : g[k] = next(k, g[k - 1])
  BY <1>1 DEF Retains
<1> HIDE DEF n
<1> DEFINE front(k) == {lru[i] : i \in 1 .. k}
           T == {k \in 0 .. n : /\ g[k] \in Seq(E) /\ Once(g[k])
                                /\ ToSet(g[k]) = front(k) \ gone}
<1>8. 0 \in T
  <2>1. g[0] \in Seq(E) /\ Len(g[0]) = 0 /\ DOMAIN g[0] = {}
    BY <1>7, EmptySeq
  <2>2. 0 \in 0 .. n
    BY <1>0
  <2> QED BY <2>1, <2>2 DEF Once, ToSet
<1>9. ASSUME NEW k \in 1 .. n, k - 1 \in T
      PROVE  k \in T
  <2>0. k \in 0 .. n /\ k \in Nat
    BY <1>0
  <2>1. /\ g[k - 1] \in Seq(E) /\ Once(g[k - 1])
        /\ ToSet(g[k - 1]) = front(k - 1) \ gone
    BY <1>9
  <2>2. g[k] = next(k, g[k - 1])
    BY <1>7
  <2>3. front(k) = front(k - 1) \cup {lru[k]}
    <3>1. \A i \in 1 .. k : i = k \/ i \in 1 .. k - 1
      BY <2>0
    <3>2. k \in 1 .. k /\ \A i \in 1 .. k - 1 : i \in 1 .. k
      BY <2>0
    <3> QED BY <3>1, <3>2
  <2>4. lru[k] \notin front(k - 1)
    <3>1. ASSUME NEW i \in 1 .. k - 1
          PROVE  lru[i] # lru[k]
      <4>1. i \in 1 .. n /\ i # k
        BY <1>0
      <4> QED BY <4>1 DEF Once, n
    <3> QED BY <3>1
  <2> HIDE DEF front
  <2>5. CASE lru[k] \in gone
    <3>1. g[k] = g[k - 1] /\ front(k) \ gone = front(k - 1) \ gone
      BY <2>2, <2>3, <2>5
    <3> QED BY <2>0, <2>1, <3>1
  <2>6. CASE lru[k] \notin gone
    <3>1. g[k] = Append(g[k - 1], lru[k]) /\ lru[k] \in E
      BY <1>0, <2>2, <2>6
    <3>2. front(k) \ gone = (front(k - 1) \ gone) \cup {lru[k]}
      BY <2>3, <2>6
    <3>3. lru[k] \notin ToSet(g[k - 1])
      BY <2>1, <2>4
    <3>4. Append(g[k - 1], lru[k]) \in Seq(E)
      BY <2>1, <3>1, AppendProperties
    <3>5. /\ Once(Append(g[k - 1], lru[k]))
          /\ ToSet(Append(g[k - 1], lru[k])) = ToSet(g[k - 1]) \cup {lru[k]}
      BY <2>1, <3>3, Queued
    <3> QED BY <2>0, <2>1, <3>1, <3>2, <3>4, <3>5
  <2> QED BY <2>5, <2>6
<1>10. n \in T
  <2>1. \A k \in 0 .. n : k \in T
    <3> HIDE DEF T
    <3> QED BY <1>0, <1>8, <1>9, StepByStep
  <2>2. n \in 0 .. n
    BY <1>0
  <2> QED BY <2>1, <2>2
<1>11. front(n) = ToSet(lru)
  BY <1>0 DEF ToSet
<1> QED BY <1>1, <1>10, <1>11

\* A queue that lists every one of a set once is as long as the set is large.
LEMMA LongAsLarge ==
  ASSUME NEW E, NEW q \in Seq(E), Once(q)
  PROVE  IsFiniteSet(ToSet(q)) /\ Cardinality(ToSet(q)) = Len(q)
<1>1. /\ Len(q) \in Nat /\ DOMAIN q = 1 .. Len(q)
      /\ q = [i \in 1 .. Len(q) |-> q[i]]
  BY LenProperties
<1>2. IsFiniteSet(1 .. Len(q)) /\ Cardinality(1 .. Len(q)) = Len(q)
  <2>1. 1 \in Int /\ Len(q) \in Int
    BY <1>1
  <2>2. /\ IsFiniteSet(1 .. Len(q))
        /\ Cardinality(1 .. Len(q)) = IF 1 > Len(q) THEN 0 ELSE Len(q) - 1 + 1
    BY <2>1, FS_Interval
  <2> QED BY <1>1, <2>2
<1>3. q \in Surjection(1 .. Len(q), ToSet(q))
  BY <1>1 DEF Surjection, ToSet
<1>4. q \in Injection(1 .. Len(q), ToSet(q))
  BY <1>1, <1>3 DEF Injection, IsInjective, Surjection, Once
<1> QED BY <1>2, <1>3, <1>4, FS_Surjection

-----------------------------------------------------------------------------
(* The store.                                                              *)

\* Whatever is done to it, the queue lists each stored slot once and the byte
\* count is what is stored.
Whole(s) ==
  /\ s = [memos |-> s.memos, lru |-> s.lru, total |-> s.total]
  /\ IsFiniteSet(DOMAIN s.memos) /\ \A k \in DOMAIN s.memos : s.memos[k].bytes \in Nat
  /\ s.lru \in Seq(DOMAIN s.memos) /\ Once(s.lru) /\ ToSet(s.lru) = DOMAIN s.memos
  /\ s.total = BytesOf(s.memos, DOMAIN s.memos)

\* Only a lone raster exceeds the budget.
InBudget(s) == s.total > Cap => Len(s.lru) = 1

Kept(s) == Whole(s) /\ InBudget(s)

StoreInv == Kept(store)

\* A queue is one of the slots it lists.
LEMMA OfItsSlots ==
  ASSUME NEW E, NEW q \in Seq(E)
  PROVE  q \in Seq(ToSet(q))
<1>1. Len(q) \in Nat /\ DOMAIN q = 1 .. Len(q) /\ q = [i \in 1 .. Len(q) |-> q[i]]
  BY LenProperties
<1>2. \A i \in 1 .. Len(q) : q[i] \in ToSet(q)
  BY <1>1 DEF ToSet
<1>3. q \in [1 .. Len(q) -> ToSet(q)]
  BY <1>1, <1>2
<1> QED BY <1>1, <1>3, SeqDef

\* get moves a raster's slot to the back of the queue.
LEMMA TouchedKeeps ==
  ASSUME NEW E, NEW lru \in Seq(E), Once(lru), NEW slot
  PROVE  /\ Touched(lru, slot) \in Seq(ToSet(lru) \cup {slot}) /\ Once(Touched(lru, slot))
         /\ ToSet(Touched(lru, slot)) = ToSet(lru) \cup {slot}
         /\ Len(Touched(lru, slot)) \in Nat \ {0}
<1> DEFINE q == Retained(lru, {slot})
           t == Append(q, slot)
<1>1. q \in Seq(E) /\ Once(q) /\ ToSet(q) = ToSet(lru) \ {slot}
  BY RetainedKeeps
<1>2. slot \notin ToSet(q)
  BY <1>1
<1> HIDE DEF q
<1>3. /\ t \in Seq(E \cup {slot}) /\ Len(t) = Len(q) + 1
      /\ ToSet(t) = ToSet(q) \cup {slot} /\ Once(t)
  BY <1>1, <1>2, Queued
<1>4. Len(q) \in Nat
  BY <1>1, LenProperties
<1>5. ToSet(t) = ToSet(lru) \cup {slot}
  BY <1>1, <1>3
<1> HIDE DEF t
<1>6. t \in Seq(ToSet(t))
  BY <1>3, OfItsSlots
<1>7. t = Touched(lru, slot)
  BY DEF t, q, Touched
<1> QED BY <1>3, <1>4, <1>5, <1>6, <1>7

\* What a store counts is a number.
LEMMA TotalIsNat ==
  ASSUME NEW s, Whole(s)
  PROVE  s.total \in Nat
<1>1. /\ s.total = BytesOf(s.memos, DOMAIN s.memos) /\ IsFiniteSet(DOMAIN s.memos)
      /\ \A k \in DOMAIN s.memos : s.memos[k].bytes \in Nat
      /\ DOMAIN s.memos \in SUBSET DOMAIN s.memos
  BY DEF Whole
<1>2. BytesOf(s.memos, DOMAIN s.memos) \in Nat
  BY <1>1, BytesOfSplit
<1> QED BY <1>1, <1>2

\* A store is as sound as its queue says.
LEMMA WholeIsSound ==
  ASSUME NEW s, Whole(s), InBudget(s)
  PROVE  Sound(s)
<1>1. Cardinality(DOMAIN s.memos) = Len(s.lru)
  BY LongAsLarge DEF Whole
<1> QED BY <1>1 DEF Whole, InBudget, Sound

\* get.
LEMMA GotKeeps ==
  ASSUME NEW s, Whole(s), InBudget(s), NEW slot, Has(s, slot)
  PROVE  Whole(Got(s, slot)) /\ InBudget(Got(s, slot))
<1> DEFINE t == Touched(s.lru, slot)
           g == Got(s, slot)
           D == DOMAIN s.memos
<1>1. s.lru \in Seq(D) /\ Once(s.lru) /\ ToSet(s.lru) = D /\ slot \in D
  BY DEF Whole, Has
<1>2. D \cup {slot} = D
  BY <1>1
<1>3. t \in Seq(D) /\ Once(t) /\ ToSet(t) = D
  <2> HIDE DEF t, D
  <2>1. t \in Seq(ToSet(s.lru) \cup {slot}) /\ Once(t) /\ ToSet(t) = ToSet(s.lru) \cup {slot}
    BY <1>1, TouchedKeeps DEF t
  <2> QED BY <1>1, <1>2, <2>1
<1>4. s = [memos |-> s.memos, lru |-> s.lru, total |-> s.total]
  BY DEF Whole
<1>5. g = [memos |-> s.memos, lru |-> t, total |-> s.total]
  BY <1>4 DEF Got
<1> HIDE DEF t, g
<1>6. Len(t) = Len(s.lru)
  <2>1. Cardinality(D) = Len(t)
    BY <1>3, LongAsLarge
  <2>2. Cardinality(D) = Len(s.lru)
    BY <1>1, LongAsLarge
  <2> QED BY <2>1, <2>2
<1>7. g.memos = s.memos /\ g.lru = t /\ g.total = s.total
  BY <1>5
<1> QED BY <1>3, <1>5, <1>6, <1>7 DEF Whole, InBudget, g

\* remove and remove_site: what is gone is in none of the three.
LEMMA RemovedKeeps ==
  ASSUME NEW s, Whole(s), NEW slots
  PROVE  /\ Whole(RemovedAll(s, slots))
         /\ DOMAIN RemovedAll(s, slots).memos = DOMAIN s.memos \ slots
         /\ RemovedAll(s, slots).total <= s.total /\ s.total \in Nat
<1> DEFINE D == DOMAIN s.memos
           q == Retained(s.lru, slots)
           m == Restrict(s.memos, D \ slots)
           b == BytesWithout(s, slots)
           r == RemovedAll(s, slots)
<1>1. /\ IsFiniteSet(D) /\ \A k \in D : s.memos[k].bytes \in Nat
      /\ s.lru \in Seq(D) /\ Once(s.lru) /\ ToSet(s.lru) = D
      /\ s.total = BytesOf(s.memos, D)
  BY DEF Whole
<1>2. DOMAIN m = D \ slots /\ \A k \in D \ slots : m[k] = s.memos[k]
  BY DEF Restrict
<1>3. q \in Seq(D \ slots) /\ Once(q) /\ ToSet(q) = D \ slots
  <2> HIDE DEF D, q
  <2>1. q \in Seq(D) /\ Once(q) /\ ToSet(q) = D \ slots
    BY <1>1, RetainedKeeps DEF q
  <2> QED BY <2>1, OfItsSlots
<1>4. /\ b = BytesOf(s.memos, D \ slots) /\ b \in Nat
      /\ b <= s.total /\ s.total \in Nat
  <2> HIDE DEF D, b, m, q, r
  <2>1. /\ Monus(s.total, BytesOf(s.memos, slots \cap D)) = BytesOf(s.memos, D \ slots)
        /\ BytesOf(s.memos, D \ slots) \in Nat /\ BytesOf(s.memos, D \ slots) <= s.total
        /\ s.total \in Nat
    <3>1. IsFiniteSet(D) /\ s.total = BytesOf(s.memos, D)
      BY <1>1
    <3>2. \A k \in D : s.memos[k].bytes \in Nat
      BY <1>1
    <3> QED BY <3>1, <3>2, BytesLeft
  <2>2. b = Monus(s.total, BytesOf(s.memos, slots \cap D))
    BY DEF BytesWithout, b, D
  <2> QED BY <2>1, <2>2
<1>5. BytesOf(s.memos, D \ slots) = BytesOf(m, D \ slots)
  <2> HIDE DEF D, m
  <2>1. IsFiniteSet(D \ slots)
    BY <1>1, FS_Subset
  <2> QED BY <1>1, <1>2, <2>1, BytesOfSame
<1>6. r = [memos |-> m, lru |-> q, total |-> b]
  BY DEF RemovedAll
<1>7. IsFiniteSet(D \ slots) /\ \A k \in D \ slots : m[k].bytes \in Nat
  <2> HIDE DEF D, m
  <2> QED BY <1>1, <1>2, FS_Subset
<1> HIDE DEF r, m, q, b, D
<1>8. r.memos = m /\ r.lru = q /\ r.total = b
  BY <1>6
<1>9. Whole(r)
  <2>1. r = [memos |-> r.memos, lru |-> r.lru, total |-> r.total]
    BY <1>6, <1>8, Zenon
  <2>2. DOMAIN r.memos = D \ slots
    BY <1>2, <1>8
  <2>3. r.total = BytesOf(r.memos, D \ slots)
    BY <1>4, <1>5, <1>8
  <2>4. /\ IsFiniteSet(DOMAIN r.memos) /\ \A k \in DOMAIN r.memos : r.memos[k].bytes \in Nat
        /\ r.lru \in Seq(DOMAIN r.memos) /\ Once(r.lru) /\ ToSet(r.lru) = DOMAIN r.memos
    BY <1>3, <1>7, <1>8, <2>2
  <2> QED BY <2>1, <2>2, <2>3, <2>4 DEF Whole
<1> QED BY <1>2, <1>4, <1>8, <1>9 DEF r, D

\* What is removed can only bring a store within its budget.
LEMMA RemovedInBudget ==
  ASSUME NEW s, Whole(s), InBudget(s), NEW slots
  PROVE  Whole(RemovedAll(s, slots)) /\ InBudget(RemovedAll(s, slots))
<1> DEFINE r == RemovedAll(s, slots)
<1>1. /\ Whole(r) /\ DOMAIN r.memos = DOMAIN s.memos \ slots
      /\ r.total <= s.total /\ s.total \in Nat
  BY RemovedKeeps
<1> HIDE DEF r
<1>2. /\ Cardinality(DOMAIN r.memos) = Len(r.lru) /\ Cardinality(DOMAIN s.memos) = Len(s.lru)
      /\ IsFiniteSet(DOMAIN s.memos) /\ IsFiniteSet(DOMAIN r.memos)
  BY <1>1, LongAsLarge DEF Whole
<1>3. ASSUME r.total > Cap
      PROVE  Len(r.lru) = 1
  <2>1. r.total \in Nat
    BY <1>1, TotalIsNat
  <2>2. Len(s.lru) = 1
    BY <1>1, <1>3, <2>1, CapAssumption DEF InBudget
  <2>3. DOMAIN r.memos # {}
    <3> SUFFICES ASSUME DOMAIN r.memos = {}
                 PROVE  FALSE
      OBVIOUS
    <3>1. r.total = 0
      BY <1>1, BytesOfNone DEF Whole
    <3> QED BY <1>3, <3>1, CapAssumption
  <2>4. PICK x : DOMAIN s.memos = {x}
    BY <1>2, <2>2, FS_Singleton
  <2>5. DOMAIN r.memos = {x}
    BY <1>1, <2>3, <2>4
  <2> QED BY <1>2, <2>2, <2>4, <2>5
<1> QED BY <1>1, <1>3 DEF InBudget, r

\* The loop of insert stops: either the rest fits, or it is down to the last.
LEMMA EvictedKeeps ==
  ASSUME NEW s, Whole(s), Len(s.lru) \in Nat \ {0}
  PROVE  Whole(Evicted(s)) /\ InBudget(Evicted(s))
<1> DEFINE n == Len(s.lru)
           front(k) == {s.lru[i] : i \in 1 .. k}
           left(k) == RemovedAll(s, front(k))
           enough == {k \in 0 .. n - 1 : k = n - 1 \/ left(k).total <= Cap}
           k == Min(enough)
           r == left(k)
<1>1. n - 1 \in enough /\ enough \in SUBSET Nat
  OBVIOUS
<1>2. k \in enough
  <2> HIDE DEF enough
  <2>1. \E j \in enough : \A i \in enough : j <= i
    BY <1>1, LeastExists
  <2> QED BY <2>1 DEF Min
<1>3. r = Evicted(s)
  BY DEF Evicted
<1>4. /\ Whole(r) /\ DOMAIN r.memos = DOMAIN s.memos \ front(k)
      /\ r.total <= s.total /\ s.total \in Nat
  <2> HIDE DEF front, k
  <2> QED BY RemovedKeeps
<1>5. k \in 0 .. n - 1 /\ (k = n - 1 \/ r.total <= Cap)
  BY <1>2
<1> HIDE DEF r, k
<1>6. ASSUME r.total > Cap
      PROVE  Len(r.lru) = 1
  <2>1. r.total \in Nat
    BY <1>4, TotalIsNat
  <2>2. k = n - 1
    BY <1>5, <1>6, <2>1, CapAssumption
  <2>3. DOMAIN r.memos \subseteq {s.lru[n]}
    <3>1. DOMAIN s.memos = {s.lru[i] : i \in 1 .. n}
      <4>1. DOMAIN s.lru = 1 .. n
        BY LenProperties DEF Whole
      <4> QED BY <4>1 DEF Whole, ToSet
    <3>2. \A i \in 1 .. n : i = n \/ i \in 1 .. k
      BY <2>2
    <3> QED BY <1>4, <3>1, <3>2
  <2>4. DOMAIN r.memos # {}
    <3> SUFFICES ASSUME DOMAIN r.memos = {}
                 PROVE  FALSE
      OBVIOUS
    <3>1. r.total = 0
      BY <1>4, BytesOfNone DEF Whole
    <3> QED BY <1>6, <3>1, CapAssumption
  <2>5. DOMAIN r.memos = {s.lru[n]}
    BY <2>3, <2>4
  <2>6. Cardinality(DOMAIN r.memos) = Len(r.lru)
    BY <1>4, LongAsLarge DEF Whole
  <2> QED BY <2>5, <2>6, FS_Singleton
<1> QED BY <1>3, <1>4, <1>6 DEF InBudget

\* insert: the old raster's bytes are given back and the new one's taken.
LEMMA FilingKeeps ==
  ASSUME NEW s, Whole(s), NEW slot, NEW raster, raster.bytes \in Nat
  PROVE  /\ Whole(Filing(s, slot, raster)) /\ Len(Filing(s, slot, raster).lru) \in Nat \ {0}
         /\ Inserted(s, slot, raster) = Evicted(Filing(s, slot, raster))
<1> DEFINE D == DOMAIN s.memos
           m == [k \in D \cup {slot} |-> IF k = slot THEN raster ELSE s.memos[k]]
           q == Touched(s.lru, slot)
           b == BytesWithout(s, {slot})
           i == [memos |-> m, lru |-> q, total |-> b + raster.bytes]
           r == RemovedAll(s, {slot})
<1>1. /\ IsFiniteSet(D) /\ \A k \in D : s.memos[k].bytes \in Nat
      /\ s.lru \in Seq(D) /\ Once(s.lru) /\ ToSet(s.lru) = D
  BY DEF Whole
<1>2. /\ q \in Seq(D \cup {slot}) /\ Once(q) /\ ToSet(q) = D \cup {slot}
      /\ Len(q) \in Nat \ {0}
  <2> HIDE DEF D
  <2> QED BY <1>1, TouchedKeeps
<1>3. /\ DOMAIN m = D \cup {slot} /\ m[slot] = raster
      /\ \A k \in D \ {slot} : m[k] = s.memos[k]
  OBVIOUS
<1>4. /\ IsFiniteSet(D \cup {slot}) /\ IsFiniteSet(D \ {slot})
      /\ \A k \in D \cup {slot} : m[k].bytes \in Nat
  <2>1. \A k \in D \cup {slot} : k = slot \/ k \in D \ {slot}
    OBVIOUS
  <2> HIDE DEF D, m
  <2> QED BY <1>1, <1>3, <2>1, FS_AddElement, FS_RemoveElement
<1>5. b = BytesOf(m, D \ {slot}) /\ b \in Nat
  <2>1. /\ Whole(r) /\ DOMAIN r.memos = D \ {slot}
    BY RemovedKeeps
  <2>2. r.total = b /\ r.memos = Restrict(s.memos, D \ {slot})
    BY DEF RemovedAll
  <2>3. \A k \in D \ {slot} : r.memos[k].bytes = m[k].bytes /\ r.memos[k].bytes \in Nat
    BY <1>1, <1>3, <2>2 DEF Restrict
  <2>4. b = BytesOf(r.memos, D \ {slot})
    BY <2>1, <2>2 DEF Whole
  <2> HIDE DEF D, m, r, b
  <2>5. BytesOf(r.memos, D \ {slot}) = BytesOf(m, D \ {slot})
    BY <1>4, <2>3, BytesOfSame
  <2>6. r.total \in Nat
    BY <2>1, TotalIsNat
  <2> QED BY <2>2, <2>4, <2>5, <2>6
<1>6. BytesOf(m, D \cup {slot}) = b + raster.bytes
  <2>1. (D \cup {slot}) \ {slot} = D \ {slot} /\ slot \in D \cup {slot}
    OBVIOUS
  <2> HIDE DEF D, m, b
  <2>2. BytesOf(m, D \cup {slot}) = m[slot].bytes + BytesOf(m, D \ {slot})
    BY <1>4, <2>1, BytesOfMore
  <2> QED BY <1>3, <1>5, <2>2
<1>7. i.memos = m /\ i.lru = q /\ i.total = b + raster.bytes
  OBVIOUS
<1>8. i = [memos |-> i.memos, lru |-> i.lru, total |-> i.total]
  BY <1>7
<1>9. Inserted(s, slot, raster) = Evicted(i) /\ i = Filing(s, slot, raster)
  BY DEF Inserted, Filing
<1> HIDE DEF i, m, q, b, D
<1>10. Whole(i)
  <2>1. DOMAIN i.memos = D \cup {slot}
    BY <1>3, <1>7
  <2>2. i.total = BytesOf(i.memos, D \cup {slot})
    BY <1>6, <1>7
  <2>3. /\ IsFiniteSet(DOMAIN i.memos) /\ \A k \in DOMAIN i.memos : i.memos[k].bytes \in Nat
        /\ i.lru \in Seq(DOMAIN i.memos) /\ Once(i.lru) /\ ToSet(i.lru) = DOMAIN i.memos
    BY <1>2, <1>4, <1>7, <2>1
  <2> QED BY <1>8, <2>1, <2>2, <2>3 DEF Whole
<1>11. Len(i.lru) \in Nat \ {0}
  BY <1>2, <1>7
<1> QED BY <1>9, <1>10, <1>11

\* insert keeps the store whole.
LEMMA InsertedKeeps ==
  ASSUME NEW s, Whole(s), NEW slot, NEW raster, raster.bytes \in Nat
  PROVE  Whole(Inserted(s, slot, raster)) /\ InBudget(Inserted(s, slot, raster))
BY FilingKeeps, EvictedKeeps

-----------------------------------------------------------------------------
(* What is done to the store.                                              *)

\* There is a size for every raster.
LEMMA Sized ==
  /\ \A site \in Sites : Markup(site).bytes \in Nat
  /\ \A key, c : DocRaster(key, c).bytes \in Nat
<1>1. \A site \in Sites : Bytes[site] \in Nat
  BY BytesAssumption
<1>2. "doc_preview" \in Sites
  BY DEF Sites
<1> QED BY <1>1, <1>2 DEF Markup, DocRaster

\* An overlay's raster is looked up, or filed.
LEMMA OverlayKeeps ==
  ASSUME NEW s, Kept(s), NEW open, NEW site \in Sites
  PROVE  Kept(WithOverlay(s, open, site))
<1> DEFINE slot == <<site, width>>
           raster == Markup(site)
<1>1. raster.bytes \in Nat
  BY Sized
<1> HIDE DEF slot, raster
<1>2. Kept(Memoised(s, slot, raster))
  <2>1. CASE Hits(s, slot, raster.key)
    <3>1. Memoised(s, slot, raster) = Got(s, slot) /\ Has(s, slot)
      BY <2>1 DEF Hits, Memoised
    <3> QED BY <3>1, GotKeeps DEF Kept
  <2>2. CASE ~ Hits(s, slot, raster.key)
    <3>1. Memoised(s, slot, raster) = Inserted(s, slot, raster)
      BY <2>2 DEF Memoised
    <3> QED BY <1>1, <3>1, InsertedKeeps DEF Kept
  <2> QED BY <2>1, <2>2
<1> QED BY <1>2 DEF WithOverlay, slot, raster

\* The page is looked up, filed, or forgotten when it does not render.
LEMMA EnsuredKeeps ==
  ASSUME NEW s, Kept(s)
  PROVE  Kept(Ensured(s).store)
<1> DEFINE r == DocRaster(Key(content), content)
<1>1. r.bytes \in Nat
  BY Sized
<1> HIDE DEF r
<1>2. /\ Hits(s, Doc, Key(content)) => Kept(Got(s, Doc))
      /\ Kept(Removed(s, Doc))
      /\ Kept(Inserted(s, Doc, r))
  <2>1. Hits(s, Doc, Key(content)) => Kept(Got(s, Doc))
    BY GotKeeps DEF Hits, Kept
  <2>2. Kept(Removed(s, Doc))
    BY RemovedInBudget DEF Removed, Kept
  <2>3. Kept(Inserted(s, Doc, r))
    BY <1>1, InsertedKeeps DEF Kept
  <2> QED BY <2>1, <2>2, <2>3
<1>3. \/ Ensured(s).store \in {s, Removed(s, Doc), Inserted(s, Doc, r)}
      \/ Hits(s, Doc, Key(content)) /\ Ensured(s).store = Got(s, Doc)
  <2> DEFINE kept == [store |-> s, view |-> view]
             failed == [store |-> Removed(s, Doc), view |-> "err"]
             filed == [store |-> Inserted(s, Doc, r), view |-> "ok"]
             found == [store |-> Got(s, Doc), view |-> "ok"]
  <2>1. /\ kept.store = s /\ failed.store = Removed(s, Doc)
        /\ filed.store = Inserted(s, Doc, r) /\ found.store = Got(s, Doc)
    OBVIOUS
  <2>2. \/ Ensured(s) \in {kept, failed, filed}
        \/ Hits(s, Doc, Key(content)) /\ Ensured(s) = found
    BY Zenon DEF Ensured, r
  <2> HIDE DEF kept, failed, filed, found
  <2> QED BY <2>1, <2>2
<1> QED BY <1>2, <1>3

\* The pre-pass of a frame.
LEMMA PreparedKeeps ==
  ASSUME Kept(store)
  PROVE  Kept(Prepared.store)
<1> DEFINE menued == WithOverlay(store, menu, "kernel_menu")
           overlays == WithOverlay(menued, help, "help")
           p == Ensured(overlays)
           flashed == [p EXCEPT !.store = WithOverlay(@, flash, "status_flash")]
<1>1. /\ "kernel_menu" \in Sites /\ "help" \in Sites /\ "status_flash" \in Sites
  BY DEF Sites
<1>2. Kept(menued)
  BY <1>1, OverlayKeeps
<1>3. Kept(overlays)
  <2> HIDE DEF menued
  <2> QED BY <1>1, <1>2, OverlayKeeps
<1> HIDE DEF overlays
<1>4. Kept(p.store) /\ p = [store |-> p.store, view |-> p.view]
  <2>1. p = [store |-> p.store, view |-> p.view]
    BY DEF Ensured
  <2> HIDE DEF p
  <2> QED BY <1>3, <2>1, EnsuredKeeps DEF p
<1> HIDE DEF p
<1>5. flashed.store = WithOverlay(p.store, flash, "status_flash")
  BY <1>4
<1>6. Kept(flashed.store)
  BY <1>1, <1>4, <1>5, OverlayKeeps
<1>7. Prepared.store = store \/ Prepared.store = flashed.store
  <2>1. Prepared = IF ~ moved /\ lastUi = Ui /\ ~ flash THEN [store |-> store, view |-> view]
                   ELSE flashed
    BY DEF Prepared, p, overlays
  <2> HIDE DEF flashed
  <2>2. CASE ~ moved /\ lastUi = Ui /\ ~ flash
    BY <2>1, <2>2
  <2>3. CASE ~ (~ moved /\ lastUi = Ui /\ ~ flash)
    BY <2>1, <2>3
  <2> QED BY <2>2, <2>3
<1> QED BY <1>6, <1>7

\* What the drawing itself memoises.
LEMMA DrawnKeeps ==
  ASSUME NEW p, Kept(p.store)
  PROVE  Kept(DrawnStore(p))
<1> DEFINE labelled == WithOverlay(p.store, p.view # "closed", "doc_preview_label")
<1>1. "doc_preview_label" \in Sites /\ "doc_preview_err" \in Sites
  BY DEF Sites
<1>2. Kept(labelled)
  BY <1>1, OverlayKeeps
<1> HIDE DEF labelled
<1>3. Kept(WithOverlay(labelled, p.view = "err", "doc_preview_err"))
  BY <1>1, <1>2, OverlayKeeps
<1> QED BY <1>3 DEF DrawnStore, labelled

\* The lookup that a dispatch begins with.
LEMMA LookedUpKeeps ==
  ASSUME NEW s, Kept(s), NEW c, NEW window, NEW j
  PROVE  Kept(LookedUp(s, c, window, j))
<1>1. CASE j = NoJob /\ window = "shut" /\ Hits(s, Doc, Key(c))
  <2>1. LookedUp(s, c, window, j) = Got(s, Doc) /\ Has(s, Doc)
    BY <1>1 DEF LookedUp, Hits
  <2> QED BY <2>1, GotKeeps DEF Kept
<1>2. CASE ~ (j = NoJob /\ window = "shut" /\ Hits(s, Doc, Key(c)))
  <2>1. LookedUp(s, c, window, j) = s
    BY <1>2 DEF LookedUp
  <2> QED BY <2>1
<1> QED BY <1>1, <1>2

\* A finished compose is filed, unless it is of other content.
LEMMA DrainedKeeps ==
  ASSUME Kept(store), NEW c
  PROVE  Kept(Drained(c).store)
<1> DEFINE r == DocRaster(Key(c), job.of)
<1>1. r.bytes \in Nat
  BY Sized
<1> HIDE DEF r
<1>2. /\ Hits(store, Doc, Key(c)) => Kept(Got(store, Doc))
      /\ Kept(Removed(store, Doc))
      /\ Kept(Inserted(store, Doc, r))
  <2>1. Hits(store, Doc, Key(c)) => Kept(Got(store, Doc))
    BY GotKeeps DEF Hits, Kept
  <2>2. Kept(Removed(store, Doc))
    BY RemovedInBudget DEF Removed, Kept
  <2>3. Kept(Inserted(store, Doc, r))
    BY <1>1, InsertedKeeps DEF Kept
  <2> QED BY <2>1, <2>2, <2>3
<1>3. Unaffected.store = store
  BY DEF Unaffected
<1>4. [Unaffected EXCEPT !.job = NoJob].store = store
  BY DEF Unaffected
<1>5. [Unaffected EXCEPT !.job = NoJob, !.store = Got(@, Doc)].store = Got(store, Doc)
  BY DEF Unaffected
<1>6. Filed(Key(c)).store \in {Removed(store, Doc), Inserted(store, Doc, r)}
  BY DEF Filed, r
<1>7. \/ Drained(c).store = store
      \/ Hits(store, Doc, Key(c)) /\ Drained(c).store = Got(store, Doc)
      \/ Drained(c).store \in {Removed(store, Doc), Inserted(store, Doc, r)}
  <2>1. CASE job.state \in {"none", "composing"}
    BY <1>3, <2>1 DEF Drained
  <2>2. CASE job.state \notin {"none", "composing"} /\ (job.state = "died" \/ Key(c) # job.key)
    BY <1>4, <2>2 DEF Drained
  <2>3. CASE /\ job.state \notin {"none", "composing"}
             /\ ~ (job.state = "died" \/ Key(c) # job.key)
    <3>1. CASE Hits(store, Doc, Key(c))
      BY <1>5, <2>3, <3>1 DEF Drained
    <3>2. CASE ~ Hits(store, Doc, Key(c))
      BY <1>6, <2>3, <3>2 DEF Drained
    <3> QED BY <3>1, <3>2
  <2> QED BY <2>1, <2>2, <2>3
<1> QED BY <1>2, <1>7

-----------------------------------------------------------------------------
(* The invariant.                                                          *)

\* An empty store.
LEMMA StoreInit ==
  ASSUME Init
  PROVE  StoreInv
<1>1. store = [memos |-> <<>>, lru |-> <<>>, total |-> 0]
  BY DEF Init, EmptyStore
<1>2. store.memos = <<>> /\ store.lru = <<>> /\ store.total = 0
  BY <1>1
<1>3. DOMAIN store.memos = {} /\ store.lru \in Seq({}) /\ Len(store.lru) = 0
  <2>1. DOMAIN <<>> = {}
    OBVIOUS
  <2> QED BY <1>2, <2>1, EmptySeq
<1>4. Once(store.lru) /\ ToSet(store.lru) = {}
  <2>1. DOMAIN store.lru = {}
    BY <1>2
  <2> QED BY <1>3, <2>1 DEF Once, ToSet
<1>5. IsFiniteSet(DOMAIN store.memos) /\ store.total = BytesOf(store.memos, DOMAIN store.memos)
  BY <1>2, <1>3, FS_EmptySet, BytesOfNone
<1>6. InBudget(store)
  BY <1>2, CapAssumption DEF InBudget
<1> QED BY <1>1, <1>2, <1>3, <1>4, <1>5, <1>6 DEF StoreInv, Kept, Whole

\* Every step keeps the store whole: it goes through the operators above.
LEMMA StoreStep ==
  ASSUME StoreInv, [Next]_vars
  PROVE  StoreInv'
<1>0. Kept(store)
  BY DEF StoreInv
<1> SUFFICES Kept(store')
  BY DEF StoreInv, Kept, Whole, InBudget
<1>1. ASSUME UNCHANGED store
      PROVE  Kept(store')
  BY <1>0, <1>1
<1>2. Kept(Closed(store))
  BY <1>0, RemovedInBudget DEF Closed, Kept
<1>3. CASE UserActs
  <2>1. \/ UNCHANGED store
        \/ store' = Closed(store)
        \/ store' = LookedUp(store, content, polling, job)
    BY <1>3 DEF UserActs, Edit, Run, Open, Close, OpenMenu, CloseMenu, ToggleHelp, Resize, Focus
  <2> QED BY <1>0, <1>1, <1>2, <2>1, LookedUpKeeps
<1>4. CASE Redraw
  <2>1. store' = DrawnStore(Prepared)
    BY <1>4 DEF Redraw
  <2>2. Kept(Prepared.store)
    BY <1>0, PreparedKeeps
  <2> QED BY <2>1, <2>2, DrawnKeeps
<1>5. CASE Wake
  <2> DEFINE d == Drained(content')
             looked == LookedUp(d.store, content', Window, d.job)
             s == IF wanted /\ quiet THEN looked ELSE d.store
             flashSlot == <<"status_flash", LayoutWidth>>
  <2>1. store' = s \/ store' = Removed(s, flashSlot)
    BY <1>5 DEF Wake
  <2>2. Kept(d.store)
    BY <1>0, DrainedKeeps
  <2>3. Kept(s)
    <3> HIDE DEF d
    <3> QED BY <2>2, LookedUpKeeps
  <2> HIDE DEF s, flashSlot
  <2>4. Kept(Removed(s, flashSlot))
    BY <2>3, RemovedInBudget DEF Removed, Kept
  <2> QED BY <2>1, <2>3, <2>4
<1>6. CASE Pause \/ Deadline \/ Compose \/ WorkerDies
  BY <1>1, <1>6 DEF Pause, Deadline, Compose, WorkerDies
<1>7. CASE UNCHANGED vars
  BY <1>1, <1>7 DEF vars
<1> QED BY <1>3, <1>4, <1>5, <1>6, <1>7 DEF Next

\* The raster store leaks nothing, counts nothing twice and keeps to its budget
\* (memo.rs, insert, remove and remove_site), in whatever order frames, results
\* of the worker and closed overlays come, for every budget and every sizes.
THEOREM StoreNeverLeaks == Spec => []StoreSound
<1>1. StoreInv => StoreSound
  BY WholeIsSound DEF StoreInv, Kept, StoreSound
<1> QED BY <1>1, StoreInit, StoreStep, PTL DEF Spec

-----------------------------------------------------------------------------
(* What is behind what in the queue.                                       *)

\* y comes after x in a queue.
Follows(q, x, y) == \E i, j \in 1 .. Len(q) : i < j /\ q[i] = x /\ q[j] = y

\* Behind those of A there is nothing that is not of R.
Behind(q, A, R) == \A x \in A, y \in ToSet(q) : Follows(q, x, y) => y \in R

\* Each entry of a queue is one of the first k of another, and they come in the same order.
OfFront(q, lru, k) == \A i \in 1 .. Len(q) : \E p \in 1 .. k : lru[p] = q[i]

InOrder(q, lru, k) ==
  \A i, j \in 1 .. Len(q) :
    i < j => \E p, r \in 1 .. k : p < r /\ lru[p] = q[i] /\ lru[r] = q[j]

\* One more entry that comes next in the other queue.
LEMMA NextInOrder ==
  ASSUME NEW E, NEW q \in Seq(E), NEW lru, NEW k \in Nat \ {0},
         OfFront(q, lru, k - 1), InOrder(q, lru, k - 1)
  PROVE  /\ OfFront(q, lru, k) /\ InOrder(q, lru, k)
         /\ lru[k] \in E => /\ OfFront(Append(q, lru[k]), lru, k)
                            /\ InOrder(Append(q, lru[k]), lru, k)
<1>1. k \in 1 .. k /\ \A p \in 1 .. k - 1 : p \in 1 .. k /\ p < k
  OBVIOUS
<1>2. OfFront(q, lru, k) /\ InOrder(q, lru, k)
  <2>1. OfFront(q, lru, k)
    BY <1>1 DEF OfFront
  <2>2. InOrder(q, lru, k)
    BY <1>1 DEF InOrder
  <2> QED BY <2>1, <2>2
<1>3. ASSUME lru[k] \in E
      PROVE  /\ OfFront(Append(q, lru[k]), lru, k)
             /\ InOrder(Append(q, lru[k]), lru, k)
  <2> DEFINE a == Append(q, lru[k])
             n == Len(q)
  <2>1. /\ Len(a) = n + 1 /\ a[n + 1] = lru[k] /\ n \in Nat
        /\ \A i \in 1 .. n : a[i] = q[i]
    BY <1>3, AppendProperties, LenProperties
  <2> HIDE DEF a, n
  <2>2. \A i \in 1 .. Len(a) : i = n + 1 \/ i \in 1 .. n
    BY <2>1
  <2>3. OfFront(a, lru, k)
    <3> SUFFICES ASSUME NEW i \in 1 .. Len(a)
                 PROVE  \E p \in 1 .. k : lru[p] = a[i]
      BY DEF OfFront
    <3>1. CASE i = n + 1
      BY <1>1, <2>1, <3>1
    <3>2. CASE i \in 1 .. n
      BY <1>2, <2>1, <3>2 DEF OfFront, n
    <3> QED BY <2>2, <3>1, <3>2
  <2>4. InOrder(a, lru, k)
    <3> SUFFICES ASSUME NEW i \in 1 .. Len(a), NEW j \in 1 .. Len(a), i < j
                 PROVE  \E p, r \in 1 .. k : p < r /\ lru[p] = a[i] /\ lru[r] = a[j]
      BY DEF InOrder
    <3>1. i \in 1 .. n
      BY <2>1
    <3>2. CASE j = n + 1
      <4>1. PICK p \in 1 .. k - 1 : lru[p] = q[i]
        BY <3>1 DEF OfFront, n
      <4> QED BY <1>1, <2>1, <3>1, <3>2, <4>1
    <3>3. CASE j \in 1 .. n
      <4>1. PICK p \in 1 .. k, r \in 1 .. k : p < r /\ lru[p] = q[i] /\ lru[r] = q[j]
        BY <1>2, <3>1, <3>3 DEF InOrder, n
      <4> QED BY <2>1, <3>1, <3>3, <4>1
    <3> QED BY <2>2, <3>2, <3>3
  <2> QED BY <2>3, <2>4 DEF a
<1> QED BY <1>2, <1>3

\* retain leaves what it keeps in order.
LEMMA RetainedInOrder ==
  ASSUME NEW E, NEW lru \in Seq(E), NEW gone, NEW x, NEW y,
         Follows(Retained(lru, gone), x, y)
  PROVE  Follows(lru, x, y)
<1> DEFINE n == Len(lru)
<1>0. n \in Nat /\ \A k \in 1 .. n : lru[k] \in E
  BY LenProperties
<1>1. PICK g : Retains(g, lru, gone) /\ Retained(lru, gone) = g[n]
  BY RetainedSteps
<1> HIDE DEF n
<1> DEFINE T == {k \in 0 .. n : g[k] \in Seq(E) /\ OfFront(g[k], lru, k) /\ InOrder(g[k], lru, k)}
<1>2. 0 \in T
  <2>1. g[0] = <<>> /\ g[0] \in Seq(E) /\ Len(g[0]) = 0
    BY <1>1, EmptySeq DEF Retains
  <2>2. OfFront(g[0], lru, 0) /\ InOrder(g[0], lru, 0)
    BY <2>1 DEF OfFront, InOrder
  <2>3. 0 \in 0 .. n
    BY <1>0
  <2> QED BY <2>1, <2>2, <2>3
<1>3. ASSUME NEW k \in 1 .. n, k - 1 \in T
      PROVE  k \in T
  <2>1. g[k - 1] \in Seq(E) /\ OfFront(g[k - 1], lru, k - 1) /\ InOrder(g[k - 1], lru, k - 1)
    BY <1>3
  <2>2. k \in Nat \ {0} /\ k \in 0 .. n /\ lru[k] \in E
    BY <1>0
  <2>3. g[k] = g[k - 1] \/ g[k] = Append(g[k - 1], lru[k])
    BY <1>1 DEF Retains, n
  <2>4. /\ OfFront(g[k - 1], lru, k) /\ InOrder(g[k - 1], lru, k)
        /\ OfFront(Append(g[k - 1], lru[k]), lru, k)
        /\ InOrder(Append(g[k - 1], lru[k]), lru, k)
    BY <2>1, <2>2, NextInOrder
  <2>5. Append(g[k - 1], lru[k]) \in Seq(E)
    BY <2>1, <2>2, AppendProperties
  <2> QED BY <2>1, <2>2, <2>3, <2>4, <2>5
<1>4. InOrder(g[n], lru, n)
  <2>1. \A k \in 0 .. n : k \in T
    <3> HIDE DEF T
    <3> QED BY <1>0, <1>2, <1>3, StepByStep
  <2>2. n \in 0 .. n
    BY <1>0
  <2> QED BY <2>1, <2>2
<1>5. PICK i \in 1 .. Len(g[n]), j \in 1 .. Len(g[n]) : i < j /\ g[n][i] = x /\ g[n][j] = y
  BY <1>1 DEF Follows
<1>6. PICK p \in 1 .. n, r \in 1 .. n : p < r /\ lru[p] = g[n][i] /\ lru[r] = g[n][j]
  BY <1>4, <1>5 DEF InOrder
<1> QED BY <1>5, <1>6 DEF Follows, n

\* Nothing comes to be behind another when some are dropped.
LEMMA BehindRetained ==
  ASSUME NEW E, NEW lru \in Seq(E), Once(lru), NEW gone, NEW A, NEW R, Behind(lru, A, R)
  PROVE  Behind(Retained(lru, gone), A, R)
<1>1. ToSet(Retained(lru, gone)) \subseteq ToSet(lru)
  BY RetainedKeeps
<1>2. \A x, y : Follows(Retained(lru, gone), x, y) => Follows(lru, x, y)
  BY RetainedInOrder
<1> QED BY <1>1, <1>2 DEF Behind

\* Nothing is behind the slot that is moved to the back, and only that one comes
\* to be behind others.
LEMMA BehindTouched ==
  ASSUME NEW E, NEW lru \in Seq(E), Once(lru), NEW A, NEW R, Behind(lru, A, R), NEW slot \in R
  PROVE  Behind(Touched(lru, slot), A \cup {slot}, R)
<1> DEFINE q == Retained(lru, {slot})
           t == Append(q, slot)
           n == Len(q)
<1>1. q \in Seq(E) /\ ToSet(q) = ToSet(lru) \ {slot} /\ Behind(q, A, R)
  BY RetainedKeeps, BehindRetained
<1>2. slot \notin ToSet(q)
  BY <1>1
<1> HIDE DEF q
<1>3. q \in Seq(E \cup {slot}) /\ n \in Nat /\ DOMAIN q = 1 .. n
  BY <1>1, SeqMonotonic, LenProperties
<1>4. Len(t) = n + 1 /\ t[n + 1] = slot /\ \A i \in 1 .. n : t[i] = q[i]
  BY <1>3, AppendProperties
<1>5. t = Touched(lru, slot)
  BY DEF t, q, Touched
<1> HIDE DEF t, n
<1> SUFFICES ASSUME NEW x \in A \cup {slot}, NEW y, Follows(t, x, y)
             PROVE  y \in R
  BY <1>5 DEF Behind
<1>6. PICK i \in 1 .. Len(t), j \in 1 .. Len(t) : i < j /\ t[i] = x /\ t[j] = y
  BY DEF Follows
<1>7. i \in 1 .. n /\ (j = n + 1 \/ j \in 1 .. n)
  BY <1>3, <1>4, <1>6
<1>8. CASE j = n + 1
  BY <1>4, <1>6, <1>8
<1>9. CASE j \in 1 .. n
  <2>1. q[i] = x /\ q[j] = y
    BY <1>4, <1>6, <1>7, <1>9
  <2>2. x \in ToSet(q) /\ y \in ToSet(q)
    BY <1>3, <1>7, <1>9, <2>1 DEF ToSet
  <2>3. x \in A
    BY <1>2, <2>2
  <2>4. Follows(q, x, y)
    BY <1>6, <1>7, <1>9, <2>1 DEF Follows, n
  <2> QED BY <1>1, <2>2, <2>3, <2>4 DEF Behind
<1> QED BY <1>7, <1>8, <1>9

-----------------------------------------------------------------------------
(* What a frame is about to draw is not evicted.                           *)

\* The slots of one width: what a frame at that width may look up.
Recent(w) == {Doc} \cup {<<site, w>> : site \in Sites \ {"doc_preview"}}

\* A is stored, and only what one frame looks up is behind it in the queue.
Guards(s, w, A) ==
  /\ A \subseteq DOMAIN s.memos /\ A \subseteq Recent(w)
  /\ Behind(s.lru, A, Recent(w))

\* Each raster is as large as those of its site.
Priced(s) == \A k \in DOMAIN s.memos : s.memos[k].bytes = Bytes[k[1]]

\* If the one has a page, it is that of the other.
PageOf(r, s) == Has(r, Doc) => Has(s, Doc) /\ r.memos[Doc] = s.memos[Doc]

\* Some of what is guarded is guarded.
LEMMA FewerGuarded ==
  ASSUME NEW s, NEW w, NEW A, NEW B \in SUBSET A, Guards(s, w, A)
  PROVE  Guards(s, w, B)
BY DEF Guards, Behind

\* The most that the rasters of a set can add up to without one of its slots.
LEMMA BytesOfFewer ==
  ASSUME NEW m, NEW S, IsFiniteSet(S), \A k \in S : m[k].bytes \in Nat, NEW x, NEW b \in Nat,
         x \in S => m[x].bytes = b
  PROVE  /\ IsFiniteSet(S \ {x}) /\ \A k \in S \ {x} : m[k].bytes \in Nat
         /\ BytesOf(m, S) \in Nat /\ BytesOf(m, S \ {x}) \in Nat
         /\ BytesOf(m, S) <= b + BytesOf(m, S \ {x})
<1>1. IsFiniteSet(S \ {x}) /\ \A k \in S \ {x} : m[k].bytes \in Nat
  BY FS_Subset
<1>2. BytesOf(m, S) \in Nat /\ BytesOf(m, S \ {x}) \in Nat
  BY BytesOfSplit
<1>3. CASE x \in S
  BY <1>1, <1>2, <1>3, BytesOfMore
<1>4. CASE x \notin S
  <2>1. S \ {x} = S
    BY <1>4
  <2>2. BytesOf(m, S \ {x}) = BytesOf(m, S)
    BY <2>1
  <2> QED BY <1>1, <1>2, <2>2
<1> QED BY <1>3, <1>4

\* One raster of each site fits.
LEMMA OneOfEachFits ==
  ASSUME NEW s, Whole(s), Priced(s), OneOfEach, NEW w, DOMAIN s.memos \subseteq Recent(w)
  PROVE  s.total <= Cap
<1> DEFINE m == s.memos
           S0 == DOMAIN m
           S1 == S0 \ {Doc}
           S2 == S1 \ {<<"doc_preview_label", w>>}
           S3 == S2 \ {<<"doc_preview_err", w>>}
           S4 == S3 \ {<<"kernel_menu", w>>}
           S5 == S4 \ {<<"help", w>>}
           S6 == S5 \ {<<"status_flash", w>>}
<1>1. \A site \in Sites : Bytes[site] \in Nat
  BY BytesAssumption
<1>2. /\ Bytes["doc_preview"] \in Nat /\ Bytes["doc_preview_label"] \in Nat
      /\ Bytes["doc_preview_err"] \in Nat /\ Bytes["kernel_menu"] \in Nat
      /\ Bytes["help"] \in Nat /\ Bytes["status_flash"] \in Nat
  BY <1>1 DEF Sites
<1>3. \A site : <<site, w>> \in S0 => m[<<site, w>>].bytes = Bytes[site]
  <2> SUFFICES ASSUME NEW site, <<site, w>> \in S0
               PROVE  m[<<site, w>>].bytes = Bytes[site]
    OBVIOUS
  <2>1. <<site, w>>[1] = site
    OBVIOUS
  <2> QED BY <2>1 DEF Priced
<1>4. Doc \in S0 => m[Doc].bytes = Bytes["doc_preview"]
  BY DEF Priced, Doc
<1>5. IsFiniteSet(S0) /\ \A k \in S0 : m[k].bytes \in Nat
  BY DEF Whole
<1>6. S6 = {}
  BY DEF Recent, Sites
<1>7. s.total = BytesOf(m, S0)
  BY DEF Whole
<1> HIDE DEF m, S0
<1>8. /\ IsFiniteSet(S1) /\ \A k \in S1 : m[k].bytes \in Nat
      /\ BytesOf(m, S0) \in Nat /\ BytesOf(m, S1) \in Nat
      /\ BytesOf(m, S0) <= Bytes["doc_preview"] + BytesOf(m, S1)
  BY <1>2, <1>4, <1>5, BytesOfFewer
<1>9. \A site : <<site, w>> \in S1 => m[<<site, w>>].bytes = Bytes[site]
  BY <1>3
<1> HIDE DEF S1
<1>10. /\ IsFiniteSet(S2) /\ \A k \in S2 : m[k].bytes \in Nat
       /\ BytesOf(m, S2) \in Nat
       /\ BytesOf(m, S1) <= Bytes["doc_preview_label"] + BytesOf(m, S2)
  BY <1>2, <1>8, <1>9, BytesOfFewer
<1>11. \A site : <<site, w>> \in S2 => m[<<site, w>>].bytes = Bytes[site]
  BY <1>9
<1> HIDE DEF S2
<1>12. /\ IsFiniteSet(S3) /\ \A k \in S3 : m[k].bytes \in Nat
       /\ BytesOf(m, S3) \in Nat
       /\ BytesOf(m, S2) <= Bytes["doc_preview_err"] + BytesOf(m, S3)
  BY <1>2, <1>10, <1>11, BytesOfFewer
<1>13. \A site : <<site, w>> \in S3 => m[<<site, w>>].bytes = Bytes[site]
  BY <1>11
<1> HIDE DEF S3
<1>14. /\ IsFiniteSet(S4) /\ \A k \in S4 : m[k].bytes \in Nat
       /\ BytesOf(m, S4) \in Nat
       /\ BytesOf(m, S3) <= Bytes["kernel_menu"] + BytesOf(m, S4)
  BY <1>2, <1>12, <1>13, BytesOfFewer
<1>15. \A site : <<site, w>> \in S4 => m[<<site, w>>].bytes = Bytes[site]
  BY <1>13
<1> HIDE DEF S4
<1>16. /\ IsFiniteSet(S5) /\ \A k \in S5 : m[k].bytes \in Nat
       /\ BytesOf(m, S5) \in Nat
       /\ BytesOf(m, S4) <= Bytes["help"] + BytesOf(m, S5)
  BY <1>2, <1>14, <1>15, BytesOfFewer
<1>17. \A site : <<site, w>> \in S5 => m[<<site, w>>].bytes = Bytes[site]
  BY <1>15
<1> HIDE DEF S5
<1>18. /\ BytesOf(m, S6) \in Nat
       /\ BytesOf(m, S5) <= Bytes["status_flash"] + BytesOf(m, S6)
  BY <1>2, <1>16, <1>17, BytesOfFewer
<1>19. BytesOf(m, S6) = 0
  BY <1>6, BytesOfNone
<1> HIDE DEF S6
<1> QED BY <1>2, <1>7, <1>8, <1>10, <1>12, <1>14, <1>16, <1>18, <1>19, CapAssumption DEF OneOfEach

\* What is removed leaves the rest as it was.
LEMMA RemovedGuards ==
  ASSUME NEW s, Whole(s), NEW slots
  PROVE  /\ Priced(s) => Priced(RemovedAll(s, slots))
         /\ PageOf(RemovedAll(s, slots), s)
         /\ \A w, A : Guards(s, w, A) => Guards(RemovedAll(s, slots), w, A \ slots)
<1> DEFINE r == RemovedAll(s, slots)
<1>1. /\ DOMAIN r.memos = DOMAIN s.memos \ slots
      /\ \A k \in DOMAIN s.memos \ slots : r.memos[k] = s.memos[k]
      /\ r.lru = Retained(s.lru, slots)
  BY DEF RemovedAll, Restrict
<1>2. s.lru \in Seq(DOMAIN s.memos) /\ Once(s.lru)
  BY DEF Whole
<1> HIDE DEF r
<1>3. ASSUME NEW w, NEW A, Guards(s, w, A)
      PROVE  Guards(r, w, A \ slots)
  <2>1. Behind(r.lru, A, Recent(w))
    BY <1>1, <1>2, <1>3, BehindRetained DEF Guards
  <2>2. Behind(r.lru, A \ slots, Recent(w))
    BY <2>1 DEF Behind
  <2> QED BY <1>1, <1>3, <2>2 DEF Guards
<1>4. Priced(s) => Priced(r)
  BY <1>1 DEF Priced
<1>5. PageOf(r, s)
  BY <1>1 DEF PageOf, Has
<1> QED BY <1>3, <1>4, <1>5 DEF r

\* get guards what it finds.
LEMMA GotGuards ==
  ASSUME NEW s, Whole(s), NEW slot, Has(s, slot)
  PROVE  /\ Got(s, slot).memos = s.memos
         /\ Priced(s) => Priced(Got(s, slot))
         /\ \A w, A : slot \in Recent(w) /\ Guards(s, w, A)
                        => Guards(Got(s, slot), w, A \cup {slot})
<1> DEFINE g == Got(s, slot)
<1>1. s = [memos |-> s.memos, lru |-> s.lru, total |-> s.total]
  BY DEF Whole
<1>2. g.memos = s.memos /\ g.lru = Touched(s.lru, slot)
  BY <1>1 DEF Got
<1>3. s.lru \in Seq(DOMAIN s.memos) /\ Once(s.lru)
  BY DEF Whole
<1> HIDE DEF g
<1>4. ASSUME NEW w, NEW A, slot \in Recent(w), Guards(s, w, A)
      PROVE  Guards(g, w, A \cup {slot})
  <2>1. Behind(g.lru, A \cup {slot}, Recent(w))
    BY <1>2, <1>3, <1>4, BehindTouched DEF Guards
  <2> QED BY <1>2, <1>4, <2>1 DEF Guards, Has
<1>5. Priced(s) => Priced(g)
  BY <1>2 DEF Priced
<1> QED BY <1>2, <1>4, <1>5 DEF g

\* The loop of insert stops before it evicts what is guarded: by then nothing but
\* what one frame looks up is left, and that fits.
LEMMA EvictedGuards ==
  ASSUME NEW s, Whole(s), Len(s.lru) \in Nat \ {0}, Priced(s), OneOfEach
  PROVE  /\ Priced(Evicted(s)) /\ PageOf(Evicted(s), s)
         /\ \A w, A : Guards(s, w, A) => Guards(Evicted(s), w, A)
<1> DEFINE n == Len(s.lru)
           front(k) == {s.lru[i] : i \in 1 .. k}
           left(k) == RemovedAll(s, front(k))
           enough == {k \in 0 .. n - 1 : k = n - 1 \/ left(k).total <= Cap}
           least == Min(enough)
           r == left(least)
<1>1. n - 1 \in enough /\ enough \in SUBSET Nat
  OBVIOUS
<1>2. least \in enough /\ \A j \in enough : least <= j
  <2> HIDE DEF enough
  <2>1. \E j \in enough : \A i \in enough : j <= i
    BY <1>1, LeastExists
  <2> QED BY <2>1 DEF Min
<1>3. r = Evicted(s)
  BY DEF Evicted
<1>4. /\ Priced(r) /\ PageOf(r, s)
      /\ \A w, A : Guards(s, w, A) => Guards(r, w, A \ front(least))
  <2> HIDE DEF front, least
  <2> QED BY RemovedGuards
<1>5. least \in 0 .. n - 1 /\ n \in Nat
  BY <1>2
<1>6. \A k \in 0 .. n - 1 : left(k).total <= Cap => least <= k
  BY <1>2
<1> HIDE DEF least, enough
<1>7. ASSUME NEW w, NEW A, Guards(s, w, A)
      PROVE  A \ front(least) = A
  <2> SUFFICES ASSUME NEW p \in 1 .. least, s.lru[p] \in A
               PROVE  FALSE
    OBVIOUS
  <2> DEFINE f == left(p - 1)
  <2>1. p \in 1 .. n /\ p - 1 \in 0 .. n - 1 /\ ~ (least <= p - 1)
    BY <1>5
  <2>2. Whole(f) /\ DOMAIN f.memos = DOMAIN s.memos \ front(p - 1) /\ Priced(f)
    <3> HIDE DEF front
    <3> QED BY RemovedKeeps, RemovedGuards
  <2> HIDE DEF f
  <2>3. DOMAIN f.memos \subseteq Recent(w)
    <3> SUFFICES ASSUME NEW k \in DOMAIN f.memos
                 PROVE  k \in Recent(w)
      OBVIOUS
    <3>1. k \in ToSet(s.lru) /\ k \notin front(p - 1)
      BY <2>2 DEF Whole
    <3>2. PICK i \in 1 .. n : s.lru[i] = k
      <4>1. DOMAIN s.lru = 1 .. n
        BY LenProperties DEF Whole
      <4> QED BY <3>1, <4>1 DEF ToSet
    <3>3. i = p \/ p < i
      <4>1. i \notin 1 .. p - 1
        BY <3>1, <3>2
      <4> QED BY <2>1, <4>1
    <3>4. CASE i = p
      BY <1>7, <3>2, <3>4 DEF Guards
    <3>5. CASE p < i
      <4>1. Follows(s.lru, s.lru[p], k)
        BY <2>1, <3>2, <3>5 DEF Follows
      <4> QED BY <1>7, <3>1, <4>1 DEF Guards, Behind
    <3> QED BY <3>3, <3>4, <3>5
  <2>4. f.total <= Cap
    BY <2>2, <2>3, OneOfEachFits
  <2> QED BY <1>6, <2>1, <2>4 DEF f
<1>8. ASSUME NEW w, NEW A, Guards(s, w, A)
      PROVE  Guards(r, w, A)
  <2>1. A \ front(least) = A
    BY <1>7, <1>8
  <2> HIDE DEF r, front
  <2> QED BY <1>4, <1>8, <2>1
<1> QED BY <1>3, <1>4, <1>8

\* insert guards what it files, and goes on guarding the rest.
LEMMA InsertedGuards ==
  ASSUME NEW s, Whole(s), Priced(s), OneOfEach, NEW slot, NEW raster,
         raster.bytes = Bytes[slot[1]], raster.bytes \in Nat
  PROVE  /\ Priced(Inserted(s, slot, raster))
         /\ slot # Doc => PageOf(Inserted(s, slot, raster), s)
         /\ \A w, A : slot \in Recent(w) /\ Guards(s, w, A)
                        => Guards(Inserted(s, slot, raster), w, A \cup {slot})
<1> DEFINE D == DOMAIN s.memos
           m == [k \in D \cup {slot} |-> IF k = slot THEN raster ELSE s.memos[k]]
           q == Touched(s.lru, slot)
           i == Filing(s, slot, raster)
<1>1. Whole(i) /\ Len(i.lru) \in Nat \ {0} /\ Inserted(s, slot, raster) = Evicted(i)
  BY FilingKeeps
<1>2. i.memos = m /\ i.lru = q
  BY DEF Filing
<1>3. /\ DOMAIN m = D \cup {slot} /\ m[slot] = raster
      /\ \A k \in D \ {slot} : m[k] = s.memos[k]
  OBVIOUS
<1> HIDE DEF i, m
<1>5. Priced(i)
  <2>1. \A k \in DOMAIN m : k = slot \/ k \in D \ {slot}
    BY <1>3
  <2> QED BY <1>2, <1>3, <2>1 DEF Priced
<1>6. ASSUME NEW w, NEW A, slot \in Recent(w), Guards(s, w, A)
      PROVE  Guards(i, w, A \cup {slot})
  <2>1. Behind(q, A \cup {slot}, Recent(w))
    <3>1. s.lru \in Seq(DOMAIN s.memos) /\ Once(s.lru)
      BY DEF Whole
    <3> QED BY <1>6, <3>1, BehindTouched DEF Guards
  <2> HIDE DEF q
  <2> QED BY <1>2, <1>3, <1>6, <2>1 DEF Guards
<1>7. slot # Doc => PageOf(i, s)
  BY <1>2, <1>3 DEF PageOf, Has
<1> HIDE DEF q
<1>8. /\ Priced(Evicted(i)) /\ PageOf(Evicted(i), i)
      /\ \A w, A : Guards(i, w, A) => Guards(Evicted(i), w, A)
  BY <1>1, <1>5, EvictedGuards
<1>9. slot # Doc => PageOf(Evicted(i), s)
  BY <1>7, <1>8 DEF PageOf
<1> QED BY <1>1, <1>6, <1>8, <1>9

-----------------------------------------------------------------------------
(* What a frame does.                                                      *)

\* Its slots are what is looked up at one width.
LEMMA RecentSites ==
  ASSUME NEW w, NEW site \in Sites \ {"doc_preview"}
  PROVE  <<site, w>> \in Recent(w) /\ <<site, w>> # Doc /\ <<site, w>>[1] = site
<1>1. <<site, w>> # <<"doc_preview", 0>>
  OBVIOUS
<1> QED BY <1>1 DEF Recent, Doc


\* The slot of an overlay, if it is open.
Overlay(open, site, w) == IF open THEN {<<site, w>>} ELSE {}

\* An overlay that is open is stored, and guarded with what was before.
LEMMA OverlayGuards ==
  ASSUME NEW s, Kept(s), Priced(s), OneOfEach, NEW open, NEW site \in Sites \ {"doc_preview"},
         NEW A, Guards(s, width, A)
  PROVE  /\ Kept(WithOverlay(s, open, site)) /\ Priced(WithOverlay(s, open, site))
         /\ PageOf(WithOverlay(s, open, site), s)
         /\ Guards(WithOverlay(s, open, site), width, A)
         /\ Guards(WithOverlay(s, open, site), width, A \cup Overlay(open, site, width))
<1> DEFINE slot == <<site, width>>
           raster == Markup(site)
           o == WithOverlay(s, open, site)
<1>1. raster.bytes = Bytes[slot[1]] /\ raster.bytes \in Nat
  <2>1. raster.bytes = Bytes[site]
    BY DEF Markup
  <2> QED BY <2>1, RecentSites, BytesAssumption
<1>2. slot \in Recent(width) /\ slot # Doc
  BY RecentSites
<1>3. Kept(o)
  BY OverlayKeeps
<1>4. o = IF open THEN Memoised(s, slot, raster) ELSE s
  BY DEF WithOverlay
<1>5. Overlay(open, site, width) = IF open THEN {slot} ELSE {}
  BY DEF Overlay
<1> HIDE DEF slot, raster, o
<1>6. CASE open
  <2>1. Priced(o) /\ PageOf(o, s) /\ Guards(o, width, A \cup {slot})
    <3>1. CASE Hits(s, slot, raster.key)
      <4>1. o = Got(s, slot) /\ Has(s, slot)
        BY <1>4, <1>6, <3>1 DEF Hits, Memoised
      <4>2. /\ Got(s, slot).memos = s.memos /\ Priced(Got(s, slot))
            /\ Guards(Got(s, slot), width, A \cup {slot})
        BY <1>2, <4>1, GotGuards DEF Kept
      <4> QED BY <4>1, <4>2 DEF PageOf, Has
    <3>2. CASE ~ Hits(s, slot, raster.key)
      <4>1. o = Inserted(s, slot, raster)
        BY <1>4, <1>6, <3>2 DEF Memoised
      <4> QED BY <1>1, <1>2, <4>1, InsertedGuards DEF Kept
    <3> QED BY <3>1, <3>2
  <2>2. Guards(o, width, A)
    BY <2>1, FewerGuarded
  <2> QED BY <1>3, <1>5, <1>6, <2>1, <2>2 DEF o
<1>7. CASE ~ open
  <2>1. o = s /\ A \cup Overlay(open, site, width) = A
    BY <1>4, <1>5, <1>7
  <2> QED BY <1>3, <2>1 DEF PageOf, o
<1> QED BY <1>6, <1>7

\* There is nothing to guard.
LEMMA NoneGuarded ==
  ASSUME NEW s, NEW w
  PROVE  Guards(s, w, {})
BY DEF Guards, Behind

\* The page as the pre-pass leaves it: found or composed, and guarded; of earlier
\* content and left alone; or of a text that does not render, and gone.
LEMMA EnsuredGuards ==
  ASSUME NEW s, Kept(s), Priced(s), OneOfEach, NEW A, Guards(s, width, A), Doc \notin A
  PROVE  /\ Kept(Ensured(s).store) /\ Priced(Ensured(s).store)
         /\ Guards(Ensured(s).store, width, A)
         /\ \/ view = "closed" /\ Ensured(s).view = "closed"
            \/ /\ view # "closed" /\ Ensured(s).view = "ok"
               /\ Guards(Ensured(s).store, width, A \cup {Doc})
            \/ /\ view # "closed" /\ Ensured(s).view = view
               /\ Ensured(s).store = s /\ Has(s, Doc) /\ ~ Hits(s, Doc, Key(content))
            \/ /\ view # "closed" /\ Ensured(s).view = "err"
               /\ ~ Has(Ensured(s).store, Doc) /\ Fails(content)
<1> DEFINE r == DocRaster(Key(content), content)
           e == Ensured(s)
<1>1. r.bytes = Bytes[Doc[1]] /\ r.bytes \in Nat
  <2>1. r.bytes = Bytes["doc_preview"] /\ Doc[1] = "doc_preview"
    BY DEF DocRaster, Doc
  <2> QED BY <2>1, Sized
<1>2. Doc \in Recent(width) /\ Kept(e.store)
  BY EnsuredKeeps DEF Recent
<1> HIDE DEF r
<1>3. CASE view = "closed"
  <2>1. e = [store |-> s, view |-> view]
    BY <1>3 DEF Ensured
  <2>2. e.store = s /\ e.view = view
    BY <2>1
  <2> HIDE DEF e
  <2> QED BY <1>2, <1>3, <2>2 DEF e
<1>4. CASE view # "closed" /\ Hits(s, Doc, Key(content))
  <2>1. e = [store |-> Got(s, Doc), view |-> "ok"]
    BY <1>4 DEF Ensured
  <2>2. e.store = Got(s, Doc) /\ e.view = "ok"
    BY <2>1
  <2> HIDE DEF e
  <2>3. Priced(e.store) /\ Guards(e.store, width, A \cup {Doc})
    BY <1>2, <1>4, <2>2, GotGuards DEF Kept, Hits
  <2> QED BY <1>2, <1>4, <2>2, <2>3, FewerGuarded DEF e
<1>5. CASE view # "closed" /\ ~ Hits(s, Doc, Key(content)) /\ Has(s, Doc)
  <2>1. e = [store |-> s, view |-> view]
    BY <1>5 DEF Ensured
  <2>2. e.store = s /\ e.view = view
    BY <2>1
  <2> HIDE DEF e
  <2> QED BY <1>2, <1>5, <2>2 DEF e
<1>6. CASE view # "closed" /\ ~ Has(s, Doc) /\ Fails(content)
  <2>1. e = [store |-> Removed(s, Doc), view |-> "err"]
    BY <1>6 DEF Ensured, Hits
  <2>2. e.store = RemovedAll(s, {Doc}) /\ e.view = "err"
    BY <2>1 DEF Removed
  <2> HIDE DEF e
  <2>3. /\ Priced(e.store) /\ PageOf(e.store, s) /\ Guards(e.store, width, A \ {Doc})
    BY <2>2, RemovedGuards DEF Kept
  <2>4. A \ {Doc} = A
    OBVIOUS
  <2>5. ~ Has(e.store, Doc)
    BY <1>6, <2>3 DEF PageOf
  <2> QED BY <1>2, <1>6, <2>2, <2>3, <2>4, <2>5 DEF e
<1>7. CASE view # "closed" /\ ~ Has(s, Doc) /\ ~ Fails(content)
  <2>1. e = [store |-> Inserted(s, Doc, r), view |-> "ok"]
    BY <1>7 DEF Ensured, Hits, r
  <2>2. e.store = Inserted(s, Doc, r) /\ e.view = "ok"
    BY <2>1
  <2> HIDE DEF e
  <2>3. Priced(e.store) /\ Guards(e.store, width, A \cup {Doc})
    BY <1>1, <1>2, <2>2, InsertedGuards DEF Kept
  <2> QED BY <1>2, <1>7, <2>2, <2>3, FewerGuarded DEF e
<1> QED BY <1>3, <1>4, <1>5, <1>6, <1>7

\* What the drawing memoises leaves guarded what was, and files no page.
LEMMA DrawnGuards ==
  ASSUME NEW p, Kept(p.store), Priced(p.store), OneOfEach
  PROVE  /\ Priced(DrawnStore(p)) /\ PageOf(DrawnStore(p), p.store)
         /\ \A A : Guards(p.store, width, A) => Guards(DrawnStore(p), width, A)
<1> DEFINE labelled == WithOverlay(p.store, p.view # "closed", "doc_preview_label")
           drawn == WithOverlay(labelled, p.view = "err", "doc_preview_err")
<1>1. /\ "doc_preview_label" \in Sites \ {"doc_preview"}
      /\ "doc_preview_err" \in Sites \ {"doc_preview"}
  BY DEF Sites
<1>2. ASSUME NEW A, Guards(p.store, width, A)
      PROVE  /\ Priced(drawn) /\ PageOf(drawn, p.store) /\ Guards(drawn, width, A)
  <2>1. /\ Kept(labelled) /\ Priced(labelled) /\ PageOf(labelled, p.store)
        /\ Guards(labelled, width, A)
    BY <1>1, <1>2, OverlayGuards
  <2> HIDE DEF labelled
  <2>2. Priced(drawn) /\ PageOf(drawn, labelled) /\ Guards(drawn, width, A)
    BY <1>1, <2>1, OverlayGuards
  <2> HIDE DEF drawn
  <2> QED BY <2>1, <2>2 DEF PageOf
<1>3. Priced(drawn) /\ PageOf(drawn, p.store)
  BY <1>2, NoneGuarded
<1>4. drawn = DrawnStore(p)
  BY DEF DrawnStore
<1> HIDE DEF drawn
<1> QED BY <1>2, <1>3, <1>4

-----------------------------------------------------------------------------
(* The invariant.                                                          *)

\* The overlays that a frame at that state of the interface draws.
DrawnSlots(ui) == Overlay(ui[1], "kernel_menu", ui[4]) \cup Overlay(ui[2], "help", ui[4])

\* A page of the current content is guarded; without one, the last frame had
\* none either, or drew an error, or the next one will.
PageFound(s) ==
  IF Hits(s, Doc, Key(content)) THEN Guards(s, lastUi[4], {Doc})
  ELSE \/ Has(s, Doc) \/ "doc_preview" \in blank
       \/ shown.what = "error" \/ Fails(content)

\* Between two frames the store guards what the last one drew.
StoreGuards(s) == Priced(s) /\ (lastUi # <<>> => Guards(s, lastUi[4], DrawnSlots(lastUi)))

JobInv ==
  job = NoJob \/ (job = [state |-> job.state, key |-> job.key, of |-> job.of]
                  /\ job.key = Key(job.of))

GuardInv ==
  /\ view \in {"closed", "ok", "err"} /\ JobInv /\ blank \subseteq {"doc_preview"}
  /\ StoreGuards(store)
  /\ lastUi # <<>> /\ lastUi[3] /\ ~ moved => PageFound(store)

\* The overlays are not the page, nor the lines that come and go with it.
LEMMA DrawnApart ==
  ASSUME NEW ui
  PROVE  /\ Doc \notin DrawnSlots(ui)
         /\ \A w : <<"status_flash", w>> \notin DrawnSlots(ui)
         /\ \A w : <<"doc_preview_label", w>> \notin DrawnSlots(ui)
         /\ \A w : <<"doc_preview_err", w>> \notin DrawnSlots(ui)
<1>1. \A x \in DrawnSlots(ui) : x = <<"kernel_menu", ui[4]>> \/ x = <<"help", ui[4]>>
  BY DEF DrawnSlots, Overlay
<1> QED BY <1>1 DEF Doc

\* Slots that are removed without the page and the overlays.
LEMMA RemovedStoreGuards ==
  ASSUME NEW s, Whole(s), StoreGuards(s), NEW slots,
         Doc \notin slots, slots \cap DrawnSlots(lastUi) = {}
  PROVE  /\ StoreGuards(RemovedAll(s, slots))
         /\ PageFound(s) => PageFound(RemovedAll(s, slots))
<1> DEFINE r == RemovedAll(s, slots)
<1>1. /\ Priced(r) /\ PageOf(r, s)
      /\ \A w, A : Guards(s, w, A) => Guards(r, w, A \ slots)
  BY RemovedGuards DEF StoreGuards
<1>2. DrawnSlots(lastUi) \ slots = DrawnSlots(lastUi) /\ {Doc} \ slots = {Doc}
  OBVIOUS
<1>3. Has(s, Doc) => Has(r, Doc)
  <2>1. DOMAIN r.memos = DOMAIN s.memos \ slots
    BY RemovedKeeps
  <2> HIDE DEF r
  <2> QED BY <2>1 DEF Has
<1> HIDE DEF r
<1>4. StoreGuards(r)
  <2>1. \A w : Guards(s, w, DrawnSlots(lastUi)) => Guards(r, w, DrawnSlots(lastUi))
    BY <1>1, <1>2
  <2> QED BY <1>1, <2>1 DEF StoreGuards
<1>5. ASSUME PageFound(s)
      PROVE  PageFound(r)
  <2>1. Hits(s, Doc, Key(content)) <=> Hits(r, Doc, Key(content))
    BY <1>1, <1>3 DEF PageOf, Hits
  <2>2. \A w : Guards(s, w, {Doc}) => Guards(r, w, {Doc})
    BY <1>1, <1>2
  <2> QED BY <1>3, <1>5, <2>1, <2>2 DEF PageFound
<1> QED BY <1>4, <1>5 DEF r

\* The page is looked up.
LEMMA GotStoreGuards ==
  ASSUME NEW s, Whole(s), StoreGuards(s), Has(s, Doc)
  PROVE  StoreGuards(Got(s, Doc)) /\ PageFound(Got(s, Doc))
<1> DEFINE r == Got(s, Doc)
<1>1. /\ r.memos = s.memos /\ Priced(r)
      /\ \A w, A : Guards(s, w, A) => Guards(r, w, A \cup {Doc})
  BY GotGuards DEF StoreGuards, Recent
<1> HIDE DEF r
<1>2. StoreGuards(r)
  <2>1. \A w, A : Guards(s, w, A) => Guards(r, w, A)
    BY <1>1, FewerGuarded
  <2> QED BY <1>1, <2>1 DEF StoreGuards
<1>3. \A w : Guards(r, w, {Doc})
  <2>1. \A w : Guards(r, w, {} \cup {Doc})
    BY <1>1, NoneGuarded
  <2>2. {} \cup {Doc} = {Doc}
    OBVIOUS
  <2> QED BY <2>1, <2>2
<1>4. Has(r, Doc)
  BY <1>1 DEF Has
<1> QED BY <1>2, <1>3, <1>4 DEF PageFound, r

\* A page is filed.
LEMMA FiledStoreGuards ==
  ASSUME NEW s, Whole(s), StoreGuards(s), OneOfEach, NEW key, NEW c
  PROVE  /\ StoreGuards(Inserted(s, Doc, DocRaster(key, c)))
         /\ PageFound(Inserted(s, Doc, DocRaster(key, c)))
<1> DEFINE raster == DocRaster(key, c)
           r == Inserted(s, Doc, raster)
<1>1. raster.bytes = Bytes[Doc[1]] /\ raster.bytes \in Nat
  <2>1. raster.bytes = Bytes["doc_preview"] /\ Doc[1] = "doc_preview"
    BY DEF DocRaster, Doc
  <2> QED BY <2>1, Sized
<1> HIDE DEF raster
<1>2. Priced(r) /\ \A w, A : Guards(s, w, A) => Guards(r, w, A \cup {Doc})
  BY <1>1, InsertedGuards DEF StoreGuards, Recent
<1> HIDE DEF r
<1>3. StoreGuards(r)
  <2>1. \A w, A : Guards(s, w, A) => Guards(r, w, A)
    BY <1>2, FewerGuarded
  <2> QED BY <1>2, <2>1 DEF StoreGuards
<1>4. \A w : Guards(r, w, {Doc})
  <2>1. \A w : Guards(r, w, {} \cup {Doc})
    BY <1>2, NoneGuarded
  <2>2. {} \cup {Doc} = {Doc}
    OBVIOUS
  <2> QED BY <2>1, <2>2
<1>5. Has(r, Doc)
  BY <1>4 DEF Guards, Has
<1> QED BY <1>3, <1>4, <1>5 DEF PageFound, r, raster

\* A page that does not render any more is forgotten.
LEMMA ForgottenStoreGuards ==
  ASSUME NEW s, Whole(s), StoreGuards(s)
  PROVE  /\ StoreGuards(Removed(s, Doc))
         /\ Fails(content) => PageFound(Removed(s, Doc))
<1> DEFINE r == RemovedAll(s, {Doc})
<1>1. /\ Priced(r) /\ \A w, A : Guards(s, w, A) => Guards(r, w, A \ {Doc})
  BY RemovedGuards DEF StoreGuards
<1>2. DrawnSlots(lastUi) \ {Doc} = DrawnSlots(lastUi)
  BY DrawnApart
<1>3. DOMAIN r.memos = DOMAIN s.memos \ {Doc}
  BY RemovedKeeps
<1>4. r = Removed(s, Doc)
  BY DEF Removed
<1> HIDE DEF r
<1>5. StoreGuards(r)
  <2>1. \A w : Guards(s, w, DrawnSlots(lastUi)) => Guards(r, w, DrawnSlots(lastUi))
    BY <1>1, <1>2
  <2> QED BY <1>1, <2>1 DEF StoreGuards
<1>6. Fails(content) => PageFound(r)
  BY <1>3 DEF PageFound, Hits, Has
<1> QED BY <1>4, <1>5, <1>6

\* The lines that go with the overlay are removed.
LEMMA ClosedStoreGuards ==
  ASSUME Kept(store), StoreGuards(store)
  PROVE  StoreGuards(Closed(store)) /\ (PageFound(store) => PageFound(Closed(store)))
<1> DEFINE slots == AllWidths("doc_preview_label") \cup AllWidths("doc_preview_err")
<1>1. \A x \in slots : \E w : x = <<"doc_preview_label", w>> \/ x = <<"doc_preview_err", w>>
  BY DEF AllWidths
<1> HIDE DEF slots
<1>2. Doc \notin slots
  BY <1>1 DEF Doc
<1>3. slots \cap DrawnSlots(lastUi) = {}
  BY <1>1, DrawnApart
<1>4. Closed(store) = RemovedAll(store, slots)
  BY DEF Closed, slots
<1> QED BY <1>2, <1>3, <1>4, RemovedStoreGuards DEF Kept

\* The lookup that a dispatch begins with.
LEMMA LookedUpStoreGuards ==
  ASSUME NEW s, Kept(s), StoreGuards(s), NEW c, NEW window, NEW j
  PROVE  /\ StoreGuards(LookedUp(s, c, window, j))
         /\ PageFound(s) => PageFound(LookedUp(s, c, window, j))
<1>1. CASE j = NoJob /\ window = "shut" /\ Hits(s, Doc, Key(c))
  <2>1. LookedUp(s, c, window, j) = Got(s, Doc) /\ Has(s, Doc)
    BY <1>1 DEF LookedUp, Hits
  <2> QED BY <2>1, GotStoreGuards DEF Kept
<1>2. CASE ~ (j = NoJob /\ window = "shut" /\ Hits(s, Doc, Key(c)))
  <2>1. LookedUp(s, c, window, j) = s
    BY <1>2 DEF LookedUp
  <2> QED BY <2>1
<1> QED BY <1>1, <1>2

-----------------------------------------------------------------------------
(* A frame.                                                                *)

\* A frame that goes through the pre-pass guards each overlay that is open, and
\* a page that it finds or composes.
LEMMA PreparedGuards ==
  ASSUME Kept(store), Priced(store), OneOfEach, ~ (~ moved /\ lastUi = Ui /\ ~ flash)
  PROVE  /\ Kept(Prepared.store) /\ Priced(Prepared.store)
         /\ Guards(Prepared.store, width,
                   DrawnSlots(Ui) \cup Overlay(flash, "status_flash", width))
         /\ \/ view = "closed" /\ Prepared.view = "closed"
            \/ /\ view # "closed" /\ Prepared.view = "ok"
               /\ Guards(Prepared.store, width, {Doc})
            \/ /\ view # "closed" /\ Prepared.view = view
               /\ PageOf(Prepared.store, store) /\ Unlooked
            \/ /\ view # "closed" /\ Prepared.view = "err"
               /\ ~ Has(Prepared.store, Doc)
<1> DEFINE M == Overlay(menu, "kernel_menu", width)
           H == Overlay(help, "help", width)
           F == Overlay(flash, "status_flash", width)
           menued == WithOverlay(store, menu, "kernel_menu")
           overlays == WithOverlay(menued, help, "help")
           p == Ensured(overlays)
           flashed == [p EXCEPT !.store = WithOverlay(@, flash, "status_flash")]
<1>1. /\ "kernel_menu" \in Sites \ {"doc_preview"} /\ "help" \in Sites \ {"doc_preview"}
      /\ "status_flash" \in Sites \ {"doc_preview"}
  BY DEF Sites
<1>2. DrawnSlots(Ui) = M \cup H
  <2>1. Ui[1] = menu /\ Ui[2] = help /\ Ui[4] = width
    BY DEF Ui
  <2> QED BY <2>1 DEF DrawnSlots
<1>3. Doc \notin M \cup H
  BY <1>2, DrawnApart
<1>4. /\ Kept(menued) /\ Priced(menued) /\ PageOf(menued, store) /\ Guards(menued, width, M)
  <2>1. {} \cup M = M
    OBVIOUS
  <2> HIDE DEF M
  <2> QED BY <1>1, <2>1, NoneGuarded, OverlayGuards DEF M
<1> HIDE DEF menued, M
<1>5. /\ Kept(overlays) /\ Priced(overlays) /\ PageOf(overlays, menued)
      /\ Guards(overlays, width, M \cup H)
  BY <1>1, <1>4, OverlayGuards
<1> HIDE DEF overlays, H
<1>6. p = [store |-> p.store, view |-> p.view]
  BY DEF Ensured
<1> DEFINE fst == WithOverlay(p.store, flash, "status_flash")
<1>7. /\ Kept(p.store) /\ Priced(p.store) /\ Guards(p.store, width, M \cup H)
      /\ \/ view = "closed" /\ p.view = "closed"
         \/ /\ view # "closed" /\ p.view = "ok"
            /\ Guards(p.store, width, (M \cup H) \cup {Doc})
         \/ /\ view # "closed" /\ p.view = view
            /\ p.store = overlays /\ Has(overlays, Doc) /\ ~ Hits(overlays, Doc, Key(content))
         \/ /\ view # "closed" /\ p.view = "err"
            /\ ~ Has(p.store, Doc) /\ Fails(content)
  BY <1>3, <1>5, EnsuredGuards
<1>8. Prepared.store = fst /\ Prepared.view = p.view
  <2>1. Prepared = flashed
    BY DEF Prepared, p, overlays, menued
  <2> HIDE DEF p
  <2>2. flashed.store = fst /\ flashed.view = p.view
    BY <1>6
  <2> QED BY <2>1, <2>2
<1> HIDE DEF p
<1>9. /\ Kept(fst) /\ Priced(fst) /\ PageOf(fst, p.store)
      /\ Guards(fst, width, (M \cup H) \cup F)
  BY <1>1, <1>7, OverlayGuards
<1>10. \A A : Guards(p.store, width, A) => Guards(fst, width, A)
  BY <1>1, <1>7, OverlayGuards
<1> HIDE DEF fst, F
<1>11. CASE view = "closed" /\ p.view = "closed"
  BY <1>2, <1>8, <1>9, <1>11 DEF F
<1>12. CASE view # "closed" /\ p.view = "ok" /\ Guards(p.store, width, (M \cup H) \cup {Doc})
  <2>1. Guards(fst, width, (M \cup H) \cup {Doc})
    BY <1>10, <1>12
  <2>2. Guards(fst, width, {Doc})
    BY <2>1, FewerGuarded
  <2> QED BY <1>2, <1>8, <1>9, <1>12, <2>2 DEF F
<1>13. CASE /\ view # "closed" /\ p.view = view
            /\ p.store = overlays /\ Has(overlays, Doc) /\ ~ Hits(overlays, Doc, Key(content))
  <2>1. PageOf(overlays, store)
    BY <1>4, <1>5 DEF PageOf
  <2>2. Unlooked
    BY <1>13, <2>1 DEF PageOf, Unlooked, Hits
  <2>3. PageOf(fst, store)
    BY <1>9, <1>13, <2>1 DEF PageOf
  <2> QED BY <1>2, <1>8, <1>9, <1>13, <2>2, <2>3 DEF F
<1>14. CASE view # "closed" /\ p.view = "err" /\ ~ Has(p.store, Doc)
  <2>1. ~ Has(fst, Doc)
    BY <1>9, <1>14 DEF PageOf
  <2> QED BY <1>2, <1>8, <1>9, <1>14, <2>1 DEF F
<1> QED BY <1>7, <1>11, <1>12, <1>13, <1>14

\* What a frame finds no raster for.
LEMMA BlankOf ==
  ASSUME Redraw
  PROVE  LET s == DrawnStore(Prepared) IN
         /\ \A site \in blank' :
              \/ site = "kernel_menu" /\ menu /\ ~ Has(Prepared.store, <<"kernel_menu", width>>)
              \/ site = "doc_preview" /\ Prepared.view = "ok" /\ ~ Has(s, Doc)
              \/ site = "help" /\ help /\ ~ Has(s, <<"help", width>>)
              \/ site = "status_flash" /\ flash /\ ~ Has(s, <<"status_flash", width>>)
         /\ Prepared.view = "ok" /\ ~ Has(s, Doc) => "doc_preview" \in blank'
<1> DEFINE p == Prepared
           s == DrawnStore(p)
           a == <<menu, "kernel_menu", Has(p.store, <<"kernel_menu", width>>)>>
           b == <<p.view = "ok", "doc_preview", Has(s, Doc)>>
           c == <<help, "help", Has(s, <<"help", width>>)>>
           d == <<flash, "status_flash", Has(s, <<"status_flash", width>>)>>
           blanks == {o[2] : o \in {e \in {a, b, c, d} : e[1] /\ ~ e[3]}}
<1>1. blank' = blanks
  BY DEF Redraw
<1>2. /\ a[1] = menu /\ a[2] = "kernel_menu" /\ a[3] = Has(p.store, <<"kernel_menu", width>>)
      /\ b[1] = (p.view = "ok") /\ b[2] = "doc_preview" /\ b[3] = Has(s, Doc)
      /\ c[1] = help /\ c[2] = "help" /\ c[3] = Has(s, <<"help", width>>)
      /\ d[1] = flash /\ d[2] = "status_flash" /\ d[3] = Has(s, <<"status_flash", width>>)
  <2> HIDE DEF p, s
  <2> QED OBVIOUS
<1> HIDE DEF a, b, c, d
<1>3. ASSUME NEW site \in blanks
      PROVE  \E o \in {a, b, c, d} : site = o[2] /\ o[1] /\ ~ o[3]
  OBVIOUS
<1>4. p.view = "ok" /\ ~ Has(s, Doc) => "doc_preview" \in blanks
  <2> SUFFICES ASSUME p.view = "ok", ~ Has(s, Doc)
               PROVE  b[2] \in blanks
    BY <1>2
  <2>1. b[1] /\ ~ b[3]
    BY <1>2
  <2> QED BY <2>1
<1> HIDE DEF blanks
<1>5. ASSUME NEW site \in blank'
      PROVE  \/ site = "kernel_menu" /\ menu /\ ~ Has(p.store, <<"kernel_menu", width>>)
             \/ site = "doc_preview" /\ p.view = "ok" /\ ~ Has(s, Doc)
             \/ site = "help" /\ help /\ ~ Has(s, <<"help", width>>)
             \/ site = "status_flash" /\ flash /\ ~ Has(s, <<"status_flash", width>>)
  <2>1. PICK o \in {a, b, c, d} : site = o[2] /\ o[1] /\ ~ o[3]
    BY <1>1, <1>3, <1>5
  <2>2. o = a \/ o = b \/ o = c \/ o = d
    OBVIOUS
  <2> QED BY <1>2, <2>1, <2>2
<1> QED BY <1>1, <1>4, <1>5

\* What is found, or kept, in a frame: s is the store once all is drawn.
FrameGuards(s) ==
  /\ Priced(s)
  /\ Guards(Prepared.store, width, DrawnSlots(Ui)) /\ Guards(s, width, DrawnSlots(Ui))
  /\ flash => Has(s, <<"status_flash", width>>)
  /\ Prepared.view \in {"closed", "ok", "err"} /\ (view = "closed" <=> Prepared.view = "closed")
  /\ view # "closed" => Guards(s, width, {Doc}) \/ ~ Hits(s, Doc, Key(content))
  /\ Prepared.view = "ok" /\ ~ Has(s, Doc) =>
       \/ "doc_preview" \in blank \/ Fails(content) \/ Unlooked \/ shown.what = "error"

\* A frame that leaves out the pre-pass finds what the last one drew.
LEMMA SkippedFrame ==
  ASSUME Kept(store), GuardInv, OneOfEach, ~ moved, lastUi = Ui, ~ flash
  PROVE  FrameGuards(DrawnStore(Prepared))
<1> DEFINE p == Prepared
           s == DrawnStore(p)
<1>1. p.store = store /\ p.view = view
  <2>1. p = [store |-> store, view |-> view]
    BY DEF Prepared
  <2> HIDE DEF p
  <2> QED BY <2>1
<1>2. lastUi # <<>> /\ lastUi[3] = (view # "closed") /\ lastUi[4] = width
  BY DEF Ui
<1>3. Priced(store) /\ Guards(store, width, DrawnSlots(Ui))
  BY <1>2 DEF GuardInv, StoreGuards
<1>4. view # "closed" => PageFound(store)
  BY <1>2 DEF GuardInv
<1> HIDE DEF p
<1>5. /\ Priced(s) /\ PageOf(s, store)
      /\ \A A : Guards(store, width, A) => Guards(s, width, A)
  BY <1>1, <1>3, DrawnGuards
<1> HIDE DEF s
<1>6. Guards(p.store, width, DrawnSlots(Ui)) /\ Guards(s, width, DrawnSlots(Ui))
  BY <1>1, <1>3, <1>5
<1>7. view \in {"closed", "ok", "err"}
  BY DEF GuardInv
<1>8. view # "closed" => Guards(s, width, {Doc}) \/ ~ Hits(s, Doc, Key(content))
  <2>1. CASE Hits(store, Doc, Key(content))
    BY <1>2, <1>4, <1>5, <2>1 DEF PageFound
  <2>2. CASE ~ Hits(store, Doc, Key(content))
    BY <1>5, <2>2 DEF PageOf, Hits
  <2> QED BY <2>1, <2>2
<1>9. view = "ok" /\ ~ Has(s, Doc) =>
        \/ "doc_preview" \in blank \/ Fails(content) \/ Unlooked \/ shown.what = "error"
  <2>1. CASE Hits(store, Doc, Key(content))
    <3>1. view = "ok" => Guards(s, width, {Doc})
      BY <1>2, <1>4, <1>5, <2>1 DEF PageFound
    <3> QED BY <3>1 DEF Guards, Has
  <2>2. CASE ~ Hits(store, Doc, Key(content))
    BY <1>4, <2>2 DEF PageFound, Unlooked
  <2> QED BY <2>1, <2>2
<1> QED BY <1>1, <1>5, <1>6, <1>7, <1>8, <1>9 DEF FrameGuards, p, s

\* A frame that goes through the pre-pass finds what that has stored.
LEMMA PreparedFrame ==
  ASSUME Kept(store), GuardInv, OneOfEach, ~ (~ moved /\ lastUi = Ui /\ ~ flash)
  PROVE  FrameGuards(DrawnStore(Prepared))
<1> DEFINE F == Overlay(flash, "status_flash", width)
           s == DrawnStore(Prepared)
<1>1. Kept(Prepared.store) /\ Priced(Prepared.store)
  BY PreparedGuards DEF GuardInv, StoreGuards
<1>2. Guards(Prepared.store, width, DrawnSlots(Ui) \cup F)
  BY PreparedGuards DEF GuardInv, StoreGuards
<1>3. \/ view = "closed" /\ Prepared.view = "closed"
      \/ /\ view # "closed" /\ Prepared.view = "ok"
         /\ Guards(Prepared.store, width, {Doc})
      \/ /\ view # "closed" /\ Prepared.view = view
         /\ PageOf(Prepared.store, store) /\ Unlooked
      \/ /\ view # "closed" /\ Prepared.view = "err"
         /\ ~ Has(Prepared.store, Doc)
  BY PreparedGuards DEF GuardInv, StoreGuards
<1>4. /\ Priced(s) /\ PageOf(s, Prepared.store)
      /\ \A A : Guards(Prepared.store, width, A) => Guards(s, width, A)
  BY <1>1, DrawnGuards
<1> HIDE DEF s
<1>5. /\ Guards(Prepared.store, width, DrawnSlots(Ui)) /\ Guards(s, width, DrawnSlots(Ui))
      /\ Guards(s, width, F)
  <2> HIDE DEF F
  <2>1. Guards(s, width, DrawnSlots(Ui) \cup F)
    BY <1>2, <1>4
  <2> QED BY <1>2, <2>1, FewerGuarded
<1>6. flash => Has(s, <<"status_flash", width>>)
  BY <1>5 DEF Guards, Has, Overlay
<1>7. view \in {"closed", "ok", "err"}
  BY DEF GuardInv
<1>8. CASE view = "closed" /\ Prepared.view = "closed"
  BY <1>4, <1>5, <1>6, <1>8 DEF FrameGuards, s
<1>9. CASE /\ view # "closed" /\ Prepared.view = "ok"
           /\ Guards(Prepared.store, width, {Doc})
  <2>1. Guards(s, width, {Doc}) /\ Has(s, Doc)
    BY <1>4, <1>9 DEF Guards, Has
  <2> QED BY <1>4, <1>5, <1>6, <1>9, <2>1 DEF FrameGuards, s
<1>10. CASE /\ view # "closed" /\ Prepared.view = view
            /\ PageOf(Prepared.store, store) /\ Unlooked
  <2>1. ~ Hits(s, Doc, Key(content))
    BY <1>4, <1>10 DEF PageOf, Hits, Unlooked
  <2> QED BY <1>4, <1>5, <1>6, <1>7, <1>10, <2>1 DEF FrameGuards, s
<1>11. CASE /\ view # "closed" /\ Prepared.view = "err"
            /\ ~ Has(Prepared.store, Doc)
  <2>1. ~ Hits(s, Doc, Key(content))
    BY <1>4, <1>11 DEF PageOf, Hits
  <2> QED BY <1>4, <1>5, <1>6, <1>11, <2>1 DEF FrameGuards, s
<1> QED BY <1>3, <1>8, <1>9, <1>10, <1>11

\* A frame finds what it draws, but for the blanks that are the code's own.
LEMMA RedrawGuards ==
  ASSUME Kept(store), GuardInv, OneOfEach, Redraw
  PROVE  /\ GuardInv'
         /\ \/ blank' \subseteq blank
            \/ blank' = {"doc_preview"} /\ (Fails(content) \/ Unlooked \/ shown.what = "error")
<1> DEFINE s == DrawnStore(Prepared)
<1>1. FrameGuards(s)
  BY SkippedFrame, PreparedFrame
<1>2. /\ store' = s /\ view' = Prepared.view /\ shown' = Drawn(Prepared, s)
      /\ moved' = FALSE /\ lastUi' = Ui /\ UNCHANGED <<content, job>>
  BY DEF Redraw, docVars
<1>3. /\ \A site \in blank' :
           \/ site = "kernel_menu" /\ menu /\ ~ Has(Prepared.store, <<"kernel_menu", width>>)
           \/ site = "doc_preview" /\ Prepared.view = "ok" /\ ~ Has(s, Doc)
           \/ site = "help" /\ help /\ ~ Has(s, <<"help", width>>)
           \/ site = "status_flash" /\ flash /\ ~ Has(s, <<"status_flash", width>>)
      /\ Prepared.view = "ok" /\ ~ Has(s, Doc) => "doc_preview" \in blank'
  BY BlankOf
<1> HIDE DEF s
<1>4. Ui[1] = menu /\ Ui[2] = help /\ Ui[3] = (view # "closed") /\ Ui[4] = width
  BY DEF Ui
<1>5. /\ menu => Has(Prepared.store, <<"kernel_menu", width>>)
      /\ help => Has(s, <<"help", width>>)
  <2>1. /\ menu => <<"kernel_menu", width>> \in DrawnSlots(Ui)
        /\ help => <<"help", width>> \in DrawnSlots(Ui)
    BY <1>4 DEF DrawnSlots, Overlay
  <2> QED BY <1>1, <2>1 DEF FrameGuards, Guards, Has
<1>6. \A site \in blank' : site = "doc_preview" /\ Prepared.view = "ok" /\ ~ Has(s, Doc)
  BY <1>1, <1>3, <1>5 DEF FrameGuards
<1>7. \/ blank' \subseteq blank
      \/ blank' = {"doc_preview"} /\ (Fails(content) \/ Unlooked \/ shown.what = "error")
  <2>1. CASE blank' = {}
    BY <2>1
  <2>2. CASE blank' # {}
    <3>1. blank' = {"doc_preview"} /\ Prepared.view = "ok" /\ ~ Has(s, Doc)
      BY <1>6, <2>2
    <3> QED BY <1>1, <3>1 DEF FrameGuards
  <2> QED BY <2>1, <2>2
<1>8. StoreGuards(store)'
  BY <1>1, <1>2, <1>4 DEF StoreGuards, FrameGuards, Priced, Guards
<1>9. Prepared.view = "err" => shown'.what = "error"
  BY <1>2 DEF Drawn
<1>10. Ui[3] => PageFound(store)'
  <2> SUFFICES ASSUME view # "closed"
               PROVE  PageFound(store)'
    BY <1>4
  <2>1. Hits(s, Doc, Key(content)) => Guards(s, width, {Doc})
    BY <1>1 DEF FrameGuards
  <2>2. Has(s, Doc) \/ "doc_preview" \in blank' \/ shown'.what = "error"
    BY <1>1, <1>3, <1>9 DEF FrameGuards
  <2>3. /\ Hits(s, Doc, Key(content)) = Hits(store, Doc, Key(content))'
        /\ Guards(s, width, {Doc}) = Guards(store, lastUi[4], {Doc})'
        /\ Has(s, Doc) = Has(store, Doc)'
    BY <1>2, <1>4 DEF Hits, Has, Key, Guards
  <2> QED BY <2>1, <2>2, <2>3 DEF PageFound
<1>11. view' \in {"closed", "ok", "err"} /\ JobInv' /\ blank' \subseteq {"doc_preview"}
  BY <1>1, <1>2, <1>6 DEF FrameGuards, GuardInv, JobInv, Key
<1> QED BY <1>2, <1>7, <1>8, <1>10, <1>11 DEF GuardInv

-----------------------------------------------------------------------------
(* The other steps.                                                        *)

\* What the worker hands in is filed, or dropped, or shows that the text does
\* not render; if the content has not moved.
LEMMA DrainedGuards ==
  ASSUME Kept(store), GuardInv, OneOfEach, NEW c
  PROVE  /\ StoreGuards(Drained(c).store)
         /\ c = content /\ PageFound(store) => PageFound(Drained(c).store)
         /\ Drained(c).view \in {"closed", "ok", "err"}
         /\ Drained(c).job \in {job, NoJob}
<1> DEFINE r == DocRaster(Key(c), job.of)
           d == Drained(c)
<1>0. view \in {"closed", "ok", "err"} /\ StoreGuards(store) /\ Whole(store)
  BY DEF GuardInv, Kept
<1>1. /\ Unaffected.store = store /\ Unaffected.view = view /\ Unaffected.job = job
  BY DEF Unaffected
<1>2. ASSUME d.store = store, d.view = view, d.job \in {job, NoJob}
      PROVE  /\ StoreGuards(d.store)
             /\ c = content /\ PageFound(store) => PageFound(d.store)
             /\ d.view \in {"closed", "ok", "err"} /\ d.job \in {job, NoJob}
  <2> HIDE DEF d
  <2> QED BY <1>0, <1>2
<1>3. CASE job.state \in {"none", "composing"}
  <2>1. d = Unaffected
    BY <1>3 DEF Drained
  <2> QED BY <1>1, <1>2, <2>1
<1>4. CASE job.state \notin {"none", "composing"} /\ (job.state = "died" \/ Key(c) # job.key)
  <2>1. d = [Unaffected EXCEPT !.job = NoJob]
    BY <1>4 DEF Drained
  <2>2. d.store = store /\ d.view = view /\ d.job = NoJob
    BY <2>1 DEF Unaffected
  <2> QED BY <1>2, <2>2
<1>5. CASE /\ job.state \notin {"none", "composing"} /\ Key(c) = job.key
           /\ job.state # "died" /\ Hits(store, Doc, Key(c))
  <2>1. d = [Unaffected EXCEPT !.job = NoJob, !.store = Got(@, Doc)]
    BY <1>5 DEF Drained
  <2>2. d.store = Got(store, Doc) /\ d.view = view /\ d.job = NoJob
    BY <2>1 DEF Unaffected
  <2> HIDE DEF d
  <2>3. StoreGuards(d.store) /\ PageFound(d.store)
    BY <1>0, <1>5, <2>2, GotStoreGuards DEF Hits
  <2> QED BY <1>0, <2>2, <2>3 DEF d
<1>6. CASE /\ job.state \notin {"none", "composing"} /\ Key(c) = job.key
           /\ job.state # "died" /\ ~ Hits(store, Doc, Key(c))
  <2>1. d = Filed(Key(c))
    BY <1>6 DEF Drained
  <2>2. CASE Fails(job.of)
    <3>1. d.store = Removed(store, Doc) /\ d.view \in {view, "err"} /\ d.job = NoJob
      BY <2>1, <2>2 DEF Filed
    <3>2. c = content => Fails(content)
      <4>1. job # NoJob
        BY <1>6 DEF NoJob
      <4>2. Key(c) = Key(job.of)
        BY <1>6, <4>1 DEF GuardInv, JobInv
      <4>3. c.text = job.of.text
        BY <4>2 DEF Key
      <4> QED BY <2>2, <4>3 DEF Fails
    <3> HIDE DEF d
    <3>3. StoreGuards(d.store) /\ (c = content => PageFound(d.store))
      BY <1>0, <3>1, <3>2, ForgottenStoreGuards
    <3> QED BY <1>0, <3>1, <3>3 DEF d
  <2>3. CASE ~ Fails(job.of)
    <3>1. d.store = Inserted(store, Doc, r) /\ d.view = view /\ d.job = NoJob
      BY <2>1, <2>3 DEF Filed
    <3> HIDE DEF d
    <3>2. StoreGuards(d.store) /\ PageFound(d.store)
      BY <1>0, <3>1, FiledStoreGuards
    <3> QED BY <1>0, <3>1, <3>2 DEF d
  <2> QED BY <2>2, <2>3
<1> QED BY <1>3, <1>4, <1>5, <1>6

\* What is dispatched is noted with its key.
LEMMA DispatchedJob ==
  ASSUME NEW s, NEW c, NEW window, NEW j,
         j = NoJob \/ (j = [state |-> j.state, key |-> j.key, of |-> j.of] /\ j.key = Key(j.of)),
         NEW k, k = Dispatched(s, c, window, j)
  PROVE  k = NoJob \/ (k = [state |-> k.state, key |-> k.key, of |-> k.of] /\ k.key = Key(k.of))
BY DEF Dispatched

\* The pass before the event loop sleeps.
LEMMA WakeGuards ==
  ASSUME Kept(store), GuardInv, OneOfEach, Wake
  PROVE  GuardInv'
<1> DEFINE d == Drained(content')
           looked == LookedUp(d.store, content', Window, d.job)
           s == IF wanted /\ quiet THEN looked ELSE d.store
           slot == <<"status_flash", LayoutWidth>>
<1>1. /\ store' = s \/ store' = Removed(s, slot)
      /\ view' = d.view /\ UNCHANGED <<lastUi, shown, blank>>
      /\ job' = IF wanted /\ quiet THEN Dispatched(d.store, content', Window, d.job) ELSE d.job
      /\ moved' = TRUE \/ UNCHANGED <<content, moved>>
  BY DEF Wake, Polled
<1>2. Kept(d.store)
  BY DrainedKeeps
<1>3. /\ StoreGuards(d.store) /\ d.view \in {"closed", "ok", "err"} /\ d.job \in {job, NoJob}
      /\ content' = content /\ PageFound(store) => PageFound(d.store)
  BY DrainedGuards
<1> HIDE DEF d
<1>4. Kept(s) /\ StoreGuards(s) /\ (PageFound(d.store) => PageFound(s))
  BY <1>2, <1>3, LookedUpKeeps, LookedUpStoreGuards
<1> HIDE DEF s
<1>5. StoreGuards(store') /\ (PageFound(s) => PageFound(store'))
  <2>1. Doc \notin {slot} /\ {slot} \cap DrawnSlots(lastUi) = {}
    BY DrawnApart DEF Doc
  <2> HIDE DEF slot
  <2>2. /\ StoreGuards(Removed(s, slot))
        /\ PageFound(s) => PageFound(Removed(s, slot))
    BY <1>4, <2>1, RemovedStoreGuards DEF Kept, Removed
  <2> QED BY <1>1, <1>4, <2>2
<1>6. StoreGuards(store)'
  BY <1>1, <1>5 DEF StoreGuards, Priced, Guards
<1>7. JobInv'
  <2>1. d.job = NoJob \/ (d.job = [state |-> d.job.state, key |-> d.job.key, of |-> d.job.of]
                          /\ d.job.key = Key(d.job.of))
    BY <1>3 DEF GuardInv, JobInv
  <2>2. job' = NoJob \/ (job' = [state |-> job'.state, key |-> job'.key, of |-> job'.of]
                         /\ job'.key = Key(job'.of))
    BY <1>1, <2>1, DispatchedJob
  <2> QED BY <2>2 DEF JobInv, Key
<1>8. lastUi' # <<>> /\ lastUi'[3] /\ ~ moved' => PageFound(store)'
  <2> SUFFICES ASSUME lastUi # <<>>, lastUi[3], ~ moved'
               PROVE  PageFound(store)'
    BY <1>1
  <2>1. UNCHANGED <<content, moved>>
    BY <1>1
  <2>2. PageFound(store')
    BY <1>3, <1>4, <1>5, <2>1 DEF GuardInv
  <2> QED BY <1>1, <2>1, <2>2 DEF PageFound, Hits, Has, Key, Guards
<1> QED BY <1>1, <1>3, <1>6, <1>7, <1>8 DEF GuardInv

\* What the user does.
LEMMA UserGuards ==
  ASSUME Kept(store), GuardInv, UserActs
  PROVE  GuardInv' /\ UNCHANGED blank
<1>1. UNCHANGED <<lastUi, shown, blank>> /\ view' \in {view, "closed", "ok"}
  BY DEF UserActs, Edit, Run, Open, Close, OpenMenu, CloseMenu, ToggleHelp, Resize, Focus, Act,
         uiVars
<1>2. moved' = TRUE \/ UNCHANGED <<content, moved>>
  BY DEF UserActs, Edit, Run, Open, Close, OpenMenu, CloseMenu, ToggleHelp, Resize, Focus, Asked,
         docVars
<1>3. job' = job \/ job' = Dispatched(store, content, polling, job)
  BY DEF UserActs, Edit, Run, Open, Close, OpenMenu, CloseMenu, ToggleHelp, Resize, Focus
<1>4. \/ UNCHANGED store
      \/ store' = Closed(store)
      \/ store' = LookedUp(store, content, polling, job)
  BY DEF UserActs, Edit, Run, Open, Close, OpenMenu, CloseMenu, ToggleHelp, Resize, Focus
<1>5. StoreGuards(store') /\ (PageFound(store) => PageFound(store'))
  BY <1>4, ClosedStoreGuards, LookedUpStoreGuards DEF GuardInv
<1>6. JobInv'
  <2>1. job' = NoJob \/ (job' = [state |-> job'.state, key |-> job'.key, of |-> job'.of]
                         /\ job'.key = Key(job'.of))
    BY <1>3, DispatchedJob DEF GuardInv, JobInv
  <2> QED BY <2>1 DEF JobInv, Key
<1>7. StoreGuards(store)'
  BY <1>1, <1>5 DEF StoreGuards, Priced, Guards
<1>8. lastUi' # <<>> /\ lastUi'[3] /\ ~ moved' => PageFound(store)'
  <2> SUFFICES ASSUME lastUi # <<>>, lastUi[3], ~ moved'
               PROVE  PageFound(store)'
    BY <1>1
  <2>1. UNCHANGED <<content, moved>>
    BY <1>2
  <2>2. PageFound(store')
    BY <1>5, <2>1 DEF GuardInv
  <2> QED BY <1>1, <2>1, <2>2 DEF PageFound, Hits, Has, Key, Guards
<1> QED BY <1>1, <1>6, <1>7, <1>8 DEF GuardInv

\* Nothing is stored, nothing drawn.
LEMMA GuardInit ==
  ASSUME Init
  PROVE  GuardInv
<1>1. store.memos = <<>>
  BY DEF Init, EmptyStore
<1>2. DOMAIN store.memos = {}
  BY <1>1
<1> QED BY <1>2 DEF Init, GuardInv, StoreGuards, Priced, JobInv

\* Every step keeps what the last frame drew, and a frame finds it.
LEMMA GuardStep ==
  ASSUME StoreInv, GuardInv, OneOfEach, [Next]_vars
  PROVE  /\ GuardInv'
         /\ \/ blank' \subseteq blank
            \/ blank' = {"doc_preview"} /\ (Fails(content) \/ Unlooked \/ shown.what = "error")
<1>0. Kept(store)
  BY DEF StoreInv
<1>1. CASE UserActs
  BY <1>0, <1>1, UserGuards
<1>2. CASE Redraw
  BY <1>0, <1>2, RedrawGuards
<1>3. CASE Wake
  <2>1. UNCHANGED blank
    BY <1>3 DEF Wake
  <2> QED BY <1>0, <1>3, <2>1, WakeGuards
<1>4. ASSUME UNCHANGED <<store, view, blank, moved, content, lastUi, shown>>, JobInv'
      PROVE  GuardInv' /\ UNCHANGED blank
  <2>1. StoreGuards(store)'
    BY <1>4 DEF GuardInv, StoreGuards, Priced, Guards
  <2>2. PageFound(store) => PageFound(store)'
    BY <1>4 DEF PageFound, Hits, Has, Key, Guards
  <2> QED BY <1>4, <2>1, <2>2 DEF GuardInv
<1>5. CASE Pause \/ Deadline \/ UNCHANGED vars
  <2>1. UNCHANGED <<store, view, blank, moved, content, lastUi, shown, job>>
    BY <1>5 DEF Pause, Deadline, vars, docVars, uiVars, frameVars
  <2> QED BY <1>4, <2>1 DEF GuardInv, JobInv, Key
<1>6. CASE Compose \/ WorkerDies
  <2>1. UNCHANGED <<store, view, blank, moved, content, lastUi, shown>>
    BY <1>6 DEF Compose, WorkerDies, docVars, uiVars, frameVars
  <2>2. job.state = "composing" /\ \E state : job' = [job EXCEPT !.state = state]
    BY <1>6 DEF Compose, WorkerDies
  <2>3. job # NoJob
    BY <2>2 DEF NoJob
  <2>4. JobInv'
    BY <2>2, <2>3 DEF GuardInv, JobInv, Key
  <2> QED BY <1>4, <2>1, <2>4
<1> QED BY <1>1, <1>2, <1>3, <1>5, <1>6 DEF Next

\* A frame of the preview (app.rs, redraw and ensure_doc_preview_raster) draws every
\* overlay that is open, whatever was evicted before it and whatever it memoises on
\* its way, under any budget that holds one raster of each site (memo.rs, insert).
THEOREM FramesFindTheirRasters ==
  ASSUME OneOfEach
  PROVE  Spec => NeverEvicted
<1> DEFINE Found ==
      \/ blank' \subseteq blank
      \/ blank' = {"doc_preview"} /\ (Fails(content) \/ Unlooked \/ shown.what = "error")
<1>1. Init => StoreInv /\ GuardInv
  BY StoreInit, GuardInit
<1>2. StoreInv /\ GuardInv /\ [Next]_vars => StoreInv' /\ GuardInv' /\ [Found]_vars
  BY StoreStep, GuardStep
<1>3. NeverEvicted <=> [][Found]_vars
  BY DEF NeverEvicted
<1> HIDE DEF Found
<1> QED BY <1>1, <1>2, <1>3, PTL DEF Spec
=============================================================================
