----------------------------- MODULE NaturalLemmas -----------------------------
(***************************************************************************)
(* Sets of natural numbers have a least element, and a greatest one when   *)
(* they are bounded: what the proofs about the newest, the oldest and the  *)
(* last of something rest on.  And a function may be defined by recursion  *)
(* on them: what the proofs about loops over a sequence rest on.           *)
(***************************************************************************)
EXTENDS Naturals, WellFoundedInduction, TLAPS

\* A set of naturals that is not empty has a least element.
LEMMA LeastExists ==
  ASSUME NEW S \in SUBSET Nat, S # {}
  PROVE  \E k \in S : \A j \in S : k <= j
<1> DEFINE R == {p \in Nat \X Nat : p[1] < p[2]}
<1>1. IsWellFoundedOn(R, Nat)
  BY NatLessThanWellFounded DEF OpToRel
<1> HIDE DEF R
<1>2. PICK k \in S : \A j \in S : ~ (<<j, k>> \in R)
  BY <1>1, WFMin
<1>3. ASSUME NEW j \in S
      PROVE  k <= j
  <2>1. ~ (<<j, k>> \in R) /\ j \in Nat /\ k \in Nat
    BY <1>2
  <2>2. ~ (j < k)
    BY <2>1 DEF R
  <2> QED BY <2>1, <2>2
<1> QED BY <1>3

\* One that is bounded has a greatest.
LEMMA GreatestExists ==
  ASSUME NEW S \in SUBSET Nat, S # {}, NEW n \in Nat, \A k \in S : k <= n
  PROVE  \E k \in S : \A j \in S : j <= k
<1> DEFINE T == {n - k : k \in S}
<1>1. T \in SUBSET Nat /\ T # {}
  <2>1. \A k \in S : n - k \in Nat
    OBVIOUS
  <2> QED BY <2>1
<1>2. PICK t \in T : \A u \in T : t <= u
  BY <1>1, LeastExists
<1>3. PICK k \in S : t = n - k
  BY <1>2
<1>4. \A j \in S : j <= k
  <2> SUFFICES ASSUME NEW j \in S
               PROVE  j <= k
    OBVIOUS
  <2>1. t <= n - j
    BY <1>2
  <2>2. j \in Nat /\ k \in Nat /\ n \in Nat
    OBVIOUS
  <2> QED BY <1>3, <2>1, <2>2
<1> QED BY <1>4

\* What holds of 0, and of a number when it holds of the one before, holds up to n.
LEMMA StepByStep ==
  ASSUME NEW T, NEW n \in Nat, 0 \in T, \A k \in 1 .. n : k - 1 \in T => k \in T
  PROVE  \A k \in 0 .. n : k \in T
<1> DEFINE M == {k \in 0 .. n : k \notin T}
<1> SUFFICES ASSUME M # {}
             PROVE  FALSE
  OBVIOUS
<1>1. PICK k \in M : \A j \in M : k <= j
  <2>1. M \in SUBSET Nat
    OBVIOUS
  <2> HIDE DEF M
  <2> QED BY <2>1, LeastExists
<1>2. k \in 1 .. n /\ k \notin T
  OBVIOUS
<1>3. k - 1 \in 0 .. n /\ k - 1 \notin M
  BY <1>1, <1>2
<1> QED BY <1>2, <1>3

-----------------------------------------------------------------------------
(* Recursive functions.  A function defined by recursion is the one that   *)
(* its equation describes only if there is one; the step of the recursion  *)
(* is a function here, so that the lemmas can be instantiated.             *)

\* A function on the naturals may call itself on a smaller argument.
Solves(f, n, stop, first, prev, step) ==
  \A k \in 0 .. n : f[k] = IF k \in stop THEN first[k] ELSE step[<<k, f[prev[k]]>>]

SolvesAll(f, stop, first, prev, step) ==
  \A k \in Nat : f[k] = IF k \in stop THEN first[k] ELSE step[<<k, f[prev[k]]>>]

\* Two functions that solve the equation agree as far as both do.
LEMMA SolutionsAgree ==
  ASSUME NEW stop, NEW first, NEW prev, NEW step, NEW f, NEW g, NEW m \in Nat, NEW n \in Nat,
         Solves(f, m, stop, first, prev, step), Solves(g, n, stop, first, prev, step),
         \A k \in Nat \ stop : prev[k] \in Nat /\ prev[k] < k
  PROVE  \A k \in Nat : k <= m /\ k <= n => f[k] = g[k]
<1> DEFINE T == {k \in Nat : k <= m /\ k <= n /\ f[k] # g[k]}
<1> SUFFICES ASSUME T # {}
             PROVE  FALSE
  OBVIOUS
<1>1. PICK k \in T : \A j \in T : k <= j
  <2>1. T \in SUBSET Nat
    OBVIOUS
  <2> HIDE DEF T
  <2> QED BY <2>1, LeastExists
<1>2. k \in Nat /\ k \in 0 .. m /\ k \in 0 .. n /\ f[k] # g[k]
  OBVIOUS
<1>3. /\ f[k] = IF k \in stop THEN first[k] ELSE step[<<k, f[prev[k]]>>]
      /\ g[k] = IF k \in stop THEN first[k] ELSE step[<<k, g[prev[k]]>>]
  BY <1>2 DEF Solves
<1>4. CASE k \in stop
  BY <1>2, <1>3, <1>4
<1>5. CASE k \notin stop
  <2>1. prev[k] \in Nat /\ prev[k] < k
    BY <1>2, <1>5
  <2>2. prev[k] \notin T
    BY <1>1, <1>2, <2>1
  <2>3. f[prev[k]] = g[prev[k]]
    BY <1>2, <2>1, <2>2
  <2> QED BY <1>2, <1>3, <1>5, <2>3
<1> QED BY <1>4, <1>5

\* The equation has a solution as far as one likes.
LEMMA SolvedUpTo ==
  ASSUME NEW S, NEW stop, NEW first \in [Nat -> S], NEW prev, NEW step \in [Nat \X S -> S],
         \A k \in Nat \ stop : prev[k] \in Nat /\ prev[k] < k
  PROVE  \A n \in Nat : \E f \in [0 .. n -> S] : Solves(f, n, stop, first, prev, step)
<1> DEFINE T == {n \in Nat : ~ \E f \in [0 .. n -> S] : Solves(f, n, stop, first, prev, step)}
<1> SUFFICES ASSUME T # {}
             PROVE  FALSE
  OBVIOUS
<1>1. PICK n \in T : \A j \in T : n <= j
  <2>1. T \in SUBSET Nat
    OBVIOUS
  <2> HIDE DEF T
  <2> QED BY <2>1, LeastExists
<1>2. n \in Nat /\ ~ \E f \in [0 .. n -> S] : Solves(f, n, stop, first, prev, step)
  OBVIOUS
<1>3. CASE n = 0
  <2> DEFINE f == [k \in 0 .. 0 |-> first[k]]
  <2>1. 0 \in stop
    OBVIOUS
  <2>2. f \in [0 .. n -> S] /\ Solves(f, n, stop, first, prev, step)
    BY <1>3, <2>1 DEF Solves
  <2> QED BY <1>2, <2>2
<1>4. CASE n # 0
  <2>0. n - 1 \in Nat /\ n - 1 \notin T
    BY <1>1, <1>2, <1>4
  <2>1. PICK g \in [0 .. n - 1 -> S] : Solves(g, n - 1, stop, first, prev, step)
    BY <2>0
  <2> DEFINE last == IF n \in stop THEN first[n] ELSE step[<<n, g[prev[n]]>>]
             f == [k \in 0 .. n |-> IF k = n THEN last ELSE g[k]]
  <2>2. n \notin stop => prev[n] \in 0 .. n - 1
    BY <1>2
  <2>3. last \in S
    BY <1>2, <2>2
  <2> HIDE DEF last
  <2>4. f \in [0 .. n -> S]
    BY <1>2, <2>3
  <2>5. ASSUME NEW k \in 0 .. n
        PROVE  f[k] = IF k \in stop THEN first[k] ELSE step[<<k, f[prev[k]]>>]
    <3>1. CASE k = n
      <4>1. f[n] = last /\ (n \notin stop => f[prev[n]] = g[prev[n]])
        BY <1>2, <2>2
      <4> HIDE DEF f
      <4> QED BY <3>1, <4>1 DEF last
    <3>2. CASE k # n
      <4>1. k \in 0 .. n - 1 /\ f[k] = g[k]
        BY <1>2, <3>2
      <4>2. k \notin stop => prev[k] \in 0 .. n - 1 /\ prev[k] # n /\ f[prev[k]] = g[prev[k]]
        BY <1>2, <3>2
      <4> HIDE DEF f
      <4> QED BY <2>1, <4>1, <4>2 DEF Solves
    <3> QED BY <3>1, <3>2
  <2> HIDE DEF f
  <2>6. Solves(f, n, stop, first, prev, step)
    BY <2>5 DEF Solves
  <2> QED BY <1>2, <2>4, <2>6
<1> QED BY <1>3, <1>4

\* So it has one on all naturals.
LEMMA Solved ==
  ASSUME NEW S, NEW stop, NEW first \in [Nat -> S], NEW prev, NEW step \in [Nat \X S -> S],
         \A k \in Nat \ stop : prev[k] \in Nat /\ prev[k] < k
  PROVE  \E f \in [Nat -> S] : SolvesAll(f, stop, first, prev, step)
<1> DEFINE upTo(n) == CHOOSE f \in [0 .. n -> S] : Solves(f, n, stop, first, prev, step)
           f == [n \in Nat |-> upTo(n)[n]]
<1>1. \A n \in Nat : upTo(n) \in [0 .. n -> S] /\ Solves(upTo(n), n, stop, first, prev, step)
  BY SolvedUpTo
<1> HIDE DEF upTo
<1>2. f \in [Nat -> S]
  BY <1>1
<1>3. ASSUME NEW k \in Nat
      PROVE  f[k] = IF k \in stop THEN first[k] ELSE step[<<k, f[prev[k]]>>]
  <2>1. upTo(k)[k] = IF k \in stop THEN first[k] ELSE step[<<k, upTo(k)[prev[k]]>>]
    BY <1>1 DEF Solves
  <2>2. CASE k \in stop
    BY <2>1, <2>2
  <2>3. CASE k \notin stop
    <3>1. prev[k] \in Nat /\ prev[k] <= k /\ prev[k] <= prev[k]
      BY <2>3
    <3>2. upTo(k)[prev[k]] = upTo(prev[k])[prev[k]]
      <4>1. /\ Solves(upTo(k), k, stop, first, prev, step)
            /\ Solves(upTo(prev[k]), prev[k], stop, first, prev, step)
        BY <1>1, <3>1
      <4> QED BY <3>1, <4>1, SolutionsAgree
    <3> QED BY <2>1, <2>3, <3>1, <3>2
  <2> QED BY <2>2, <2>3
<1> HIDE DEF f
<1> QED BY <1>2, <1>3 DEF SolvesAll

Iterates(f, n, base, step) ==
  f[0] = base /\ \A k \in 1 .. n : f[k] = step[<<k, f[k - 1]>>]

\* A computation of n steps: every one of them takes what the one before left.
LEMMA Iterated ==
  ASSUME NEW S, NEW base \in S, NEW n \in Nat, NEW step \in [(1 .. n) \X S -> S]
  PROVE  \E f \in [0 .. n -> S] : Iterates(f, n, base, step)
<1> DEFINE first == [k \in Nat |-> base]
           prev == [k \in Nat |-> k - 1]
           each == [p \in Nat \X S |-> IF p[1] \in 1 .. n THEN step[p] ELSE base]
<1>1. first \in [Nat -> S] /\ each \in [Nat \X S -> S]
  <2>1. \A p \in Nat \X S : p[1] \in 1 .. n => p \in (1 .. n) \X S
    OBVIOUS
  <2> QED BY <2>1
<1>2. \A k \in Nat \ {0} : prev[k] \in Nat /\ prev[k] < k
  OBVIOUS
<1>3. \A k \in Nat : first[k] = base /\ prev[k] = k - 1
  OBVIOUS
<1>4. \A k \in 1 .. n, v \in S : each[<<k, v>>] = step[<<k, v>>]
  OBVIOUS
<1> HIDE DEF first, prev, each
<1>5. PICK f \in [0 .. n -> S] : Solves(f, n, {0}, first, prev, each)
  BY <1>1, <1>2, SolvedUpTo
<1>6. f[0] = base
  <2>1. 0 \in 0 .. n /\ 0 \in {0} /\ first[0] = base
    BY <1>3
  <2> QED BY <1>5, <2>1, Zenon DEF Solves
<1>7. ASSUME NEW k \in 1 .. n
      PROVE  f[k] = step[<<k, f[k - 1]>>]
  <2>1. k \in 0 .. n /\ k \notin {0} /\ k - 1 \in 0 .. n /\ k \in Nat
    OBVIOUS
  <2>2. f[k] = each[<<k, f[prev[k]]>>]
    BY <1>5, <2>1 DEF Solves
  <2>3. f[k - 1] \in S /\ prev[k] = k - 1
    BY <1>3, <2>1
  <2> QED BY <1>4, <2>2, <2>3
<1> QED BY <1>6, <1>7 DEF Iterates
=============================================================================
