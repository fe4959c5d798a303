--------------------------- MODULE KernelBridgeProofs ---------------------------
(***************************************************************************)
(* What the bridge keeps for every document, every edit and every order of *)
(* requests and answers.                                                   *)
(***************************************************************************)
EXTENDS KernelBridge, NaturalLemmas, FiniteSetTheorems, SequenceTheorems, TLAPS

IsSeq(q) == q \in Seq(Range(q))

\* A sequence is one over its own elements.
LEMMA SeqIsOne ==
  ASSUME NEW T, NEW q \in Seq(T)
  PROVE  IsSeq(q)
<1>1. Len(q) \in Nat /\ q \in [1 .. Len(q) -> T] /\ DOMAIN q = 1 .. Len(q)
  BY LenProperties
<1>2. q \in [1 .. Len(q) -> Range(q)]
  BY <1>1 DEF Range
<1> QED BY <1>1, <1>2, SeqDef DEF IsSeq

\* An element is put behind a sequence.
LEMMA SeqAppend ==
  ASSUME NEW q, IsSeq(q), NEW x
  PROVE  /\ IsSeq(Append(q, x)) /\ Len(q) \in Nat /\ Len(Append(q, x)) = Len(q) + 1
         /\ \A i \in 1 .. Len(q) : Append(q, x)[i] = q[i]
         /\ Append(q, x)[Len(q) + 1] = x
<1> DEFINE T == Range(q) \cup {x}
<1>1. q \in Seq(T) /\ x \in T
  BY SeqMonotonic DEF IsSeq
<1> HIDE DEF T
<1>2. Append(q, x) \in Seq(T)
  BY <1>1
<1>3. IsSeq(Append(q, x))
  BY <1>2, SeqIsOne
<1> QED BY <1>1, <1>2, <1>3

\* The first element is taken from a sequence.
LEMMA SeqTail ==
  ASSUME NEW q, IsSeq(q), q # <<>>
  PROVE  /\ IsSeq(Tail(q)) /\ Len(q) \in Nat \ {0} /\ Len(Tail(q)) = Len(q) - 1
         /\ \A i \in 1 .. Len(q) - 1 : Tail(q)[i] = q[i + 1]
         /\ Head(q) = q[1]
<1> DEFINE T == Range(q)
<1>1. q \in Seq(T)
  BY DEF IsSeq
<1> HIDE DEF T
<1>2. /\ Tail(q) \in Seq(T) /\ Len(Tail(q)) = Len(q) - 1 /\ Len(q) \in Nat \ {0}
      /\ \A i \in 1 .. Len(Tail(q)) : Tail(q)[i] = q[i + 1]
  BY <1>1, HeadTailProperties, EmptySeq
<1>3. IsSeq(Tail(q))
  BY <1>2, SeqIsOne
<1>4. Head(q) = q[1]
  BY <1>1
<1> QED BY <1>2, <1>3, <1>4

\* Q is q with B behind it.
Joined(q, B, Q) ==
  /\ Len(q) \in Nat /\ Len(B) \in Nat /\ Len(Q) = Len(q) + Len(B)
  /\ \A i \in 1 .. Len(q) : Q[i] = q[i]
  /\ \A i \in 1 .. Len(B) : Q[Len(q) + i] = B[i]

\* A sequence is put behind another.
LEMMA SeqConcat ==
  ASSUME NEW q, IsSeq(q), NEW B, IsSeq(B)
  PROVE  IsSeq(q \o B) /\ Joined(q, B, q \o B)
<1> DEFINE T == Range(q) \cup Range(B)
<1>1. q \in Seq(T) /\ B \in Seq(T)
  BY SeqMonotonic DEF IsSeq
<1> HIDE DEF T
<1>2. /\ q \o B \in Seq(T) /\ Len(q \o B) = Len(q) + Len(B) /\ Len(q) \in Nat /\ Len(B) \in Nat
      /\ \A i \in 1 .. Len(q) + Len(B) : (q \o B)[i] = IF i <= Len(q) THEN q[i] ELSE B[i - Len(q)]
  BY <1>1, ConcatProperties, LenProperties
<1>3. IsSeq(q \o B)
  BY <1>2, SeqIsOne
<1> QED BY <1>2, <1>3 DEF Joined

-----------------------------------------------------------------------------
(* The order of a batch.                                                   *)

Ops == {"define", "condition", "probability", "exec"}

\* A request is of the kind that its statement allows.
Shaped(r) ==
  /\ r.id \in Stmts /\ r.op \in Ops
  /\ r.op = "define" => r.id \in Models
  /\ r.op \in {"condition", "probability"} => r.id \in Probs /\ r.model \in Models
  /\ r.op = "exec" => r.id \in Execs
  /\ r.op = "probability" => r.of = <<r.of[1]>>

\* Requests that differ in statement or kind are in a strict total order.
LEMMA PrecedesIsOrder ==
  ASSUME NEW R, \A r \in R : Shaped(r),
         \A q, r \in R : q.id = r.id /\ q.op = r.op => q = r
  PROVE  /\ \A q \in R : ~ Precedes(q, q)
         /\ \A p, q, r \in R : Precedes(p, q) /\ Precedes(q, r) => Precedes(p, r)
         /\ \A q, r \in R : q = r \/ Precedes(q, r) \/ Precedes(r, q)
<1>1. \A r \in R : r.id \in Nat /\ r.op \in Ops
  BY BridgeAssumption DEF Shaped
<1> DEFINE turn(r) == Turn(r)
<1>2. \A r \in R : /\ turn(r) \in Nat
                   /\ r.op = "condition" => turn(r) = 2
                   /\ r.op = "probability" => turn(r) = 2
                   /\ r.op = "define" => turn(r) = 1
                   /\ r.op = "exec" => turn(r) \in {3, 4}
  BY <1>1 DEF Turn, Ops
<1>3. \A q, r \in R : turn(q) = turn(r) /\ q.op # r.op =>
        \/ q.op = "condition" /\ r.op = "probability"
        \/ r.op = "condition" /\ q.op = "probability"
  BY <1>1, <1>2 DEF Ops
<1>4. \A q, r \in R : Precedes(q, r) <=>
        \/ turn(q) < turn(r)
        \/ turn(q) = turn(r) /\ q.id < r.id
        \/ q.id = r.id /\ q.op = "condition" /\ r.op = "probability"
  BY DEF Precedes
<1> HIDE DEF turn
<1>5. \A q \in R : ~ Precedes(q, q)
  BY <1>1, <1>2, <1>4
<1>6. \A p, q, r \in R : Precedes(p, q) /\ Precedes(q, r) => Precedes(p, r)
  BY <1>1, <1>2, <1>4
<1>7. \A q, r \in R : q = r \/ Precedes(q, r) \/ Precedes(r, q)
  BY <1>1, <1>2, <1>3, <1>4
<1> QED BY <1>5, <1>6, <1>7

\* A batch has each of its requests once, in the order that Precedes gives.
LEMMA InTurnOrders ==
  ASSUME NEW R, IsFiniteSet(R), \A r \in R : Shaped(r),
         \A q, r \in R : q.id = r.id /\ q.op = r.op => q = r
  PROVE  /\ InTurn(R) \in Seq(R)
         /\ \A r \in R : \E i \in 1 .. Len(InTurn(R)) : InTurn(R)[i] = r
         /\ \A i, j \in 1 .. Len(InTurn(R)) :
              /\ InTurn(R)[i] = InTurn(R)[j] => i = j
              /\ Precedes(InTurn(R)[i], InTurn(R)[j]) => i < j
<1> DEFINE N == Cardinality(R)
           Before(r) == {q \in R : Precedes(q, r)}
           rank(r) == Cardinality(Before(r))
           B == [i \in 1 .. N |-> CHOOSE r \in R : rank(r) = i - 1]
<1>1. InTurn(R) = B
  BY DEF InTurn
<1>2. /\ \A q \in R : ~ Precedes(q, q)
      /\ \A p, q, r \in R : Precedes(p, q) /\ Precedes(q, r) => Precedes(p, r)
      /\ \A q, r \in R : q = r \/ Precedes(q, r) \/ Precedes(r, q)
  BY PrecedesIsOrder
<1>3. N \in Nat
  BY FS_CardinalityType
<1>4. \A r \in R : IsFiniteSet(Before(r)) /\ rank(r) \in Nat /\ rank(r) < N
  <2> SUFFICES ASSUME NEW r \in R
               PROVE  IsFiniteSet(Before(r)) /\ rank(r) \in Nat /\ rank(r) < N
    OBVIOUS
  <2>1. Before(r) \in SUBSET R /\ r \notin Before(r)
    BY <1>2
  <2> HIDE DEF Before
  <2>2. /\ IsFiniteSet(Before(r)) /\ Cardinality(Before(r)) <= Cardinality(R)
        /\ Cardinality(R) = Cardinality(Before(r)) => R = Before(r)
    BY <2>1, FS_Subset
  <2>3. Cardinality(Before(r)) \in Nat
    BY <2>2, FS_CardinalityType
  <2> QED BY <1>3, <2>1, <2>2, <2>3
<1>5. \A q, r \in R : Precedes(q, r) => rank(q) < rank(r)
  <2> SUFFICES ASSUME NEW q \in R, NEW r \in R, Precedes(q, r)
               PROVE  rank(q) < rank(r)
    OBVIOUS
  <2>1. Before(q) \in SUBSET Before(r) /\ q \in Before(r) /\ q \notin Before(q)
    BY <1>2
  <2>2. IsFiniteSet(Before(r)) /\ rank(q) \in Nat /\ rank(r) \in Nat
    BY <1>4
  <2> HIDE DEF Before
  <2>3. /\ Cardinality(Before(q)) <= Cardinality(Before(r))
        /\ Cardinality(Before(r)) = Cardinality(Before(q)) => Before(r) = Before(q)
    BY <2>1, <2>2, FS_Subset
  <2> QED BY <2>1, <2>2, <2>3
<1> HIDE DEF rank, Before
<1>6. \A q, r \in R : rank(q) = rank(r) => q = r
  BY <1>2, <1>4, <1>5
<1> DEFINE f == [r \in R |-> rank(r) + 1]
<1>7. f \in Injection(R, 1 .. N)
  <2>1. \A r \in R : rank(r) + 1 \in 1 .. N
    BY <1>3, <1>4
  <2>2. f \in [R -> 1 .. N]
    BY <2>1
  <2>3. \A q, r \in R : f[q] = f[r] => q = r
    BY <1>4, <1>6
  <2> QED BY <2>2, <2>3 DEF Injection, IsInjective
<1>8. IsFiniteSet(1 .. N) /\ Cardinality(1 .. N) = N
  BY <1>3, FS_Interval
<1>9. f \in Surjection(R, 1 .. N)
  <2> HIDE DEF f, N
  <2> QED BY <1>7, <1>8, FS_Injection DEF N
<1>10. \A i \in 1 .. N : \E r \in R : rank(r) = i - 1
  <2> SUFFICES ASSUME NEW i \in 1 .. N
               PROVE  \E r \in R : rank(r) = i - 1
    OBVIOUS
  <2>1. PICK r \in R : f[r] = i
    BY <1>9 DEF Surjection
  <2> QED BY <2>1, <1>3, <1>4
<1>11. \A i \in 1 .. N : B[i] \in R /\ rank(B[i]) = i - 1
  BY <1>10
<1>12. B \in Seq(R) /\ Len(B) = N
  BY <1>3, <1>11
<1> HIDE DEF B
<1>13. \A r \in R : \E i \in 1 .. N : B[i] = r
  <2> SUFFICES ASSUME NEW r \in R
               PROVE  \E i \in 1 .. N : B[i] = r
    OBVIOUS
  <2>1. rank(r) + 1 \in 1 .. N /\ rank(r) \in Nat
    BY <1>3, <1>4
  <2>2. rank(B[rank(r) + 1]) = rank(r) /\ B[rank(r) + 1] \in R
    BY <2>1, <1>11
  <2> QED BY <2>1, <2>2, <1>6
<1>14. \A i, j \in 1 .. N : B[i] = B[j] => i = j
  BY <1>11, <1>3
<1>15. \A i, j \in 1 .. N : Precedes(B[i], B[j]) => i < j
  BY <1>5, <1>11, <1>3
<1> QED BY <1>1, <1>12, <1>13, <1>14, <1>15

-----------------------------------------------------------------------------
(* What a batch asks.                                                      *)

Askers == Models \cup Probs \cup Execs

\* Statements are of one kind.
LEMMA KindsApart ==
  /\ Models \cap Probs = {} /\ Models \cap Execs = {} /\ Probs \cap Execs = {}
  /\ Models \cap Settings = {} /\ Models \cap Layouts = {}
BY BridgeAssumption DEF Stmts

\* What resolve_model finds is a model that is there.
LEMMA BoundIsModel ==
  ASSUME NEW d, NEW s \in Stmts, Bound(d, s) # 0
  PROVE  Bound(d, s) \in Models \cap Present(d)
<1> DEFINE here == Models \cap Present(d)
           before == {m \in here : m <= s}
<1>1. here \in SUBSET Nat /\ before \in SUBSET Nat /\ s \in Nat
  BY BridgeAssumption DEF Stmts
<1>2. CASE s \in DOMAIN NameOf
  BY <1>2 DEF Bound
<1>3. CASE s \notin DOMAIN NameOf /\ before # {}
  <2>1. \E k \in before : \A j \in before : j <= k
    BY <1>1, <1>3, GreatestExists
  <2>2. Max(before) \in before
    BY <1>1, <2>1 DEF Max
  <2>3. Bound(d, s) = Max(before)
    BY <1>3 DEF Bound
  <2> QED BY <2>2, <2>3
<1>4. CASE s \notin DOMAIN NameOf /\ before = {} /\ here # {}
  <2>1. \E k \in here : \A j \in here : k <= j
    BY <1>1, <1>4, LeastExists
  <2>2. Min(here) \in here
    BY <1>1, <2>1 DEF Min
  <2>3. Bound(d, s) = Min(here)
    BY <1>4 DEF Bound
  <2> QED BY <2>2, <2>3
<1>5. s \in DOMAIN NameOf \/ here # {}
  BY DEF Bound
<1> QED BY <1>2, <1>3, <1>4, <1>5

\* A statement asks under its own offset, and a condition is never all it asks.
LEMMA AsksShape ==
  ASSUME NEW d, NEW S, NEW s \in Askers, s \in Probs => Bound(d, s) # 0
  PROVE  /\ Shaped(Asks(d, S, s)) /\ Asks(d, S, s).id = s /\ Asks(d, S, s).op # "condition"
         /\ s \in Models => /\ Asks(d, S, s).op = "define"
                            /\ Asks(d, S, s).of = Definition(d, s)
         /\ s \in Probs => /\ Asks(d, S, s).op = "probability"
                           /\ Asks(d, S, s).model = Bound(d, s)
                           /\ Asks(d, S, s).def = IF d[Bound(d, s)] \in Bad THEN <<>>
                                                ELSE Definition(d, Bound(d, s))
         /\ s \in Execs => Asks(d, S, s).op = "exec"
<1>1. CASE s \in Models
  BY <1>1, KindsApart DEF Asks, Request, Shaped, Stmts, Ops
<1>2. CASE s \in Execs
  <2>1. Asks(d, S, s) = Request("exec", s, 0, Key(d, S, s), <<>>)
    BY <1>2, KindsApart DEF Asks
  <2> QED BY <1>2, <2>1, KindsApart DEF Request, Shaped, Stmts, Ops
<1>3. CASE s \in Probs
  <2> DEFINE m == Bound(d, s)
             def == IF d[m] \in Bad THEN <<>> ELSE Definition(d, m)
  <2>1. Asks(d, S, s) = Request("probability", s, m, <<d[s]>>, def)
    BY <1>3, KindsApart DEF Asks
  <2>2. m \in Models
    BY <1>3, BoundIsModel DEF Stmts
  <2> HIDE DEF m, def
  <2>3. LET r == Request("probability", s, m, <<d[s]>>, def)
        IN  Shaped(r) /\ r.id = s /\ r.op = "probability" /\ r.model = m /\ r.def = def
    BY <1>3, <2>2 DEF Request, Shaped, Stmts, Ops
  <2> QED BY <1>3, <2>1, <2>3, KindsApart DEF m, def
<1> QED BY <1>1, <1>2, <1>3 DEF Askers

\* Every request of a statement is its last, or the condition before it.
LEMMA RequestsShape ==
  ASSUME NEW d, NEW S, NEW s \in Askers, s \in Probs => Bound(d, s) # 0,
         NEW r \in RequestsOf(d, S, s)
  PROVE  /\ Shaped(r) /\ r.id = s
         /\ r = Asks(d, S, s) \/ (s \in Probs /\ r.op = "condition")
<1>1. CASE r = Asks(d, S, s)
  BY <1>1, AsksShape
<1>2. CASE r # Asks(d, S, s)
  <2>1. s \in Probs /\ r = Request("condition", s, Bound(d, s), <<d[s]>>, <<>>)
    BY <1>2 DEF RequestsOf
  <2>2. Bound(d, s) \in Models
    BY <2>1, BoundIsModel DEF Stmts
  <2> QED BY <2>1, <2>2 DEF Request, Shaped, Stmts, Ops
<1> QED BY <1>1, <1>2

Final(w, i) == \A j \in DOMAIN w : j > i => w[j].id # w[i].id
Defines(r, m) == r.op = "define" /\ r.id = m

Batch(d, S, due, B) ==
  /\ IsSeq(B)
  /\ \A i \in 1 .. Len(B) : Shaped(B[i]) /\ B[i].id \in due
  /\ \A s \in due : \E i \in 1 .. Len(B) : B[i] = Asks(d, S, s)
  /\ \A i \in 1 .. Len(B) : Final(B, i) => B[i] = Asks(d, S, B[i].id)
  /\ \A i \in 1 .. Len(B) : B[i].op # "condition" => B[i] = Asks(d, S, B[i].id)
  /\ \A i, j \in 1 .. Len(B) : B[i] = B[j] => i = j
  /\ \A i, j \in 1 .. Len(B) : B[i].op = "define" /\ B[j].op = "probability" => i < j

\* A batch has the requests of every statement that is due, definitions before
\* what is asked of them, and what a statement asks behind its condition.
LEMMA RequestsBatch ==
  ASSUME NEW d, NEW S, NEW due \in SUBSET Askers,
         \A s \in due \cap Probs : Bound(d, s) # 0
  PROVE  Batch(d, S, due, Requests(d, S, due))
<1> DEFINE R == UNION {RequestsOf(d, S, s) : s \in due}
           B == Requests(d, S, due)
<1>1. \A r \in R : \E s \in due : r \in RequestsOf(d, S, s)
  OBVIOUS
<1>2. \A r \in R : /\ Shaped(r) /\ r.id \in due
                   /\ r = Asks(d, S, r.id) \/ (r.id \in Probs /\ r.op = "condition")
                   /\ r \in RequestsOf(d, S, r.id)
  BY <1>1, RequestsShape
<1>3. \A s \in due : /\ Asks(d, S, s) \in R /\ Asks(d, S, s).id = s
                     /\ Asks(d, S, s).op # "condition"
                     /\ s \in Probs => Asks(d, S, s).op = "probability"
  BY AsksShape DEF RequestsOf
<1>4. \A q, r \in R : q.id = r.id /\ q.op = r.op => q = r
  <2> SUFFICES ASSUME NEW q \in R, NEW r \in R, q.id = r.id, q.op = r.op
               PROVE  q = r
    OBVIOUS
  <2>1. CASE q = Asks(d, S, q.id)
    <3>1. r.op # "condition"
      BY <1>2, <1>3, <2>1
    <3> QED BY <1>2, <2>1, <3>1
  <2>2. CASE q # Asks(d, S, q.id)
    <3>1. q.op = "condition" /\ r # Asks(d, S, q.id)
      BY <1>2, <1>3, <2>2
    <3>2. /\ q = Request("condition", q.id, Bound(d, q.id), <<d[q.id]>>, <<>>)
          /\ r = Request("condition", q.id, Bound(d, q.id), <<d[q.id]>>, <<>>)
      BY <1>2, <2>2, <3>1 DEF RequestsOf
    <3> QED BY <3>2
  <2> QED BY <2>1, <2>2
<1>5. IsFiniteSet(R)
  <2> DEFINE one == [s \in due |-> Asks(d, S, s)]
             two == [s \in due |-> Request("condition", s, Bound(d, s), <<d[s]>>, <<>>)]
  <2>1. IsFiniteSet(due)
    BY FS_Subset, BridgeAssumption DEF Askers, Stmts
  <2>2. /\ one \in Surjection(due, {one[s] : s \in due})
        /\ two \in Surjection(due, {two[s] : s \in due})
    BY DEF Surjection
  <2> DEFINE T == {one[s] : s \in due} \cup {two[s] : s \in due}
  <2>3. R \in SUBSET T
    BY DEF RequestsOf
  <2> HIDE DEF one, two, R
  <2>4. IsFiniteSet({one[s] : s \in due}) /\ IsFiniteSet({two[s] : s \in due})
    BY <2>1, <2>2, FS_Surjection
  <2>5. IsFiniteSet(T)
    BY <2>4, FS_Union
  <2> QED BY <2>3, <2>5, FS_Subset
<1>6. B = InTurn(R)
  BY DEF Requests
<1> HIDE DEF R, B
<1>7. /\ B \in Seq(R)
      /\ \A r \in R : \E i \in 1 .. Len(B) : B[i] = r
      /\ \A i, j \in 1 .. Len(B) : B[i] = B[j] => i = j
      /\ \A i, j \in 1 .. Len(B) : Precedes(B[i], B[j]) => i < j
  BY <1>2, <1>4, <1>5, <1>6, InTurnOrders
<1>8. IsSeq(B) /\ DOMAIN B = 1 .. Len(B) /\ \A i \in 1 .. Len(B) : B[i] \in R
  BY <1>7, SeqIsOne, LenProperties, ElementOfSeq
<1>9. \A s \in due : \E i \in 1 .. Len(B) : B[i] = Asks(d, S, s)
  BY <1>3, <1>7
<1>10. \A i \in 1 .. Len(B) : B[i].op # "condition" => B[i] = Asks(d, S, B[i].id)
  BY <1>2, <1>8
<1>11. \A i \in 1 .. Len(B) : Final(B, i) => B[i] = Asks(d, S, B[i].id)
  <2> SUFFICES ASSUME NEW i \in 1 .. Len(B), B[i] # Asks(d, S, B[i].id)
               PROVE  ~ Final(B, i)
    OBVIOUS
  <2>1. B[i].id \in due \cap Probs /\ B[i].op = "condition"
    BY <1>2, <1>8
  <2>2. PICK j \in 1 .. Len(B) : B[j] = Asks(d, S, B[i].id)
    BY <1>9, <2>1
  <2>3. B[j].id = B[i].id /\ B[j].op = "probability"
    BY <1>3, <2>1, <2>2
  <2>4. Precedes(B[i], B[j])
    BY <2>1, <2>3 DEF Precedes
  <2>5. i < j
    BY <1>7, <2>4
  <2> QED BY <1>8, <2>3, <2>5 DEF Final
<1>12. \A i, j \in 1 .. Len(B) : B[i].op = "define" /\ B[j].op = "probability" => i < j
  <2>1. \A q, r : q.op = "define" /\ r.op = "probability" => Precedes(q, r)
    BY DEF Precedes, Turn
  <2> QED BY <1>7, <2>1
<1>13. Batch(d, S, due, B)
  BY <1>2, <1>7, <1>8, <1>9, <1>10, <1>11, <1>12 DEF Batch
<1> QED BY <1>13 DEF B

-----------------------------------------------------------------------------
(* What is on its way.                                                     *)

\* The requests that are not settled, the oldest first: those answered and not
\* polled, then those not taken.
Way(p, q) ==
  [i \in 1 .. Len(p) + Len(q) |-> IF i <= Len(p) THEN p[i].req ELSE q[i - Len(p)]]

Has(w, s) == \E i \in DOMAIN w : w[i].id = s

Owed(p, q, s) ==
  \/ \E i \in DOMAIN q : q[i].id = s
  \/ \E i \in DOMAIN p : p[i].req.id = s

\* What a statement is owed is what is on its way.
LEMMA OnWay ==
  ASSUME NEW p, IsSeq(p), NEW q, IsSeq(q), NEW s
  PROVE  Owed(p, q, s) <=> Has(Way(p, q), s)
<1>1. /\ Len(p) \in Nat /\ Len(q) \in Nat
      /\ DOMAIN p = 1 .. Len(p) /\ DOMAIN q = 1 .. Len(q)
  BY LenProperties DEF IsSeq
<1>2. /\ \A i \in 1 .. Len(p) : i \in DOMAIN Way(p, q) /\ Way(p, q)[i] = p[i].req
      /\ \A i \in 1 .. Len(q) : Len(p) + i \in DOMAIN Way(p, q) /\ Way(p, q)[Len(p) + i] = q[i]
  BY <1>1 DEF Way
<1>3. \A i \in DOMAIN Way(p, q) :
        \/ i \in 1 .. Len(p) /\ Way(p, q)[i] = p[i].req
        \/ i - Len(p) \in 1 .. Len(q) /\ Way(p, q)[i] = q[i - Len(p)]
  BY <1>1 DEF Way
<1>4. (\E i \in DOMAIN q : q[i].id = s) => \E i \in DOMAIN Way(p, q) : Way(p, q)[i].id = s
  BY <1>1, <1>2
<1>5. (\E i \in DOMAIN p : p[i].req.id = s) => \E i \in DOMAIN Way(p, q) : Way(p, q)[i].id = s
  BY <1>1, <1>2
<1>6. ASSUME NEW i \in DOMAIN Way(p, q), Way(p, q)[i].id = s
      PROVE  \/ \E j \in DOMAIN q : q[j].id = s
             \/ \E j \in DOMAIN p : p[j].req.id = s
  BY <1>1, <1>3, <1>6
<1> QED BY <1>4, <1>5, <1>6 DEF Owed, Has

\* The worker's answer stands where its request did.
LEMMA WayServed ==
  ASSUME NEW p, IsSeq(p), NEW q, IsSeq(q), q # <<>>, NEW a, a.req = Head(q)
  PROVE  Way(Append(p, a), Tail(q)) = Way(p, q)
<1> DEFINE P == Append(p, a)
           Q == Tail(q)
<1>1. /\ IsSeq(P) /\ Len(p) \in Nat /\ Len(P) = Len(p) + 1
      /\ \A i \in 1 .. Len(p) : P[i] = p[i]
      /\ P[Len(p) + 1] = a
  BY SeqAppend
<1>2. /\ Len(q) \in Nat \ {0} /\ Len(Q) = Len(q) - 1
      /\ \A i \in 1 .. Len(q) - 1 : Q[i] = q[i + 1]
      /\ Head(q) = q[1]
  BY SeqTail
<1> HIDE DEF P, Q
<1>3. Len(P) + Len(Q) = Len(p) + Len(q)
  BY <1>1, <1>2
<1>4. ASSUME NEW i \in 1 .. Len(p) + Len(q)
      PROVE  (IF i <= Len(P) THEN P[i].req ELSE Q[i - Len(P)])
               = (IF i <= Len(p) THEN p[i].req ELSE q[i - Len(p)])
  <2>1. CASE i <= Len(p)
    BY <1>1, <2>1
  <2>2. CASE i = Len(p) + 1
    BY <1>1, <1>2, <2>2
  <2>3. CASE i > Len(p) + 1
    <3>1. i - Len(P) \in 1 .. Len(q) - 1 /\ i - Len(P) + 1 = i - Len(p)
      BY <1>1, <1>2, <2>3
    <3> QED BY <1>1, <1>2, <2>3, <3>1
  <2> QED BY <1>1, <1>2, <2>1, <2>2, <2>3
<1>5. Way(P, Q) = Way(p, q)
  BY <1>3, <1>4 DEF Way
<1> QED BY <1>5 DEF P, Q

\* Polling takes the oldest.
LEMMA WayTaken ==
  ASSUME NEW p, IsSeq(p), p # <<>>, NEW q, IsSeq(q)
  PROVE  LET n == Len(p) + Len(q) IN
         /\ n \in Nat \ {0} /\ DOMAIN Way(p, q) = 1 .. n
         /\ DOMAIN Way(Tail(p), q) = 1 .. n - 1
         /\ Way(p, q)[1] = Head(p).req
         /\ \A i \in 1 .. n - 1 : Way(Tail(p), q)[i] = Way(p, q)[i + 1]
<1> DEFINE P == Tail(p)
<1>1. /\ IsSeq(P) /\ Len(p) \in Nat \ {0} /\ Len(P) = Len(p) - 1
      /\ \A i \in 1 .. Len(p) - 1 : P[i] = p[i + 1]
      /\ Head(p) = p[1]
  BY SeqTail
<1>2. Len(q) \in Nat
  BY LenProperties DEF IsSeq
<1> HIDE DEF P
<1>3. ASSUME NEW i \in 1 .. Len(p) + Len(q) - 1
      PROVE  Way(P, q)[i] = Way(p, q)[i + 1]
  <2>1. i \in 1 .. Len(P) + Len(q) /\ i + 1 \in 1 .. Len(p) + Len(q)
    BY <1>1, <1>2
  <2>2. CASE i <= Len(P)
    BY <1>1, <1>2, <2>1, <2>2 DEF Way
  <2>3. CASE i > Len(P)
    <3>1. i - Len(P) = i + 1 - Len(p)
      BY <1>1, <1>2
    <3> QED BY <1>1, <1>2, <2>1, <2>3, <3>1 DEF Way
  <2> QED BY <1>1, <1>2, <2>2, <2>3
<1>4. Way(p, q)[1] = Head(p).req
  BY <1>1, <1>2 DEF Way
<1>5. /\ DOMAIN Way(p, q) = 1 .. Len(p) + Len(q)
      /\ DOMAIN Way(P, q) = 1 .. Len(P) + Len(q)
  BY DEF Way
<1> QED BY <1>1, <1>2, <1>3, <1>4, <1>5 DEF P

\* A batch comes behind what is on its way.
LEMMA WaySent ==
  ASSUME NEW p, IsSeq(p), NEW q, NEW B, NEW Q, Joined(q, B, Q),
         NEW n, n = Len(p) + Len(q)
  PROVE  /\ n \in Nat /\ DOMAIN Way(p, q) = 1 .. n /\ DOMAIN Way(p, Q) = 1 .. n + Len(B)
         /\ \A i \in 1 .. n : Way(p, Q)[i] = Way(p, q)[i]
         /\ \A i \in 1 .. Len(B) : Way(p, Q)[n + i] = B[i]
<1>1. /\ Len(q) \in Nat /\ Len(B) \in Nat /\ Len(Q) = Len(q) + Len(B)
      /\ \A i \in 1 .. Len(q) : Q[i] = q[i]
      /\ \A i \in 1 .. Len(B) : Q[Len(q) + i] = B[i]
  BY DEF Joined
<1>2. Len(p) \in Nat
  BY LenProperties DEF IsSeq
<1>3. ASSUME NEW i \in 1 .. Len(p) + Len(q)
      PROVE  Way(p, Q)[i] = Way(p, q)[i]
  <2>1. i \in 1 .. Len(p) + Len(Q)
    BY <1>1, <1>2
  <2>2. ~ (i <= Len(p)) => i - Len(p) \in 1 .. Len(q)
    BY <1>1, <1>2
  <2>3. Way(p, Q)[i] = IF i <= Len(p) THEN p[i].req ELSE Q[i - Len(p)]
    BY <2>1 DEF Way
  <2>4. Way(p, q)[i] = IF i <= Len(p) THEN p[i].req ELSE q[i - Len(p)]
    BY DEF Way
  <2> QED BY <1>1, <2>2, <2>3, <2>4
<1>4. ASSUME NEW i \in 1 .. Len(B)
      PROVE  Way(p, Q)[Len(p) + Len(q) + i] = B[i]
  <2> DEFINE k == Len(p) + Len(q) + i
  <2>1. k \in 1 .. Len(p) + Len(Q) /\ ~ (k <= Len(p)) /\ k - Len(p) = Len(q) + i
    BY <1>1, <1>2
  <2> HIDE DEF k
  <2>2. Way(p, Q)[k] = Q[Len(q) + i]
    BY <2>1 DEF Way
  <2> QED BY <1>1, <2>2 DEF k
<1>5. /\ DOMAIN Way(p, q) = 1 .. Len(p) + Len(q)
      /\ DOMAIN Way(p, Q) = 1 .. Len(p) + Len(Q)
  BY DEF Way
<1> QED BY <1>1, <1>2, <1>3, <1>4, <1>5

-----------------------------------------------------------------------------
(* The definition that a request will meet.                                *)

\* When the first n requests of q are served, model m stands as def: the last
\* of them that defines it does so as def, or none does and it already is def.
Stands(q, ses, m, n, def) ==
  \/ \E j \in 1 .. n : /\ Defines(q[j], m) /\ q[j].of = def
                       /\ \A k \in 1 .. n : k > j => ~ Defines(q[k], m)
  \/ ses[m].def = def /\ \A k \in 1 .. n : ~ Defines(q[k], m)

\* The head is served.
LEMMA StandsPop ==
  ASSUME NEW q, IsSeq(q), q # <<>>, NEW n \in 1 .. Len(q), NEW m, NEW def,
         NEW ses, Stands(q, ses, m, n, def), NEW then,
         Defines(q[1], m) /\ q[1].of = def => then[m].def = def,
         ~ Defines(q[1], m) => then[m].def = ses[m].def
  PROVE  Stands(Tail(q), then, m, n - 1, def)
<1> DEFINE Q == Tail(q)
<1>1. Len(q) \in Nat /\ \A i \in 1 .. Len(q) - 1 : Q[i] = q[i + 1]
  BY SeqTail
<1> HIDE DEF Q
<1>2. \A i \in 1 .. n - 1 : i + 1 \in 1 .. n /\ Q[i] = q[i + 1]
  BY <1>1
<1>3. CASE \E j \in 1 .. n : /\ Defines(q[j], m) /\ q[j].of = def
                             /\ \A k \in 1 .. n : k > j => ~ Defines(q[k], m)
  <2>1. PICK j \in 1 .. n : /\ Defines(q[j], m) /\ q[j].of = def
                            /\ \A k \in 1 .. n : k > j => ~ Defines(q[k], m)
    BY <1>3
  <2>2. CASE j = 1
    <3>1. \A k \in 1 .. n - 1 : ~ Defines(Q[k], m)
      BY <1>2, <2>1, <2>2
    <3> QED BY <2>1, <2>2, <3>1 DEF Stands, Q
  <2>3. CASE j # 1
    <3>1. j - 1 \in 1 .. n - 1 /\ Q[j - 1] = q[j]
      BY <1>1, <1>2, <2>3
    <3>2. \A k \in 1 .. n - 1 : k > j - 1 => ~ Defines(Q[k], m)
      BY <1>2, <2>1
    <3> QED BY <2>1, <3>1, <3>2 DEF Stands, Q
  <2> QED BY <2>2, <2>3
<1>4. CASE ses[m].def = def /\ \A k \in 1 .. n : ~ Defines(q[k], m)
  <2>1. 1 \in 1 .. n
    BY <1>1
  <2>2. then[m].def = def /\ \A k \in 1 .. n - 1 : ~ Defines(Q[k], m)
    BY <1>2, <1>4, <2>1
  <2> QED BY <2>2 DEF Stands, Q
<1> QED BY <1>3, <1>4 DEF Stands

\* What comes behind leaves it alone, unless it defines m.
LEMMA StandsPush ==
  ASSUME NEW q, NEW B, NEW Q, Joined(q, B, Q), NEW n, n \in 0 .. Len(q), NEW k, k \in 0 .. Len(B),
         NEW m, NEW ses, NEW def, Stands(q, ses, m, n, def),
         n = Len(q) \/ k = 0, \A i \in 1 .. k : ~ Defines(B[i], m)
  PROVE  Stands(Q, ses, m, n + k, def)
<1>1. /\ Len(q) \in Nat /\ Len(B) \in Nat
      /\ \A i \in 1 .. Len(q) : Q[i] = q[i]
      /\ \A i \in 1 .. Len(B) : Q[Len(q) + i] = B[i]
  BY DEF Joined
<1>2. n \in Nat /\ k \in Nat /\ n <= Len(q) /\ k <= Len(B)
  BY <1>1
<1>3. \A i \in 1 .. n : i \in 1 .. n + k /\ Q[i] = q[i]
  BY <1>2, <1>1
<1>4. \A i \in 1 .. n + k : i > n => ~ Defines(Q[i], m)
  <2> SUFFICES ASSUME NEW i \in 1 .. n + k, i > n
               PROVE  ~ Defines(Q[i], m)
    OBVIOUS
  <2>1. i - n \in 1 .. k /\ i = n + (i - n)
    BY <1>2
  <2>2. n = Len(q) /\ i - n \in 1 .. Len(B)
    BY <1>2, <1>1, <2>1
  <2> QED BY <1>1, <2>1, <2>2
<1>5. \A i \in 1 .. n + k : i \in 1 .. n \/ i > n
  BY <1>2
<1>6. CASE \E j \in 1 .. n : /\ Defines(q[j], m) /\ q[j].of = def
                             /\ \A i \in 1 .. n : i > j => ~ Defines(q[i], m)
  BY <1>3, <1>4, <1>5, <1>6 DEF Stands
<1>7. CASE ses[m].def = def /\ \A i \in 1 .. n : ~ Defines(q[i], m)
  BY <1>3, <1>4, <1>5, <1>7 DEF Stands
<1> QED BY <1>6, <1>7 DEF Stands

\* Behind a batch with a definition of m, m stands as defined there.
LEMMA StandsDefined ==
  ASSUME NEW q, NEW B, NEW Q, Joined(q, B, Q), NEW m, NEW ses,
         NEW j \in 1 .. Len(B), Defines(B[j], m), NEW k \in j .. Len(B),
         \A i \in 1 .. Len(B) : Defines(B[i], m) => i = j
  PROVE  Stands(Q, ses, m, Len(q) + k, B[j].of)
<1>1. /\ Len(q) \in Nat /\ Len(B) \in Nat
      /\ \A i \in 1 .. Len(q) : Q[i] = q[i]
      /\ \A i \in 1 .. Len(B) : Q[Len(q) + i] = B[i]
  BY DEF Joined
<1>2. Len(q) + j \in 1 .. Len(q) + k /\ Q[Len(q) + j] = B[j]
  BY <1>1
<1>3. \A i \in 1 .. Len(q) + k : i > Len(q) + j => ~ Defines(Q[i], m)
  <2> SUFFICES ASSUME NEW i \in 1 .. Len(q) + k, i > Len(q) + j
               PROVE  ~ Defines(Q[i], m)
    OBVIOUS
  <2>1. i - Len(q) \in 1 .. Len(B) /\ i - Len(q) # j /\ i = Len(q) + (i - Len(q))
    BY <1>1
  <2> QED BY <1>1, <2>1
<1> QED BY <1>2, <1>3 DEF Stands

-----------------------------------------------------------------------------
(* The inductive invariant.                                                *)

Shapes ==
  /\ IsSeq(reqs) /\ IsSeq(resps) /\ alive \in BOOLEAN
  /\ ~ alive => reqs = <<>>
  /\ \A i \in 1 .. Len(reqs) : Shaped(reqs[i])
  /\ DOMAIN sessions = Models
  /\ \A m \in Models : sessions[m] = [def |-> sessions[m].def, given |-> sessions[m].given]
  /\ DOMAIN results = Stmts /\ DOMAIN pending = Stmts /\ DOMAIN last = Stmts

\* An answer is of the kind that its request allows.
SoundAnswer(a) ==
  /\ Shaped(a.req) /\ a.kind \in {"success", "value", "error"}
  /\ a.kind = "success" => a.req.op = "define"
  /\ a.kind = "value" /\ a.req.op = "exec" => a.of = a.req.of
  /\ a.kind = "value" /\ a.req.op = "probability" => a.of[1] = a.req.of[1]

AllSound == \A i \in 1 .. Len(resps) : SoundAnswer(resps[i])

\* The last request on its way for a statement is what it asked last.
LastAsked ==
  alive => LET w == Way(resps, reqs) IN
           \A i \in DOMAIN w : Final(w, i) => w[i] = asked[w[i].id] /\ w[i].op # "condition"

\* A probability will meet the definition it was asked of.
Meets(q, ses, i, but) ==
  q[i].op = "probability" /\ q[i].def \notin but =>
    Stands(q, ses, q[i].model, i - 1, q[i].def)

Chain == \A i \in 1 .. Len(reqs) : Meets(reqs, sessions, i, refused \cup {<<>>})

\* What was sent of a model is what the worker will have of it.
Sent ==
  alive => \A m \in Models : dispatched[m] \notin refused \cup {<<>>} =>
             Stands(reqs, sessions, m, Len(reqs), dispatched[m])

\* What was sent of a model is what the document says of it.
Defined ==
  \A m \in Models \cap Present(doc) :
    doc[m] \notin Bad => dispatched[m] = Definition(doc, m)

IInv ==
  /\ Shapes /\ AllSound /\ NoGhosts /\ PendingIsOwed /\ LastAsked /\ QuietMeansLatest
  /\ Chain /\ Sent /\ Defined /\ AnsweredAgainstItsModel

-----------------------------------------------------------------------------
(* The worker serves a request.                                            *)

\* Both channels are sequences.
LEMMA QueueFacts ==
  ASSUME Shapes
  PROVE  /\ Len(reqs) \in Nat /\ DOMAIN reqs = 1 .. Len(reqs)
         /\ Len(resps) \in Nat /\ DOMAIN resps = 1 .. Len(resps)
BY LenProperties DEF Shapes, IsSeq

\* What is common to all it can do: the answer takes the place of the request,
\* and a definition that is not refused takes effect.
LEMMA Served ==
  ASSUME IInv, UNCHANGED <<alive, bridgeVars>>, alive, reqs # <<>>,
         NEW a, a.req = Head(reqs), SoundAnswer(a),
         reqs' = Tail(reqs), resps' = Append(resps, a),
         DOMAIN sessions' = Models,
         \A m \in Models : sessions'[m] = [def |-> sessions'[m].def, given |-> sessions'[m].given],
         refused \subseteq refused',
         \A m \in Models : Defines(reqs[1], m) /\ reqs[1].of \notin refused' =>
           sessions'[m].def = reqs[1].of,
         \A m \in Models : ~ Defines(reqs[1], m) => sessions'[m].def = sessions[m].def,
         a.req.op = "probability" /\ a.kind = "value" => a.of[2] = sessions[a.req.model].def
  PROVE  IInv'
<1>1. /\ IsSeq(reqs) /\ IsSeq(resps) /\ Shapes
      /\ \A i \in 1 .. Len(reqs) : Shaped(reqs[i])
  BY DEF IInv, Shapes
<1>2. /\ IsSeq(Tail(reqs)) /\ Len(reqs) \in Nat \ {0} /\ Len(Tail(reqs)) = Len(reqs) - 1
      /\ \A i \in 1 .. Len(reqs) - 1 : Tail(reqs)[i] = reqs[i + 1]
      /\ Head(reqs) = reqs[1]
  BY <1>1, SeqTail
<1>3. /\ IsSeq(resps') /\ Len(resps) \in Nat /\ Len(resps') = Len(resps) + 1
      /\ \A i \in 1 .. Len(resps) : resps'[i] = resps[i]
      /\ resps'[Len(resps) + 1] = a
  BY <1>1, SeqAppend
<1>4. Way(resps', reqs') = Way(resps, reqs)
  BY <1>1, WayServed
<1>5. /\ doc' = doc /\ results' = results /\ cur' = cur /\ last' = last
      /\ dispatched' = dispatched /\ pending' = pending /\ asked' = asked
  BY DEF bridgeVars
<1>6. ASSUME NEW s
      PROVE  InFlight(s)' <=> InFlight(s)
  <2>1. IsSeq(reqs')
    BY <1>2
  <2>2. InFlight(s) <=> Owed(resps, reqs, s)
    BY DEF InFlight, Owed
  <2>3. InFlight(s)' <=> Owed(resps', reqs', s)
    BY DEF InFlight, Owed
  <2> QED BY <1>1, <1>3, <1>4, <2>1, <2>2, <2>3, OnWay
<1>7. \A i \in 1 .. Len(resps') : resps'[i] = a \/ \E j \in 1 .. Len(resps) : resps'[i] = resps[j]
  <2> SUFFICES ASSUME NEW i \in 1 .. Len(resps')
               PROVE  resps'[i] = a \/ \E j \in 1 .. Len(resps) : resps'[i] = resps[j]
    OBVIOUS
  <2>1. i \in 1 .. Len(resps) \/ i = Len(resps) + 1
    BY <1>3
  <2> QED BY <1>3, <2>1
<1>8. Shapes'
  <2>1. \A i \in 1 .. Len(reqs') : Shaped(reqs'[i])
    BY <1>1, <1>2
  <2> QED BY <1>1, <1>2, <1>3, <1>5, <2>1 DEF Shapes
<1>9. AllSound'
  BY <1>7 DEF IInv, AllSound
<1>10. NoGhosts' /\ Defined'
  <2>1. NoGhosts'
    BY <1>5 DEF IInv, NoGhosts, Present
  <2>2. Defined'
    BY <1>5 DEF IInv, Defined, Present
  <2> QED BY <2>1, <2>2
<1>11. PendingIsOwed' /\ QuietMeansLatest'
  BY <1>5, <1>6 DEF IInv, PendingIsOwed, QuietMeansLatest
<1>12. LastAsked'
  BY <1>4, <1>5 DEF IInv, LastAsked
<1>13. ASSUME NEW m \in Models, NEW n \in 1 .. Len(reqs), NEW def, def \notin refused',
              Stands(reqs, sessions, m, n, def)
       PROVE  Stands(reqs', sessions', m, n - 1, def)
  BY <1>1, <1>13, StandsPop
<1>14. Chain'
  <2> SUFFICES ASSUME NEW i \in 1 .. Len(reqs'),
                      reqs'[i].op = "probability", reqs'[i].def \notin refused' \cup {<<>>}
               PROVE  Stands(reqs', sessions', reqs'[i].model, i - 1, reqs'[i].def)
    BY DEF Chain, Meets
  <2>1. i \in 1 .. Len(reqs) /\ i + 1 \in 1 .. Len(reqs) /\ reqs'[i] = reqs[i + 1] /\ (i + 1) - 1 = i
    BY <1>2
  <2>2. reqs[i + 1].model \in Models
    BY <1>1, <2>1 DEF Shaped
  <2>3. Stands(reqs, sessions, reqs[i + 1].model, i, reqs[i + 1].def)
    BY <2>1 DEF IInv, Chain, Meets
  <2> QED BY <1>13, <2>1, <2>2, <2>3
<1>15. Sent'
  <2> SUFFICES ASSUME NEW m \in Models, dispatched[m] \notin refused' \cup {<<>>}
               PROVE  Stands(reqs', sessions', m, Len(reqs'), dispatched[m])
    BY <1>5 DEF Sent
  <2>1. Stands(reqs, sessions, m, Len(reqs), dispatched[m])
    BY DEF IInv, Sent
  <2> QED BY <1>2, <1>13, <2>1
<1>16. AnsweredAgainstItsModel'
  <2> SUFFICES ASSUME NEW i \in 1 .. Len(resps'),
                      resps'[i].req.op = "probability", resps'[i].kind = "value",
                      resps'[i].req.def \notin refused' \cup {<<>>}
               PROVE  resps'[i].of[2] = resps'[i].req.def
    BY <1>8, QueueFacts DEF AnsweredAgainstItsModel, Shapes, IsSeq
  <2>1. CASE resps'[i] = a
    <3>1. 1 \in 1 .. Len(reqs) /\ reqs[1] = a.req /\ 1 - 1 = 0
      BY <1>2
    <3>2. Stands(reqs, sessions, a.req.model, 0, a.req.def)
      BY <2>1, <3>1 DEF IInv, Chain, Meets
    <3>3. sessions[a.req.model].def = a.req.def
      BY <3>2 DEF Stands
    <3> QED BY <2>1, <3>3
  <2>2. CASE \E j \in 1 .. Len(resps) : resps'[i] = resps[j]
    BY <1>1, <2>2, QueueFacts DEF IInv, AnsweredAgainstItsModel
  <2> QED BY <1>7, <2>1, <2>2
<1> QED BY <1>8, <1>9, <1>10, <1>11, <1>12, <1>14, <1>15, <1>16 DEF IInv

\* The head of the queue is a request like any other.
LEMMA HeadShaped ==
  ASSUME Shapes, reqs # <<>>
  PROVE  Shaped(reqs[1]) /\ Head(reqs) = reqs[1]
BY SeqTail DEF Shapes

\* A definition is refused and the session stays, or it makes a new session.
LEMMA DefineKeeps ==
  ASSUME IInv, Define, UNCHANGED bridgeVars
  PROVE  IInv'
<1> DEFINE r == reqs[1]
           a == IF r.of \in Rejects THEN [req |-> r, kind |-> "error", of |-> <<>>]
                ELSE [req |-> r, kind |-> "success", of |-> r.of]
<1>1. alive /\ reqs # <<>> /\ reqs' = Tail(reqs) /\ alive' = alive
  BY DEF Define, Take
<1>2. Shaped(r) /\ Head(reqs) = r /\ r.op = "define" /\ r.id \in Models
  BY <1>1, HeadShaped DEF IInv, Define, Take, Shaped
<1>3. resps' = Append(resps, a)
  BY <1>2 DEF Define, Answer
<1>4. a.req = r /\ SoundAnswer(a)
  BY <1>2 DEF SoundAnswer
<1>5. /\ DOMAIN sessions = Models
      /\ \A m \in Models : sessions[m] = [def |-> sessions[m].def, given |-> sessions[m].given]
  BY DEF IInv, Shapes
<1>6. CASE r.of \in Rejects
  <2>1. sessions' = sessions /\ refused' = refused \cup {r.of}
    BY <1>2, <1>6 DEF Define
  <2>2. refused \subseteq refused' /\ r.of \in refused'
    BY <2>1
  <2> HIDE DEF a
  <2> QED BY <1>1, <1>2, <1>3, <1>4, <1>5, <2>1, <2>2, Served
<1>7. CASE r.of \notin Rejects
  <2>1. sessions' = [sessions EXCEPT ![r.id] = FreshSession(r.of)] /\ refused' = refused
    BY <1>2, <1>7 DEF Define
  <2>2. /\ DOMAIN sessions' = Models
        /\ sessions'[r.id] = FreshSession(r.of)
        /\ \A m \in Models : m # r.id => sessions'[m] = sessions[m]
    BY <1>2, <1>5, <2>1
  <2>3. \A m \in Models : sessions'[m] = [def |-> sessions'[m].def, given |-> sessions'[m].given]
    BY <1>5, <2>2 DEF FreshSession
  <2>4. \A m \in Models : Defines(r, m) => sessions'[m].def = r.of
    BY <2>2 DEF Defines, FreshSession
  <2>5. \A m \in Models : ~ Defines(r, m) => sessions'[m].def = sessions[m].def
    BY <1>2, <2>2 DEF Defines
  <2> HIDE DEF a
  <2> QED BY <1>1, <1>2, <1>3, <1>4, <2>1, <2>2, <2>3, <2>4, <2>5, Served
<1> QED BY <1>6, <1>7

\* A condition narrows a session and leaves its definition.
LEMMA ConditionKeeps ==
  ASSUME IInv, Condition, UNCHANGED bridgeVars
  PROVE  IInv'
<1> DEFINE r == reqs[1]
           a == IF sessions[r.model] = NoSession THEN [req |-> r, kind |-> "error", of |-> <<>>]
                ELSE [req |-> r, kind |-> "value", of |-> <<"condition", r.of[1]>>]
<1>1. alive /\ reqs # <<>> /\ reqs' = Tail(reqs) /\ alive' = alive /\ refused' = refused
  BY DEF Condition, Take
<1>2. Shaped(r) /\ Head(reqs) = r /\ r.op = "condition" /\ r.model \in Models
  BY <1>1, HeadShaped DEF IInv, Condition, Take, Shaped
<1>3. resps' = Append(resps, a)
  BY <1>2 DEF Condition, Answer
<1>4. a.req = r /\ SoundAnswer(a) /\ a.req.op # "probability" /\ \A m : ~ Defines(r, m)
  BY <1>2 DEF SoundAnswer, Defines
<1>5. /\ DOMAIN sessions = Models
      /\ \A m \in Models : sessions[m] = [def |-> sessions[m].def, given |-> sessions[m].given]
  BY DEF IInv, Shapes
<1>6. \/ sessions' = sessions
      \/ sessions' = [sessions EXCEPT ![r.model].given = @ \cup {r.of[1]}]
  BY <1>2 DEF Condition
<1>7. /\ DOMAIN sessions' = Models
      /\ \A m \in Models :
           /\ sessions'[m] = [def |-> sessions'[m].def, given |-> sessions'[m].given]
           /\ sessions'[m].def = sessions[m].def
  <2>1. CASE sessions' = sessions
    BY <1>5, <2>1
  <2>2. CASE sessions' = [sessions EXCEPT ![r.model].given = @ \cup {r.of[1]}]
    BY <1>2, <1>5, <2>2
  <2> QED BY <1>6, <2>1, <2>2
<1> HIDE DEF a
<1> QED BY <1>1, <1>2, <1>3, <1>4, <1>7, Served

\* A probability is computed from the session of its model.
LEMMA ProbabilityKeeps ==
  ASSUME IInv, Probability, UNCHANGED bridgeVars
  PROVE  IInv'
<1> DEFINE r == reqs[1]
           s == sessions[r.model]
           a == IF s = NoSession THEN [req |-> r, kind |-> "error", of |-> <<>>]
                ELSE [req |-> r, kind |-> "value", of |-> <<r.of[1], s.def, s.given>>]
<1>1. alive /\ reqs # <<>> /\ reqs' = Tail(reqs) /\ UNCHANGED <<alive, refused, sessions>>
  BY DEF Probability, Take
<1>2. Shaped(r) /\ Head(reqs) = r /\ r.op = "probability"
  BY <1>1, HeadShaped DEF IInv, Probability, Take
<1>3. resps' = Append(resps, a)
  BY <1>2 DEF Probability, Answer
<1>4. /\ a.req = r /\ SoundAnswer(a) /\ \A m : ~ Defines(r, m)
      /\ a.kind = "value" => a.of[2] = s.def
  BY <1>2 DEF SoundAnswer, Defines
<1>5. /\ DOMAIN sessions = Models
      /\ \A m \in Models : sessions[m] = [def |-> sessions[m].def, given |-> sessions[m].given]
  BY DEF IInv, Shapes
<1> HIDE DEF a
<1> QED BY <1>1, <1>2, <1>3, <1>4, <1>5, Served

\* An exec answers with what it was asked.
LEMMA ExecKeeps ==
  ASSUME IInv, Exec, UNCHANGED bridgeVars
  PROVE  IInv'
<1> DEFINE r == reqs[1]
           a == [req |-> r, kind |-> "value", of |-> r.of]
<1>1. alive /\ reqs # <<>> /\ reqs' = Tail(reqs) /\ UNCHANGED <<alive, refused, sessions>>
  BY DEF Exec, Take
<1>2. Shaped(r) /\ Head(reqs) = r /\ r.op = "exec"
  BY <1>1, HeadShaped DEF IInv, Exec, Take
<1>3. resps' = Append(resps, a)
  BY <1>2 DEF Exec, Answer
<1>4. a.req = r /\ SoundAnswer(a) /\ r.op # "probability" /\ \A m : ~ Defines(r, m)
  BY <1>2 DEF SoundAnswer, Defines
<1>5. /\ DOMAIN sessions = Models
      /\ \A m \in Models : sessions[m] = [def |-> sessions[m].def, given |-> sessions[m].given]
  BY DEF IInv, Shapes
<1> HIDE DEF a
<1> QED BY <1>1, <1>2, <1>3, <1>4, <1>5, Served

\* A request that fails is answered too, and its definition is refused.
LEMMA FailKeeps ==
  ASSUME IInv, Fail, UNCHANGED bridgeVars
  PROVE  IInv'
<1> DEFINE r == reqs[1]
           a == [req |-> r, kind |-> "error", of |-> <<>>]
<1>1. alive /\ reqs # <<>> /\ reqs' = Tail(reqs) /\ UNCHANGED <<alive, sessions>>
  BY DEF Fail
<1>2. Shaped(r) /\ Head(reqs) = r
  BY <1>1, HeadShaped DEF IInv
<1>3. resps' = Append(resps, a)
  BY <1>2 DEF Fail, Answer
<1>4. a.req = r /\ SoundAnswer(a) /\ a.kind # "value"
  BY <1>2 DEF SoundAnswer
<1>5. refused \subseteq refused' /\ \A m : Defines(r, m) => r.of \in refused'
  BY <1>2 DEF Fail, Defines
<1>6. /\ DOMAIN sessions = Models
      /\ \A m \in Models : sessions[m] = [def |-> sessions[m].def, given |-> sessions[m].given]
  BY DEF IInv, Shapes
<1> HIDE DEF a
<1> QED BY <1>1, <1>2, <1>3, <1>4, <1>5, <1>6, Served

\* What is promised of a worker that lives is promised no more.
LEMMA DieKeeps ==
  ASSUME IInv, Die, UNCHANGED bridgeVars
  PROVE  IInv'
<1>1. /\ alive' = FALSE /\ reqs' = <<>> /\ resps' = resps /\ refused' = refused
      /\ sessions' = [m \in Models |-> NoSession]
  BY DEF Die
<1>2. /\ doc' = doc /\ results' = results /\ cur' = cur /\ last' = last
      /\ dispatched' = dispatched /\ pending' = pending /\ asked' = asked
  BY DEF bridgeVars
<1>3. Shapes'
  <2>1. IsSeq(<<>>) /\ Len(<<>>) = 0
    BY DEF IsSeq
  <2>2. \A m \in Models : sessions'[m] = [def |-> sessions'[m].def, given |-> sessions'[m].given]
    BY <1>1 DEF NoSession
  <2>3. IsSeq(reqs') /\ \A i \in 1 .. Len(reqs') : Shaped(reqs'[i])
    BY <1>1, <2>1
  <2> QED BY <1>1, <1>2, <2>2, <2>3 DEF IInv, Shapes
<1>4. Chain'
  BY <1>1 DEF Chain
<1>5. NoGhosts'
  BY <1>2 DEF IInv, NoGhosts, Present
<1>6. Defined'
  BY <1>2 DEF IInv, Defined, Present
<1>7. AllSound' /\ AnsweredAgainstItsModel'
  BY <1>1 DEF IInv, AllSound, AnsweredAgainstItsModel
<1>8. PendingIsOwed' /\ LastAsked' /\ QuietMeansLatest' /\ Sent'
  BY <1>1 DEF PendingIsOwed, LastAsked, QuietMeansLatest, Sent
<1> QED BY <1>3, <1>4, <1>5, <1>6, <1>7, <1>8 DEF IInv

-----------------------------------------------------------------------------
(* The bridge polls.                                                       *)

\* Steps that touch neither the worker nor what was asked, and display or wait
\* for nothing they did not before.
LEMMA DisplayKeeps ==
  ASSUME IInv, UNCHANGED <<workerVars, doc, cur, dispatched, asked>>,
         DOMAIN results' = Stmts, DOMAIN pending' = Stmts, DOMAIN last' = Stmts,
         \A s \in Stmts : results'[s].kind = "value" => results'[s] = results[s],
         \A s \in Stmts : pending'[s] # "none" => pending[s] # "none",
         \A s \in Stmts \ Present(doc) :
           results'[s] = Nothing /\ pending'[s] = "none" /\ last'[s] = <<>>
  PROVE  IInv'
<1>1. /\ reqs' = reqs /\ resps' = resps /\ sessions' = sessions /\ alive' = alive
      /\ refused' = refused /\ doc' = doc /\ cur' = cur /\ dispatched' = dispatched
      /\ asked' = asked
  BY DEF workerVars
<1>2. Shapes'
  BY <1>1 DEF IInv, Shapes
<1>3. AllSound' /\ AnsweredAgainstItsModel'
  BY <1>1 DEF IInv, AllSound, AnsweredAgainstItsModel
<1>4. NoGhosts'
  BY <1>1 DEF IInv, NoGhosts, Present
<1>5. Defined'
  BY <1>1 DEF IInv, Defined, Present
<1>6. LastAsked' /\ Chain' /\ Sent'
  BY <1>1 DEF IInv, LastAsked, Chain, Sent
<1>7. ASSUME NEW s
      PROVE  InFlight(s)' <=> InFlight(s)
  BY <1>1 DEF InFlight
<1>8. PendingIsOwed'
  BY <1>1, <1>7 DEF IInv, PendingIsOwed
<1>9. QuietMeansLatest'
  <2> SUFFICES ASSUME alive, NEW s \in Probs \cup Execs,
                      ~ InFlight(s), results'[s].kind = "value"
               PROVE  IF s \in Execs THEN results'[s].of = asked[s].of
                      ELSE <<results'[s].of[1]>> = asked[s].of
    BY <1>1, <1>7 DEF QuietMeansLatest
  <2>1. results'[s] = results[s]
    BY DEF Stmts
  <2> QED BY <2>1 DEF IInv, QuietMeansLatest
<1> QED BY <1>2, <1>3, <1>4, <1>5, <1>6, <1>8, <1>9 DEF IInv

\* Cleared outputs are no values.
LEMMA ClearKeeps ==
  ASSUME IInv, ClearOutputs
  PROVE  IInv'
<1>1. UNCHANGED <<workerVars, doc, cur, dispatched, asked, pending>>
  BY DEF ClearOutputs
<1>2. /\ DOMAIN results' = Stmts /\ DOMAIN last' = Stmts
      /\ \A s \in Stmts : results'[s] = Nothing /\ last'[s] = <<>>
  BY DEF ClearOutputs
<1>3. DOMAIN pending' = Stmts
  BY <1>1 DEF IInv, Shapes
<1>4. \A s \in Stmts : results'[s].kind # "value"
  BY <1>2 DEF Nothing
<1>5. \A s \in Stmts \ Present(doc) : pending'[s] = "none"
  BY <1>1 DEF IInv, NoGhosts
<1> QED BY <1>1, <1>2, <1>3, <1>4, <1>5, DisplayKeeps

\* What is overdue is pending still.
LEMMA OverdueKeeps ==
  ASSUME IInv, NEW s \in Stmts, Overdue(s)
  PROVE  IInv'
<1>1. UNCHANGED <<workerVars, doc, cur, dispatched, asked, results, last>>
  BY DEF Overdue
<1>2. pending[s] = "young" /\ pending' = [pending EXCEPT ![s] = "overdue"]
  BY DEF Overdue
<1>3. /\ DOMAIN results = Stmts /\ DOMAIN last = Stmts /\ DOMAIN pending = Stmts
      /\ \A t \in Stmts \ Present(doc) :
           results[t] = Nothing /\ pending[t] = "none" /\ last[t] = <<>>
  BY DEF IInv, Shapes, NoGhosts
<1>4. /\ DOMAIN pending' = Stmts
      /\ \A t \in Stmts : pending'[t] # "none" => pending[t] # "none"
      /\ \A t \in Stmts : pending[t] = "none" => pending'[t] = "none"
  BY <1>2, <1>3
<1> QED BY <1>1, <1>3, <1>4, DisplayKeeps

\* What is given up displays no value.
LEMMA StartPollKeeps ==
  ASSUME IInv, StartPoll
  PROVE  IInv'
<1> DEFINE lost == {s \in Stmts : pending[s] = "overdue"}
<1>1. UNCHANGED <<workerVars, doc, cur, dispatched, asked, last>>
  BY DEF StartPoll
<1>2. /\ pending' = [s \in Stmts |-> IF s \in lost THEN "none" ELSE pending[s]]
      /\ results' = [s \in Stmts |->
           IF s \in lost THEN [kind |-> "lost", of |-> <<>>] ELSE results[s]]
  BY DEF StartPoll
<1>3. /\ DOMAIN last = Stmts
      /\ \A t \in Stmts \ Present(doc) :
           results[t] = Nothing /\ pending[t] = "none" /\ last[t] = <<>>
  BY DEF IInv, Shapes, NoGhosts
<1>4. /\ DOMAIN results' = Stmts /\ DOMAIN pending' = Stmts /\ DOMAIN last' = Stmts
      /\ \A t \in Stmts : results'[t].kind = "value" => results'[t] = results[t]
      /\ \A t \in Stmts : pending'[t] # "none" => pending[t] # "none"
      /\ \A t \in Stmts \ Present(doc) :
           results'[t] = Nothing /\ pending'[t] = "none" /\ last'[t] = <<>>
  BY <1>1, <1>2, <1>3
<1> QED BY <1>1, <1>4, DisplayKeeps

\* The end of a poll changes no result.
LEMMA EndPollKeeps ==
  ASSUME IInv, NEW open, EndPoll(open)
  PROVE  IInv'
<1>1. UNCHANGED <<workerVars, doc, cur, dispatched, asked, last, results, pending>>
  BY DEF EndPoll
<1>2. /\ DOMAIN results = Stmts /\ DOMAIN last = Stmts /\ DOMAIN pending = Stmts
      /\ \A t \in Stmts \ Present(doc) :
           results[t] = Nothing /\ pending[t] = "none" /\ last[t] = <<>>
  BY DEF IInv, Shapes, NoGhosts
<1> QED BY <1>1, <1>2, DisplayKeeps

\* An answer is the oldest of what is on its way, and settles its statement: if
\* nothing else is on its way for that, it is the answer to what was asked last.
LEMMA ReceiveKeeps ==
  ASSUME IInv, Receive
  PROVE  IInv'
<1> DEFINE a == Head(resps)
           s == a.req.id
           shown == a.kind # "success" /\ s \in Present(doc)
           n == Len(resps) + Len(reqs)
           w == Way(resps, reqs)
           v == Way(Tail(resps), reqs)
<1>1. /\ resps # <<>> /\ resps' = Tail(resps)
      /\ UNCHANGED <<reqs, sessions, alive, refused, doc, cur, dispatched, asked>>
  BY DEF Receive, TryRecv
<1>2. /\ pending' = [pending EXCEPT ![s] = "none"]
      /\ results' = IF shown THEN [results EXCEPT ![s] = [kind |-> a.kind, of |-> a.of]]
                    ELSE results
      /\ last' = IF shown /\ cur[s] # <<>> THEN [last EXCEPT ![s] = cur[s]] ELSE last
  BY DEF Receive
<1>3. /\ IsSeq(reqs) /\ IsSeq(resps)
      /\ DOMAIN results = Stmts /\ DOMAIN last = Stmts /\ DOMAIN pending = Stmts
  BY DEF IInv, Shapes
<1>4. /\ IsSeq(resps') /\ Len(resps) \in Nat \ {0} /\ Len(resps') = Len(resps) - 1
      /\ \A i \in 1 .. Len(resps) - 1 : resps'[i] = resps[i + 1]
      /\ a = resps[1]
  BY <1>1, <1>3, SeqTail
<1>5. SoundAnswer(a) /\ Shaped(a.req) /\ s \in Stmts
  BY <1>4 DEF IInv, AllSound, SoundAnswer, Shaped
<1>6. /\ n \in Nat \ {0} /\ DOMAIN w = 1 .. n /\ DOMAIN v = 1 .. n - 1
      /\ w[1] = a.req
      /\ \A i \in 1 .. n - 1 : v[i] = w[i + 1]
  BY <1>1, <1>3, WayTaken
<1>7. ASSUME NEW t
      PROVE  /\ InFlight(t) <=> Has(w, t)
             /\ InFlight(t)' <=> Has(v, t)
  <2>1. InFlight(t) <=> Owed(resps, reqs, t)
    BY DEF InFlight, Owed
  <2>2. InFlight(t)' <=> Owed(resps', reqs', t)
    BY DEF InFlight, Owed
  <2> QED BY <1>1, <1>3, <1>4, <2>1, <2>2, OnWay
<1> HIDE DEF n, w, v, a
<1>8. /\ pending'[s] = "none" /\ DOMAIN pending' = Stmts
      /\ \A t \in Stmts : t # s => pending'[t] = pending[t]
  BY <1>2, <1>3, <1>5
<1>9. /\ DOMAIN results' = Stmts /\ DOMAIN last' = Stmts
      /\ \A t \in Stmts : t # s \/ ~ shown => results'[t] = results[t] /\ last'[t] = last[t]
      /\ shown => results'[s] = [kind |-> a.kind, of |-> a.of]
  BY <1>2, <1>3, <1>5
<1>10. Shapes'
  BY <1>1, <1>4, <1>8, <1>9 DEF IInv, Shapes
<1>11. \A i \in 1 .. Len(resps') : i + 1 \in 1 .. Len(resps) /\ resps'[i] = resps[i + 1]
  BY <1>4
<1>12. AllSound'
  BY <1>11 DEF IInv, AllSound
<1>13. AnsweredAgainstItsModel'
  <2>1. DOMAIN resps = 1 .. Len(resps)
    BY QueueFacts DEF IInv
  <2>2. DOMAIN resps' = 1 .. Len(resps')
    BY <1>4, LenProperties DEF IsSeq
  <2> QED BY <1>1, <1>11, <2>1, <2>2 DEF IInv, AnsweredAgainstItsModel
<1>14. NoGhosts'
  <2> SUFFICES ASSUME NEW t \in Stmts \ Present(doc)
               PROVE  /\ results'[t] = Nothing /\ pending'[t] = "none"
                      /\ cur[t] = <<>> /\ last'[t] = <<>> /\ dispatched[t] = <<>>
    BY <1>1 DEF NoGhosts, Present
  <2> QED BY <1>8, <1>9 DEF IInv, NoGhosts
<1>15. Defined'
  BY <1>1 DEF IInv, Defined, Present
<1>16. Chain' /\ Sent'
  BY <1>1 DEF IInv, Chain, Sent
<1>17. ASSUME NEW t, t # s, Has(w, t)
       PROVE  Has(v, t)
  <2>1. PICK i \in 1 .. n : w[i].id = t
    BY <1>6, <1>17 DEF Has
  <2>2. i - 1 \in 1 .. n - 1 /\ v[i - 1] = w[i]
    BY <1>6, <1>17, <2>1
  <2> QED BY <1>6, <2>1, <2>2 DEF Has
<1>18. PendingIsOwed'
  BY <1>1, <1>7, <1>8, <1>17 DEF IInv, PendingIsOwed
<1>19. LastAsked'
  <2> SUFFICES ASSUME alive, NEW i \in 1 .. n - 1, Final(v, i)
               PROVE  v[i] = asked[v[i].id] /\ v[i].op # "condition"
    BY <1>1, <1>6 DEF LastAsked, v
  <2>1. i + 1 \in 1 .. n /\ v[i] = w[i + 1]
    BY <1>6
  <2>2. Final(w, i + 1)
    <3> SUFFICES ASSUME NEW j \in 1 .. n, j > i + 1
                 PROVE  w[j].id # w[i + 1].id
      BY <1>6 DEF Final
    <3>1. j - 1 \in 1 .. n - 1 /\ j - 1 > i /\ v[j - 1] = w[j]
      BY <1>6
    <3> QED BY <1>6, <2>1, <3>1 DEF Final
  <2> QED BY <1>6, <2>1, <2>2 DEF IInv, LastAsked, w
<1>20. QuietMeansLatest'
  <2> SUFFICES ASSUME alive, NEW t \in Probs \cup Execs, ~ Has(v, t), results'[t].kind = "value"
               PROVE  IF t \in Execs THEN results'[t].of = asked[t].of
                      ELSE <<results'[t].of[1]>> = asked[t].of
    BY <1>1, <1>7 DEF QuietMeansLatest
  <2>1. t \in Stmts
    BY DEF Stmts
  <2>2. CASE t # s
    <3>1. results'[t] = results[t] /\ ~ InFlight(t)
      BY <1>7, <1>9, <1>17, <2>1, <2>2
    <3> QED BY <3>1 DEF IInv, QuietMeansLatest
  <2>3. CASE t = s
    <3>1. a.kind # "success"
      BY <1>5, <2>3, KindsApart DEF SoundAnswer, Shaped
    <3>2. shown
      BY <1>9, <2>1, <2>3, <3>1 DEF IInv, NoGhosts, Nothing
    <3>3. results'[t] = [kind |-> "value", of |-> a.of] /\ a.kind = "value"
      BY <1>9, <2>3, <3>2
    <3>4. Final(w, 1)
      <4> SUFFICES ASSUME NEW j \in 1 .. n, j > 1
                   PROVE  w[j].id # w[1].id
        BY <1>6 DEF Final
      <4>1. j - 1 \in 1 .. n - 1 /\ v[j - 1] = w[j]
        BY <1>6
      <4> QED BY <1>6, <2>3, <4>1 DEF Has
    <3>5. a.req = asked[t] /\ a.req.op # "condition"
      BY <1>6, <2>3, <3>4 DEF IInv, LastAsked, w
    <3>6. CASE t \in Execs
      <4>1. a.req.op = "exec"
        BY <1>5, <2>3, <3>5, <3>6, KindsApart DEF Shaped, Ops
      <4> QED BY <1>5, <3>3, <3>5, <3>6, <4>1 DEF SoundAnswer
    <3>7. CASE t \in Probs
      <4>1. a.req.op = "probability" /\ t \notin Execs
        BY <1>5, <2>3, <3>5, <3>7, KindsApart DEF Shaped, Ops
      <4>2. a.of[1] = a.req.of[1] /\ a.req.of = <<a.req.of[1]>>
        BY <1>5, <3>3, <4>1 DEF SoundAnswer, Shaped
      <4> QED BY <3>3, <3>5, <4>1, <4>2
    <3> QED BY <3>6, <3>7
  <2> QED BY <2>2, <2>3
<1> QED BY <1>10, <1>12, <1>13, <1>14, <1>15, <1>16, <1>18, <1>19, <1>20 DEF IInv

-----------------------------------------------------------------------------
(* The bridge sends a batch.                                               *)

\* What is due can be asked.
LEMMA DueAsks ==
  ASSUME NEW d, NEW due \in SUBSET Sendable(d)
  PROVE  /\ due \in SUBSET Askers /\ due \in SUBSET Present(d) /\ due \in SUBSET Stmts
         /\ \A s \in due \cap Probs : Bound(d, s) # 0
BY DEF Sendable, Orphans, Askers, Present

\* A batch has one definition of each model that is due, before any prob.
LEMMA BatchDefines ==
  ASSUME NEW d, NEW S, NEW due \in SUBSET Sendable(d), NEW B, Batch(d, S, due, B),
         NEW m \in Models \cap due
  PROVE  \E j \in 1 .. Len(B) :
           /\ Defines(B[j], m) /\ B[j].of = Definition(d, m)
           /\ \A i \in 1 .. Len(B) : Defines(B[i], m) => i = j
           /\ \A i \in 1 .. Len(B) : B[i].op = "probability" => j < i
<1>1. due \in SUBSET Askers /\ m \notin Probs
  BY DueAsks, KindsApart
<1>2. /\ Asks(d, S, m).id = m /\ Asks(d, S, m).op = "define"
      /\ Asks(d, S, m).of = Definition(d, m)
  BY <1>1, AsksShape
<1>3. PICK j \in 1 .. Len(B) : B[j] = Asks(d, S, m)
  BY DEF Batch
<1>4. \A i \in 1 .. Len(B) : Defines(B[i], m) => i = j
  BY <1>3 DEF Batch, Defines
<1>5. \A i \in 1 .. Len(B) : B[i].op = "probability" => j < i
  BY <1>2, <1>3 DEF Batch
<1> QED BY <1>2, <1>3, <1>4, <1>5 DEF Defines

\* What is common to refresh and run, while the worker lives.  A model that is
\* not due was sent as the document has it, or is not asked anything.
LEMMA Sending ==
  ASSUME IInv, NEW d, NEW S, NEW due \in SUBSET Sendable(d), Send(d, S, due),
         NoGhosts', Defined',
         DOMAIN results' = Stmts, DOMAIN pending' = Stmts, DOMAIN last' = Stmts,
         \A s \in Stmts : results'[s].kind = "value" => results'[s] = results[s],
         \A s \in Stmts : pending'[s] # "none" => pending[s] # "none" \/ s \in due,
         \A m \in (Models \cap Present(d)) \ due :
           d[m] \notin Bad => dispatched[m] = Definition(d, m),
         \A m \in Models \cap due : dispatched'[m] = Definition(d, m),
         \A m \in Models \ due : dispatched'[m] \in {dispatched[m], <<>>},
         alive
  PROVE  IInv'
<1> DEFINE B == Requests(d, S, due)
           n == Len(resps) + Len(reqs)
           w == Way(resps, reqs)
           v == Way(resps, reqs')
<1>1. /\ reqs' = reqs \o B /\ UNCHANGED <<resps, sessions, alive, refused>>
      /\ asked' = [s \in Stmts |-> IF s \in due THEN Asks(d, S, s) ELSE asked[s]]
  BY DEF Send, Submit
<1>2. /\ IsSeq(reqs) /\ IsSeq(resps) /\ Len(reqs) \in Nat
      /\ \A i \in 1 .. Len(reqs) : Shaped(reqs[i])
  BY QueueFacts DEF IInv, Shapes
<1>3. /\ due \in SUBSET Askers /\ due \in SUBSET Present(d) /\ due \in SUBSET Stmts
      /\ \A s \in due \cap Probs : Bound(d, s) # 0
  BY DueAsks
<1>4. Batch(d, S, due, B)
  BY <1>3, RequestsBatch
<1>5. IsSeq(B)
  BY <1>4 DEF Batch
<1> HIDE DEF B
<1>6. IsSeq(reqs') /\ Joined(reqs, B, reqs')
  BY <1>1, <1>2, <1>5, SeqConcat
<1>7. /\ Len(B) \in Nat /\ Len(reqs') = Len(reqs) + Len(B)
      /\ \A i \in 1 .. Len(reqs) : reqs'[i] = reqs[i]
      /\ \A i \in 1 .. Len(B) : reqs'[Len(reqs) + i] = B[i]
  BY <1>6 DEF Joined
<1>8. /\ n \in Nat /\ DOMAIN w = 1 .. n /\ DOMAIN v = 1 .. n + Len(B)
      /\ \A i \in 1 .. n : v[i] = w[i]
      /\ \A i \in 1 .. Len(B) : v[n + i] = B[i]
  <2>1. n = Len(resps) + Len(reqs) /\ IsSeq(resps) /\ Joined(reqs, B, reqs')
    BY <1>2, <1>6
  <2> HIDE DEF n
  <2> QED BY ONLY <2>1, WaySent
<1>9. ASSUME NEW t
      PROVE  /\ InFlight(t) <=> Has(w, t)
             /\ InFlight(t)' <=> Has(v, t)
  <2>1. InFlight(t) <=> Owed(resps, reqs, t)
    BY DEF InFlight, Owed
  <2>2. InFlight(t)' <=> Owed(resps', reqs', t)
    BY DEF InFlight, Owed
  <2> QED BY <1>1, <1>2, <1>6, <2>1, <2>2, OnWay
<1> HIDE DEF n, w, v
<1>10. \A t : Has(w, t) => Has(v, t)
  BY <1>7, <1>8 DEF Has
<1>11. \A t \in due : Has(v, t)
  <2> SUFFICES ASSUME NEW t \in due
               PROVE  Has(v, t)
    OBVIOUS
  <2>1. PICK i \in 1 .. Len(B) : B[i] = Asks(d, S, t)
    BY <1>4 DEF Batch
  <2>2. B[i].id = t
    BY <1>3, <2>1, AsksShape
  <2>3. n + i \in DOMAIN v /\ v[n + i] = B[i]
    BY <1>7, <1>8
  <2> QED BY <2>2, <2>3 DEF Has
<1>12. \A i \in 1 .. Len(reqs') :
         \/ i \in 1 .. Len(reqs) /\ reqs'[i] = reqs[i]
         \/ i - Len(reqs) \in 1 .. Len(B) /\ reqs'[i] = B[i - Len(reqs)]
  <2> SUFFICES ASSUME NEW i \in 1 .. Len(reqs'), i \notin 1 .. Len(reqs)
               PROVE  i - Len(reqs) \in 1 .. Len(B) /\ reqs'[i] = B[i - Len(reqs)]
    BY <1>7
  <2>1. i - Len(reqs) \in 1 .. Len(B) /\ i = Len(reqs) + (i - Len(reqs))
    BY <1>2, <1>7
  <2> QED BY <1>7, <2>1
<1>13. Shapes'
  <2>1. \A i \in 1 .. Len(reqs') : Shaped(reqs'[i])
    BY <1>2, <1>4, <1>12 DEF Batch
  <2> QED BY <1>1, <1>6, <2>1 DEF IInv, Shapes
<1>14. AllSound' /\ AnsweredAgainstItsModel'
  BY <1>1 DEF IInv, AllSound, AnsweredAgainstItsModel
<1>15. PendingIsOwed'
  BY <1>1, <1>9, <1>10, <1>11 DEF IInv, PendingIsOwed
<1>16. LastAsked'
  <2> SUFFICES ASSUME NEW i \in 1 .. n + Len(B), Final(v, i)
               PROVE  v[i] = asked'[v[i].id] /\ v[i].op # "condition"
    BY <1>1, <1>8 DEF LastAsked, v
  <2>1. CASE i \in 1 .. n
    <3>1. v[i] = w[i] /\ Final(w, i)
      BY <1>7, <1>8, <2>1 DEF Final
    <3>2. w[i] = asked[w[i].id] /\ w[i].op # "condition"
      BY <1>8, <2>1, <3>1 DEF IInv, LastAsked, w
    <3>3. w[i].id \notin due
      <4> SUFFICES ASSUME w[i].id \in due
                   PROVE  FALSE
        OBVIOUS
      <4>1. PICK j \in 1 .. Len(B) : B[j] = Asks(d, S, w[i].id)
        BY <1>4 DEF Batch
      <4>2. B[j].id = w[i].id
        BY <1>3, <4>1, AsksShape
      <4>3. n + j \in 1 .. n + Len(B) /\ n + j > i /\ v[n + j] = B[j]
        BY <1>7, <1>8, <2>1
      <4> QED BY <1>8, <3>1, <4>2, <4>3 DEF Final
    <3>4. w[i].id \in Stmts
      BY <1>2, <2>1 DEF IInv, AllSound, SoundAnswer, Shaped, w, n, Way
    <3> QED BY <1>1, <3>1, <3>2, <3>3, <3>4
  <2>2. CASE i \notin 1 .. n
    <3>1. i - n \in 1 .. Len(B) /\ i = n + (i - n)
      BY <1>7, <1>8, <2>2
    <3>2. PICK k \in 1 .. Len(B) : i = n + k
      BY <3>1
    <3>3. v[i] = B[k]
      BY <1>8, <3>2
    <3>4. Final(B, k)
      <4> SUFFICES ASSUME NEW j \in DOMAIN B, j > k
                   PROVE  B[j].id # B[k].id
        BY DEF Final
      <4>1. DOMAIN B = 1 .. Len(B)
        BY <1>5, LenProperties DEF IsSeq
      <4>2. n + j \in 1 .. n + Len(B) /\ n + j > i /\ v[n + j] = B[j]
        BY <1>7, <1>8, <3>2, <4>1
      <4> QED BY <1>8, <3>3, <4>2 DEF Final
    <3>5. B[k] = Asks(d, S, B[k].id) /\ B[k].id \in due
      BY <1>4, <3>4 DEF Batch
    <3>6. Asks(d, S, B[k].id).op # "condition"
      BY <1>3, <3>5, AsksShape
    <3> QED BY <1>1, <1>3, <3>3, <3>5, <3>6
  <2> QED BY <2>1, <2>2
<1>17. QuietMeansLatest'
  <2> SUFFICES ASSUME NEW t \in Probs \cup Execs, ~ Has(v, t), results'[t].kind = "value"
               PROVE  IF t \in Execs THEN results'[t].of = asked'[t].of
                      ELSE <<results'[t].of[1]>> = asked'[t].of
    BY <1>9 DEF QuietMeansLatest
  <2>1. t \in Stmts /\ t \notin due /\ ~ InFlight(t) /\ results'[t] = results[t]
    BY <1>9, <1>10, <1>11 DEF Stmts
  <2>2. asked'[t] = asked[t]
    BY <1>1, <2>1
  <2> QED BY <2>1, <2>2 DEF IInv, QuietMeansLatest
<1>18. \A m \in Models \ due : \A i \in 1 .. Len(B) : ~ Defines(B[i], m)
  BY <1>4 DEF Batch, Defines
<1>19. \A m \in Models \cap due : \E j \in 1 .. Len(B) :
         /\ Defines(B[j], m) /\ B[j].of = Definition(d, m)
         /\ \A i \in 1 .. Len(B) : Defines(B[i], m) => i = j
         /\ \A i \in 1 .. Len(B) : B[i].op = "probability" => j < i
  <2> SUFFICES ASSUME NEW m \in Models \cap due
               PROVE  \E j \in 1 .. Len(B) :
                        /\ Defines(B[j], m) /\ B[j].of = Definition(d, m)
                        /\ \A i \in 1 .. Len(B) : Defines(B[i], m) => i = j
                        /\ \A i \in 1 .. Len(B) : B[i].op = "probability" => j < i
    OBVIOUS
  <2>1. due \in SUBSET Sendable(d)
    OBVIOUS
  <2> QED BY ONLY <1>4, <2>1, m \in Models \cap due, BatchDefines
<1>20. ASSUME NEW m \in Models \ due, NEW k \in 0 .. Len(B), NEW def,
              Stands(reqs, sessions, m, Len(reqs), def)
       PROVE  Stands(reqs', sessions', m, Len(reqs) + k, def)
  <2>1. Len(reqs) \in 0 .. Len(reqs) /\ \A i \in 1 .. k : i \in 1 .. Len(B)
    BY <1>2, <1>7
  <2> QED BY <1>1, <1>6, <1>18, <1>20, <2>1, StandsPush
<1>21. Sent'
  <2> SUFFICES ASSUME NEW m \in Models, dispatched'[m] \notin refused \cup {<<>>}
               PROVE  Stands(reqs', sessions', m, Len(reqs'), dispatched'[m])
    BY <1>1 DEF Sent
  <2>1. CASE m \in due
    <3>1. PICK j \in 1 .. Len(B) :
            /\ Defines(B[j], m) /\ B[j].of = Definition(d, m)
            /\ \A i \in 1 .. Len(B) : Defines(B[i], m) => i = j
      BY <1>19, <2>1
    <3>2. Len(B) \in j .. Len(B) /\ dispatched'[m] = B[j].of
      BY <1>7, <2>1, <3>1
    <3>3. Stands(reqs', sessions, m, Len(reqs) + Len(B), B[j].of)
      BY <1>6, <3>1, <3>2, StandsDefined
    <3> QED BY <1>1, <1>7, <3>2, <3>3
  <2>2. CASE m \notin due
    <3>1. dispatched'[m] = dispatched[m] /\ Len(B) \in 0 .. Len(B)
      BY <1>7, <2>2
    <3>2. Stands(reqs, sessions, m, Len(reqs), dispatched[m])
      BY <3>1 DEF IInv, Sent
    <3> QED BY <1>7, <1>20, <2>2, <3>1, <3>2
  <2> QED BY <2>1, <2>2
<1>22. Chain'
  <2> SUFFICES ASSUME NEW i \in 1 .. Len(reqs'),
                      reqs'[i].op = "probability", reqs'[i].def \notin refused \cup {<<>>}
               PROVE  Stands(reqs', sessions', reqs'[i].model, i - 1, reqs'[i].def)
    BY <1>1 DEF Chain, Meets
  <2>1. CASE i \in 1 .. Len(reqs) /\ reqs'[i] = reqs[i]
    <3>1. Stands(reqs, sessions, reqs[i].model, i - 1, reqs[i].def)
      BY <2>1 DEF IInv, Chain, Meets
    <3>2. i - 1 \in 0 .. Len(reqs) /\ 0 \in 0 .. Len(B) /\ (i - 1) + 0 = i - 1 /\ 1 .. 0 = {}
      BY <1>2, <1>7, <2>1
    <3>3. Stands(reqs', sessions, reqs[i].model, (i - 1) + 0, reqs[i].def)
      BY <1>6, <3>1, <3>2, StandsPush
    <3> QED BY <1>1, <2>1, <3>2, <3>3
  <2>2. CASE i - Len(reqs) \in 1 .. Len(B) /\ reqs'[i] = B[i - Len(reqs)]
    <3> DEFINE l == i - Len(reqs)
               s == B[l].id
               m == Bound(d, s)
    <3>1. l \in 1 .. Len(B) /\ B[l].op = "probability" /\ i - 1 = Len(reqs) + (l - 1)
      BY <1>2, <1>7, <2>2
    <3>2. B[l] = Asks(d, S, s) /\ s \in due \cap Probs
      BY <1>4, <2>2, <3>1 DEF Batch, Shaped
    <3>3. /\ B[l].model = m
          /\ B[l].def = IF d[m] \in Bad THEN <<>> ELSE Definition(d, m)
      BY <1>3, <3>2, AsksShape
    <3>4. m \in Models \cap Present(d)
      BY <1>3, <3>2, BoundIsModel
    <3>5. d[m] \notin Bad /\ B[l].def = Definition(d, m) /\ Definition(d, m) \notin refused \cup {<<>>}
      BY <2>2, <3>3
    <3> HIDE DEF m, l
    <3>6. CASE m \in due
      <4>1. PICK j \in 1 .. Len(B) :
              /\ Defines(B[j], m) /\ B[j].of = Definition(d, m)
              /\ \A k \in 1 .. Len(B) : Defines(B[k], m) => k = j
              /\ \A k \in 1 .. Len(B) : B[k].op = "probability" => j < k
        BY <1>19, <3>4, <3>6
      <4>2. l - 1 \in j .. Len(B)
        BY <1>7, <3>1, <4>1
      <4>3. Stands(reqs', sessions, m, Len(reqs) + (l - 1), B[j].of)
        BY <1>1, <1>6, <4>1, <4>2, StandsDefined
      <4> QED BY <1>1, <2>2, <3>1, <3>3, <3>5, <4>1, <4>3 DEF l
    <3>7. CASE m \notin due
      <4>1. dispatched[m] = Definition(d, m)
        BY <3>4, <3>5, <3>7
      <4>2. Stands(reqs, sessions, m, Len(reqs), Definition(d, m))
        BY <3>4, <3>5, <4>1 DEF IInv, Sent
      <4>3. l - 1 \in 0 .. Len(B)
        BY <1>7, <3>1
      <4>4. Stands(reqs', sessions', m, Len(reqs) + (l - 1), Definition(d, m))
        BY <1>20, <3>4, <3>7, <4>2, <4>3
      <4> QED BY <2>2, <3>1, <3>3, <3>5, <4>4 DEF l
    <3> QED BY <3>6, <3>7
  <2> QED BY <1>12, <2>1, <2>2
<1> QED BY <1>13, <1>14, <1>15, <1>16, <1>17, <1>21, <1>22 DEF IInv

\* While the worker is down nothing is sent.
LEMMA SendingInVain ==
  ASSUME IInv, NEW d, NEW S, NEW due, Send(d, S, due), ~ alive,
         NoGhosts', Defined',
         DOMAIN results' = Stmts, DOMAIN pending' = Stmts, DOMAIN last' = Stmts
  PROVE  IInv'
<1>1. /\ UNCHANGED <<reqs, resps, sessions, alive, refused>> /\ reqs = <<>>
  BY DEF Send, Submit, IInv, Shapes
<1>2. Shapes'
  BY <1>1 DEF IInv, Shapes
<1>3. AllSound' /\ AnsweredAgainstItsModel'
  BY <1>1 DEF IInv, AllSound, AnsweredAgainstItsModel
<1>4. Chain'
  BY <1>1 DEF Chain
<1>5. PendingIsOwed' /\ LastAsked' /\ QuietMeansLatest' /\ Sent'
  BY <1>1 DEF PendingIsOwed, LastAsked, QuietMeansLatest, Sent
<1> QED BY <1>2, <1>3, <1>4, <1>5 DEF IInv

\* No value is displayed but one that was there.
LEMMA DisplaysNoNewValue ==
  ASSUME NEW d, NEW S, NEW due, NEW s, NEW missing,
         missing.kind = "value" => missing = results[s],
         Displayed(d, S, due, s, missing).kind = "value"
  PROVE  Displayed(d, S, due, s, missing) = results[s]
<1> DEFINE sync(kind) == [kind |-> kind, of |-> <<d[s]>>]
           shown == Displayed(d, S, due, s, missing)
<1>1. \/ shown = results[s] \/ shown = missing
      \/ shown \in {sync("not_found"), sync("verdict"), sync("sync_error"),
                    [kind |-> "down", of |-> <<>>]}
  BY DEF Displayed
<1>2. \A r \in {sync("not_found"), sync("verdict"), sync("sync_error"),
                [kind |-> "down", of |-> <<>>]} : r.kind # "value"
  OBVIOUS
<1> QED BY <1>1, <1>2

\* The hash of a model is its definition.
LEMMA KeyOfModel ==
  ASSUME NEW d, NEW S, NEW m \in Models
  PROVE  Key(d, S, m) = Definition(d, m)
BY KindsApart DEF Key

\* A model that is there and parses is sent unless it was.
LEMMA ModelsAreDue ==
  ASSUME NEW d, NEW S, NEW m \in Models \cap Present(d), d[m] \notin Bad
  PROVE  /\ m \notin Orphans(d)
         /\ m \in Due(d, S) \/ dispatched[m] = Definition(d, m)
<1>1. m \notin Orphans(d)
  BY KindsApart DEF Orphans
<1>2. m \in Sendable(d)
  BY <1>1 DEF Sendable
<1>3. Key(d, S, m) = Definition(d, m)
  BY KeyOfModel
<1> QED BY <1>1, <1>2, <1>3 DEF Due

\* A refresh sends what changed, and forgets what is gone.
LEMMA RefreshKeeps ==
  ASSUME IInv, NEW d, Refresh(d)
  PROVE  IInv'
<1> DEFINE S == Present(d)
           due == Due(d, S)
           hashed == S \ (Models \cup Settings)
           gone(s) == IF results[s].kind = "value" THEN Nothing ELSE results[s]
<1>1. Send(d, S, due) /\ doc' = d
  BY DEF Refresh
<1>2. due \in SUBSET Sendable(d)
  BY DEF Due
<1>3. due \in SUBSET Stmts /\ due \in SUBSET Present(d)
  BY <1>2, DueAsks
<1>4. results' = [s \in Stmts |-> IF s \in S
        THEN [t \in Stmts |-> IF t \in S THEN Displayed(d, S, due, t, gone(t)) ELSE results[t]][s]
        ELSE Nothing]
  BY DEF Refresh, Reconciled
<1>5. DOMAIN results' = Stmts /\ \A s \in Stmts :
        results'[s] = IF s \in S THEN Displayed(d, S, due, s, gone(s)) ELSE Nothing
  BY <1>4
<1>6. cur' = [s \in Stmts |-> IF s \in S
        THEN [t \in Stmts |-> IF t \in hashed THEN Key(d, S, t) ELSE cur[t]][s]
        ELSE <<>>]
  BY DEF Refresh, Reconciled
<1>7. last' = [s \in Stmts |-> IF s \in S
        THEN [t \in Stmts |-> IF t \in hashed /\ Synchronous(d, t)
                              THEN Key(d, S, t) ELSE last[t]][s]
        ELSE <<>>]
  BY DEF Refresh, Reconciled
<1>8. dispatched' = [s \in Stmts |-> IF s \in S
        THEN [t \in Stmts |-> IF t \in due THEN Key(d, S, t)
                ELSE IF t \in Orphans(d) THEN <<>> ELSE dispatched[t]][s]
        ELSE <<>>]
  BY DEF Refresh, Reconciled
<1>9. \A s \in Stmts :
        dispatched'[s] = IF s \notin S THEN <<>> ELSE IF s \in due THEN Key(d, S, s)
                         ELSE IF s \in Orphans(d) THEN <<>> ELSE dispatched[s]
  BY <1>8
<1>10. pending' = [s \in Stmts |-> IF s \in S
         THEN [t \in Stmts |-> IF t \in due /\ alive THEN "young" ELSE pending[t]][s]
         ELSE "none"]
  BY DEF Refresh, Reconciled
<1>11. DOMAIN pending' = Stmts /\ DOMAIN last' = Stmts
       /\ \A s \in Stmts : pending'[s] # "none" => pending[s] # "none" \/ s \in due
  BY <1>7, <1>10
<1>12. NoGhosts'
  <2> SUFFICES ASSUME NEW s \in Stmts, s \notin S
               PROVE  /\ results'[s] = Nothing /\ pending'[s] = "none"
                      /\ cur'[s] = <<>> /\ last'[s] = <<>> /\ dispatched'[s] = <<>>
    BY <1>1 DEF NoGhosts, Present
  <2> HIDE DEF S, due, hashed, gone
  <2> QED BY <1>5, <1>6, <1>7, <1>9, <1>10
<1>13. \A s \in Stmts : results'[s].kind = "value" => results'[s] = results[s]
  <2> SUFFICES ASSUME NEW s \in Stmts, results'[s].kind = "value"
               PROVE  results'[s] = results[s]
    OBVIOUS
  <2>1. gone(s).kind = "value" => gone(s) = results[s]
    BY DEF Nothing
  <2>2. s \in S /\ results'[s] = Displayed(d, S, due, s, gone(s))
    BY <1>5 DEF Nothing
  <2> HIDE DEF gone, due, S
  <2> QED BY <2>1, <2>2, DisplaysNoNewValue
<1>14. \A m \in (Models \cap Present(d)) \ due :
         d[m] \notin Bad => dispatched[m] = Definition(d, m)
  BY ModelsAreDue
<1>15. \A m \in Models \cap due : dispatched'[m] = Definition(d, m)
  BY <1>3, <1>9, KeyOfModel
<1>16. \A m \in Models \ due : dispatched'[m] \in {dispatched[m], <<>>}
  <2> HIDE DEF due, S
  <2> QED BY <1>9 DEF Stmts
<1>17. Defined'
  <2> SUFFICES ASSUME NEW m \in Models \cap Present(d), d[m] \notin Bad
               PROVE  dispatched'[m] = Definition(d, m)
    BY <1>1 DEF Defined, Present
  <2>1. m \notin Orphans(d) /\ m \in Stmts
    BY ModelsAreDue DEF Stmts
  <2> QED BY <1>9, <1>14, <1>15, <2>1
<1> HIDE DEF S, due
<1>18. CASE alive
  BY <1>1, <1>2, <1>5, <1>11, <1>12, <1>13, <1>14, <1>15, <1>16, <1>17, <1>18, Sending
<1>19. CASE ~ alive
  BY <1>1, <1>5, <1>11, <1>12, <1>17, <1>19, SendingInVain
<1> QED BY <1>18, <1>19

\* A run sends what its block holds, with the models as they were sent.
LEMMA RunKeeps ==
  ASSUME IInv, NEW b, Run(b)
  PROVE  IInv'
<1> DEFINE S == {b}
           due == S \cap Sendable(doc)
<1>1. Send(doc, S, due) /\ doc' = doc /\ b \in Present(doc)
  BY DEF Run
<1>2. due \in SUBSET Sendable(doc)
  OBVIOUS
<1>3. due \in SUBSET Stmts /\ due \in SUBSET Present(doc)
  BY <1>2, DueAsks
<1>4. DOMAIN results' = Stmts /\ \A s \in Stmts :
        results'[s] = IF s \in Present(doc) THEN Displayed(doc, S, due, s, results[s])
                      ELSE results[s]
  BY DEF Run
<1>5. /\ \A s \in Stmts : s # b => cur'[s] = cur[s]
      /\ DOMAIN last' = Stmts /\ \A s \in Stmts : s # b => last'[s] = last[s]
  BY DEF Run
<1>6. \A s \in Stmts : dispatched'[s] = IF s \in due THEN Key(doc, S, s) ELSE dispatched[s]
  BY DEF Run
<1>7. /\ DOMAIN pending' = Stmts
      /\ \A s \in Stmts : s \notin due => pending'[s] = pending[s]
  BY DEF Run
<1>8. NoGhosts'
  <2> SUFFICES ASSUME NEW s \in Stmts, s \notin Present(doc)
               PROVE  /\ results'[s] = Nothing /\ pending'[s] = "none"
                      /\ cur'[s] = <<>> /\ last'[s] = <<>> /\ dispatched'[s] = <<>>
    BY <1>1 DEF NoGhosts, Present
  <2>1. s # b /\ s \notin due
    BY <1>1
  <2> HIDE DEF due
  <2> QED BY <1>4, <1>5, <1>6, <1>7, <2>1 DEF IInv, NoGhosts
<1>9. \A s \in Stmts : results'[s].kind = "value" => results'[s] = results[s]
  BY <1>4, DisplaysNoNewValue
<1>10. \A s \in Stmts : pending'[s] # "none" => pending[s] # "none" \/ s \in due
  BY <1>7
<1>11. \A m \in (Models \cap Present(doc)) \ due :
         doc[m] \notin Bad => dispatched[m] = Definition(doc, m)
  BY DEF IInv, Defined
<1>12. \A m \in Models \cap due : dispatched'[m] = Definition(doc, m)
  BY <1>3, <1>6, KeyOfModel
<1>13. \A m \in Models \ due : dispatched'[m] = dispatched[m]
  BY <1>6 DEF Stmts
<1>14. Defined'
  <2> SUFFICES ASSUME NEW m \in Models \cap Present(doc), doc[m] \notin Bad
               PROVE  dispatched'[m] = Definition(doc, m)
    BY <1>1 DEF Defined, Present
  <2> QED BY <1>11, <1>12, <1>13
<1> HIDE DEF S, due
<1>15. CASE alive
  BY <1>1, <1>2, <1>4, <1>5, <1>7, <1>8, <1>9, <1>10, <1>11, <1>12, <1>13, <1>14, <1>15, Sending
<1>16. CASE ~ alive
  BY <1>1, <1>4, <1>5, <1>7, <1>8, <1>14, <1>16, SendingInVain
<1> QED BY <1>15, <1>16

-----------------------------------------------------------------------------
(* The theorems.                                                           *)

\* A bridge starts with nothing displayed, asked or answered.
LEMMA InitHolds ==
  ASSUME Init
  PROVE  IInv
<1>1. /\ reqs = <<>> /\ resps = <<>> /\ alive = TRUE /\ Len(reqs) = 0 /\ Len(resps) = 0
      /\ sessions = [m \in Models |-> NoSession]
      /\ doc = [s \in Stmts |-> Absent] /\ results = [s \in Stmts |-> Nothing]
      /\ cur = [s \in Stmts |-> <<>>] /\ last = cur /\ dispatched = [s \in Stmts |-> <<>>]
      /\ pending = [s \in Stmts |-> "none"]
  BY DEF Init, WorkerInit
<1>2. IsSeq(<<>>)
  BY DEF IsSeq
<1>3. Shapes
  <2>1. \A m \in Models : sessions[m] = [def |-> sessions[m].def, given |-> sessions[m].given]
    BY <1>1 DEF NoSession
  <2> QED BY <1>1, <1>2, <2>1 DEF Shapes
<1>4. DOMAIN Way(resps, reqs) = {}
  BY <1>1 DEF Way
<1>5. AllSound /\ AnsweredAgainstItsModel /\ LastAsked /\ Chain
  BY <1>1, <1>4 DEF AllSound, AnsweredAgainstItsModel, LastAsked, Chain
<1>6. \A m \in Models : m \in Stmts
  BY DEF Stmts
<1>7. Sent
  BY <1>1, <1>6 DEF Sent
<1>8. NoGhosts /\ PendingIsOwed
  BY <1>1 DEF NoGhosts, PendingIsOwed
<1>9. QuietMeansLatest
  <2>1. \A s \in Probs \cup Execs : results[s].kind # "value"
    BY <1>1 DEF Nothing, Stmts
  <2> QED BY <2>1 DEF QuietMeansLatest
<1>10. Defined
  <2>1. \A m \in Models : m \notin Present(doc)
    BY <1>1, <1>6 DEF Present
  <2> QED BY <2>1 DEF Defined
<1> QED BY <1>3, <1>5, <1>7, <1>8, <1>9, <1>10 DEF IInv

\* A step that changes nothing keeps everything.
LEMMA StutterKeeps ==
  ASSUME IInv, UNCHANGED vars
  PROVE  IInv'
<1>1. /\ UNCHANGED <<workerVars, doc, cur, dispatched, asked>>
      /\ results' = results /\ pending' = pending /\ last' = last
  BY DEF vars, bridgeVars
<1>2. /\ DOMAIN results = Stmts /\ DOMAIN last = Stmts /\ DOMAIN pending = Stmts
      /\ \A t \in Stmts \ Present(doc) :
           results[t] = Nothing /\ pending[t] = "none" /\ last[t] = <<>>
  BY DEF IInv, Shapes, NoGhosts
<1> QED BY <1>1, <1>2, DisplayKeeps

\* What all the promises rest on: what is on its way for a statement ends with
\* what it asked last, and a prob that is on its way will meet the definition
\* it was asked of.
THEOREM BridgeInvariant == Spec => []IInv
<1>1. Init => IInv
  BY InitHolds
<1>2. IInv /\ [Next]_vars => IInv'
  <2> SUFFICES ASSUME IInv, [Next]_vars
               PROVE  IInv'
    OBVIOUS
  <2>1. ASSUME NEW d \in Docs, Refresh(d) PROVE IInv'
    BY <2>1, RefreshKeeps
  <2>2. ASSUME NEW b \in Stmts, Run(b) PROVE IInv'
    BY <2>2, RunKeeps
  <2>3. CASE ClearOutputs
    BY <2>3, ClearKeeps
  <2>4. ASSUME NEW s \in Stmts, Overdue(s) PROVE IInv'
    BY <2>4, OverdueKeeps
  <2>5. CASE StartPoll
    BY <2>5, StartPollKeeps
  <2>6. CASE Receive
    BY <2>6, ReceiveKeeps
  <2>7. ASSUME NEW open \in BOOLEAN, EndPoll(open) PROVE IInv'
    BY <2>7, EndPollKeeps
  <2>8. CASE WorkerSteps
    BY <2>8, DefineKeeps, ConditionKeeps, ProbabilityKeeps, ExecKeeps, FailKeeps, DieKeeps
       DEF WorkerSteps, Serve
  <2>9. CASE UNCHANGED vars
    BY <2>9, StutterKeeps
  <2> QED BY <2>1, <2>2, <2>3, <2>4, <2>5, <2>6, <2>7, <2>8, <2>9 DEF Next
<1> QED BY <1>1, <1>2, PTL DEF Spec

\* Whatever is edited, and however late the answers come, nothing is displayed,
\* pending or compared for an offset without a statement.
THEOREM NoGhostsAlways == Spec => []NoGhosts
<1>1. IInv => NoGhosts
  BY DEF IInv
<1> QED BY <1>1, BridgeInvariant, PTL

\* Whatever fails, a statement that counts as pending while the worker lives is
\* owed an answer that is still on its way.
THEOREM PendingIsOwedAlways == Spec => []PendingIsOwed
<1>1. IInv => PendingIsOwed
  BY DEF IInv
<1> QED BY <1>1, BridgeInvariant, PTL

\* Whatever order edits, runs, deletions and answers come in, a statement with
\* nothing on its way displays no value but the answer to its last request.
THEOREM QuietMeansLatestAlways == Spec => []QuietMeansLatest
<1>1. IInv => QuietMeansLatest
  BY DEF IInv
<1> QED BY <1>1, BridgeInvariant, PTL

\* However many edits overtake it, a prob is answered against the definition
\* its model had when it was asked, unless that definition was refused.
THEOREM AnsweredAlways == Spec => []AnsweredAgainstItsModel
<1>1. IInv => AnsweredAgainstItsModel
  BY DEF IInv
<1> QED BY <1>1, BridgeInvariant, PTL
=============================================================================
