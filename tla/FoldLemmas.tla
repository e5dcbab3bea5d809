----------------------------- MODULE FoldLemmas -----------------------------
(***************************************************************************)
(* A fold over a sequence, from the first element to the last, as FoldLeft *)
(* computes it.  FoldLeft recurs over sets of places and takes the highest *)
(* place each time; Folded is that definition for one operator Op, and the *)
(* module shows that it can be read from left to right.  A module takes an *)
(* instance of this one for each operator it folds with.  No code is       *)
(* modelled here.                                                          *)
(***************************************************************************)
EXTENDS SequenceLemmas

CONSTANT Op(_, _)

\* Op takes a value in V and an element of A to a value in V.
Closed(V, A) == \A v \in V : \A x \in A : Op(v, x) \in V

\* The highest place in T.
Top(T) == CHOOSE x \in T : \A y \in T : x >= y

\* One step of the recursion over the sets of places of s.
Onto(it, base, s) ==
    [T \in SUBSET DOMAIN s |-> IF T = {} THEN base ELSE Op(it[T \ {Top(T)}], s[Top(T)])]

\* The fold of s with Op from base.
Folded(base, s) == (CHOOSE it : it = Onto(it, base, s))[DOMAIN s]

\* A set of places that is not empty has a highest one.
LEMMA TopIsIn ==
    ASSUME NEW k \in Nat, NEW T \in SUBSET (1 .. k), T # {}
    PROVE  Top(T) \in T /\ \A y \in T : Top(T) >= y
<1>. DEFINE Bounds(j) == \A y \in T : y <= j
            N == {j \in Nat : Bounds(j)}
            Low == {j \in N : \A i \in N : j <= i}
<1>1. k \in N
  OBVIOUS
<1>2. PICK j \in N : \A i \in N : <<i, j>> \notin OpToRel(<, Nat)
  <2>. HIDE DEF N
  <2>1. N \in SUBSET Nat /\ N # {}
    BY <1>1 DEF N
  <2>. QED BY <2>1, NatLessThanWellFounded, WFMin
<1>3. \A i \in N : ~(i < j)
  BY <1>2 DEF OpToRel
<1>4. j \in T
  <2>1. SUFFICES ASSUME j \notin T PROVE FALSE
    OBVIOUS
  <2>2. PICK y \in T : TRUE
    OBVIOUS
  <2>3. y \in 1 .. k /\ y <= j
    OBVIOUS
  <2>4. j - 1 \in N
    BY <2>1, <2>3
  <2>. QED BY <1>3, <2>4
<1>5. \A y \in T : j >= y
  OBVIOUS
<1>. QED BY <1>4, <1>5 DEF Top

\* The highest of the places 1 .. n is n.
LEMMA TopOfRange ==
    ASSUME NEW k \in Nat, k # 0
    PROVE  Top(1 .. k) = k /\ (1 .. k) \ {Top(1 .. k)} = 1 .. (k - 1)
<1>1. Top(1 .. k) \in 1 .. k /\ \A y \in 1 .. k : Top(1 .. k) >= y
  <2>1. 1 .. k \in SUBSET (1 .. k) /\ 1 .. k # {}
    <3>1. 1 \in 1 .. k
      OBVIOUS
    <3>. QED BY <3>1
  <2>. HIDE DEF Top
  <2>. QED BY <2>1, TopIsIn
<1>2. Top(1 .. k) = k
  BY <1>1
<1>. QED BY <1>2

\* There is a function that satisfies the fold's recursion.
LEMMA FoldExists ==
    ASSUME NEW A, NEW s \in Seq(A), NEW V, NEW base \in V, Closed(V, A)
    PROVE  \E it : it = Onto(it, base, s)
<1>. DEFINE n == Len(s)
            W == [SUBSET DOMAIN s -> V]
            step == [k \in 1 .. n + 1 |-> [it \in W |-> Onto(it, base, s)]]
            first == [T \in SUBSET DOMAIN s |-> base]
<1>0. n \in Nat /\ DOMAIN s = 1 .. n /\ (\A i \in 1 .. n : s[i] \in A) /\ n + 1 \in Nat
  BY LenProperties, ElementOfSeq
<1>1. first \in W
  OBVIOUS
<1>2. ASSUME NEW it \in W PROVE Onto(it, base, s) \in W
  <2>1. ASSUME NEW T \in SUBSET DOMAIN s, T # {} PROVE Op(it[T \ {Top(T)}], s[Top(T)]) \in V
    <3>1. Top(T) \in 1 .. n
      BY <1>0, <2>1, TopIsIn
    <3>2. T \ {Top(T)} \in SUBSET DOMAIN s
      OBVIOUS
    <3>3. it[T \ {Top(T)}] \in V /\ s[Top(T)] \in A
      BY <1>0, <3>1, <3>2
    <3>. QED BY <3>3 DEF Closed
  <2>. QED BY <2>1 DEF Onto
<1>. HIDE DEF n, W
<1>3. Steps(step, n + 1, W)
  BY <1>2 DEF Steps
<1>4. PICK g : Follows(g, n + 1, W, first, step)
  <2>. HIDE DEF step, first
  <2>. QED BY <1>0, <1>1, <1>3, RecursionExists
<1>5. \A k \in 1 .. n + 1 : g[k - 1] \in W /\ g[k] = Onto(g[k - 1], base, s)
  <2>. TAKE k \in 1 .. n + 1
  <2>1. k - 1 \in 0 .. n + 1
    BY <1>0
  <2>2. g[k - 1] \in W /\ g[k] = step[k][g[k - 1]]
    <3>. HIDE DEF step, first
    <3>. QED BY <1>4, <2>1 DEF Follows
  <2>. QED BY <2>2
<1>. DEFINE Same(k) == \A T \in SUBSET (1 .. k) : g[k + 1][T] = g[k][T]
            N == {k \in Nat : k <= n => Same(k)}
<1>6. 0 \in N
  <2>. SUFFICES ASSUME NEW T \in SUBSET (1 .. 0) PROVE g[1][T] = g[0][T]
    OBVIOUS
  <2>1. T = {} /\ T \in SUBSET DOMAIN s
    OBVIOUS
  <2>2. g[1] = Onto(g[1 - 1], base, s) 
    BY <1>0, <1>5
  <2>3. g[1][T] = base
    BY <2>1, <2>2 DEF Onto
  <2>4. g[0][T] = base
    BY <1>4, <2>1 DEF Follows
  <2>. QED BY <2>3, <2>4
<1>7. ASSUME NEW k \in N PROVE k + 1 \in N
  <2>. SUFFICES ASSUME k + 1 <= n, NEW T \in SUBSET (1 .. k + 1)
                PROVE  g[k + 2][T] = g[k + 1][T]
    BY <1>0
  <2>1. k \in Nat /\ Same(k) /\ T \in SUBSET DOMAIN s
    BY <1>0
  <2>. HIDE DEF N
  <2>2. g[k + 2] = Onto(g[k + 1], base, s) /\ g[k + 1] = Onto(g[k], base, s)
    <3>1. k + 2 \in 1 .. n + 1 /\ k + 1 \in 1 .. n + 1 /\ (k + 2) - 1 = k + 1 /\ (k + 1) - 1 = k
      BY <1>0, <2>1
    <3>. QED BY <1>5, <3>1
  <2>3. CASE T = {}
    BY <2>1, <2>2, <2>3 DEF Onto
  <2>4. CASE T # {}
    <3>. DEFINE U == T \ {Top(T)}
    <3>1. U \in SUBSET (1 .. k)
      <4>1. Top(T) \in T /\ \A y \in T : Top(T) >= y
        <5>1. k + 1 \in Nat
          BY <2>1
        <5>. HIDE DEF U
        <5>. QED BY <2>4, <5>1, TopIsIn
      <4>. QED BY <2>1, <4>1
    <3>2. g[k + 1][U] = g[k][U]
      BY <2>1, <3>1
    <3>3. g[k + 2][T] = Op(g[k + 1][U], s[Top(T)]) /\ g[k + 1][T] = Op(g[k][U], s[Top(T)])
      BY <2>1, <2>2, <2>4 DEF Onto
    <3>. QED BY <3>2, <3>3
  <2>. QED BY <2>3, <2>4
<1>8. N = Nat
  <2>. HIDE DEF N
  <2>1. N \in SUBSET Nat
    BY DEF N
  <2>. QED BY <1>6, <1>7, <2>1, NatSetInduction
<1>9. \A T \in SUBSET DOMAIN s : g[n + 1][T] = g[n][T]
  <2>1. n \in N
    BY <1>0, <1>8
  <2>2. Same(n)
    BY <1>0, <2>1
  <2>. HIDE DEF N
  <2>. QED BY <1>0, <2>2
<1>10. g[n] \in W /\ g[n + 1] = Onto(g[n], base, s)
  <2>1. n + 1 \in 1 .. n + 1 /\ (n + 1) - 1 = n
    BY <1>0
  <2>. QED BY <1>5, <2>1
<1>11. g[n] = Onto(g[n], base, s)
  <2>1. g[n + 1] \in W
    BY <1>2, <1>10
  <2>2. g[n + 1] = g[n]
    BY <1>9, <1>10, <2>1 DEF W
  <2>. QED BY <1>10, <2>2
<1>. QED BY <1>11

\* r holds the values of the fold, from base on.
FoldSteps(r, base, s, V) ==
    /\ r \in [0 .. Len(s) -> V] /\ r[0] = base
    /\ \A k \in 1 .. Len(s) : r[k] = Op(r[k - 1], s[k])
    /\ Folded(base, s) = r[Len(s)]

\* The fold goes through the elements from the first to the last.
LEMMA FoldedSteps ==
    ASSUME NEW A, NEW s \in Seq(A), NEW V, NEW base \in V, Closed(V, A)
    PROVE  \E r : FoldSteps(r, base, s, V)
<1>. DEFINE n == Len(s)
            it == CHOOSE f : f = Onto(f, base, s)
            r == [k \in 0 .. n |-> it[1 .. k]]
<1>0. n \in Nat /\ n = Len(s) /\ DOMAIN s = 1 .. n /\ (\A i \in 1 .. n : s[i] \in A)
  BY LenProperties, ElementOfSeq
<1>1. it = Onto(it, base, s)
  BY FoldExists
<1>2. Folded(base, s) = it[1 .. n]
  BY <1>0 DEF Folded
<1>. HIDE DEF n, it
<1>3. r[0] = base
  <2>1. 1 .. 0 = {} /\ 0 \in 0 .. n /\ {} \in SUBSET DOMAIN s
    BY <1>0
  <2>2. it[{}] = base
    BY <1>1, <2>1 DEF Onto
  <2>. QED BY <2>1, <2>2
<1>4. ASSUME NEW k \in 1 .. n PROVE r[k] = Op(r[k - 1], s[k])
  <2>1. 1 .. k \in SUBSET DOMAIN s /\ 1 .. k # {} /\ k \in Nat /\ k # 0
    <3>1. 1 \in 1 .. k /\ k \in Nat /\ k # 0
      BY <1>0
    <3>2. \A i \in 1 .. k : i \in 1 .. n
      BY <1>0
    <3>. QED BY <1>0, <3>1, <3>2
  <2>2. it[1 .. k] = Op(it[(1 .. k) \ {Top(1 .. k)}], s[Top(1 .. k)])
    BY <1>1, <2>1 DEF Onto
  <2>3. it[1 .. k] = Op(it[1 .. (k - 1)], s[k])
    BY <2>1, <2>2, TopOfRange
  <2>4. k \in 0 .. n /\ k - 1 \in 0 .. n
    BY <1>0
  <2>. QED BY <2>3, <2>4
<1>5. \A k \in 0 .. n : r[k] \in V
  <2>. HIDE DEF r
  <2>. DEFINE N == {k \in Nat : k <= n => r[k] \in V}
  <2>1. 0 \in N
    BY <1>3
  <2>2. ASSUME NEW k \in N PROVE k + 1 \in N
    <3>. SUFFICES ASSUME k + 1 <= n PROVE r[k + 1] \in V
      OBVIOUS
    <3>1. k + 1 \in 1 .. n /\ (k + 1) - 1 = k /\ r[k] \in V
      BY <1>0
    <3>2. r[k + 1] = Op(r[k], s[k + 1])
      BY <1>4, <3>1
    <3>. QED BY <1>0, <3>1, <3>2 DEF Closed
  <2>3. N = Nat
    <3>. HIDE DEF N
    <3>1. N \in SUBSET Nat
      BY DEF N
    <3>. QED BY <2>1, <2>2, <3>1, NatSetInduction
  <2>. QED BY <1>0, <2>3
<1>6. r \in [0 .. n -> V]
  BY <1>5
<1>7. Folded(base, s) = r[n]
  BY <1>0, <1>2
<1>. HIDE DEF r
<1>. QED BY <1>0, <1>3, <1>4, <1>6, <1>7 DEF FoldSteps

\* The fold of nothing is where it starts.
LEMMA FoldedEmpty ==
    ASSUME NEW base
    PROVE  Folded(base, <<>>) = base
<1>. DEFINE V == {base}
            A == {}
<1>1. <<>> \in Seq(A) /\ base \in V /\ Closed(V, A) /\ Len(<<>>) = 0
  BY EmptySeq DEF Closed
<1>. HIDE DEF A, V
<1>2. PICK r : FoldSteps(r, base, <<>>, V)
  BY <1>1, FoldedSteps
<1>. QED BY <1>1, <1>2 DEF FoldSteps

\* The fold stays in a set that Op does not leave.
LEMMA FoldedType ==
    ASSUME NEW A, NEW s \in Seq(A), NEW V, NEW base \in V, Closed(V, A)
    PROVE  Folded(base, s) \in V
<1>1. PICK r : FoldSteps(r, base, s, V)
  BY FoldedSteps
<1>2. Len(s) \in Nat /\ Len(s) \in 0 .. Len(s)
  BY LenProperties
<1>. QED BY <1>1, <1>2 DEF FoldSteps

\* The fold of one element more is Op of the fold so far and that element.
LEMMA FoldedAppend ==
    ASSUME NEW A, NEW s \in Seq(A), NEW x \in A, NEW V, NEW base \in V, Closed(V, A)
    PROVE  Folded(base, Append(s, x)) = Op(Folded(base, s), x)
<1>. DEFINE t == Append(s, x)
            n == Len(s)
<1>1. t \in Seq(A) /\ Len(t) = n + 1 /\ t[n + 1] = x /\ (\A i \in 1 .. n : t[i] = s[i]) /\ n \in Nat
  BY AppendProperties, LenProperties
<1>. HIDE DEF t
<1>2. PICK r : FoldSteps(r, base, s, V)
  BY FoldedSteps
<1>3. PICK q : FoldSteps(q, base, t, V)
  BY <1>1, FoldedSteps
<1>. DEFINE N == {k \in Nat : k <= n => q[k] = r[k]}
<1>4. 0 \in N
  BY <1>2, <1>3 DEF FoldSteps
<1>5. ASSUME NEW k \in N PROVE k + 1 \in N
  <2>. SUFFICES ASSUME k + 1 <= n PROVE q[k + 1] = r[k + 1]
    OBVIOUS
  <2>1. k + 1 \in 1 .. n /\ k + 1 \in 1 .. n + 1 /\ (k + 1) - 1 = k /\ q[k] = r[k]
    BY <1>1
  <2>. HIDE DEF N
  <2>2. q[k + 1] = Op(q[k], t[k + 1])
    BY <1>1, <1>3, <2>1 DEF FoldSteps
  <2>3. r[k + 1] = Op(r[k], s[k + 1])
    BY <1>1, <1>2, <2>1 DEF FoldSteps
  <2>. QED BY <1>1, <2>1, <2>2, <2>3
<1>6. N = Nat
  <2>. HIDE DEF N
  <2>1. N \in SUBSET Nat
    BY DEF N
  <2>. QED BY <1>4, <1>5, <2>1, NatSetInduction
<1>7. q[n] = r[n]
  BY <1>1, <1>6
<1>8. q[n + 1] = Op(q[n], x)
  <2>1. n + 1 \in 1 .. n + 1 /\ (n + 1) - 1 = n
    BY <1>1
  <2>. QED BY <1>1, <1>3, <2>1 DEF FoldSteps
<1>9. Folded(base, t) = q[n + 1] /\ Folded(base, s) = r[n]
  BY <1>1, <1>2, <1>3 DEF FoldSteps
<1>. QED BY <1>7, <1>8, <1>9 DEF t
=============================================================================
