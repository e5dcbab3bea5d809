--------------------------- MODULE SequenceLemmas ---------------------------
(***************************************************************************)
(* Facts about sequences that the proofs of the other modules rest on:     *)
(* induction over the naturals and over sequences, stated for sets so that *)
(* it needs no operator parameter, the existence of what a recursion       *)
(* defines, what FlattenSeq does, and what ConfigTree's recursion writes.  *)
(* No code is modelled here.                                               *)
(***************************************************************************)
EXTENDS ConfigTree, SequenceTheorems, WellFoundedInduction, TLAPS

\* A set of natural numbers that holds 0 and, with each number, the next one holds
\* them all: induction, stated for a set so that it can be cited for any predicate.
LEMMA NatSetInduction ==
    ASSUME NEW S \in SUBSET Nat, 0 \in S, \A n \in S : n + 1 \in S
    PROVE  S = Nat
<1>. DEFINE T == Nat \ S
<1>1. SUFFICES ASSUME T # {} PROVE FALSE
  OBVIOUS
<1>2. PICK x \in T : \A y \in T : <<y, x>> \notin OpToRel(<, Nat)
  BY <1>1, NatLessThanWellFounded, WFMin
<1>3. \A y \in T : ~(y < x)
  BY <1>2 DEF OpToRel
<1>4. x # 0 /\ x - 1 \in Nat /\ x - 1 < x
  OBVIOUS
<1>. QED BY <1>3, <1>4

\* A set of sequences over A that holds the empty one and is closed under Append
\* holds them all.
LEMMA SeqSetInduction ==
    ASSUME NEW A, NEW S \in SUBSET Seq(A), <<>> \in S,
           \A s \in S : \A x \in A : Append(s, x) \in S
    PROVE  S = Seq(A)
<1>. DEFINE N == {n \in Nat : \A s \in Seq(A) : Len(s) = n => s \in S}
<1>1. 0 \in N
  BY EmptySeq, LenProperties
<1>2. ASSUME NEW n \in N PROVE n + 1 \in N
  <2>. SUFFICES ASSUME NEW s \in Seq(A), Len(s) = n + 1 PROVE s \in S
    OBVIOUS
  <2>1. s # <<>>
    BY EmptySeq
  <2>2. PICK t \in Seq(A), x \in A : s = Append(t, x)
    BY <2>1, SequenceEmptyOrAppend
  <2>3. Len(t) = n
    BY <2>2, AppendProperties
  <2>. QED BY <2>2, <2>3
<1>3. N = Nat
  <2>. HIDE DEF N
  <2>1. N \in SUBSET Nat
    BY DEF N
  <2>. QED BY <1>1, <1>2, <2>1, NatSetInduction
<1>. QED BY <1>3, LenProperties

\* step[k] takes a value to the one that follows it, at each of n places.
Steps(step, n, V) == \A k \in 1 .. n : \A v \in V : step[k][v] \in V

\* The values r that start with base and follow from each other by step.
Follows(r, n, V, base, step) ==
    /\ r \in [0 .. n -> V] /\ r[0] = base
    /\ \A k \in 1 .. n : r[k] = step[k][r[k - 1]]

\* What a recursion over 1 .. n defines exists.
LEMMA RecursionExists ==
    ASSUME NEW n \in Nat, NEW V, NEW base \in V, NEW step, Steps(step, n, V)
    PROVE  \E r : Follows(r, n, V, base, step)
<1>. DEFINE Upto(r, m) == /\ r \in [0 .. n -> V] /\ r[0] = base
                          /\ \A k \in 1 .. n : k <= m => r[k] = step[k][r[k - 1]]
            N == {m \in Nat : \E r : Upto(r, m)}
<1>1. 0 \in N
  <2>. DEFINE b == [k \in 0 .. n |-> base]
  <2>1. Upto(b, 0)
    OBVIOUS
  <2>. QED BY <2>1
<1>2. ASSUME NEW m \in N PROVE m + 1 \in N
  <2>1. PICK r : Upto(r, m)
    OBVIOUS
  <2>2. CASE m + 1 \in 1 .. n
    <3>. DEFINE v == step[m + 1][r[m]]
                q == [r EXCEPT ![m + 1] = v]
    <3>1. m \in 0 .. n /\ r[m] \in V
      BY <2>1, <2>2
    <3>3. v \in V
      BY <2>2, <3>1 DEF Steps
    <3>. HIDE DEF v
    <3>4. q \in [0 .. n -> V] /\ q[0] = base
      BY <2>1, <2>2, <3>3
    <3>5. ASSUME NEW k \in 1 .. n, k <= m + 1 PROVE q[k] = step[k][q[k - 1]]
      <4>1. CASE k = m + 1
        <5>1. q[k] = v /\ q[k - 1] = r[m]
          BY <2>1, <3>1, <4>1
        <5>. QED BY <4>1, <5>1 DEF v
      <4>2. CASE k # m + 1
        <5>1. k <= m /\ q[k] = r[k] /\ q[k - 1] = r[k - 1]
          BY <2>1, <3>5, <4>2
        <5>. QED BY <2>1, <5>1
      <4>. QED BY <4>1, <4>2
    <3>6. Upto(q, m + 1)
      BY <3>4, <3>5
    <3>. HIDE DEF Upto, q
    <3>. QED BY <3>6
  <2>3. CASE m + 1 \notin 1 .. n
    <3>1. Upto(r, m + 1)
      BY <2>1, <2>3
    <3>. HIDE DEF Upto
    <3>. QED BY <3>1
  <2>. QED BY <2>2, <2>3
<1>3. N = Nat
  <2>. HIDE DEF N
  <2>1. N \in SUBSET Nat
    BY DEF N
  <2>. QED BY <1>1, <1>2, <2>1, NatSetInduction
<1>4. PICK r : Upto(r, n)
  BY <1>3
<1>. QED BY <1>4 DEF Follows

\* step takes a function on 0 .. n to another one whose value at each place depends
\* only on the first one's values at the places above it.
Descends(step, n, V) ==
    /\ \A f \in [0 .. n -> V] : step[f] \in [0 .. n -> V]
    /\ \A f, g \in [0 .. n -> V] : \A c \in 0 .. n :
         (\A i \in 0 .. n : i > c => f[i] = g[i]) => step[f][c] = step[g][c]

\* What a recursion from the highest place down defines exists.
LEMMA DescentExists ==
    ASSUME NEW n \in Nat, NEW V, NEW base \in V, NEW step, Descends(step, n, V)
    PROVE  \E f \in [0 .. n -> V] : f = step[f]
<1>. DEFINE W == [0 .. n -> V]
            first == [c \in 0 .. n |-> base]
            each == [k \in 1 .. n + 2 |-> step]
<1>1. n + 2 \in Nat /\ first \in W
  OBVIOUS
<1>2. \A k \in 1 .. n + 2 : each[k] = step
  OBVIOUS
<1>3. \A f \in W : step[f] \in W
  BY DEF Descends
<1>4. ASSUME NEW f \in W, NEW g \in W, NEW c \in 0 .. n, \A i \in 0 .. n : i > c => f[i] = g[i]
      PROVE  step[f][c] = step[g][c]
  BY <1>4 DEF Descends
<1>. HIDE DEF each, first
<1>5. PICK r : Follows(r, n + 2, W, first, each)
  <2>. HIDE DEF W
  <2>1. Steps(each, n + 2, W)
    BY <1>2, <1>3 DEF Steps
  <2>. QED BY <1>1, <2>1, RecursionExists
<1>6. \A k \in 1 .. n + 2 : r[k - 1] \in W /\ r[k] = step[r[k - 1]]
  <2>. TAKE k \in 1 .. n + 2
  <2>1. k - 1 \in 0 .. n + 2
    OBVIOUS
  <2>. QED BY <1>2, <1>5, <2>1 DEF Follows
<1>. DEFINE Same(k) == \A c \in 0 .. n : c > n - k => r[k + 1][c] = r[k][c]
            N == {k \in Nat : k <= n + 1 => Same(k)}
<1>7. 0 \in N
  OBVIOUS
<1>8. ASSUME NEW k \in N PROVE k + 1 \in N
  <2>. SUFFICES ASSUME k + 1 <= n + 1, NEW c \in 0 .. n, c > n - (k + 1)
                PROVE  r[k + 2][c] = r[k + 1][c]
    OBVIOUS
  <2>1. k + 1 \in 1 .. n + 2 /\ k + 2 \in 1 .. n + 2 /\ (k + 1) - 1 = k /\ (k + 2) - 1 = k + 1
    OBVIOUS
  <2>2. r[k] \in W /\ r[k + 1] \in W /\ r[k + 1] = step[r[k]] /\ r[k + 2] = step[r[k + 1]]
    <3>. HIDE DEF W, N
    <3>. QED BY <1>6, <2>1
  <2>3. \A i \in 0 .. n : i > c => r[k + 1][i] = r[k][i]
    OBVIOUS
  <2>. HIDE DEF W, N
  <2>. QED BY <1>4, <2>2, <2>3
<1>9. N = Nat
  <2>. HIDE DEF N
  <2>1. N \in SUBSET Nat
    BY DEF N
  <2>. QED BY <1>7, <1>8, <2>1, NatSetInduction
<1>10. r[n + 1] \in W /\ r[n + 2] = step[r[n + 1]] /\ r[n + 2] \in W
  <2>1. n + 2 \in 1 .. n + 2 /\ (n + 2) - 1 = n + 1
    OBVIOUS
  <2>. HIDE DEF W
  <2>2. r[n + 1] \in W /\ r[n + 2] = step[r[n + 1]]
    BY <1>6, <2>1
  <2>. QED BY <1>3, <2>2
<1>11. r[n + 2] = r[n + 1]
  <2>1. n + 1 \in N
    BY <1>9
  <2>2. \A c \in 0 .. n : r[n + 2][c] = r[n + 1][c]
    BY <2>1
  <2>. QED BY <1>10, <2>2
<1>. QED BY <1>10, <1>11

\* What holds at a place if it holds at the places above holds at all of them.
LEMMA DescentHolds ==
    ASSUME NEW n \in Nat, NEW P \in SUBSET (0 .. n),
           \A c \in 0 .. n : (\A i \in 0 .. n : i > c => i \in P) => c \in P
    PROVE  P = 0 .. n
<1>. DEFINE N == {k \in Nat : \A c \in 0 .. n : c > n - k => c \in P}
<1>1. 0 \in N
  OBVIOUS
<1>2. ASSUME NEW k \in N PROVE k + 1 \in N
  <2>. SUFFICES ASSUME NEW c \in 0 .. n, c > n - (k + 1) PROVE c \in P
    OBVIOUS
  <2>1. \A i \in 0 .. n : i > c => i \in P
    OBVIOUS
  <2>. QED BY <2>1
<1>3. N = Nat
  <2>. HIDE DEF N
  <2>1. N \in SUBSET Nat
    BY DEF N
  <2>. QED BY <1>1, <1>2, <2>1, NatSetInduction
<1>4. \A c \in 0 .. n : c \in P
  <2>1. n + 1 \in N
    BY <1>3
  <2>. QED BY <2>1
<1>. HIDE DEF N
<1>. QED BY <1>4

\* Three texts, one after the other.
Reassociates(s, t, u) == (s \o t) \o u = s \o (t \o u)

LEMMA Reassociation ==
    ASSUME NEW A, NEW s \in Seq(A), NEW t \in Seq(A), NEW u \in Seq(A)
    PROVE  Reassociates(s, t, u)
BY ConcatAssociative DEF Reassociates

\* A sequence of one element.
LEMMA OneType ==
    ASSUME NEW A, NEW x \in A
    PROVE  <<x>> \in Seq(A) /\ Len(<<x>>) = 1 /\ <<x>>[1] = x
OBVIOUS

\* A sequence of two elements.
LEMMA TwoType ==
    ASSUME NEW A, NEW x \in A, NEW y \in A
    PROVE  <<x, y>> \in Seq(A) /\ Len(<<x, y>>) = 2 /\ <<x, y>>[1] = x /\ <<x, y>>[2] = y
OBVIOUS

\* An element at the end of two sequences is at the end of the second.
LEMMA AppendConcat ==
    ASSUME NEW A, NEW s \in Seq(A), NEW v \in Seq(A), NEW x \in A,
           NEW sv, sv = s \o v, NEW vx, vx = Append(v, x)
    PROVE  Append(sv, x) = s \o vx
<1>. DEFINE o == <<x>>
<1>1. o \in Seq(A) /\ vx = v \o o
  BY AppendIsConcat
<1>2. sv \in Seq(A)
  BY ConcatProperties
<1>3. Append(sv, x) = sv \o o
  BY <1>2, AppendIsConcat
<1>. HIDE DEF o
<1>4. (s \o v) \o o = s \o (v \o o)
  <2>1. Reassociates(s, v, o)
    BY <1>1, Reassociation
  <2>. QED BY <2>1, Zenon DEF Reassociates
<1>. QED BY <1>1, <1>3, <1>4

-----------------------------------------------------------------------------
(* FlattenSeq.                                                             *)

\* The sequences that FlattenSeq has put together after each of its steps.
LEMMA FlattenSteps ==
    ASSUME NEW A, NEW ss \in Seq(Seq(A))
    PROVE  \E r \in [0 .. Len(ss) -> Seq(A)] :
             /\ r[0] = <<>>
             /\ \A k \in 1 .. Len(ss) : r[k] = r[k - 1] \o ss[k]
             /\ FlattenSeq(ss) = r[Len(ss)]
<1>. DEFINE n == Len(ss)
<1>0. n \in Nat /\ n = Len(ss) /\ ss \in [1 .. n -> Seq(A)]
  BY LenProperties
<1>. HIDE DEF n
<1>1. CASE n = 0
  <2>1. ss = <<>>
    BY <1>0, <1>1, EmptySeq
  <2>2. FlattenSeq(ss) = <<>>
    BY <1>0, <1>1, <2>1 DEF FlattenSeq
  <2>. DEFINE r == [k \in 0 .. 0 |-> <<>>]
  <2>3. r \in [0 .. Len(ss) -> Seq(A)] /\ r[0] = <<>> /\ r[Len(ss)] = <<>> /\ 1 .. Len(ss) = {}
    BY <1>0, <1>1, EmptySeq
  <2>. HIDE DEF r
  <2>. QED BY <2>2, <2>3
<1>2. CASE n # 0
  <2>. DEFINE step == [k \in 1 .. n |-> [v \in Seq(A) |-> v \o ss[k]]]
  <2>1. Steps(step, n, Seq(A))
    BY <1>0, ConcatProperties DEF Steps
  <2>2. PICK r : Follows(r, n, Seq(A), <<>>, step)
    <3>. HIDE DEF step
    <3>. QED BY <1>0, <2>1, RecursionExists, EmptySeq
  <2>3. ASSUME NEW k \in 1 .. n PROVE r[k] = r[k - 1] \o ss[k]
    <3>1. k - 1 \in 0 .. n
      BY <1>0
    <3>2. r[k - 1] \in Seq(A) /\ r[k] = step[k][r[k - 1]]
      <4>. DEFINE B == Seq(A)
      <4>1. Follows(r, n, B, <<>>, step)
        BY <2>2
      <4>2. r[k - 1] \in B /\ r[k] = step[k][r[k - 1]]
        <5>. HIDE DEF step, B
        <5>. QED BY <3>1, <4>1 DEF Follows
      <4>. QED BY <4>2
    <3>3. \A v \in Seq(A) : step[k][v] = v \o ss[k]
      OBVIOUS
    <3>. HIDE DEF step
    <3>. QED BY <3>2, <3>3
  <2>2a. r \in [0 .. n -> Seq(A)] /\ r[0] = <<>>
    BY <2>2 DEF Follows
  <2>. DEFINE Flattens(g) == g = [i \in 1 .. n |-> IF i = 1 THEN ss[i] ELSE g[i - 1] \o ss[i]]
              h == [k \in 1 .. n |-> r[k]]
              g == CHOOSE f : Flattens(f)
  <2>4. Flattens(h)
    <3>1. r[1] = ss[1]
      BY SMTT(30), <1>0, <1>2, <2>2a, <2>3, ConcatEmptySeq
    <3>2. \A k \in 1 .. n : k # 1 => k - 1 \in 1 .. n
      BY <1>0
    <3>. QED BY <2>3, <3>1, <3>2
  <2>5. Flattens(g)
    <3>. HIDE DEF h
    <3>. QED BY <2>4
  <2>6. FlattenSeq(ss) = g[n]
    BY <1>0, <1>2 DEF FlattenSeq
  <2>. HIDE DEF g
  <2>7. g[1] = r[1]
    <3>1. 1 \in 1 .. n
      BY <1>0, <1>2
    <3>2. g[1] = ss[1]
      BY <2>5, <3>1
    <3>3. r[1] = r[1 - 1] \o ss[1]
      BY <2>3, <3>1
    <3>4. r[1 - 1] = <<>>
      BY <2>2a
    <3>5. ss[1] \in Seq(A)
      BY <1>0, <3>1
    <3>. QED BY <3>2, <3>3, <3>4, <3>5, ConcatEmptySeq
  <2>8. ASSUME NEW k \in 1 .. n, k # 1, g[k - 1] = r[k - 1] PROVE g[k] = r[k]
    <3>1. g[k] = g[k - 1] \o ss[k]
      BY <2>5, <2>8
    <3>. QED BY <2>3, <2>8, <3>1
  <2>9. \A k \in 1 .. n : g[k] = r[k]
    <3>. DEFINE N == {k \in Nat : k \in 1 .. n => g[k] = r[k]}
    <3>1. 0 \in N
      OBVIOUS
    <3>2. ASSUME NEW k \in N PROVE k + 1 \in N
      <4>. SUFFICES ASSUME k + 1 \in 1 .. n PROVE g[k + 1] = r[k + 1]
        OBVIOUS
      <4>1. CASE k = 0
        BY <2>7, <4>1
      <4>2. CASE k # 0
        <5>1. g[k + 1 - 1] = r[k + 1 - 1]
          BY <1>0, <4>2
        <5>2. k + 1 # 1
          BY <4>2
        <5>. QED BY <2>8, <5>1, <5>2
      <4>. QED BY <4>1, <4>2
    <3>3. N = Nat
      <4>. HIDE DEF N
      <4>1. N \in SUBSET Nat
        BY DEF N
      <4>. QED BY <3>1, <3>2, <4>1, NatSetInduction
    <3>. QED BY <3>3
  <2>10. n \in 1 .. n
    BY <1>0, <1>2
  <2>. QED BY <1>0, <2>2a, <2>3, <2>6, <2>9, <2>10
<1>. QED BY <1>1, <1>2

\* Flattening nothing gives nothing.
LEMMA FlattenEmpty == FlattenSeq(<<>>) = <<>>
BY EmptySeq DEF FlattenSeq

\* Flattening sequences over A gives a sequence over A.
LEMMA FlattenType ==
    ASSUME NEW A, NEW ss \in Seq(Seq(A))
    PROVE  FlattenSeq(ss) \in Seq(A)
<1>1. Len(ss) \in Nat /\ Len(ss) \in 0 .. Len(ss)
  BY LenProperties
<1>2. PICK r \in [0 .. Len(ss) -> Seq(A)] :
        r[0] = <<>> /\ (\A k \in 1 .. Len(ss) : r[k] = r[k - 1] \o ss[k]) /\ FlattenSeq(ss) = r[Len(ss)]
  BY FlattenSteps
<1>3. r[Len(ss)] \in Seq(A)
  BY <1>1
<1>. QED BY <1>2, <1>3

\* One sequence more is put at the end.
LEMMA FlattenAppend ==
    ASSUME NEW A, NEW ss \in Seq(Seq(A)), NEW s \in Seq(A)
    PROVE  FlattenSeq(Append(ss, s)) = FlattenSeq(ss) \o s
<1>. DEFINE tt == Append(ss, s)
            n == Len(ss)
<1>1. /\ tt \in Seq(Seq(A)) /\ Len(tt) = n + 1 /\ tt[n + 1] = s
      /\ (\A i \in 1 .. n : tt[i] = ss[i]) /\ n \in Nat
  BY AppendProperties, LenProperties
<1>. HIDE DEF tt
<1>2. PICK r \in [0 .. n -> Seq(A)] :
        r[0] = <<>> /\ (\A k \in 1 .. n : r[k] = r[k - 1] \o ss[k]) /\ FlattenSeq(ss) = r[n]
  BY FlattenSteps
<1>3. PICK q \in [0 .. n + 1 -> Seq(A)] :
        q[0] = <<>> /\ (\A k \in 1 .. n + 1 : q[k] = q[k - 1] \o tt[k]) /\ FlattenSeq(tt) = q[n + 1]
  <2>1. \E f \in [0 .. Len(tt) -> Seq(A)] :
          f[0] = <<>> /\ (\A k \in 1 .. Len(tt) : f[k] = f[k - 1] \o tt[k]) /\ FlattenSeq(tt) = f[Len(tt)]
    BY <1>1, FlattenSteps
  <2>. QED BY <1>1, <2>1
<1>. DEFINE N == {k \in Nat : k <= n => q[k] = r[k]}
<1>4. 0 \in N
  BY <1>2, <1>3
<1>5. ASSUME NEW k \in N PROVE k + 1 \in N
  <2>. SUFFICES ASSUME k + 1 <= n PROVE q[k + 1] = r[k + 1]
    OBVIOUS
  <2>1. k + 1 \in 1 .. n /\ k + 1 \in 1 .. n + 1 /\ (k + 1) - 1 = k /\ q[k] = r[k]
    BY <1>1
  <2>. HIDE DEF N
  <2>2. q[k + 1] = q[k] \o tt[k + 1] /\ r[k + 1] = r[k] \o ss[k + 1]
    BY <1>2, <1>3, <2>1
  <2>. QED BY <1>1, <2>1, <2>2
<1>6. N = Nat
  <2>. HIDE DEF N
  <2>1. N \in SUBSET Nat
    BY DEF N
  <2>. QED BY <1>4, <1>5, <2>1, NatSetInduction
<1>7. q[n] = r[n]
  <2>1. n \in N
    BY <1>1, <1>6
  <2>. QED BY <1>1, <2>1
<1>8. q[n + 1] = q[n] \o s
  <2>1. n + 1 \in 1 .. n + 1 /\ (n + 1) - 1 = n
    BY <1>1
  <2>. QED BY <1>1, <1>3, <2>1
<1>. QED BY <1>2, <1>3, <1>7, <1>8 DEF tt

\* Flattening one sequence gives that sequence.
LEMMA FlattenOne ==
    ASSUME NEW A, NEW t \in Seq(A)
    PROVE  FlattenSeq(<<t>>) = t
<1>. DEFINE e == <<>>
<1>1. e \in Seq(Seq(A)) /\ <<>> \o t = t
  BY EmptySeq, ConcatEmptySeq
<1>2. Append(e, t) = <<t>>
  OBVIOUS
<1>3. FlattenSeq(e) = <<>>
  BY FlattenEmpty
<1>. HIDE DEF e
<1>4. FlattenSeq(Append(e, t)) = FlattenSeq(e) \o t
  BY <1>1, FlattenAppend
<1>. QED BY <1>1, <1>2, <1>3, <1>4

\* f gives a sequence over B for every element of A.
Maps(f, A, B) == f \in [A -> Seq(B)]

\* The sequences f gives for the elements of s, put together.
Images(f, s) == FlattenSeq([k \in DOMAIN s |-> f[s[k]]])

\* The image of one element more is put at the end.
LEMMA ImagesAppend ==
    ASSUME NEW A, NEW B, NEW f, Maps(f, A, B), NEW s \in Seq(A), NEW x \in A
    PROVE  Images(f, Append(s, x)) = Images(f, s) \o f[x]
<1>. DEFINE t == Append(s, x)
            fs == [k \in DOMAIN s |-> f[s[k]]]
            ft == [k \in DOMAIN t |-> f[t[k]]]
            n == Len(s)
<1>1. /\ t \in Seq(A) /\ DOMAIN t = 1 .. n + 1 /\ t[n + 1] = x
      /\ (\A i \in 1 .. n : t[i] = s[i] /\ s[i] \in A) /\ n \in Nat /\ DOMAIN s = 1 .. n
  BY AppendProperties, LenProperties, ElementOfSeq
<1>. HIDE DEF t
<1>2. fs \in Seq(Seq(B)) /\ Len(fs) = n
  <2>1. fs \in [1 .. n -> Seq(B)]
    BY <1>1 DEF Maps
  <2>. QED BY <1>1, <2>1, IsASeq, LenProperties
<1>3. ft \in Seq(Seq(B)) /\ Len(ft) = n + 1
  <2>1. ft \in [1 .. n + 1 -> Seq(B)]
    BY <1>1 DEF Maps
  <2>2. n + 1 \in Nat
    BY <1>1
  <2>. QED BY <1>1, <2>1, <2>2, IsASeq, LenProperties
<1>4. ft = Append(fs, f[x])
  <2>0. f[x] \in Seq(B)
    BY DEF Maps
  <2>1. Append(fs, f[x]) \in Seq(Seq(B)) /\ Len(Append(fs, f[x])) = n + 1
    BY <1>2, <2>0, AppendProperties
  <2>2. ASSUME NEW i \in 1 .. n + 1 PROVE ft[i] = Append(fs, f[x])[i]
    <3>1. ft[i] = f[t[i]]
      BY <1>1
    <3>2. CASE i = n + 1
      BY <1>1, <1>2, <2>0, <3>1, <3>2, AppendProperties
    <3>3. CASE i # n + 1
      <4>1. i \in 1 .. n
        BY <1>1, <3>3
      <4>2. Append(fs, f[x])[i] = fs[i]
        BY <1>1, <1>2, <2>0, <4>1, AppendProperties
      <4>. QED BY <1>1, <3>1, <4>1, <4>2
    <3>. QED BY <3>2, <3>3
  <2>. HIDE DEF ft, fs
  <2>. QED BY <1>3, <2>1, <2>2, SeqEqual
<1>5. FlattenSeq(ft) = FlattenSeq(fs) \o f[x]
  <2>. HIDE DEF ft, fs
  <2>1. f[x] \in Seq(B)
    BY DEF Maps
  <2>. QED BY <1>2, <1>4, <2>1, FlattenAppend
<1>. QED BY <1>5 DEF Images, t

\* No elements have no images.
LEMMA ImagesEmpty == \A f : Images(f, <<>>) = <<>>
<1>. TAKE f
<1>1. [k \in DOMAIN <<>> |-> f[<<>>[k]]] = <<>>
  OBVIOUS
<1>. QED BY <1>1, FlattenEmpty DEF Images

\* The images put together are a sequence.
LEMMA ImagesType ==
    ASSUME NEW A, NEW B, NEW f, Maps(f, A, B), NEW s \in Seq(A)
    PROVE  Images(f, s) \in Seq(B)
<1>. DEFINE S == {t \in Seq(A) : Images(f, t) \in Seq(B)}
<1>1. <<>> \in S
  BY ImagesEmpty, EmptySeq
<1>2. ASSUME NEW t \in S, NEW x \in A PROVE Append(t, x) \in S
  <2>1. t \in Seq(A) /\ Images(f, t) \in Seq(B) /\ f[x] \in Seq(B)
    BY DEF Maps
  <2>2. Images(f, Append(t, x)) = Images(f, t) \o f[x]
    BY <2>1, ImagesAppend
  <2>3. Images(f, t) \o f[x] \in Seq(B)
    BY <2>1, ConcatProperties
  <2>4. Append(t, x) \in Seq(A)
    BY <2>1, AppendProperties
  <2>. QED BY <2>2, <2>3, <2>4
<1>3. S = Seq(A)
  <2>. HIDE DEF S
  <2>1. S \in SUBSET Seq(A)
    BY DEF S
  <2>. QED BY <1>1, <1>2, <2>1, SeqSetInduction
<1>. QED BY <1>3

\* The images of two sequences can be put together one after the other.
LEMMA ImagesConcat ==
    ASSUME NEW A, NEW B, NEW f, Maps(f, A, B), NEW s \in Seq(A), NEW t \in Seq(A)
    PROVE  Images(f, s \o t) = Images(f, s) \o Images(f, t)
<1>. DEFINE S == {u \in Seq(A) : Images(f, s \o u) = Images(f, s) \o Images(f, u)}
<1>0. Images(f, s) \in Seq(B)
  BY ImagesType
<1>1. <<>> \in S
  <2>1. s \o <<>> = s /\ Images(f, s) \o <<>> = Images(f, s)
    BY <1>0, ConcatEmptySeq
  <2>. QED BY <2>1, ImagesEmpty, EmptySeq
<1>2. ASSUME NEW u \in S, NEW x \in A PROVE Append(u, x) \in S
  <2>1. u \in Seq(A) /\ s \o u \in Seq(A) /\ Append(u, x) \in Seq(A)
    BY ConcatProperties, AppendProperties
  <2>2. s \o Append(u, x) = Append(s \o u, x)
    <3>1. <<x>> \in Seq(A)
      OBVIOUS
    <3>. QED BY <2>1, <3>1, AppendIsConcat, ConcatAssociative
  <2>3. Images(f, s \o Append(u, x)) = Images(f, s \o u) \o f[x]
    <3>. DEFINE v == s \o u
    <3>1. v \in Seq(A)
      BY <2>1
    <3>. HIDE DEF v
    <3>2. Images(f, Append(v, x)) = Images(f, v) \o f[x]
      BY <3>1, ImagesAppend
    <3>. QED BY <2>2, <3>2 DEF v
  <2>4. Images(f, Append(u, x)) = Images(f, u) \o f[x]
    BY <2>1, ImagesAppend
  <2>5. Images(f, u) \in Seq(B) /\ f[x] \in Seq(B)
    BY <2>1, ImagesType DEF Maps
  <2>6. (Images(f, s) \o Images(f, u)) \o f[x] = Images(f, s) \o (Images(f, u) \o f[x])
    <3>. DEFINE p == Images(f, s)
                q == Images(f, u)
                r == f[x]
    <3>1. p \in Seq(B) /\ q \in Seq(B) /\ r \in Seq(B)
      BY <1>0, <2>5
    <3>. HIDE DEF p, q, r
    <3>. DEFINE T == B
    <3>2. p \in Seq(T) /\ q \in Seq(T) /\ r \in Seq(T)
      BY <3>1
    <3>. HIDE DEF T
    <3>3. (p \o q) \o r = p \o (q \o r)
      <4>1. Reassociates(p, q, r)
        BY <3>2, Reassociation
      <4>. QED BY <4>1, Zenon DEF Reassociates
    <3>. QED BY <3>3 DEF p, q, r
  <2>7. Images(f, s \o Append(u, x)) = Images(f, s) \o Images(f, Append(u, x))
    BY <2>3, <2>4, <2>6
  <2>. QED BY <2>1, <2>7
<1>3. S = Seq(A)
  <2>. HIDE DEF S
  <2>1. S \in SUBSET Seq(A)
    BY DEF S
  <2>. QED BY <1>1, <1>2, <2>1, SeqSetInduction
<1>. QED BY <1>3

\* Two sequences of sequences can be flattened one after the other.
LEMMA FlattenConcat ==
    ASSUME NEW A, NEW ss \in Seq(Seq(A)), NEW tt \in Seq(Seq(A))
    PROVE  FlattenSeq(ss \o tt) = FlattenSeq(ss) \o FlattenSeq(tt)
<1>. DEFINE id == [x \in Seq(A) |-> x]
<1>1. ASSUME NEW uu \in Seq(Seq(A)) PROVE Images(id, uu) = FlattenSeq(uu)
  <2>1. [k \in DOMAIN uu |-> id[uu[k]]] = uu
    BY LenProperties
  <2>. QED BY <2>1 DEF Images
<1>2. Images(id, ss \o tt) = Images(id, ss) \o Images(id, tt)
  <2>. DEFINE B == Seq(A)
  <2>1. Maps(id, B, A) /\ ss \in Seq(B) /\ tt \in Seq(B)
    BY DEF Maps
  <2>. HIDE DEF id, B
  <2>. QED BY <2>1, ImagesConcat
<1>3. ss \o tt \in Seq(Seq(A))
  BY ConcatProperties
<1>. QED BY <1>1, <1>2, <1>3

\* Flattening can be taken apart at the k-th sequence.
LEMMA FlattenSplit ==
    ASSUME NEW A, NEW ss \in Seq(Seq(A)), NEW k \in 1 .. Len(ss)
    PROVE  FlattenSeq(ss) = FlattenSeq(SubSeq(ss, 1, k - 1))
                              \o (ss[k] \o FlattenSeq(SubSeq(ss, k + 1, Len(ss))))
<1>. DEFINE B == Seq(A)
            n == Len(ss)
            p == SubSeq(ss, 1, k - 1)
            q == SubSeq(ss, k + 1, n)
            one == <<ss[k]>>
<1>1. n \in Nat /\ k \in 1 .. n /\ ss[k] \in B /\ ss \in Seq(B) /\ n = Len(ss)
  BY LenProperties, ElementOfSeq
<1>2. one \in Seq(B)
  BY <1>1
<1>. HIDE DEF B, n
<1>3. p \in Seq(B) /\ q \in Seq(B)
  BY <1>1, SubSeqProperties
<1>4. SubSeq(ss, k, n) = one \o q
  BY <1>1, SubSeqRecursiveFirst
<1>5. ss = p \o SubSeq(ss, (k - 1) + 1, n)
  <2>1. ss = SubSeq(ss, 1, n)
    BY <1>1, SubSeqFull
  <2>2. k - 1 \in 1 - 1 .. n /\ 1 \in 1 .. n + 1 /\ n \in k - 1 .. n
    BY <1>1
  <2>. QED BY <1>1, <2>1, <2>2, ConcatAdjacentSubSeq
<1>6. ss = p \o (one \o q)
  <2>1. (k - 1) + 1 = k
    BY <1>1
  <2>. QED BY <1>4, <1>5, <2>1
<1>. HIDE DEF p, q, one
<1>7. one \o q \in Seq(B)
  BY <1>2, <1>3, ConcatProperties
<1>8. FlattenSeq(p \o (one \o q)) = FlattenSeq(p) \o FlattenSeq(one \o q)
  BY <1>3, <1>7, FlattenConcat DEF B
<1>9. FlattenSeq(one \o q) = FlattenSeq(one) \o FlattenSeq(q)
  BY <1>2, <1>3, FlattenConcat DEF B
<1>10. FlattenSeq(one) = ss[k]
  BY <1>1, FlattenOne DEF one, B
<1>. QED BY <1>6, <1>8, <1>9, <1>10 DEF p, q, n

\* Where f leaves every element of s alone, so are they all.
LEMMA ImagesSame ==
    ASSUME NEW A, NEW f, Maps(f, A, A), NEW s \in Seq(A),
           \A k \in 1 .. Len(s) : f[s[k]] = <<s[k]>>
    PROVE  Images(f, s) = s
<1>. DEFINE S == {t \in Seq(A) : (\A k \in 1 .. Len(t) : f[t[k]] = <<t[k]>>) => Images(f, t) = t}
<1>1. <<>> \in S
  BY ImagesEmpty, EmptySeq
<1>2. ASSUME NEW t \in S, NEW x \in A PROVE Append(t, x) \in S
  <2>. DEFINE u == Append(t, x)
              n == Len(t)
  <2>1. /\ u \in Seq(A) /\ Len(u) = n + 1 /\ u[n + 1] = x /\ n \in Nat /\ t \in Seq(A)
        /\ \A i \in 1 .. n : u[i] = t[i]
    BY AppendProperties, LenProperties
  <2>. SUFFICES ASSUME \A k \in 1 .. Len(u) : f[u[k]] = <<u[k]>> PROVE Images(f, u) = u
    BY <2>1
  <2>2. \A k \in 1 .. n : k \in 1 .. Len(u)
    BY <2>1
  <2>3. \A k \in 1 .. n : f[t[k]] = <<t[k]>>
    BY <2>1, <2>2
  <2>4. Images(f, t) = t
    BY <2>3
  <2>5. n + 1 \in 1 .. Len(u)
    BY <2>1
  <2>6. f[x] = <<x>>
    BY <2>1, <2>5
  <2>7. Images(f, u) = Images(f, t) \o f[x]
    <3>1. t \in Seq(A)
      BY <2>1
    <3>. HIDE DEF S
    <3>. QED BY <3>1, ImagesAppend
  <2>8. u = t \o <<x>>
    BY <2>1, AppendIsConcat
  <2>. HIDE DEF u
  <2>. QED BY <2>4, <2>6, <2>7, <2>8
<1>3. S = Seq(A)
  <2>. HIDE DEF S
  <2>1. S \in SUBSET Seq(A)
    BY DEF S
  <2>. QED BY <1>1, <1>2, <2>1, SeqSetInduction
<1>. QED BY <1>3

-----------------------------------------------------------------------------
\* A set of natural numbers that is not empty has a minimum.
LEMMA LowestExists ==
    ASSUME NEW T \in SUBSET Nat, T # {}
    PROVE  Min(T) \in T /\ \A y \in T : Min(T) <= y
<1>1. PICK x \in T : \A y \in T : <<y, x>> \notin OpToRel(<, Nat)
  BY NatLessThanWellFounded, WFMin
<1>2. \A y \in T : ~(y < x)
  BY <1>1 DEF OpToRel
<1>3. \A y \in T : x <= y
  BY <1>2
<1>. QED BY <1>3 DEF Min

-----------------------------------------------------------------------------
(* The order of what FlattenSeq puts together.                             *)

Ascending(s) == \A i, j \in 1 .. Len(s) : i < j => s[i] < s[j]

\* All of u comes before all of v.
Before(u, v) == \A x \in Range(u) : \A y \in Range(v) : x < y

\* Ascending sequences, one before the other.
LEMMA AscendingConcat ==
    ASSUME NEW A \in SUBSET Int, NEW u \in Seq(A), NEW v \in Seq(A),
           Ascending(u), Ascending(v), Before(u, v)
    PROVE  Ascending(u \o v)
<1>. DEFINE w == u \o v
            n == Len(u)
            m == Len(v)
<1>1. /\ Len(w) = n + m /\ n \in Nat /\ m \in Nat /\ n = Len(u) /\ m = Len(v)
      /\ \A i \in 1 .. n + m : w[i] = IF i <= n THEN u[i] ELSE v[i - n]
  BY ConcatProperties, LenProperties
<1>2. /\ \A i \in 1 .. n : u[i] \in Range(u)
      /\ \A i \in 1 .. m : v[i] \in Range(v)
  BY LenProperties DEF Range
<1>. HIDE DEF w, n, m
<1>3. ASSUME NEW i \in 1 .. Len(w), NEW j \in 1 .. Len(w), i < j PROVE w[i] < w[j]
  <2>1. i \in 1 .. n + m /\ j \in 1 .. n + m
    BY <1>1
  <2>2. CASE j <= n
    <3>1. i \in 1 .. n /\ j \in 1 .. n /\ w[i] = u[i] /\ w[j] = u[j]
      BY <1>1, <1>3, <2>1, <2>2
    <3>. QED BY <1>1, <1>3, <3>1 DEF Ascending
  <2>3. CASE i <= n /\ ~(j <= n)
    <3>1. i \in 1 .. n /\ j - n \in 1 .. m /\ w[i] = u[i] /\ w[j] = v[j - n]
      BY <1>1, <1>3, <2>1, <2>3
    <3>2. u[i] \in Range(u) /\ v[j - n] \in Range(v)
      BY <1>2, <3>1
    <3>. QED BY <3>1, <3>2 DEF Before
  <2>4. CASE ~(i <= n)
    <3>1. i - n \in 1 .. m /\ j - n \in 1 .. m /\ i - n < j - n /\ ~(j <= n)
      BY <1>1, <1>3, <2>1, <2>4
    <3>2. w[i] = v[i - n] /\ w[j] = v[j - n]
      BY <1>1, <2>1, <2>4, <3>1
    <3>. QED BY <1>1, <3>1, <3>2 DEF Ascending
  <2>. QED BY <1>1, <2>2, <2>3, <2>4
<1>. QED BY <1>3 DEF Ascending, w

\* Ascending sequences, each before the ones after it.
InOrder(ss) ==
    /\ \A k \in 1 .. Len(ss) : Ascending(ss[k])
    /\ \A i, k \in 1 .. Len(ss) : i < k => Before(ss[i], ss[k])

\* Flattening keeps the elements, and the order there is.
LEMMA FlattenElements ==
    ASSUME NEW A \in SUBSET Int, NEW ss \in Seq(Seq(A))
    PROVE  /\ \A x : x \in Range(FlattenSeq(ss)) <=> \E k \in 1 .. Len(ss) : x \in Range(ss[k])
           /\ InOrder(ss) => Ascending(FlattenSeq(ss))
<1>. DEFINE n == Len(ss)
<1>0. n \in Nat /\ n = Len(ss) /\ \A k \in 1 .. n : ss[k] \in Seq(A)
  <2>. DEFINE B == Seq(A)
  <2>1. ss \in Seq(B)
    OBVIOUS
  <2>. HIDE DEF B
  <2>2. Len(ss) \in Nat /\ \A k \in 1 .. Len(ss) : ss[k] \in B
    BY <2>1, LenProperties, ElementOfSeq
  <2>. QED BY <2>2 DEF B
<1>1. PICK r \in [0 .. n -> Seq(A)] :
        r[0] = <<>> /\ (\A k \in 1 .. n : r[k] = r[k - 1] \o ss[k]) /\ FlattenSeq(ss) = r[n]
  BY FlattenSteps
<1>. HIDE DEF n
<1>. DEFINE Keeps(k) == /\ \A x : x \in Range(r[k]) <=> \E i \in 1 .. k : x \in Range(ss[i])
                        /\ InOrder(ss) => Ascending(r[k])
            N == {k \in Nat : k <= n => Keeps(k)}
<1>2. 0 \in N
  <2>1. Range(r[0]) = {} /\ Ascending(r[0])
    <3>1. r[0] = <<>> /\ Len(<<>>) = 0 /\ DOMAIN <<>> = {}
      BY <1>1
    <3>. QED BY <3>1 DEF Range, Ascending
  <2>2. \A i \in 1 .. 0 : FALSE
    OBVIOUS
  <2>. QED BY <2>1, <2>2
<1>3. ASSUME NEW k \in N PROVE k + 1 \in N
  <2>1. k \in Nat /\ k + 1 \in Nat
    OBVIOUS
  <2>. SUFFICES ASSUME k + 1 <= n PROVE Keeps(k + 1)
    BY <2>1
  <2>. DEFINE u == r[k]
              v == ss[k + 1]
  <2>2. k + 1 \in 1 .. n /\ (k + 1) - 1 = k /\ k \in 0 .. n /\ k <= n
    BY <1>0, <2>1
  <2>3. Keeps(k)
    BY <2>1, <2>2
  <2>4. r[k + 1] = u \o v /\ u \in Seq(A) /\ v \in Seq(A)
    BY <1>0, <1>1, <2>2
  <2>5. \A i \in 1 .. k + 1 : i \in 1 .. k \/ i = k + 1
    BY <2>1
  <2>6. \A i \in 1 .. k : i \in 1 .. k + 1 /\ i \in 1 .. n /\ i < k + 1
    BY <1>0, <2>1, <2>2
  <2>7. \A x : x \in Range(u) <=> \E i \in 1 .. k : x \in Range(ss[i])
    BY <2>3
  <2>. HIDE DEF u, v, N
  <2>8. Range(u \o v) = Range(u) \cup Range(v)
    BY <2>4, RangeConcatenation
  <2>9. k + 1 \in 1 .. k + 1
    BY <2>1
  <2>10. \A x : x \in Range(r[k + 1]) <=> \E i \in 1 .. k + 1 : x \in Range(ss[i])
    <3>1. \A x : x \in Range(r[k + 1]) <=> x \in Range(u) \/ x \in Range(v)
      BY <2>4, <2>8
    <3>. QED BY <2>5, <2>6, <2>7, <2>9, <3>1 DEF v
  <2>11. ASSUME InOrder(ss) PROVE Ascending(r[k + 1])
    <3>1. Ascending(u)
      BY <2>3, <2>11 DEF u
    <3>2. Ascending(v)
      BY <1>0, <2>2, <2>11 DEF InOrder, v
    <3>3. Before(u, v)
      <4>1. ASSUME NEW x \in Range(u), NEW y \in Range(v) PROVE x < y
        <5>1. PICK i \in 1 .. k : x \in Range(ss[i])
          BY <2>7, <4>1
        <5>2. Before(ss[i], ss[k + 1])
          BY <1>0, <2>2, <2>6, <2>11 DEF InOrder
        <5>. QED BY <4>1, <5>1, <5>2 DEF Before, v
      <4>. QED BY <4>1 DEF Before
    <3>. QED BY <2>4, <3>1, <3>2, <3>3, AscendingConcat
  <2>. QED BY <2>10, <2>11
<1>4. N = Nat
  <2>. HIDE DEF N
  <2>1. N \in SUBSET Nat
    BY DEF N
  <2>. QED BY <1>2, <1>3, <2>1, NatSetInduction
<1>5. Keeps(n)
  <2>1. n \in N
    BY <1>0, <1>4
  <2>. HIDE DEF Keeps
  <2>. QED BY <1>0, <2>1
<1>. QED BY <1>0, <1>1, <1>5

\* Empty sequences put together are empty.
LEMMA FlattenBlank ==
    ASSUME NEW A, NEW ss \in Seq(Seq(A)), \A i \in 1 .. Len(ss) : ss[i] = <<>>
    PROVE  FlattenSeq(ss) = <<>>
<1>. DEFINE E == {}
            n == Len(ss)
            u == FlattenSeq(ss)
<1>1. n \in Nat /\ ss = [i \in 1 .. n |-> ss[i]] /\ <<>> \in Seq(E)
  BY LenProperties, EmptySeq
<1>2. ss \in [1 .. n -> Seq(E)]
  <2>. DEFINE B == Seq(E)
  <2>1. \A i \in 1 .. n : ss[i] \in B
    BY <1>1
  <2>. HIDE DEF B, n
  <2>2. ss \in [1 .. n -> B]
    BY <1>1, <2>1
  <2>. QED BY <2>2 DEF B
<1>3. u \in Seq(E)
  <2>. DEFINE B == Seq(E)
  <2>1. ss \in Seq(B)
    <3>. HIDE DEF B, n
    <3>. QED BY <1>1, <1>2, IsASeq DEF B
  <2>. HIDE DEF E
  <2>. QED BY <2>1, FlattenType
<1>4. Len(u) = 0
  <2>1. Len(u) \in Nat /\ \A i \in 1 .. Len(u) : u[i] \in E
    <3>. HIDE DEF u, E
    <3>. QED BY <1>3, LenProperties, ElementOfSeq
  <2>2. ~(1 \in 1 .. Len(u))
    BY <2>1
  <2>. HIDE DEF u
  <2>. QED BY <2>1, <2>2
<1>. HIDE DEF u, E
<1>. QED BY <1>3, <1>4, EmptySeq DEF u

\* What is put together ends with the last sequence that is not empty.
LEMMA FlattenUpto ==
    ASSUME NEW A, NEW ss \in Seq(Seq(A)), NEW k \in 1 .. Len(ss),
           \A i \in 1 .. Len(ss) : i > k => ss[i] = <<>>
    PROVE  /\ FlattenSeq(ss) = FlattenSeq(SubSeq(ss, 1, k - 1)) \o ss[k]
           /\ FlattenSeq(SubSeq(ss, 1, k - 1)) \in Seq(A)
<1>. DEFINE n == Len(ss)
            B == Seq(A)
            q == SubSeq(ss, k + 1, n)
            p == SubSeq(ss, 1, k - 1)
<1>1. n \in Nat /\ k \in 1 .. n /\ ss[k] \in B /\ n = Len(ss) /\ \A i \in 1 .. n : ss[i] \in B
  BY LenProperties, ElementOfSeq
<1>2. q \in Seq(B) /\ Len(q) = n - k /\ \A i \in 1 .. n - k : q[i] = ss[k + i]
  <2>. HIDE DEF B, n
  <2>0. k + 1 \in Int /\ n \in Int /\ k + 1 <= n + 1 /\ (\A i \in k + 1 .. n : ss[i] \in B)
    BY <1>1
  <2>1. /\ q \in Seq(B)
        /\ Len(q) = (IF k + 1 <= n THEN n - (k + 1) + 1 ELSE 0)
        /\ \A i \in 1 .. n - (k + 1) + 1 : q[i] = ss[(k + 1) + i - 1]
    BY <1>1, <2>0, SubSeqProperties
  <2>. HIDE DEF q
  <2>2. Len(q) = n - k
    BY <1>1, <2>1
  <2>3. ASSUME NEW i \in 1 .. n - k PROVE q[i] = ss[k + i]
    <3>1. i \in 1 .. n - (k + 1) + 1 /\ (k + 1) + i - 1 = k + i
      BY <1>1
    <3>. QED BY <2>1, <3>1
  <2>. QED BY <2>1, <2>2, <2>3
<1>3. p \in Seq(B)
  <2>. HIDE DEF B, n
  <2>0. 1 \in Int /\ k - 1 \in Int /\ (\A i \in 1 .. k - 1 : ss[i] \in B)
    BY <1>1
  <2>. QED BY <2>0, SubSeqProperties
<1>4. FlattenSeq(q) = <<>>
  <2>1. ASSUME NEW i \in 1 .. Len(q) PROVE q[i] = <<>>
    <3>. HIDE DEF q, B
    <3>1. i \in 1 .. n - k /\ k + i \in 1 .. n /\ k + i > k
      BY <1>1, <1>2
    <3>. QED BY <1>1, <1>2, <3>1
  <2>. HIDE DEF q
  <2>. QED BY <1>2, <2>1, FlattenBlank DEF B
<1>5. FlattenSeq(ss) = FlattenSeq(p) \o (ss[k] \o FlattenSeq(q))
  BY FlattenSplit
<1>6. FlattenSeq(p) \in Seq(A)
  <2>. HIDE DEF p
  <2>. QED BY <1>3, FlattenType DEF B
<1>7. ss[k] \o <<>> = ss[k]
  BY <1>1, ConcatEmptySeq DEF B
<1>. HIDE DEF p, q, B
<1>. QED BY <1>4, <1>5, <1>6, <1>7 DEF p

\* What stands in the middle of u, x and c, with o and e around them, is x.
Rebrackets(v, o, u, x, c, e) ==
    v \o ((o \o (u \o (x \o c))) \o e) = (v \o (o \o u)) \o (x \o (c \o e))

LEMMA Rebracket ==
    ASSUME NEW A, NEW v \in Seq(A), NEW o \in Seq(A), NEW u \in Seq(A), NEW x \in Seq(A),
           NEW c \in Seq(A), NEW e \in Seq(A)
    PROVE  Rebrackets(v, o, u, x, c, e) /\ v \o (o \o u) \in Seq(A)
<1>. DEFINE xc == x \o c
            ou == o \o u
            ce == c \o e
            xce == x \o ce
            uxc == u \o xc
            vou == v \o ou
<1>1. xc \in Seq(A) /\ ou \in Seq(A) /\ ce \in Seq(A)
  BY ConcatProperties
<1>2. xc \o e = x \o ce
  <2>1. Reassociates(x, c, e)
    BY Reassociation
  <2>. QED BY <2>1, Zenon DEF Reassociates
<1>. HIDE DEF xc, ce
<1>3. o \o uxc = ou \o xc
  <2>1. Reassociates(o, u, xc)
    BY <1>1, o \in Seq(A), u \in Seq(A), Reassociation
  <2>. QED BY <2>1, Zenon DEF Reassociates
<1>. HIDE DEF ou
<1>4. xce \in Seq(A) /\ vou \in Seq(A)
  BY <1>1, ConcatProperties
<1>5. (ou \o xc) \o e = ou \o (xc \o e)
  <2>1. Reassociates(ou, xc, e)
    BY <1>1, e \in Seq(A), Reassociation
  <2>. QED BY <2>1, Zenon DEF Reassociates
<1>. HIDE DEF xce
<1>6. vou \o xce = v \o (ou \o xce)
  <2>1. Reassociates(v, ou, xce)
    BY <1>1, <1>4, v \in Seq(A), Reassociation
  <2>. QED BY <2>1, Zenon DEF Reassociates
<1>7. v \o ((o \o (u \o xc)) \o e) = vou \o (x \o ce)
  BY <1>2, <1>3, <1>5, <1>6, Zenon DEF xce
<1>. QED BY <1>4, <1>7, Zenon DEF xc, ou, ce, Rebrackets

\* The text u, t, e, c is the text g, e, c.
EndAlike(u, t, g, e, c) == u \o ((t \o e) \o c) = g \o (e \o c)

\* Then u and t make g, and so it is with any other e.
LEMMA SwapMiddle ==
    ASSUME NEW A, NEW u \in Seq(A), NEW t \in Seq(A), NEW e \in Seq(A), NEW w \in Seq(A),
           NEW c \in Seq(A), NEW g \in Seq(A), EndAlike(u, t, g, e, c)
    PROVE  EndAlike(u, t, g, w, c)
<1>. DEFINE B == Seq(A)
            ut == u \o t
<1>1. u \in B /\ t \in B /\ e \in B /\ w \in B /\ c \in B /\ g \in B
  OBVIOUS
<1>2. ut \in B
  BY ConcatProperties
<1>3. ASSUME NEW z \in B
      PROVE  z \o c \in B /\ u \o ((t \o z) \o c) = ut \o (z \o c)
  <2>. DEFINE tz == t \o z
              zc == z \o c
  <2>1. tz \in B /\ zc \in B /\ z \in Seq(A)
    BY ConcatProperties
  <2>2. tz \o c = t \o zc
    <3>1. Reassociates(t, z, c)
      BY z \in Seq(A), t \in Seq(A), c \in Seq(A), Reassociation
    <3>. QED BY <3>1, Zenon DEF Reassociates
  <2>. HIDE DEF zc
  <2>3. ut \o zc = u \o (t \o zc)
    <3>1. Reassociates(u, t, zc)
      BY <2>1, u \in Seq(A), t \in Seq(A), Reassociation
    <3>. QED BY <3>1, Zenon DEF Reassociates
  <2>. QED BY <2>1, <2>2, <2>3, Zenon DEF zc
<1>4. ut \o (e \o c) = g \o (e \o c) /\ e \o c \in B
  BY <1>1, <1>3, Zenon DEF EndAlike
<1>. DEFINE ec == e \o c
<1>5. ut = g
  <2>. HIDE DEF ut, ec
  <2>. QED BY <1>1, <1>2, <1>4, ConcatSimplifications
<1>. HIDE DEF ut, B
<1>. QED BY <1>1, <1>3, <1>5, Zenon DEF EndAlike

\* The end of a text taken one by one.
Regroups(g, a, b, c) == g \o ((a \o b) \o c) = (g \o a) \o (b \o c)

LEMMA Regroup ==
    ASSUME NEW A, NEW g \in Seq(A), NEW a \in Seq(A), NEW b \in Seq(A), NEW c \in Seq(A)
    PROVE  Regroups(g, a, b, c)
<1>. DEFINE bc == b \o c
            ga == g \o a
<1>1. bc \in Seq(A)
  BY ConcatProperties
<1>2. (a \o b) \o c = a \o bc
  <2>1. Reassociates(a, b, c)
    BY a \in Seq(A), b \in Seq(A), c \in Seq(A), Reassociation
  <2>. QED BY <2>1, Zenon DEF Reassociates
<1>. HIDE DEF bc
<1>3. ga \o bc = g \o (a \o bc)
  <2>1. Reassociates(g, a, bc)
    BY <1>1, g \in Seq(A), a \in Seq(A), Reassociation
  <2>. QED BY <2>1, Zenon DEF Reassociates
<1>. QED BY <1>2, <1>3, Zenon DEF Regroups, bc

-----------------------------------------------------------------------------
(* ConfigTree: the text of a block.                                                    *)

\* Statements of the tokens T, of which each stands in a block above it.
Written(T) == [block: Nat, tokens: Seq(T), child: BOOLEAN]
Nesting(ss, T) == ss \in Seq(Written(T)) /\ \A i \in 1 .. Len(ss) : ss[i].block < i

\* What ToString puts together for block c.
TextIn(ss, f, c, open, close, end) ==
    [i \in DOMAIN ss |->
        IF ss[i].block # c THEN <<>>
        ELSE ss[i].tokens \o
               IF ss[i].child THEN <<open>> \o f[i] \o <<close>> ELSE <<end>>]

TextStep(ss, f, open, close, end) ==
    [c \in 0 .. Len(ss) |-> FlattenSeq(TextIn(ss, f, c, open, close, end))]

TextOf(ss, open, close, end) == CHOOSE f : f = TextStep(ss, f, open, close, end)

LEMMA BlockTokensText ==
    \A ss, b, open, close, end :
        BlockTokens(ss, b, open, close, end) = TextOf(ss, open, close, end)[b]
BY DEF BlockTokens, TextOf, TextStep, TextIn

\* What may stand in the text of a block: tokens and the three marks.
Symbols(T, open, close, end) == T \cup {open, close, end}

\* Where the blocks further on have a text, so has block c.
LEMMA TextInType ==
    ASSUME NEW T, NEW ss, Nesting(ss, T), NEW open, NEW close, NEW end, NEW f, NEW c \in 0 .. Len(ss),
           \A i \in 0 .. Len(ss) : i > c => f[i] \in Seq(Symbols(T, open, close, end))
    PROVE  TextIn(ss, f, c, open, close, end) \in Seq(Seq(Symbols(T, open, close, end)))
<1>. DEFINE n == Len(ss)
            M == Symbols(T, open, close, end)
            txt == TextIn(ss, f, c, open, close, end)
<1>1. n \in Nat /\ n = Len(ss) /\ DOMAIN ss = 1 .. n /\ \A i \in 1 .. n : ss[i] \in Written(T) /\ ss[i].block < i
  BY LenProperties, ElementOfSeq DEF Nesting
<1>2. open \in M /\ close \in M /\ end \in M /\ T \subseteq M
  BY DEF Symbols
<1>3. \A i \in 0 .. n : i > c => f[i] \in Seq(M)
  OBVIOUS
<1>. HIDE DEF n, M
<1>4. ASSUME NEW i \in 1 .. n PROVE txt[i] \in Seq(M)
  <2>1. txt[i] = IF ss[i].block # c THEN <<>>
                 ELSE ss[i].tokens \o IF ss[i].child THEN <<open>> \o f[i] \o <<close>> ELSE <<end>>
    BY <1>1 DEF TextIn
  <2>2. CASE ss[i].block # c
    BY <2>1, <2>2, EmptySeq
  <2>3. CASE ss[i].block = c
    <3>. DEFINE own == ss[i].tokens
                o == <<open>>
                x == <<close>>
                inner == IF ss[i].child THEN o \o f[i] \o x ELSE <<end>>
    <3>1. i \in 0 .. n /\ i > c
      BY <1>1, <2>3
    <3>2. f[i] \in Seq(M) /\ o \in Seq(M) /\ x \in Seq(M) /\ <<end>> \in Seq(M)
      BY <1>2, <1>3, <3>1
    <3>3. own \in Seq(M)
      <4>1. own \in Seq(T)
        BY <1>1 DEF Written
      <4>2. \A k \in 1 .. Len(own) : own[k] \in M
        BY <1>2, <4>1, ElementOfSeq
      <4>3. own = [k \in 1 .. Len(own) |-> own[k]] /\ Len(own) \in Nat
        BY <4>1
      <4>. HIDE DEF own
      <4>4. own \in [1 .. Len(own) -> M]
        BY <4>2, <4>3
      <4>. QED BY <4>3, <4>4, IsASeq
    <3>. HIDE DEF o, x
    <3>4. o \o f[i] \o x \in Seq(M)
      <4>. DEFINE g == f[i]
      <4>1. g \in Seq(M)
        BY <3>2
      <4>. HIDE DEF g
      <4>2. o \o g \in Seq(M)
        BY <3>2, <4>1, ConcatProperties
      <4>3. o \o g \o x \in Seq(M)
        BY <3>2, <4>2, ConcatProperties
      <4>. QED BY <4>3 DEF g
    <3>5. inner \in Seq(M)
      BY <3>2, <3>4
    <3>. HIDE DEF own, inner
    <3>6. own \o inner \in Seq(M)
      BY <3>3, <3>5, ConcatProperties
    <3>. QED BY <2>1, <2>3, <3>6 DEF own, inner, o, x
  <2>. QED BY <2>2, <2>3
<1>5. txt \in [1 .. n -> Seq(M)]
  <2>1. txt = [i \in 1 .. n |-> txt[i]]
    BY <1>1 DEF TextIn
  <2>. HIDE DEF txt
  <2>. QED BY <1>4, <2>1
<1>6. txt \in Seq(Seq(M))
  <2>. HIDE DEF txt
  <2>. QED BY <1>1, <1>5, IsASeq
<1>. QED BY <1>6 DEF M

\* The recursion of BlockTokens has a solution, so that the text of a block is
\* what is put together for it.
LEMMA TextOfStep ==
    ASSUME NEW T, NEW ss, Nesting(ss, T), NEW open, NEW close, NEW end
    PROVE  TextOf(ss, open, close, end) = TextStep(ss, TextOf(ss, open, close, end), open, close, end)
<1>. DEFINE n == Len(ss)
            V == Seq(Symbols(T, open, close, end))
            W == [0 .. n -> V]
            next(f) == TextStep(ss, f, open, close, end)
            step == [f \in W |-> next(f)]
<1>1. n \in Nat /\ n = Len(ss) /\ DOMAIN ss = 1 .. n /\ \A i \in 1 .. n : ss[i] \in Written(T) /\ ss[i].block < i
  BY LenProperties, ElementOfSeq DEF Nesting
<1>. HIDE DEF n
<1>2. ASSUME NEW f \in W PROVE next(f) \in W
  <2>1. \A c \in 0 .. n : FlattenSeq(TextIn(ss, f, c, open, close, end)) \in V
    BY <1>1, TextInType, FlattenType
  <2>. HIDE DEF V
  <2>. QED BY <1>1, <2>1 DEF TextStep
<1>3. ASSUME NEW f \in W, NEW h \in W, NEW c \in 0 .. n, \A i \in 0 .. n : i > c => f[i] = h[i]
      PROVE  next(f)[c] = next(h)[c]
  <2>1. \A i \in 1 .. n : ss[i].block = c => f[i] = h[i]
    BY <1>1, <1>3
  <2>2. TextIn(ss, f, c, open, close, end) = TextIn(ss, h, c, open, close, end)
    BY <1>1, <2>1 DEF TextIn
  <2>. QED BY <1>1, <2>2 DEF TextStep
<1>4. Descends(step, n, V) /\ <<>> \in V
  <2>1. \A f \in W : step[f] = next(f)
    OBVIOUS
  <2>2. <<>> \in V
    BY EmptySeq
  <2>. HIDE DEF step, next, V
  <2>. QED BY <1>2, <1>3, <2>1, <2>2 DEF Descends
<1>5. PICK f \in W : f = step[f]
  <2>. HIDE DEF step, V
  <2>. QED BY <1>1, <1>4, DescentExists
<1>6. f = next(f)
  BY <1>5
<1>. QED BY <1>6 DEF TextOf

\* The text of every block is a sequence of tokens and marks, and is what is put
\* together for it.
LEMMA BlockText ==
    ASSUME NEW T, NEW ss, Nesting(ss, T), NEW open, NEW close, NEW end, NEW c \in 0 .. Len(ss)
    PROVE  LET f == TextOf(ss, open, close, end)
               parts == TextIn(ss, f, c, open, close, end)
           IN  /\ parts \in Seq(Seq(Symbols(T, open, close, end)))
               /\ BlockTokens(ss, c, open, close, end) = FlattenSeq(parts)
               /\ BlockTokens(ss, c, open, close, end) \in Seq(Symbols(T, open, close, end))
<1>. DEFINE n == Len(ss)
            f == TextOf(ss, open, close, end)
            M == Symbols(T, open, close, end)
            parts(b) == TextIn(ss, f, b, open, close, end)
            P == {b \in 0 .. n : f[b] \in Seq(M)}
<1>1. n \in Nat /\ n = Len(ss)
  BY LenProperties DEF Nesting
<1>2. \A b \in 0 .. n : f[b] = FlattenSeq(parts(b))
  <2>1. f = TextStep(ss, f, open, close, end)
    BY TextOfStep
  <2>. HIDE DEF f
  <2>. QED BY <1>1, <2>1 DEF TextStep
<1>3. ASSUME NEW b \in 0 .. n, \A i \in 0 .. n : i > b => f[i] \in Seq(M)
      PROVE  parts(b) \in Seq(Seq(M)) /\ f[b] \in Seq(M)
  <2>1. parts(b) \in Seq(Seq(M))
    <3>. HIDE DEF f
    <3>. QED BY <1>1, <1>3, TextInType
  <2>. HIDE DEF f, M, parts
  <2>. QED BY <1>2, <2>1, FlattenType
<1>4. P = 0 .. n
  <2>. HIDE DEF f, M, n, parts
  <2>1. \A b \in 0 .. n : (\A i \in 0 .. n : i > b => i \in P) => b \in P
    BY <1>3
  <2>2. P \in SUBSET (0 .. n)
    OBVIOUS
  <2>. HIDE DEF P
  <2>. QED BY <1>1, <2>1, <2>2, DescentHolds
<1>5. \A b \in 0 .. n : f[b] \in Seq(M)
  BY <1>4
<1>6. parts(c) \in Seq(Seq(M))
  BY <1>1, <1>3, <1>5
<1>7. BlockTokens(ss, c, open, close, end) = f[c]
  BY BlockTokensText
<1>. HIDE DEF f, M, parts
<1>8. f[c] = FlattenSeq(parts(c)) /\ f[c] \in Seq(M)
  BY <1>1, <1>2, <1>5
<1>. QED BY <1>6, <1>7, <1>8 DEF f, M, parts
=============================================================================
