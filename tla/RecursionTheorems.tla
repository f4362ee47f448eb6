------------------------- MODULE RecursionTheorems ---------------------------
(***************************************************************************)
(* Induction over a set of naturals, and the existence of a function that  *)
(* is defined by its first value and its step: what a proof about such a   *)
(* definition rests on.  Last, what FlattenSeq, one of those, returns.     *)
(***************************************************************************)
EXTENDS Integers, SequencesExt, NaturalsInduction, WellFoundedInduction, SequenceTheorems,
        TLAPS

\* A function on an initial segment of the naturals that starts at v and goes on by step.
Segment(V, v, step, n) ==
    {h \in [0..n -> V] : h[0] = v /\ \A i \in 0..n - 1 : h[i + 1] = step[<<i, h[i]>>]}

\* Induction on the naturals, for a set of them.
LEMMA Inductive ==
    ASSUME NEW S \in SUBSET Nat, 0 \in S, \A n \in S : n + 1 \in S
    PROVE  S = Nat
<1> SUFFICES ASSUME Nat \ S # {}
             PROVE  FALSE
  OBVIOUS
<1>1. PICK m \in Nat \ S : \A n \in Nat \ S : ~ (<<n, m>> \in OpToRel(<, Nat))
  <2> DEFINE T == Nat \ S
  <2>1. T \subseteq Nat /\ T # {}
    OBVIOUS
  <2> HIDE DEF T
  <2>2. \E m \in T : \A n \in T : ~ (<<n, m>> \in OpToRel(<, Nat))
    BY <2>1, WFMin, NatLessThanWellFounded, Zenon
  <2>3. QED
    BY <2>2 DEF T
<1>2. m # 0 /\ m - 1 \in Nat /\ m - 1 < m /\ (m - 1) + 1 = m
  OBVIOUS
<1>3. <<m - 1, m>> \in OpToRel(<, Nat)
  BY <1>2, Zenon DEF OpToRel
<1>4. m - 1 \in S
  BY <1>1, <1>2, <1>3
<1>5. QED
  BY <1>2, <1>4

LEMMA SegmentsExist ==
    ASSUME NEW V, NEW v \in V, NEW step \in [Nat \X V -> V]
    PROVE  \A n \in Nat : Segment(V, v, step, n) # {}
<1> DEFINE S == {n \in Nat : Segment(V, v, step, n) # {}}
<1>1. 0 \in S
  <2> DEFINE h == [i \in 0..0 |-> v]
  <2>1. h \in Segment(V, v, step, 0)
    BY DEF Segment
  <2>2. QED
    BY <2>1
<1>2. ASSUME NEW n \in S
      PROVE  n + 1 \in S
  <2>1. PICK h : h \in Segment(V, v, step, n)
    OBVIOUS
  <2> DEFINE next == step[<<n, h[n]>>]
             k == [i \in 0..n + 1 |-> IF i <= n THEN h[i] ELSE next]
  <2>2. n \in Nat /\ h \in [0..n -> V] /\ h[n] \in V /\ next \in V
    BY <2>1 DEF Segment
  <2>3. k \in [0..n + 1 -> V]
    BY <2>2
  <2>4. k[0] = v
    BY <2>1, <2>2 DEF Segment
  <2>5. ASSUME NEW i \in 0..(n + 1) - 1
        PROVE  k[i + 1] = step[<<i, k[i]>>]
    <3>1. k[i] = h[i]
      BY <2>2
    <3>2. CASE i = n
      <4>1. n + 1 \in 0..n + 1 /\ ~ (n + 1 <= n)
        BY <2>2
      <4>2. k[n + 1] = next
        BY <4>1
      <4>3. QED
        BY <3>1, <3>2, <4>2
    <3>3. CASE i # n
      <4>1. i \in 0..n - 1 /\ i + 1 <= n /\ i + 1 \in 0..n + 1
        BY <2>2, <3>3
      <4>2. k[i + 1] = h[i + 1]
        BY <4>1
      <4>3. QED
        BY <2>1, <3>1, <4>1, <4>2 DEF Segment
    <3>4. QED
      BY <3>2, <3>3
  <2> HIDE DEF k
  <2>6. k \in Segment(V, v, step, n + 1)
    BY <2>2, <2>3, <2>4, <2>5 DEF Segment
  <2>7. QED
    BY <2>2, <2>6
<1> HIDE DEF S
<1>3. S = Nat
  <2>1. S \subseteq Nat
    BY DEF S
  <2>2. QED
    BY <1>1, <1>2, <2>1, Inductive
<1>4. QED
  BY <1>3 DEF S

LEMMA SegmentsAgree ==
    ASSUME NEW V, NEW v, NEW step, NEW n \in Nat, NEW h \in Segment(V, v, step, n),
           NEW k \in Segment(V, v, step, n + 1)
    PROVE  h[n] = k[n]
<1> DEFINE S == {i \in Nat : i <= n => h[i] = k[i]}
<1>1. 0 \in S
  BY DEF Segment
<1>2. ASSUME NEW i \in S
      PROVE  i + 1 \in S
  <2>1. i \in Nat /\ (i + 1 <= n => i \in 0..n - 1 /\ i \in 0..(n + 1) - 1 /\ i <= n)
    OBVIOUS
  <2>2. i + 1 <= n => h[i + 1] = k[i + 1]
    BY <2>1 DEF Segment
  <2>3. QED
    BY <2>1, <2>2
<1> HIDE DEF S
<1>3. S = Nat
  <2>1. S \subseteq Nat
    BY DEF S
  <2>2. QED
    BY <1>1, <1>2, <2>1, Inductive
<1>4. QED
  BY <1>3 DEF S

\* f starts at v and goes on by step for ever.
Unfolds(f, v, step) ==
    \A n \in Nat : f[n] = IF n = 0 THEN v ELSE step[<<n - 1, f[n - 1]>>]

\* A function is defined by its first value and its step.
LEMMA Recursion ==
    ASSUME NEW V, NEW v \in V, NEW step \in [Nat \X V -> V]
    PROVE  \E f \in [Nat -> V] : Unfolds(f, v, step)
<1> DEFINE upTo(n) == CHOOSE h : h \in Segment(V, v, step, n)
           f == [n \in Nat |-> upTo(n)[n]]
<1>1. \A n \in Nat : upTo(n) \in Segment(V, v, step, n)
  BY SegmentsExist
<1> HIDE DEF upTo
<1>2. \A n \in Nat : upTo(n)[n] \in V
  BY <1>1 DEF Segment
<1>3. f \in [Nat -> V]
  BY <1>2
<1>4. f[0] = v
  BY <1>1 DEF Segment
<1>5. ASSUME NEW n \in Nat
      PROVE  f[n + 1] = step[<<n, f[n]>>]
  <2>1. n + 1 \in Nat /\ n \in 0..(n + 1) - 1
    OBVIOUS
  <2>2. upTo(n + 1)[n + 1] = step[<<n, upTo(n + 1)[n]>>]
    BY <1>1, <2>1 DEF Segment
  <2>3. upTo(n)[n] = upTo(n + 1)[n]
    BY <1>1, <2>1, SegmentsAgree
  <2>4. QED
    BY <2>1, <2>2, <2>3
<1> HIDE DEF f
<1>6. ASSUME NEW n \in Nat
      PROVE  f[n] = IF n = 0 THEN v ELSE step[<<n - 1, f[n - 1]>>]
  <2>1. CASE n = 0
    BY <1>4, <2>1
  <2>2. CASE n # 0
    <3>1. n - 1 \in Nat /\ (n - 1) + 1 = n
      BY <2>2
    <3>2. QED
      BY <1>5, <2>2, <3>1
  <2>3. QED
    BY <2>1, <2>2
<1>7. QED
  BY <1>3, <1>6 DEF Unfolds

(**************************** Lists of lists *******************************)

\* The lists joined up to each of them, the first alone to begin with.
Joining(lists, f) ==
    /\ f[1] = lists[1]
    /\ \A n \in 2..Len(lists) : f[n] = f[n - 1] \o lists[n]

\* Flattening has one solution: the lists joined one after the other.
LEMMA FlattenJoins ==
    ASSUME NEW A, NEW lists \in Seq(Seq(A)), lists # <<>>
    PROVE  \E f \in [1..Len(lists) -> Seq(A)] :
              Joining(lists, f) /\ FlattenSeq(lists) = f[Len(lists)]
<1> DEFINE N == Len(lists)
           Equation(f) == f = [i \in 1..N |-> IF i = 1 THEN lists[i] ELSE f[i - 1] \o lists[i]]
           step == [x \in Nat \X Seq(A) |->
                      IF x[1] + 2 <= N THEN x[2] \o lists[x[1] + 2] ELSE x[2]]
<1>1. N \in Nat /\ N # 0 /\ (\A n \in 1..N : lists[n] \in Seq(A)) /\ lists[1] \in Seq(A)
  OBVIOUS
<1>2. step \in [Nat \X Seq(A) -> Seq(A)]
  <2>1. ASSUME NEW x \in Nat \X Seq(A)
        PROVE  (IF x[1] + 2 <= N THEN x[2] \o lists[x[1] + 2] ELSE x[2]) \in Seq(A)
    <3>1. x[1] \in Nat /\ x[2] \in Seq(A)
      OBVIOUS
    <3> HIDE DEF N
    <3>2. x[1] + 2 <= N => x[1] + 2 \in 1..N
      BY <1>1, <3>1
    <3>3. \A s, t \in Seq(A) : s \o t \in Seq(A)
      OBVIOUS
    <3>4. CASE x[1] + 2 <= N
      <4>1. lists[x[1] + 2] \in Seq(A)
        BY <1>1, <3>2, <3>4
      <4>2. QED
        BY <3>1, <3>3, <3>4, <4>1
    <3>5. QED
      BY <3>1, <3>4
  <2> HIDE DEF N
  <2>2. QED
    BY <2>1
<1>3. PICK f \in [Nat -> Seq(A)] : Unfolds(f, lists[1], step)
  <2> HIDE DEF step
  <2>1. QED
    BY <1>1, <1>2, Recursion, Zenon
<1> DEFINE g == [n \in 1..N |-> f[n - 1]]
<1>4. ASSUME NEW n \in 1..N
      PROVE  g[n] = IF n = 1 THEN lists[n] ELSE g[n - 1] \o lists[n]
  <2> HIDE DEF N
  <2>0. n \in Nat /\ n <= N /\ n # 0 /\ n - 1 \in Nat /\ g[n] = f[n - 1]
    BY <1>1
  <2>1. CASE n = 1
    <3>1. f[0] = lists[1]
      BY <1>3 DEF Unfolds
    <3>2. QED
      BY <2>0, <2>1, <3>1
  <2>2. CASE n # 1
    <3>1. n - 2 \in Nat /\ n - 1 \in 1..N /\ n - 1 # 0 /\ (n - 1) - 1 = n - 2 /\ (n - 2) + 2 = n
      BY <1>1, <2>0, <2>2
    <3>2. f[n - 1] = step[<<n - 2, f[n - 2]>>]
      <4> HIDE DEF step
      <4>1. f[n - 1] = step[<<(n - 1) - 1, f[(n - 1) - 1]>>]
        BY <1>3, <2>0, <3>1 DEF Unfolds
      <4>2. QED
        BY <3>1, <4>1
    <3>3. <<n - 2, f[n - 2]>> \in Nat \X Seq(A)
      BY <1>3, <3>1
    <3>4. step[<<n - 2, f[n - 2]>>] = f[n - 2] \o lists[n]
      BY <2>0, <3>1, <3>3
    <3>5. g[n - 1] = f[n - 2]
      BY <3>1
    <3> HIDE DEF g, step
    <3>6. QED
      BY <2>0, <2>2, <3>2, <3>4, <3>5
  <2>3. QED
    BY <2>1, <2>2
<1>5. Equation(g)
  <2>1. g = [n \in 1..N |-> g[n]]
    OBVIOUS
  <2> HIDE DEF g, N
  <2>2. QED
    BY <1>4, <2>1
<1> DEFINE joined == CHOOSE h : Equation(h)
<1>6. FlattenSeq(lists) = joined[N]
  BY <1>1 DEF FlattenSeq
<1> HIDE DEF Equation
<1>7. Equation(joined)
  BY <1>5
<1> HIDE DEF joined, g, N
<1>8. /\ joined = [i \in 1..N |-> joined[i]]
      /\ \A n \in 1..N : joined[n] = IF n = 1 THEN lists[n] ELSE joined[n - 1] \o lists[n]
  BY <1>7 DEF Equation
<1>9. \A n \in 1..N : joined[n] \in Seq(A)
  <2> DEFINE S == {n \in Nat : n + 1 <= N => joined[n + 1] \in Seq(A)}
  <2>1. 0 \in S
    <3>1. 0 + 1 = 1 /\ 1 \in 1..N
      BY <1>1
    <3>2. joined[1] = lists[1]
      BY <1>8, <3>1
    <3>3. QED
      BY <1>1, <3>1, <3>2
  <2>2. ASSUME NEW n \in S
        PROVE  n + 1 \in S
    <3>1. SUFFICES ASSUME (n + 1) + 1 <= N PROVE joined[(n + 1) + 1] \in Seq(A)
      OBVIOUS
    <3>2. /\ n + 1 <= N /\ (n + 1) + 1 \in 1..N /\ (n + 1) + 1 # 1 /\ ((n + 1) + 1) - 1 = n + 1
          /\ joined[n + 1] \in Seq(A)
      BY <1>1, <3>1
    <3> DEFINE k == (n + 1) + 1
    <3>3. joined[k] = joined[k - 1] \o lists[k] /\ k - 1 = n + 1 /\ k \in 1..N
      BY <1>8, <3>2
    <3> HIDE DEF k, S
    <3>4. lists[k] \in Seq(A)
      BY <1>1, <3>3
    <3>5. joined[k] \in Seq(A)
      <4>1. \A s, t \in Seq(A) : s \o t \in Seq(A)
        OBVIOUS
      <4>2. QED
        BY <3>2, <3>3, <3>4, <4>1
    <3>6. QED
      BY <3>5 DEF k
  <2> HIDE DEF S
  <2>3. S = Nat
    <3>1. S \subseteq Nat
      BY DEF S
    <3>2. QED
      BY <2>1, <2>2, <3>1, Inductive
  <2>4. \A n \in 1..N : n - 1 \in Nat /\ (n - 1) + 1 = n /\ n <= N
    BY <1>1
  <2>5. QED
    BY <2>3, <2>4 DEF S
<1>10. joined \in [1..N -> Seq(A)]
  BY <1>8, <1>9
<1>11. Joining(lists, joined)
  <2>1. \A n \in 2..N : n \in 1..N /\ n # 1
    BY <1>1
  <2>2. 1 \in 1..N
    BY <1>1
  <2>3. QED
    BY <1>8, <2>1, <2>2 DEF Joining, N
<1>12. QED
  BY <1>6, <1>10, <1>11 DEF N

\* What is joined holds every element of every list, and no other.
LEMMA FlattenHolds ==
    ASSUME NEW A, NEW lists \in Seq(Seq(A))
    PROVE  /\ FlattenSeq(lists) \in Seq(A)
           /\ \A i \in DOMAIN lists : ToSet(lists[i]) \subseteq ToSet(FlattenSeq(lists))
<1>1. CASE lists = <<>>
  <2>1. FlattenSeq(lists) = <<>>
    BY <1>1 DEF FlattenSeq
  <2>2. <<>> \in Seq(A) /\ DOMAIN <<>> = {}
    OBVIOUS
  <2>3. QED
    BY <1>1, <2>1, <2>2, Zenon
<1>2. CASE lists # <<>>
  <2> DEFINE N == Len(lists)
  <2>1. N \in Nat /\ N # 0 /\ DOMAIN lists = 1..N /\ \A n \in 1..N : lists[n] \in Seq(A)
    BY <1>2
  <2>2. PICK f \in [1..N -> Seq(A)] : Joining(lists, f) /\ FlattenSeq(lists) = f[N]
    BY <1>2, FlattenJoins
  <2> HIDE DEF N
  <2>3. /\ f[1] = lists[1] /\ 1 \in 1..N /\ N \in 1..N
        /\ \A n \in Nat : n + 2 <= N => f[n + 2] = f[n + 1] \o lists[n + 2]
    <3>1. \A n \in Nat : n + 2 <= N => n + 2 \in 2..Len(lists) /\ (n + 2) - 1 = n + 1
      BY <2>1 DEF N
    <3>2. \A m \in 2..Len(lists) : f[m] = f[m - 1] \o lists[m]
      BY <2>2 DEF Joining
    <3>3. ASSUME NEW n \in Nat, n + 2 <= N
          PROVE  f[n + 2] = f[n + 1] \o lists[n + 2]
      <4> DEFINE m == n + 2
      <4>1. m \in 2..Len(lists) /\ m - 1 = n + 1
        BY <3>1, <3>3
      <4> HIDE DEF m
      <4>2. f[m] = f[n + 1] \o lists[m]
        BY <3>2, <4>1
      <4>3. QED
        BY <4>2 DEF m
    <3>4. f[1] = lists[1]
      BY <2>2 DEF Joining
    <3>5. 1 \in 1..N /\ N \in 1..N
      BY <2>1
    <3>6. QED
      BY <3>3, <3>4, <3>5, Zenon
  <2> DEFINE S == {n \in Nat : n + 1 <= N =>
                      \A i \in 1..(n + 1) : ToSet(lists[i]) \subseteq ToSet(f[n + 1])}
  <2>4. \A s, t \in Seq(A) : /\ ToSet(s) \subseteq ToSet(s \o t) /\ ToSet(t) \subseteq ToSet(s \o t)
    <3>1. TAKE s, t \in Seq(A)
    <3>2. \A i \in DOMAIN s : i \in DOMAIN (s \o t) /\ (s \o t)[i] = s[i]
      OBVIOUS
    <3>3. \A i \in DOMAIN t : Len(s) + i \in DOMAIN (s \o t) /\ (s \o t)[Len(s) + i] = t[i]
      OBVIOUS
    <3> DEFINE st == s \o t
    <3> HIDE DEF st
    <3>4. QED
      BY <3>2, <3>3 DEF ToSet, st
  <2>5. 0 \in S
    <3>1. \A i \in 1..(0 + 1) : i = 1 /\ 0 + 1 = 1
      OBVIOUS
    <3>2. QED
      BY <2>3, <3>1
  <2>6. ASSUME NEW n \in S
        PROVE  n + 1 \in S
    <3> DEFINE k == (n + 1) + 1
    <3>1. SUFFICES ASSUME k <= N, NEW i \in 1..k
                   PROVE  ToSet(lists[i]) \subseteq ToSet(f[k])
      OBVIOUS
    <3>2. n \in Nat /\ n + 1 <= N /\ n + 1 \in 1..N /\ k \in 1..N /\ (i = k \/ i \in 1..(n + 1))
      BY <2>1, <3>1
    <3>3. \A j \in 1..(n + 1) : ToSet(lists[j]) \subseteq ToSet(f[n + 1])
      BY <2>1, <3>1
    <3>4. k = n + 2 /\ n + 1 \in 1..N /\ k \in 1..N
      BY <2>1, <3>1
    <3> HIDE DEF k, S
    <3>5. f[k] = f[n + 1] \o lists[k]
      <4>1. n \in Nat /\ n + 2 <= N
        BY <3>1, <3>2, <3>4
      <4>2. f[n + 2] = f[n + 1] \o lists[n + 2]
        BY <2>3, <4>1
      <4>3. QED
        BY <3>4, <4>2, Zenon
    <3>6. f[n + 1] \in Seq(A) /\ lists[k] \in Seq(A)
      BY <2>1, <3>4
    <3>7. ToSet(f[n + 1]) \subseteq ToSet(f[k]) /\ ToSet(lists[k]) \subseteq ToSet(f[k])
      BY <2>4, <3>5, <3>6
    <3>8. QED
      BY <3>2, <3>3, <3>7
  <2> HIDE DEF S
  <2>7. S = Nat
    <3>1. S \subseteq Nat
      BY DEF S
    <3>2. QED
      BY <2>5, <2>6, <3>1, Inductive
  <2>8. \A i \in 1..N : ToSet(lists[i]) \subseteq ToSet(f[N])
    <3>1. N - 1 \in Nat /\ (N - 1) + 1 = N /\ N <= N
      BY <2>1
    <3>2. QED
      BY <2>7, <3>1 DEF S
  <2>9. QED
    BY <2>1, <2>2, <2>3, <2>8
<1>3. QED
  BY <1>1, <1>2
=============================================================================
