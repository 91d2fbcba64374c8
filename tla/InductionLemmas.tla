-------------------------- MODULE InductionLemmas --------------------------
(***************************************************************************)
(* Induction over data without operators as parameters: the natural        *)
(* numbers, the least element of a set of them, the folds of sequences,    *)
(* and the elements of a set in their order.                               *)
(***************************************************************************)
EXTENDS Ordered, Integers, Sequences, SequencesExt, FiniteSetsExt, FiniteSetTheorems,
        SequenceTheorems, WellFoundedInduction, TLAPS

(* A set of natural numbers has a least element.                           *)
LEMMA HasLeast ==
    ASSUME NEW S \in SUBSET Nat, S # {}
    PROVE  \E x \in S : \A y \in S : x <= y
<1> DEFINE R == OpToRel(<, Nat)
<1>1. IsWellFoundedOn(R, Nat)
  BY NatLessThanWellFounded, Zenon
<1>2. \A x, y \in Nat : y < x => <<y, x>> \in R
  BY DEF OpToRel
<1> HIDE DEF R
<1>3. PICK x \in S : \A y \in S : <<y, x>> \notin R
  <2>1. \E x \in S : \A y \in S : <<y, x>> \notin R
    BY <1>1, WFMin, Zenon
  <2> QED
    BY <2>1
<1>4. ASSUME NEW y \in S
      PROVE  x <= y
  <2>1. x \in Nat /\ y \in Nat
    OBVIOUS
  <2>2. ~(y < x)
    BY <1>2, <1>3, <2>1
  <2> QED
    BY <2>1, <2>2
<1> QED
  BY <1>4

(* What holds for 0, and for n + 1 if it holds for n, holds for every      *)
(* natural number.                                                         *)
LEMMA UpTo ==
    ASSUME NEW T, 0 \in T, \A n \in Nat : n \in T => n + 1 \in T
    PROVE  Nat \subseteq T
<1> SUFFICES ASSUME NEW m \in Nat, m \notin T
             PROVE  FALSE
  OBVIOUS
<1> DEFINE S == {k \in Nat : k \notin T}
<1>1. PICK x \in S : \A y \in S : x <= y
  <2>1. S \in SUBSET Nat /\ S # {}
    OBVIOUS
  <2> QED
    BY <2>1, HasLeast, Zenon
<1>2. x # 0 /\ x - 1 \in Nat
  OBVIOUS
<1>3. x - 1 \in T
  BY <1>1, <1>2
<1>4. (x - 1) + 1 \in T
  BY <1>2, <1>3
<1> QED
  BY <1>4

(* A set of natural numbers with a bound has a greatest element.           *)
LEMMA HasGreatest ==
    ASSUME NEW n \in Nat, NEW S \in SUBSET (0 .. n), S # {}
    PROVE  Max(S) \in S /\ \A y \in S : y <= Max(S)
<1> DEFINE T == {n - k : k \in S}
<1>1. PICK x \in T : \A y \in T : x <= y
  <2>1. \A k \in S : n - k \in Nat
    OBVIOUS
  <2>2. T \in SUBSET Nat /\ T # {}
    BY <2>1
  <2> QED
    BY <2>2, HasLeast, Zenon
<1>2. PICK k \in S : x = n - k
  BY <1>1
<1>3. ASSUME NEW y \in S
      PROVE  y <= k
  <2>1. n - y \in T
    OBVIOUS
  <2>2. n - k <= n - y
    BY <1>1, <1>2, <2>1
  <2>3. y \in Nat /\ k \in Nat
    OBVIOUS
  <2> QED
    BY <2>2, <2>3
<1> QED
  BY <1>3 DEF Max

LEMMA LastOfInterval ==
    ASSUME NEW n \in Nat \ {0}
    PROVE  Max(1 .. n) = n /\ (1 .. n) \ {n} = 1 .. n - 1 /\ 1 .. n # {}
<1>1. 1 .. n \in SUBSET (0 .. n) /\ 1 .. n # {}
  OBVIOUS
<1>2. Max(1 .. n) \in 1 .. n /\ \A y \in 1 .. n : y <= Max(1 .. n)
  BY <1>1, HasGreatest, Zenon
<1>3. n \in 1 .. n
  OBVIOUS
<1> QED
  BY <1>1, <1>2, <1>3
-----------------------------------------------------------------------------
(* Folds.  FoldLeft is a function of the sets of indices; g is what is     *)
(* folded.                                                                 *)

StaysIn(A, B, g) == \A a \in A, b \in B : g[<<a, b>>] \in A
Folds(h, g, c, n, x) ==
    \A s \in SUBSET (1 .. n) :
       h[s] = IF s = {} THEN c ELSE g[<<h[s \ {Max(s)}], x[Max(s)]>>]
FoldsTo(t, g, c, n, x, y) ==
    t[0] = c /\ t[n] = y /\ \A k \in 1 .. n : t[k] = g[<<t[k - 1], x[k]>>]

(* There is such a function.                                               *)
LEMMA FoldIsDefined ==
    ASSUME NEW A, NEW B, NEW g, NEW c \in A, NEW n \in Nat, NEW x \in [1 .. n -> B],
           StaysIn(A, B, g)
    PROVE  \E h \in [SUBSET (1 .. n) -> A] : Folds(h, g, c, n, x)
<1> USE DEF StaysIn, Folds
<1> DEFINE Fits(h, k) == \A s \in SUBSET (1 .. k) :
                            h[s] = IF s = {} THEN c ELSE g[<<h[s \ {Max(s)}], x[Max(s)]>>]
           Done(k) == \E h \in [SUBSET (1 .. k) -> A] : Fits(h, k)
           T == {k \in Nat : k <= n => Done(k)}
<1>1. Done(0)
  <2> DEFINE h == [s \in SUBSET (1 .. 0) |-> c]
  <2>1. 1 .. 0 = {}
    OBVIOUS
  <2>2. h \in [SUBSET (1 .. 0) -> A]
    OBVIOUS
  <2>3. Fits(h, 0)
    BY <2>1
  <2> QED
    BY <2>2, <2>3
<1>2. ASSUME NEW k \in Nat, Done(k), k + 1 <= n
      PROVE  Done(k + 1)
  <2>1. PICK h \in [SUBSET (1 .. k) -> A] : Fits(h, k)
    BY <1>2
  <2> DEFINE e == [s \in SUBSET (1 .. k + 1) |->
                     IF k + 1 \in s THEN g[<<h[s \ {k + 1}], x[k + 1]>>] ELSE h[s]]
  <2>2. \A s \in SUBSET (1 .. k + 1) :
           /\ s \ {k + 1} \in SUBSET (1 .. k)
           /\ k + 1 \notin s => s \in SUBSET (1 .. k)
    OBVIOUS
  <2>3. e \in [SUBSET (1 .. k + 1) -> A]
    <3>1. x[k + 1] \in B
      BY <1>2
    <3>2. ASSUME NEW s \in SUBSET (1 .. k + 1)
          PROVE  (IF k + 1 \in s THEN g[<<h[s \ {k + 1}], x[k + 1]>>] ELSE h[s]) \in A
      <4>1. h[s \ {k + 1}] \in A
        BY <2>1, <2>2
      <4>2. k + 1 \notin s => h[s] \in A
        BY <2>1, <2>2
      <4> QED
        BY <3>1, <4>1, <4>2
    <3> QED
      BY <3>2
  <2>4. ASSUME NEW s \in SUBSET (1 .. k + 1)
        PROVE  e[s] = IF s = {} THEN c ELSE g[<<e[s \ {Max(s)}], x[Max(s)]>>]
    <3>1. CASE k + 1 \in s
      <4>1. Max(s) \in s /\ \A y \in s : y <= Max(s)
        <5>1. s \in SUBSET (0 .. k + 1) /\ s # {} /\ k + 1 \in Nat
          BY <3>1
        <5> QED
          BY <5>1, HasGreatest, Zenon
      <4>2. Max(s) = k + 1
        <5>1. Max(s) \in 1 .. k + 1 /\ k + 1 <= Max(s)
          BY <3>1, <4>1
        <5> QED
          BY <5>1
      <4>3. e[s \ {k + 1}] = h[s \ {k + 1}]
        BY <2>2
      <4> QED
        BY <3>1, <4>2, <4>3
    <3>2. CASE k + 1 \notin s /\ s # {}
      <4>1. s \in SUBSET (1 .. k)
        BY <2>2, <3>2
      <4>2. s \ {Max(s)} \in SUBSET (1 .. k) /\ s \ {Max(s)} \in SUBSET (1 .. k + 1)
            /\ k + 1 \notin s \ {Max(s)}
        BY <2>2, <3>2, <4>1, 1 .. k \subseteq 1 .. k + 1
      <4>3. e[s \ {Max(s)}] = h[s \ {Max(s)}] /\ e[s] = h[s]
        BY <3>2, <4>2
      <4> QED
        BY <2>1, <3>2, <4>1, <4>3
    <3>3. CASE s = {}
      <4>1. {} \in SUBSET (1 .. k) /\ k + 1 \notin {}
        OBVIOUS
      <4>2. e[s] = h[{}] /\ h[{}] = c
        BY <2>1, <3>3, <4>1
      <4> QED
        BY <3>3, <4>2
    <3> QED
      BY <3>1, <3>2, <3>3
  <2> HIDE DEF e
  <2> QED
    BY <2>3, <2>4
<1>3. Done(n)
  <2> HIDE DEF Done
  <2>1. 0 \in T
    BY <1>1
  <2>2. ASSUME NEW k \in Nat, k \in T
        PROVE  k + 1 \in T
    BY <1>2, <2>2
  <2>3. n \in T
    <3> HIDE DEF T
    <3> QED
      BY <2>1, <2>2, UpTo
  <2> QED
    BY <2>3
<1> QED
  BY <1>3

(* It folds one element after the other.                                   *)
LEMMA FoldInSteps ==
    ASSUME NEW A, NEW B, NEW g, NEW c \in A, NEW n \in Nat, NEW x \in [1 .. n -> B],
           StaysIn(A, B, g), NEW h, Folds(h, g, c, n, x)
    PROVE  \E t \in [0 .. n -> A] : FoldsTo(t, g, c, n, x, h[1 .. n])
<1> USE DEF StaysIn, Folds, FoldsTo
<1> DEFINE t == [k \in 0 .. n |-> h[1 .. k]]
           T == {k \in Nat : k <= n => h[1 .. k] \in A}
<1>1. h[1 .. 0] = c
  <2>1. 1 .. 0 = {} /\ {} \in SUBSET (1 .. n)
    OBVIOUS
  <2> QED
    BY <2>1
<1>2. ASSUME NEW k \in 1 .. n
      PROVE  h[1 .. k] = g[<<h[1 .. k - 1], x[k]>>]
  <2>1. Max(1 .. k) = k /\ (1 .. k) \ {k} = 1 .. k - 1 /\ 1 .. k # {}
    <3>1. k \in Nat \ {0}
      OBVIOUS
    <3> QED
      BY <3>1, LastOfInterval, Zenon
  <2>2. 1 .. k \in SUBSET (1 .. n)
    OBVIOUS
  <2> QED
    BY <2>1, <2>2
<1>3. 0 \in T
  BY <1>1
<1>4. ASSUME NEW k \in Nat, k \in T
      PROVE  k + 1 \in T
  <2> SUFFICES ASSUME k + 1 <= n
               PROVE  h[1 .. k + 1] \in A
    OBVIOUS
  <2>1. h[1 .. k] \in A /\ x[k + 1] \in B
    BY <1>4
  <2>2. h[1 .. k + 1] = g[<<h[1 .. k], x[k + 1]>>]
    <3>1. k + 1 \in 1 .. n /\ (k + 1) - 1 = k
      OBVIOUS
    <3> QED
      BY <1>2, <3>1
  <2> QED
    BY <2>1, <2>2
<1>5. Nat \subseteq T
  <2> HIDE DEF T
  <2> QED
    BY <1>3, <1>4, UpTo
<1>6. t \in [0 .. n -> A]
  BY <1>5
<1>7. t[0] = c /\ t[n] = h[1 .. n]
  BY <1>1
<1>8. ASSUME NEW k \in 1 .. n
      PROVE  t[k] = g[<<t[k - 1], x[k]>>]
  <2>1. k \in 0 .. n /\ k - 1 \in 0 .. n
    OBVIOUS
  <2> QED
    BY <1>2, <2>1
<1> HIDE DEF t
<1> QED
  BY <1>6, <1>7, <1>8

-----------------------------------------------------------------------------
(* The elements of a set of numbers in their order.                        *)

LEMMA RankGrows ==
    ASSUME NEW S \in SUBSET Nat, IsFiniteSet(S)
    PROVE  /\ \A k \in S : Rank(S, k) \in 1 .. Cardinality(S)
           /\ \A k, l \in S : k < l => Rank(S, k) < Rank(S, l)
<1> DEFINE To(k) == {j \in S : j <= k}
<1>1. \A k \in S : IsFiniteSet(To(k)) /\ Cardinality(To(k)) <= Cardinality(S)
  <2> TAKE k \in S
  <2>1. To(k) \in SUBSET S
    OBVIOUS
  <2> HIDE DEF To
  <2> QED
    BY <2>1, FS_Subset
<1>2. Cardinality(S) \in Nat /\ \A k \in S : Cardinality(To(k)) \in Nat
  BY <1>1, FS_CardinalityType
<1>3. ASSUME NEW k \in S
      PROVE  Rank(S, k) \in 1 .. Cardinality(S)
  <2>1. k \in To(k)
    OBVIOUS
  <2>2. Cardinality(To(k)) # 0
    <3> HIDE DEF To
    <3> QED
      BY <1>1, <2>1, FS_EmptySet
  <2>3. Rank(S, k) = Cardinality(To(k))
    BY DEF Rank
  <2> HIDE DEF To
  <2> QED
    BY <1>1, <1>2, <2>2, <2>3
<1>4. ASSUME NEW k \in S, NEW l \in S, k < l
      PROVE  Rank(S, k) < Rank(S, l)
  <2>1. To(k) \in SUBSET To(l) /\ l \in To(l) /\ l \notin To(k)
    <3>1. k \in Nat /\ l \in Nat /\ S \subseteq Nat
      OBVIOUS
    <3>2. \A j \in Nat : j <= k => j <= l
      BY <1>4, <3>1
    <3>3. l <= l /\ ~(l <= k)
      BY <1>4, <3>1
    <3> QED
      BY <3>1, <3>2, <3>3
  <2>2. Rank(S, k) = Cardinality(To(k)) /\ Rank(S, l) = Cardinality(To(l))
    BY DEF Rank
  <2> HIDE DEF To
  <2>3. Cardinality(To(k)) <= Cardinality(To(l)) /\ Cardinality(To(k)) # Cardinality(To(l))
    BY <1>1, <2>1, FS_Subset
  <2> QED
    BY <1>2, <2>2, <2>3
<1> QED
  BY <1>3, <1>4

(* Each rank is that of one element.                                       *)
LEMMA InOrderIsInverse ==
    ASSUME NEW S \in SUBSET Nat, IsFiniteSet(S)
    PROVE  /\ Cardinality(S) \in Nat
           /\ InOrder(S) \in [1 .. Cardinality(S) -> S]
           /\ \A n \in 1 .. Cardinality(S) : Rank(S, InOrder(S)[n]) = n
           /\ \A k \in S : /\ Rank(S, k) \in 1 .. Cardinality(S)
                           /\ InOrder(S)[Rank(S, k)] = k
<1> DEFINE N == Cardinality(S)
           R == [k \in S |-> Rank(S, k)]
<1>1. N \in Nat
  BY FS_CardinalityType
<1>2. /\ \A k \in S : Rank(S, k) \in 1 .. N
      /\ \A k, l \in S : k < l => Rank(S, k) < Rank(S, l)
  BY RankGrows
<1>3. \A k, l \in S : Rank(S, k) = Rank(S, l) => k = l
  <2> SUFFICES ASSUME NEW k \in S, NEW l \in S, Rank(S, k) = Rank(S, l), k # l
               PROVE  FALSE
    OBVIOUS
  <2>1. Rank(S, k) \in 1 .. N /\ k \in Nat /\ l \in Nat
    BY <1>2
  <2> QED
    BY <1>2, <2>1
<1>4. R \in Injection(S, 1 .. N)
  BY <1>2, <1>3 DEF Injection, IsInjective
<1>5. IsFiniteSet(1 .. N) /\ Cardinality(1 .. N) = N
  BY <1>1, FS_Interval
<1>6. R \in Surjection(S, 1 .. N)
  <2> HIDE DEF R, N
  <2> QED
    BY <1>4, <1>5, FS_Injection DEF N
<1>7. ASSUME NEW n \in 1 .. N
      PROVE  InOrder(S)[n] \in S /\ Rank(S, InOrder(S)[n]) = n
  <2>1. \E k \in S : Rank(S, k) = n
    <3>1. \E k \in S : R[k] = n
      <4> HIDE DEF R
      <4> QED
        BY <1>6 DEF Surjection
    <3> QED
      BY <3>1
  <2>2. InOrder(S)[n] = CHOOSE k \in S : Rank(S, k) = n
    BY DEF InOrder
  <2> QED
    BY <2>1, <2>2
<1>8. InOrder(S) \in [1 .. N -> S]
  BY <1>7 DEF InOrder
<1> QED
  BY <1>1, <1>2, <1>3, <1>7, <1>8

LEMMA NoneInOrder == InOrder({}) = <<>>
  BY FS_EmptySet DEF InOrder

LEMMA IsAppended ==
    ASSUME NEW A, NEW s \in Seq(A), NEW t \in Seq(A), NEW x \in A,
           Len(t) = Len(s) + 1, \A n \in 1 .. Len(s) : t[n] = s[n], t[Len(s) + 1] = x
    PROVE  t = Append(s, x)
<1>1. /\ Append(s, x) \in Seq(A) /\ Len(Append(s, x)) = Len(s) + 1
      /\ \A n \in 1 .. Len(s) : Append(s, x)[n] = s[n]
      /\ Append(s, x)[Len(s) + 1] = x
  OBVIOUS
<1>2. \A n \in 1 .. Len(s) + 1 : n \in 1 .. Len(s) \/ n = Len(s) + 1
  OBVIOUS
<1>3. \A n \in 1 .. Len(t) : t[n] = Append(s, x)[n]
  BY <1>1, <1>2
<1> QED
  BY <1>1, <1>3, SeqEqual

(* A greater element comes last.                                           *)
LEMMA OneMoreInOrder ==
    ASSUME NEW S \in SUBSET Nat, IsFiniteSet(S), NEW m \in Nat, \A k \in S : k < m
    PROVE  /\ InOrder(S \cup {m}) = Append(InOrder(S), m)
           /\ IsFiniteSet(S \cup {m}) /\ Cardinality(S \cup {m}) = Cardinality(S) + 1
<1> DEFINE T == S \cup {m}
           N == Cardinality(S)
<1>1. m \notin S
  OBVIOUS
<1>2. IsFiniteSet(T) /\ Cardinality(T) = N + 1
  BY <1>1, FS_AddElement
<1>3. T \in SUBSET Nat
  OBVIOUS
<1>4. /\ N \in Nat /\ InOrder(S) \in [1 .. N -> S]
      /\ \A n \in 1 .. N : Rank(S, InOrder(S)[n]) = n
  BY InOrderIsInverse
<1>5. /\ InOrder(T) \in [1 .. N + 1 -> T]
      /\ \A k \in T : InOrder(T)[Rank(T, k)] = k
  <2> HIDE DEF T
  <2> QED
    BY <1>2, <1>3, InOrderIsInverse
<1>6. ASSUME NEW n \in 1 .. N
      PROVE  InOrder(T)[n] = InOrder(S)[n]
  <2> DEFINE k == InOrder(S)[n]
  <2>1. k \in S
    BY <1>4
  <2>2. {j \in T : j <= k} = {j \in S : j <= k}
    <3> HIDE DEF k
    <3>1. ~(m <= k)
      BY <2>1
    <3> QED
      BY <3>1
  <2>3. Rank(T, k) = n
    BY <1>4, <2>2 DEF Rank
  <2> QED
    BY <1>5, <2>1, <2>3
<1>7. InOrder(T)[N + 1] = m
  <2>1. {j \in T : j <= m} = T
    <3>1. \A j \in T : j <= m
      OBVIOUS
    <3> HIDE DEF T
    <3> QED
      BY <3>1
  <2>2. Rank(T, m) = N + 1
    BY <1>2, <2>1 DEF Rank
  <2> QED
    BY <1>5, <2>2
<1>8. InOrder(T) = Append(InOrder(S), m)
  <2> HIDE DEF T, N
  <2>1. InOrder(S) \in [1 .. N -> T] /\ m \in T
    BY <1>4 DEF T
  <2>2. InOrder(S) \in Seq(T) /\ Len(InOrder(S)) = N
    BY <1>4, <2>1
  <2>3. InOrder(T) \in Seq(T) /\ Len(InOrder(T)) = N + 1
    BY <1>4, <1>5
  <2> QED
    BY <1>6, <1>7, <2>1, <2>2, <2>3, IsAppended
<1> QED
  BY <1>2, <1>8

(* The last of them is the greatest, and no other is.                      *)
LEMMA LastInOrder ==
    ASSUME NEW S \in SUBSET Nat, IsFiniteSet(S), NEW m \in 1 .. Cardinality(S)
    PROVE  (\A i \in S : i <= InOrder(S)[m]) <=> m = Cardinality(S)
<1> DEFINE N  == Cardinality(S)
           at == InOrder(S)
<1>1. N \in Nat /\ at \in [1 .. N -> S]
  BY InOrderIsInverse
<1>2. /\ \A n \in 1 .. N : Rank(S, at[n]) = n
      /\ \A k \in S : Rank(S, k) \in 1 .. N
      /\ \A k, l \in S : k < l => Rank(S, k) < Rank(S, l)
  BY InOrderIsInverse, RankGrows
<1> HIDE DEF N, at
<1>3. m \in Nat /\ N \in Nat /\ m <= N /\ N \in 1 .. N /\ m \in 1 .. N
  BY <1>1 DEF N
<1>4. /\ at[m] \in S /\ at[N] \in S /\ at[m] \in Nat /\ at[N] \in Nat
      /\ Rank(S, at[m]) = m /\ Rank(S, at[N]) = N
  BY <1>1, <1>2, <1>3
<1>5. ASSUME NEW i \in S
      PROVE  i <= at[N]
  <2>1. Rank(S, i) \in 1 .. N /\ i \in Nat
    BY <1>2
  <2>2. ~(at[N] < i)
    BY <1>2, <1>3, <1>4, <2>1
  <2> QED
    BY <1>4, <2>1, <2>2
<1>6. at[N] <= at[m] => at[m] = at[N]
  BY <1>4, <1>5
<1> QED
  BY <1>4, <1>5, <1>6 DEF N, at
=============================================================================
