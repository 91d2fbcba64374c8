--------------------------- MODULE Console_proofs ---------------------------
(***************************************************************************)
(* Proofs about Console for every directory of profiles, every shelf of    *)
(* scripts and any number of results: what the database thread and the     *)
(* main thread load is the profile shown as active and is released, and a  *)
(* script that ended well is the last one executed.                        *)
(***************************************************************************)
EXTENDS Console, InductionLemmas, SequenceTheorems, TLAPS

(* Where main is before any interrupt, and in core_deinit.                *)
MainPcs  == {"start", "created", "calling", "init", "prompt", "once", "unload", "unloading",
             "load", "parsed"}
ReleasePcs == {"base", "baseFreed", "codb", "codbFreed", "reset", "gone"}
DeinitPcs  == {"cancel", "wait", "joining", "joined"} \cup ReleasePcs

(* The databases: their types; which profile is active, and where main is  *)
(* while it changes it.  The thread stores the CiA 301 profile once, in its*)
(* last step.                                                              *)
CodbTypes ==
    /\ ds301 \in BOOLEAN /\ codb \in 0 .. Len(Jsons) /\ active_no \in 0 .. Len(Jsons)
    /\ file_no \in 0 .. Len(Jsons)
    /\ init_th \in BOOLEAN /\ is_init_cancelled \in BOOLEAN /\ trees \in Nat
    /\ dbpc \in {"none", "start", "read", "check", "parse", "ended"}
    /\ pc \in PcTypes
    /\ interrupted \in {"no", "between"} \cup Halfway
CodbMain ==
    /\ LoadedIsActive
    /\ ds301 => BaseParses /\ ThreadEnded
    /\ pc = "start" => dbpc = "none" /\ ~ds301 /\ codb = NotLoaded /\ ~init_th
    /\ pc \in MainPcs => interrupted = "no"
    /\ pc \in {"load", "parsed"} => file_no # NotLoaded /\ codb = NotLoaded
    /\ BaseFreed => ThreadEnded

(* What is still referred to and was not freed is allocated, and nothing   *)
(* else unless an interrupt came halfway.                                  *)
Held == Count(BaseInUse /\ ~BaseFreed) + Count(CodbInUse /\ ~CodbFreed) + Count(pc = "parsed")
CodbTrees == trees >= Held /\ NoTreeLeaked

(* How far codb_deinit has come.  But for an interrupt halfway there is a  *)
(* pointer to every thread that runs once main goes on.                    *)
CodbEnd ==
    /\ interrupted \notin Halfway =>
          /\ ThreadEnded \/ init_th \/ pc \in {"created", "calling"}
          /\ pc \in ReleasePcs \cup {"joined"} => ThreadEnded
          /\ pc \in {"codb", "codbFreed", "reset", "gone"} => ~ds301
    /\ pc \in ReleasePcs => ~init_th
    /\ pc \in {"reset", "gone"} => codb = NotLoaded

CodbInv == CodbTypes /\ CodbMain /\ CodbTrees /\ CodbEnd

(* The results: a sequence of different tests, none of them reported, no   *)
(* longer than the number of them made, empty before the first script and  *)
(* once core_deinit has cleared it.                                        *)
Results == [test : Tests, suite : Suites \cup {NoSuite}]
Distinct(s) == \A k, l \in DOMAIN s : s[k].test = s[l].test => k = l
ReportInv ==
    /\ results \in Seq(Results) /\ made \in 0 .. MaxResults /\ Len(results) <= made
    /\ pc \in {"start"} \cup DeinitPcs => results = <<>>
ReportedInv ==
    /\ Distinct(results) /\ reported \in [Tests -> Nat] /\ InOneReport
    /\ \A k \in DOMAIN results : results[k].test <= made /\ reported[results[k].test] = 0
    /\ \A t \in Tests : t > made => reported[t] = 0

(* The scripts.                                                            *)
ScriptInv ==
    /\ place \in Direct .. UserDirectory /\ is_script_running \in BOOLEAN /\ is_abort \in BOOLEAN
    /\ spc \in {"idle", "search", "running", "finish"} /\ status \in {"ok", "error", "not found"}
    /\ executed \in Seq({"ok", "error"})
    /\ SuccessEndsSearch

IInv == CodbInv /\ ReportInv /\ ReportedInv /\ ScriptInv

-----------------------------------------------------------------------------
(* The sort of the results.                                                *)
LEMMA HashType == \A r \in Results : SuiteOf(r) \in Suites /\ HashOf(r) \in Nat
  BY ReportAssumption DEF Results, SuiteOf, HashOf

LEMMA ExchangeType ==
    ASSUME NEW n \in Nat, NEW s \in [1 .. n -> Results], NEW i \in 1 .. n, NEW j \in 1 .. n
    PROVE  Exchange(s, i, j) \in [1 .. n -> Results]
BY DEF Exchange

(* A place is compared with each later one in turn.                        *)
LEMMA ExchangesInSteps ==
    ASSUME NEW n \in Nat, NEW s \in [1 .. n -> Results], NEW i \in 1 .. n
    PROVE  \E t \in [0 .. n - i -> [1 .. n -> Results]] :
              /\ t[0] = s /\ t[n - i] = ExchangeWithLater(s, i)
              /\ \A k \in 1 .. n - i : t[k] = Exchange(t[k - 1], i, i + k)
<1> DEFINE A == [1 .. n -> Results]
           B == 1 .. n
           m == n - i
           x == [k \in 1 .. m |-> i + k]
           Body(h) == [S \in SUBSET (1 .. m) |->
                         IF S = {} THEN s ELSE Exchange(h[S \ {Max(S)}], i, x[Max(S)])]
           H == CHOOSE h : h = Body(h)
<1>1. m \in Nat /\ Len(s) = n
  OBVIOUS
<1>2. x \in [1 .. m -> B] /\ DOMAIN x = 1 .. m
  OBVIOUS
<1>3. \A S \in SUBSET (1 .. m) : S # {} =>
         Max(S) \in 1 .. m /\ S \ {Max(S)} \in SUBSET (1 .. m)
  <2> HIDE DEF m
  <2>1. \A S \in SUBSET (1 .. m) : S \in SUBSET (0 .. m)
    BY <1>1
  <2>2. \A S \in SUBSET (1 .. m) : S # {} => Max(S) \in S
    BY <1>1, <2>1, HasGreatest
  <2> QED
    BY <2>2
<1>4. \A a \in A, b \in B : Exchange(a, i, b) \in A
  BY ExchangeType
<1>5. ExchangeWithLater(s, i) = H[1 .. m]
  <2>1. Len(s) - i = m
    BY <1>1
  <2>2. ExchangeWithLater(s, i) = FoldLeft(LAMBDA t, j : Exchange(t, i, j), s, x)
    BY <2>1 DEF ExchangeWithLater
  <2> HIDE DEF x, m
  <2> QED
    BY <1>2, <2>2 DEF FoldLeft, MapThenFoldSet
<1> HIDE DEF A, B, x, m
<1>6. H = Body(H)
  <2> DEFINE g == [p \in A \X B |-> Exchange(p[1], i, p[2])]
  <2>1. \A a \in A, b \in B : g[<<a, b>>] = Exchange(a, i, b)
    OBVIOUS
  <2>2. StaysIn(A, B, g)
    BY <1>4, <2>1 DEF StaysIn
  <2>3. s \in A
    BY DEF A
  <2> HIDE DEF g
  <2>4. PICK h \in [SUBSET (1 .. m) -> A] : Folds(h, g, s, m, x)
    BY <1>1, <1>2, <2>2, <2>3, FoldIsDefined
  <2>5. \A S \in SUBSET (1 .. m) :
           h[S] = IF S = {} THEN s ELSE Exchange(h[S \ {Max(S)}], i, x[Max(S)])
    BY <1>2, <1>3, <2>1, <2>4 DEF Folds
  <2>6. h = Body(h)
    BY <2>4, <2>5
  <2> HIDE DEF Body
  <2> QED
    BY <2>6
<1>7. \A S \in SUBSET (1 .. m) :
         H[S] = IF S = {} THEN s ELSE Exchange(H[S \ {Max(S)}], i, x[Max(S)])
  <2> DEFINE K == H
  <2> HIDE DEF K
  <2>1. K = Body(K)
    BY <1>6 DEF K
  <2>2. \A S \in SUBSET (1 .. m) :
         K[S] = IF S = {} THEN s ELSE Exchange(K[S \ {Max(S)}], i, x[Max(S)])
    BY <2>1
  <2> QED
    BY <2>2 DEF K
<1> HIDE DEF H
<1>8. PICK t \in [0 .. m -> A] :
         /\ t[0] = s /\ t[m] = H[1 .. m]
         /\ \A k \in 1 .. m : t[k] = Exchange(t[k - 1], i, x[k])
  <2> DEFINE C == A \cup {H[S] : S \in SUBSET (1 .. m)}
             g == [p \in C \X B |-> Exchange(p[1], i, p[2])]
  <2>1. \A a \in C, b \in B : g[<<a, b>>] = Exchange(a, i, b)
    OBVIOUS
  <2>2. StaysIn(A, B, g)
    BY <1>4, <2>1 DEF StaysIn
  <2>3. s \in A
    BY DEF A
  <2>4. \A S \in SUBSET (1 .. m) : H[S] \in C
    OBVIOUS
  <2>5. A \subseteq C
    OBVIOUS
  <2> HIDE DEF g, C
  <2>6. Folds(H, g, s, m, x)
    BY <1>2, <1>3, <1>7, <2>1, <2>4 DEF Folds
  <2>7. \E t \in [0 .. m -> A] : FoldsTo(t, g, s, m, x, H[1 .. m])
    BY <1>1, <1>2, <2>2, <2>3, <2>6, FoldInSteps
  <2>8. \A t \in [0 .. m -> A], k \in 1 .. m :
           g[<<t[k - 1], x[k]>>] = Exchange(t[k - 1], i, x[k])
    <3>1. \A t \in [0 .. m -> A], k \in 1 .. m : t[k - 1] \in C /\ x[k] \in B
      BY <1>1, <1>2, <2>5
    <3> QED
      BY <2>1, <3>1
  <2> QED
    BY <2>7, <2>8 DEF FoldsTo
<1>9. \A k \in 1 .. m : x[k] = i + k
  BY DEF x
<1> QED
  BY <1>5, <1>8, <1>9 DEF A, m

(* It ends with the least of them in its place.                            *)
Rearranged(n, s, t) ==
    /\ \A k \in 1 .. n : \E l \in 1 .. n : t[l] = s[k]
    /\ \A l \in 1 .. n : \E k \in 1 .. n : t[l] = s[k]
    /\ Distinct(s) => Distinct(t)

LEMMA ExchangeRearranges ==
    ASSUME NEW n \in Nat, NEW s \in [1 .. n -> Results], NEW i \in 1 .. n, NEW j \in 1 .. n
    PROVE  Rearranged(n, s, Exchange(s, i, j))
<1> DEFINE t == Exchange(s, i, j)
<1>1. CASE t = s
  <2>1. Rearranged(n, s, s)
    BY DEF Rearranged
  <2> QED
    BY <1>1, <2>1
<1>2. CASE t = [s EXCEPT ![i] = s[j], ![j] = s[i]]
  <2> HIDE DEF t
  <2>1. /\ t \in [1 .. n -> Results] /\ t[i] = s[j] /\ t[j] = s[i]
        /\ \A k \in 1 .. n : k # i /\ k # j => t[k] = s[k]
    BY <1>2
  <2>2. Distinct(s) => Distinct(t)
    BY <2>1 DEF Distinct
  <2>3. ASSUME NEW k \in 1 .. n
        PROVE  /\ \E l \in 1 .. n : t[l] = s[k]
               /\ \E l \in 1 .. n : t[k] = s[l]
    <3>1. CASE k = i
      BY <2>1, <3>1
    <3>2. CASE k = j
      BY <2>1, <3>2
    <3>3. CASE k # i /\ k # j
      BY <2>1, <3>3
    <3> QED
      BY <3>1, <3>2, <3>3
  <2> QED
    BY <2>2, <2>3 DEF Rearranged, t
<1> QED
  BY <1>1, <1>2 DEF Exchange

LEMMA RearrangedTwice ==
    ASSUME NEW n \in Nat, NEW s, NEW t, NEW u, Rearranged(n, s, t), Rearranged(n, t, u)
    PROVE  Rearranged(n, s, u)
<1>1. \A k \in 1 .. n : \E l \in 1 .. n : u[l] = s[k]
  BY DEF Rearranged
<1>2. \A l \in 1 .. n : \E k \in 1 .. n : u[l] = s[k]
  BY DEF Rearranged
<1> QED
  BY <1>1, <1>2 DEF Rearranged

(* Of the places from i on, i gets the least; those before keep theirs.    *)
LeastAt(n, s, i, t) ==
    /\ t \in [1 .. n -> Results] /\ Rearranged(n, s, t)
    /\ \A p \in 1 .. n : p < i => t[p] = s[p]
    /\ \A p \in 1 .. n : p >= i => \E q \in 1 .. n : q >= i /\ t[p] = s[q]
    /\ \A p \in 1 .. n : p >= i => HashOf(t[i]) <= HashOf(t[p])
LEMMA LeastComesFirst ==
    ASSUME NEW n \in Nat, NEW s \in [1 .. n -> Results], NEW i \in 1 .. n
    PROVE  LeastAt(n, s, i, ExchangeWithLater(s, i))
<1> DEFINE m == n - i
           t == ExchangeWithLater(s, i)
<1>1. m \in Nat
  OBVIOUS
<1> HIDE DEF t
<1>2. PICK u \in [0 .. m -> [1 .. n -> Results]] :
         /\ u[0] = s /\ u[m] = t
         /\ \A k \in 1 .. m : u[k] = Exchange(u[k - 1], i, i + k)
  BY ExchangesInSteps DEF t
<1> DEFINE Same(v)  == \A p \in 1 .. n : p < i => v[p] = s[p]
           Later(v) == \A p \in 1 .. n : p >= i => \E q \in 1 .. n : q >= i /\ v[p] = s[q]
           Least(v, k) == \A p \in 1 .. n : p >= i /\ p <= i + k => HashOf(v[i]) <= HashOf(v[p])
           Done(k) == Rearranged(n, s, u[k]) /\ Same(u[k]) /\ Later(u[k]) /\ Least(u[k], k)
           T == {k \in Nat : k <= m => Done(k)}
<1>3. Done(0)
  <2>1. u[0] = s
    BY <1>2
  <2>2. Rearranged(n, s, s)
    BY DEF Rearranged
  <2>3. Same(s) /\ Later(s)
    OBVIOUS
  <2>4. Least(s, 0)
    <3>1. \A p \in 1 .. n : p >= i /\ p <= i + 0 => p = i
      OBVIOUS
    <3>2. HashOf(s[i]) \in Nat
      BY HashType
    <3> QED
      BY <3>1, <3>2
  <2> QED
    BY <2>1, <2>2, <2>3, <2>4
<1>4. ASSUME NEW k \in Nat, k + 1 <= m, Done(k)
      PROVE  Done(k + 1)
  <2> DEFINE v == u[k]
             w == u[k + 1]
             j == i + (k + 1)
  <2>1. v \in [1 .. n -> Results] /\ w \in [1 .. n -> Results]
    <3>1. k \in 0 .. m /\ k + 1 \in 0 .. m
      BY <1>1, <1>4
    <3> HIDE DEF m
    <3> QED
      BY <1>2, <3>1
  <2>2. w = Exchange(v, i, j)
    <3>1. k + 1 \in 1 .. m /\ (k + 1) - 1 = k
      BY <1>1, <1>4
    <3> QED
      BY <1>2, <3>1
  <2>3. j \in 1 .. n /\ j > i
    BY <1>4
  <2>4. Rearranged(n, s, v) /\ Same(v) /\ Later(v) /\ Least(v, k)
    BY <1>4
  <2>10. \A p \in 1 .. n : HashOf(v[p]) \in Nat /\ HashOf(w[p]) \in Nat
    BY <2>1, HashType
  <2> HIDE DEF v, w, j
  <2>5. Rearranged(n, s, w)
    BY <2>1, <2>2, <2>3, <2>4, ExchangeRearranges, RearrangedTwice
  <2>6. CASE HashOf(v[i]) > HashOf(v[j])
    <3>1. /\ w[i] = v[j] /\ w[j] = v[i]
          /\ \A p \in 1 .. n : p # i /\ p # j => w[p] = v[p]
      BY <2>1, <2>2, <2>3, <2>6 DEF Exchange
    <3>2. Same(w)
      <4>1. \A p \in 1 .. n : p < i => p # i /\ p # j
        BY <2>3
      <4> QED
        BY <2>4, <3>1, <4>1
    <3>3. Later(w)
      <4>1. ASSUME NEW p \in 1 .. n, p >= i
            PROVE  \E q \in 1 .. n : q >= i /\ w[p] = v[q]
        <5>1. i >= i /\ j >= i
          BY <2>3
        <5> QED
          BY <2>3, <3>1, <4>1, <5>1
      <4> SUFFICES ASSUME NEW p \in 1 .. n, p >= i
                   PROVE  \E q \in 1 .. n : q >= i /\ w[p] = s[q]
        OBVIOUS
      <4>2. PICK q \in 1 .. n : q >= i /\ w[p] = v[q]
        BY <4>1
      <4>3. PICK r \in 1 .. n : r >= i /\ v[q] = s[r]
        BY <2>4, <4>2
      <4> QED
        BY <4>2, <4>3
    <3>4. ASSUME NEW p \in 1 .. n, p >= i, p <= i + (k + 1)
          PROVE  HashOf(w[i]) <= HashOf(w[p])
      <4>1. CASE p = i
        BY <2>10, <4>1
      <4>2. CASE p = j
        BY <2>3, <2>6, <2>10, <3>1, <4>2
      <4>3. CASE p # i /\ p # j
        <5>1. p <= i + k
          BY <3>4, <4>3 DEF j
        <5>2. HashOf(v[i]) <= HashOf(v[p])
          BY <2>4, <3>4, <5>1
        <5> QED
          BY <2>3, <2>6, <2>10, <3>1, <4>3, <5>2
      <4> QED
        BY <4>1, <4>2, <4>3
    <3> QED
      BY <2>5, <3>2, <3>3, <3>4 DEF w
  <2>7. CASE ~(HashOf(v[i]) > HashOf(v[j]))
    <3>1. w = v
      BY <2>2, <2>7 DEF Exchange
    <3>2. ASSUME NEW p \in 1 .. n, p >= i, p <= i + (k + 1)
          PROVE  HashOf(w[i]) <= HashOf(w[p])
      <4>1. CASE p = j
        BY <2>3, <2>7, <2>10, <3>1, <4>1
      <4>2. CASE p # j
        <5>1. p <= i + k
          BY <3>2, <4>2 DEF j
        <5> QED
          BY <2>4, <3>1, <3>2, <5>1
      <4> QED
        BY <4>1, <4>2
    <3>3. Same(w) /\ Later(w)
      BY <2>4, <3>1
    <3> QED
      BY <2>5, <3>2, <3>3 DEF w
  <2> QED
    BY <2>6, <2>7
<1>5. Done(m)
  <2> HIDE DEF Done
  <2>1. 0 \in T /\ \A k \in Nat : k \in T => k + 1 \in T
    <3>1. \A k \in Nat : k + 1 <= m => k <= m
      BY <1>1
    <3> QED
      BY <1>3, <1>4, <3>1
  <2> HIDE DEF T
  <2>2. m \in T
    BY <1>1, <2>1, UpTo
  <2> QED
    BY <1>1, <2>2 DEF T
<1>6. t \in [1 .. n -> Results]
  BY <1>1, <1>2
<1>7. Rearranged(n, s, t) /\ Same(t) /\ Later(t) /\ Least(t, m)
  BY <1>2, <1>5
<1>8. \A p \in 1 .. n : p >= i => p <= i + m
  OBVIOUS
<1> QED
  BY <1>6, <1>7, <1>8 DEF LeastAt, t

LEMMA ExchangeWithLaterType ==
    ASSUME NEW n \in Nat, NEW s \in [1 .. n -> Results], NEW i \in 1 .. n
    PROVE  ExchangeWithLater(s, i) \in [1 .. n -> Results]
BY LeastComesFirst DEF LeastAt

(* The sort goes on to the last place.                                     *)
LEMMA SortInSteps ==
    ASSUME NEW n \in Nat, NEW s \in [1 .. n -> Results]
    PROVE  \E t \in [0 .. n -> [1 .. n -> Results]] :
              /\ t[0] = s /\ t[n] = SortResults(s)
              /\ \A k \in 1 .. n : t[k] = ExchangeWithLater(t[k - 1], k)
<1> DEFINE A == [1 .. n -> Results]
           B == 1 .. n
           x == [i \in 1 .. n |-> i]
           Body(h) == [S \in SUBSET (1 .. n) |->
                         IF S = {} THEN s ELSE ExchangeWithLater(h[S \ {Max(S)}], x[Max(S)])]
           H == CHOOSE h : h = Body(h)
<1>1. n \in Nat /\ Len(s) = n
  OBVIOUS
<1>2. x \in [1 .. n -> B] /\ DOMAIN x = 1 .. n
  OBVIOUS
<1>3. \A S \in SUBSET (1 .. n) : S # {} =>
         Max(S) \in 1 .. n /\ S \ {Max(S)} \in SUBSET (1 .. n)
  <2>1. \A S \in SUBSET (1 .. n) : S \in SUBSET (0 .. n)
    BY <1>1
  <2>2. \A S \in SUBSET (1 .. n) : S # {} => Max(S) \in S
    BY <1>1, <2>1, HasGreatest
  <2> QED
    BY <2>2
<1>4. \A a \in A, b \in B : ExchangeWithLater(a, b) \in A
  BY ExchangeWithLaterType
<1>5. SortResults(s) = H[1 .. n]
  <2>1. SortResults(s) = FoldLeft(ExchangeWithLater, s, x)
    BY <1>1 DEF SortResults
  <2> HIDE DEF x
  <2> QED
    BY <1>2, <2>1 DEF FoldLeft, MapThenFoldSet
<1> HIDE DEF A, B, x
<1>6. H = Body(H)
  <2> DEFINE g == [p \in A \X B |-> ExchangeWithLater(p[1], p[2])]
  <2>1. \A a \in A, b \in B : g[<<a, b>>] = ExchangeWithLater(a, b)
    OBVIOUS
  <2>2. StaysIn(A, B, g)
    BY <1>4, <2>1 DEF StaysIn
  <2>3. s \in A
    BY DEF A
  <2> HIDE DEF g
  <2>4. PICK h \in [SUBSET (1 .. n) -> A] : Folds(h, g, s, n, x)
    BY <1>1, <1>2, <2>2, <2>3, FoldIsDefined
  <2>5. \A S \in SUBSET (1 .. n) :
           h[S] = IF S = {} THEN s ELSE ExchangeWithLater(h[S \ {Max(S)}], x[Max(S)])
    BY <1>2, <1>3, <2>1, <2>4 DEF Folds
  <2>6. h = Body(h)
    BY <2>4, <2>5
  <2> HIDE DEF Body
  <2> QED
    BY <2>6
<1>7. \A S \in SUBSET (1 .. n) :
         H[S] = IF S = {} THEN s ELSE ExchangeWithLater(H[S \ {Max(S)}], x[Max(S)])
  <2> DEFINE K == H
  <2> HIDE DEF K
  <2>1. K = Body(K)
    BY <1>6 DEF K
  <2>2. \A S \in SUBSET (1 .. n) :
         K[S] = IF S = {} THEN s ELSE ExchangeWithLater(K[S \ {Max(S)}], x[Max(S)])
    BY <2>1
  <2> QED
    BY <2>2 DEF K
<1> HIDE DEF H
<1>8. PICK t \in [0 .. n -> A] :
         /\ t[0] = s /\ t[n] = H[1 .. n]
         /\ \A k \in 1 .. n : t[k] = ExchangeWithLater(t[k - 1], x[k])
  <2> DEFINE C == A \cup {H[S] : S \in SUBSET (1 .. n)}
             g == [p \in C \X B |-> ExchangeWithLater(p[1], p[2])]
  <2>1. \A a \in C, b \in B : g[<<a, b>>] = ExchangeWithLater(a, b)
    OBVIOUS
  <2>2. StaysIn(A, B, g)
    BY <1>4, <2>1 DEF StaysIn
  <2>3. s \in A
    BY DEF A
  <2>4. \A S \in SUBSET (1 .. n) : H[S] \in C
    OBVIOUS
  <2>5. A \subseteq C
    OBVIOUS
  <2> HIDE DEF g, C
  <2>6. Folds(H, g, s, n, x)
    BY <1>2, <1>3, <1>7, <2>1, <2>4 DEF Folds
  <2>7. \E t \in [0 .. n -> A] : FoldsTo(t, g, s, n, x, H[1 .. n])
    BY <1>1, <1>2, <2>2, <2>3, <2>6, FoldInSteps
  <2>8. \A t \in [0 .. n -> A], k \in 1 .. n :
           g[<<t[k - 1], x[k]>>] = ExchangeWithLater(t[k - 1], x[k])
    <3>1. \A t \in [0 .. n -> A], k \in 1 .. n : t[k - 1] \in C /\ x[k] \in B
      BY <1>1, <1>2, <2>5
    <3> QED
      BY <2>1, <3>1
  <2> QED
    BY <2>7, <2>8 DEF FoldsTo
<1>9. \A k \in 1 .. n : x[k] = k
  BY DEF x
<1> QED
  BY <1>5, <1>8, <1>9 DEF A

SortedAs(n, s, t) ==
    /\ t \in [1 .. n -> Results] /\ Rearranged(n, s, t)
    /\ \A k, l \in 1 .. n : k < l => HashOf(t[k]) <= HashOf(t[l])

LEMMA SortSorts ==
    ASSUME NEW n \in Nat, NEW s \in [1 .. n -> Results]
    PROVE  SortedAs(n, s, SortResults(s))
<1> DEFINE t == SortResults(s)
<1> HIDE DEF t
<1>1. PICK u \in [0 .. n -> [1 .. n -> Results]] :
         /\ u[0] = s /\ u[n] = t
         /\ \A k \in 1 .. n : u[k] = ExchangeWithLater(u[k - 1], k)
  BY SortInSteps DEF t
<1> DEFINE Sorted(v, i) == \A k, l \in 1 .. n : k <= i /\ k < l => HashOf(v[k]) <= HashOf(v[l])
           Done(i) == Rearranged(n, s, u[i]) /\ Sorted(u[i], i)
           T == {i \in Nat : i <= n => Done(i)}
<1>2. Done(0)
  <2>1. Rearranged(n, s, s)
    BY DEF Rearranged
  <2> QED
    BY <1>1, <2>1
<1>3. ASSUME NEW k \in Nat, k + 1 <= n, Done(k)
      PROVE  Done(k + 1)
  <2> DEFINE i == k + 1
             v == u[k]
             w == u[i]
  <2>1. v \in [1 .. n -> Results] /\ w \in [1 .. n -> Results] /\ i \in 1 .. n
    BY <1>3
  <2>2. w = ExchangeWithLater(v, i)
    <3>1. k + 1 \in 1 .. n /\ (k + 1) - 1 = k
      BY <1>3
    <3> QED
      BY <1>1, <3>1
  <2>3. Rearranged(n, s, v) /\ Sorted(v, k)
    BY <1>3
  <2> HIDE DEF v, w
  <2>4. /\ Rearranged(n, v, w)
        /\ \A p \in 1 .. n : p < i => w[p] = v[p]
        /\ \A p \in 1 .. n : p >= i => \E q \in 1 .. n : q >= i /\ w[p] = v[q]
        /\ \A p \in 1 .. n : p >= i => HashOf(w[i]) <= HashOf(w[p])
    <3>1. LeastAt(n, v, i, ExchangeWithLater(v, i))
      BY <2>1, LeastComesFirst
    <3> QED
      BY <2>2, <3>1 DEF LeastAt
  <2>5. Rearranged(n, s, w)
    BY <2>3, <2>4, RearrangedTwice
  <2>6. ASSUME NEW p \in 1 .. n, NEW l \in 1 .. n, p <= i, p < l
        PROVE  HashOf(w[p]) <= HashOf(w[l])
    <3>1. CASE p = i
      BY <2>4, <2>6, <3>1
    <3>2. CASE p < i
      <4>1. w[p] = v[p] /\ p <= k
        BY <2>4, <3>2
      <4>2. PICK q \in 1 .. n : q > p /\ w[l] = v[q]
        <5>1. CASE l < i
          BY <2>4, <2>6, <5>1
        <5>2. CASE l >= i
          BY <2>4, <3>2, <5>2
        <5> QED
          BY <5>1, <5>2
      <4> QED
        BY <2>3, <4>1, <4>2
    <3> QED
      BY <2>6, <3>1, <3>2
  <2> QED
    BY <2>5, <2>6 DEF w
<1>4. Done(n)
  <2> HIDE DEF Done
  <2>1. 0 \in T /\ \A k \in Nat : k \in T => k + 1 \in T
    <3>1. \A k \in Nat : k + 1 <= n => k <= n
      OBVIOUS
    <3> QED
      BY <1>2, <1>3, <3>1
  <2> HIDE DEF T
  <2>2. n \in T
    BY <2>1, UpTo
  <2> QED
    BY <2>2 DEF T
<1>5. t \in [1 .. n -> Results]
  BY <1>1
<1>6. Rearranged(n, s, t) /\ Sorted(t, n)
  BY <1>1, <1>4
<1> QED
  BY <1>5, <1>6 DEF SortedAs, t

-----------------------------------------------------------------------------
(* Suites of consecutive results.                                          *)
Groups == [name : Suites, tests : Seq(Results)]

LEMMA GroupType ==
    ASSUME NEW w \in Seq(Groups), NEW p \in DOMAIN w
    PROVE  w[p].name \in Suites /\ w[p].tests \in Seq(Results)
<1>1. w[p] \in Groups
  OBVIOUS
<1> QED
  BY <1>1 DEF Groups

LEMMA AddToSuitesType ==
    ASSUME NEW w \in Seq(Groups), NEW r \in Results
    PROVE  AddToSuites(w, r) \in Seq(Groups)
<1>1. CASE w # <<>> /\ Hash[Last(w).name] = HashOf(r)
  <2> DEFINE m == Len(w)
             g == [w[m] EXCEPT !.tests = Append(@, r)]
  <2>1. m \in Nat /\ m \in 1 .. m /\ w[m] \in Groups
    BY <1>1
  <2>2. g \in Groups
    <3>1. w[m].name \in Suites /\ w[m].tests \in Seq(Results)
      BY <2>1 DEF Groups
    <3>2. Append(w[m].tests, r) \in Seq(Results)
      BY <3>1, AppendProperties
    <3> QED
      BY <2>1, <3>2 DEF Groups
  <2>3. AddToSuites(w, r) = [w EXCEPT ![m] = g]
    BY <1>1 DEF AddToSuites
  <2> HIDE DEF g
  <2> QED
    BY <2>1, <2>2, <2>3
<1>2. CASE ~(w # <<>> /\ Hash[Last(w).name] = HashOf(r))
  <2>1. NewSuite(r) \in Groups
    BY HashType DEF NewSuite, Groups
  <2>2. AddToSuites(w, r) = Append(w, NewSuite(r))
    BY <1>2 DEF AddToSuites
  <2> QED
    BY <2>1, <2>2
<1> QED
  BY <1>1, <1>2

GroupsInTurn(t, n, x, y) ==
    t[0] = <<>> /\ t[n] = y /\ \A k \in 1 .. n : t[k] = AddToSuites(t[k - 1], x[k])

LEMMA GroupInSteps ==
    ASSUME NEW n \in Nat, NEW s, NEW x \in [1 .. n -> Results], x = SortResults(s)
    PROVE  \E t \in [0 .. n -> Seq(Groups)] : GroupsInTurn(t, n, x, Grouped(s))
<1> DEFINE A == Seq(Groups)
           B == Results
           Body(h) == [S \in SUBSET (1 .. n) |->
                         IF S = {} THEN <<>> ELSE AddToSuites(h[S \ {Max(S)}], x[Max(S)])]
           H == CHOOSE h : h = Body(h)
<1>1. n \in Nat
  OBVIOUS
<1>2. x \in [1 .. n -> B] /\ DOMAIN x = 1 .. n
  OBVIOUS
<1>3. \A S \in SUBSET (1 .. n) : S # {} =>
         Max(S) \in 1 .. n /\ S \ {Max(S)} \in SUBSET (1 .. n)
  <2>1. \A S \in SUBSET (1 .. n) : S \in SUBSET (0 .. n)
    BY <1>1
  <2>2. \A S \in SUBSET (1 .. n) : S # {} => Max(S) \in S
    BY <1>1, <2>1, HasGreatest
  <2> QED
    BY <2>2
<1>4. \A a \in A, b \in B : AddToSuites(a, b) \in A
  BY AddToSuitesType
<1>5. Grouped(s) = H[1 .. n]
  <2>1. Grouped(s) = FoldLeft(AddToSuites, <<>>, x)
    BY DEF Grouped
  <2> QED
    BY <1>2, <2>1 DEF FoldLeft, MapThenFoldSet
<1> HIDE DEF A, B
<1>6. H = Body(H)
  <2> DEFINE g == [p \in A \X B |-> AddToSuites(p[1], p[2])]
  <2>1. \A a \in A, b \in B : g[<<a, b>>] = AddToSuites(a, b)
    OBVIOUS
  <2>2. StaysIn(A, B, g)
    BY <1>4, <2>1 DEF StaysIn
  <2>3. <<>> \in A
    BY DEF A
  <2> HIDE DEF g
  <2>4. PICK h \in [SUBSET (1 .. n) -> A] : Folds(h, g, <<>>, n, x)
    BY <1>1, <1>2, <2>2, <2>3, FoldIsDefined
  <2>5. \A S \in SUBSET (1 .. n) :
           h[S] = IF S = {} THEN <<>> ELSE AddToSuites(h[S \ {Max(S)}], x[Max(S)])
    BY <1>2, <1>3, <2>1, <2>4 DEF Folds
  <2>6. h = Body(h)
    BY <2>4, <2>5
  <2> HIDE DEF Body
  <2> QED
    BY <2>6
<1>7. \A S \in SUBSET (1 .. n) :
         H[S] = IF S = {} THEN <<>> ELSE AddToSuites(H[S \ {Max(S)}], x[Max(S)])
  <2> DEFINE K == H
  <2> HIDE DEF K
  <2>1. K = Body(K)
    BY <1>6 DEF K
  <2>2. \A S \in SUBSET (1 .. n) :
         K[S] = IF S = {} THEN <<>> ELSE AddToSuites(K[S \ {Max(S)}], x[Max(S)])
    BY <2>1
  <2> QED
    BY <2>2 DEF K
<1> HIDE DEF H
<1>8. PICK t \in [0 .. n -> A] :
         /\ t[0] = <<>> /\ t[n] = H[1 .. n]
         /\ \A k \in 1 .. n : t[k] = AddToSuites(t[k - 1], x[k])
  <2> DEFINE C == A \cup {H[S] : S \in SUBSET (1 .. n)}
             g == [p \in C \X B |-> AddToSuites(p[1], p[2])]
  <2>1. \A a \in C, b \in B : g[<<a, b>>] = AddToSuites(a, b)
    OBVIOUS
  <2>2. StaysIn(A, B, g)
    BY <1>4, <2>1 DEF StaysIn
  <2>3. <<>> \in A
    BY DEF A
  <2>4. \A S \in SUBSET (1 .. n) : H[S] \in C
    OBVIOUS
  <2>5. A \subseteq C
    OBVIOUS
  <2> HIDE DEF g, C
  <2>6. Folds(H, g, <<>>, n, x)
    BY <1>2, <1>3, <1>7, <2>1, <2>4 DEF Folds
  <2>7. \E t \in [0 .. n -> A] : FoldsTo(t, g, <<>>, n, x, H[1 .. n])
    BY <1>1, <1>2, <2>2, <2>3, <2>6, FoldInSteps
  <2>8. \A t \in [0 .. n -> A], k \in 1 .. n :
           g[<<t[k - 1], x[k]>>] = AddToSuites(t[k - 1], x[k])
    <3>1. \A t \in [0 .. n -> A], k \in 1 .. n : t[k - 1] \in C /\ x[k] \in B
      BY <1>1, <1>2, <2>5
    <3> QED
      BY <2>1, <3>1
  <2> QED
    BY <2>7, <2>8 DEF FoldsTo
<1> QED
  BY <1>5, <1>8 DEF A, GroupsInTurn

(* The suites w hold the first k of the results x, each in one place; r is *)
(* in one place more of v than of w.                                       *)
OneMore(w, v, r) ==
    \E m \in DOMAIN v : \E l \in DOMAIN v[m].tests :
       /\ v[m].tests[l] = r /\ Hash[v[m].name] = HashOf(r)
       /\ \A p \in DOMAIN v : \A q \in DOMAIN v[p].tests :
             \/ p = m /\ q = l
             \/ p \in DOMAIN w /\ q \in DOMAIN w[p].tests /\ w[p].tests[q] = v[p].tests[q]
       /\ \A p \in DOMAIN w :
             /\ p \in DOMAIN v /\ v[p].name = w[p].name
             /\ \A q \in DOMAIN w[p].tests :
                  q \in DOMAIN v[p].tests /\ v[p].tests[q] = w[p].tests[q] /\ ~(p = m /\ q = l)
       /\ \A p \in DOMAIN v : p \in DOMAIN w \/ (p = m /\ Len(v[p].tests) = 1)
       /\ \A p \in DOMAIN w : Len(v[p].tests) <= Len(w[p].tests) + 1

LEMMA AddedInOnePlace ==
    ASSUME NEW w \in Seq(Groups), NEW r \in Results
    PROVE  OneMore(w, AddToSuites(w, r), r)
<1> DEFINE v == AddToSuites(w, r)
<1>1. CASE w # <<>> /\ Hash[Last(w).name] = HashOf(r)
  <2> DEFINE m == Len(w)
             old == w[m].tests
             l == Len(old) + 1
  <2>1. m \in Nat /\ m \in 1 .. m /\ w[m] \in Groups /\ DOMAIN w = 1 .. m
    BY <1>1
  <2>2. old \in Seq(Results) /\ Len(old) \in Nat /\ DOMAIN old = 1 .. Len(old)
    BY <2>1 DEF Groups
  <2>3. v = [w EXCEPT ![m] = [w[m] EXCEPT !.tests = Append(old, r)]]
    BY <1>1 DEF AddToSuites
  <2>4. /\ DOMAIN v = 1 .. m /\ \A p \in 1 .. m : p # m => v[p] = w[p]
        /\ v[m].name = w[m].name /\ v[m].tests = Append(old, r)
    BY <2>1, <2>3 DEF Groups
  <2> HIDE DEF v
  <2>5. /\ DOMAIN v[m].tests = 1 .. l /\ Len(v[m].tests) = l
        /\ v[m].tests[l] = r /\ \A q \in DOMAIN old : v[m].tests[q] = old[q]
    BY <2>2, <2>4, AppendProperties
  <2>6. \A q \in 1 .. l : q = l \/ q \in DOMAIN old
    BY <2>2
  <2>7. l \notin DOMAIN old /\ DOMAIN old \subseteq 1 .. l
    BY <2>2
  <2>8. \A p \in DOMAIN w : Len(w[p].tests) \in Nat
    BY DEF Groups
  <2> HIDE DEF l
  <2>9. \A p \in DOMAIN v : \A q \in DOMAIN v[p].tests :
           \/ p = m /\ q = l
           \/ p \in DOMAIN w /\ q \in DOMAIN w[p].tests /\ w[p].tests[q] = v[p].tests[q]
    BY <2>1, <2>4, <2>5, <2>6
  <2>10. \A p \in DOMAIN w :
            /\ p \in DOMAIN v /\ v[p].name = w[p].name
            /\ \A q \in DOMAIN w[p].tests :
                 q \in DOMAIN v[p].tests /\ v[p].tests[q] = w[p].tests[q] /\ ~(p = m /\ q = l)
    BY <2>1, <2>4, <2>5, <2>7
  <2>11. \A p \in DOMAIN w : Len(v[p].tests) <= Len(w[p].tests) + 1
    <3> TAKE p \in DOMAIN w
    <3>1. CASE p = m
      BY <2>2, <2>5, <3>1 DEF l
    <3>2. CASE p # m
      <4>1. v[p] = w[p]
        BY <2>1, <2>4, <3>2
      <4> HIDE DEF m, old
      <4> QED
        BY <2>8, <4>1
    <3> QED
      BY <3>1, <3>2
  <2>12. m \in DOMAIN v /\ l \in DOMAIN v[m].tests /\ v[m].tests[l] = r
    <3>1. l \in 1 .. l
      BY <2>2 DEF l
    <3> QED
      BY <2>1, <2>4, <2>5, <3>1
  <2>14. Hash[v[m].name] = HashOf(r)
    BY <1>1, <2>4 DEF Last
  <2>13. OneMore(w, v, r)
    <3> HIDE DEF m
    <3> QED
      BY <2>14, <2>1, <2>4, <2>9, <2>10, <2>11, <2>12 DEF OneMore
  <2> QED
    BY <2>13 DEF v
<1>2. CASE ~(w # <<>> /\ Hash[Last(w).name] = HashOf(r))
  <2> DEFINE m == Len(w) + 1
             g == NewSuite(r)
  <2>1. g \in Groups /\ g.tests = <<r>>
    BY HashType DEF NewSuite, Groups
  <2>2. v = Append(w, g)
    BY <1>2 DEF AddToSuites
  <2> HIDE DEF g
  <2>3. /\ DOMAIN v = 1 .. m /\ v[m] = g /\ DOMAIN w = 1 .. Len(w) /\ m \in Nat
        /\ \A p \in DOMAIN w : v[p] = w[p]
    BY <2>1, <2>2, AppendProperties
  <2>4. /\ DOMAIN v[m].tests = {1} /\ v[m].tests[1] = r /\ Len(v[m].tests) = 1
    <3>1. v[m].tests = <<r>>
      BY <2>1, <2>3
    <3>2. DOMAIN <<r>> = {1} /\ <<r>>[1] = r /\ Len(<<r>>) = 1
      OBVIOUS
    <3> QED
      BY <3>1, <3>2, Zenon
  <2>5. /\ \A p \in DOMAIN v : p = m \/ p \in DOMAIN w
        /\ \A p \in DOMAIN w : p \in DOMAIN v /\ p # m
        /\ m \in DOMAIN v
    BY <2>3
  <2>6. \A p \in DOMAIN w : Len(w[p].tests) \in Nat
    BY DEF Groups
  <2>7. \A p \in DOMAIN w : Len(v[p].tests) <= Len(w[p].tests) + 1
    BY <2>3, <2>6
  <2>8. 1 \in DOMAIN v[m].tests
    BY <2>4
  <2>10. Hash[v[m].name] = HashOf(r)
    BY <2>3 DEF g, NewSuite, HashOf
  <2> HIDE DEF v, m
  <2>9. OneMore(w, v, r)
    BY <2>3, <2>4, <2>5, <2>7, <2>8, <2>10 DEF OneMore
  <2> QED
    BY <2>9 DEF v
<1> QED
  BY <1>1, <1>2

Ascending(w) == \A p, q \in DOMAIN w : p < q => Hash[w[p].name] < Hash[w[q].name]
Holds(w, x, k) ==
    /\ w \in Seq(Groups)
    /\ \A p \in DOMAIN w : Len(w[p].tests) <= k
    /\ \A p \in DOMAIN w : \A q \in DOMAIN w[p].tests :
          /\ HashOf(w[p].tests[q]) = Hash[w[p].name]
          /\ \E l \in 1 .. k : w[p].tests[q] = x[l]
    /\ \A l \in 1 .. k : \E p \in DOMAIN w : \E q \in DOMAIN w[p].tests : w[p].tests[q] = x[l]
    /\ \A p, b \in DOMAIN w : \A q \in DOMAIN w[p].tests, c \in DOMAIN w[b].tests :
          w[p].tests[q].test = w[b].tests[c].test => p = b /\ q = c

LEMMA AddKeepsHolds ==
    ASSUME NEW n \in Nat, NEW x \in [1 .. n -> Results], Distinct(x),
           NEW k \in Nat, k + 1 <= n, NEW w, Holds(w, x, k)
    PROVE  Holds(AddToSuites(w, x[k + 1]), x, k + 1)
<1> DEFINE r == x[k + 1]
           v == AddToSuites(w, r)
<1>1. w \in Seq(Groups) /\ r \in Results /\ k + 1 \in 1 .. n
  BY DEF Holds
<1>2. v \in Seq(Groups) /\ OneMore(w, v, r)
  BY <1>1, AddToSuitesType, AddedInOnePlace
<1>3. \A p \in DOMAIN v : Len(v[p].tests) \in Nat
  BY <1>2 DEF Groups
<1>4. \A l \in 1 .. k : x[l].test # r.test
  <2> TAKE l \in 1 .. k
  <2>1. l \in 1 .. n /\ l # k + 1 /\ DOMAIN x = 1 .. n
    OBVIOUS
  <2> QED
    BY <1>1, <2>1 DEF Distinct
<1> HIDE DEF v
<1>5. PICK m \in DOMAIN v : \E l \in DOMAIN v[m].tests :
         /\ v[m].tests[l] = r /\ Hash[v[m].name] = HashOf(r)
         /\ \A p \in DOMAIN v : \A q \in DOMAIN v[p].tests :
               \/ p = m /\ q = l
               \/ p \in DOMAIN w /\ q \in DOMAIN w[p].tests /\ w[p].tests[q] = v[p].tests[q]
         /\ \A p \in DOMAIN w :
               /\ p \in DOMAIN v /\ v[p].name = w[p].name
               /\ \A q \in DOMAIN w[p].tests :
                    q \in DOMAIN v[p].tests /\ v[p].tests[q] = w[p].tests[q] /\ ~(p = m /\ q = l)
         /\ \A p \in DOMAIN v : p \in DOMAIN w \/ (p = m /\ Len(v[p].tests) = 1)
         /\ \A p \in DOMAIN w : Len(v[p].tests) <= Len(w[p].tests) + 1
  BY <1>2 DEF OneMore
<1>6. PICK l \in DOMAIN v[m].tests :
         /\ v[m].tests[l] = r /\ Hash[v[m].name] = HashOf(r)
         /\ \A p \in DOMAIN v : \A q \in DOMAIN v[p].tests :
               \/ p = m /\ q = l
               \/ p \in DOMAIN w /\ q \in DOMAIN w[p].tests /\ w[p].tests[q] = v[p].tests[q]
         /\ \A p \in DOMAIN w :
               /\ p \in DOMAIN v /\ v[p].name = w[p].name
               /\ \A q \in DOMAIN w[p].tests :
                    q \in DOMAIN v[p].tests /\ v[p].tests[q] = w[p].tests[q] /\ ~(p = m /\ q = l)
         /\ \A p \in DOMAIN v : p \in DOMAIN w \/ (p = m /\ Len(v[p].tests) = 1)
         /\ \A p \in DOMAIN w : Len(v[p].tests) <= Len(w[p].tests) + 1
  BY <1>5
<1>7. ASSUME NEW p \in DOMAIN v PROVE Len(v[p].tests) <= k + 1
  <2>1. CASE p \in DOMAIN w
    <3>1. Len(w[p].tests) <= k /\ Len(v[p].tests) <= Len(w[p].tests) + 1
      BY <1>6, <2>1 DEF Holds
    <3>2. Len(w[p].tests) \in Nat
      BY <1>1, <2>1 DEF Groups
    <3> QED
      BY <1>3, <1>7, <3>1, <3>2
  <2>2. CASE p \notin DOMAIN w
    <3>1. Len(v[p].tests) = 1
      BY <1>6, <2>2
    <3> QED
      BY <3>1
  <2> QED
    BY <2>1, <2>2
<1>8. ASSUME NEW p \in DOMAIN v, NEW q \in DOMAIN v[p].tests
      PROVE  /\ HashOf(v[p].tests[q]) = Hash[v[p].name]
             /\ \E j \in 1 .. k + 1 : v[p].tests[q] = x[j]
  <2>1. CASE p = m /\ q = l
    <3>1. k + 1 \in 1 .. k + 1
      OBVIOUS
    <3> QED
      BY <1>6, <2>1, <3>1
  <2>2. CASE p \in DOMAIN w /\ q \in DOMAIN w[p].tests /\ w[p].tests[q] = v[p].tests[q]
    <3>1. HashOf(w[p].tests[q]) = Hash[w[p].name] /\ \E j \in 1 .. k : w[p].tests[q] = x[j]
      BY <2>2 DEF Holds
    <3>2. v[p].name = w[p].name
      BY <1>6, <2>2
    <3>3. 1 .. k \subseteq 1 .. k + 1
      OBVIOUS
    <3> QED
      BY <2>2, <3>1, <3>2, <3>3
  <2> QED
    BY <1>6, <1>8, <2>1, <2>2
<1>9. ASSUME NEW j \in 1 .. k + 1
      PROVE  \E p \in DOMAIN v : \E q \in DOMAIN v[p].tests : v[p].tests[q] = x[j]
  <2>1. CASE j = k + 1
    BY <1>6, <2>1
  <2>2. CASE j \in 1 .. k
    <3>1. PICK p \in DOMAIN w : \E q \in DOMAIN w[p].tests : w[p].tests[q] = x[j]
      BY <2>2 DEF Holds
    <3>2. PICK q \in DOMAIN w[p].tests : w[p].tests[q] = x[j]
      BY <3>1
    <3>3. p \in DOMAIN v /\ q \in DOMAIN v[p].tests /\ v[p].tests[q] = x[j]
      BY <1>6, <3>2
    <3> QED
      BY <3>3
  <2> QED
    BY <2>1, <2>2
<1>10. ASSUME NEW p \in DOMAIN v, NEW q \in DOMAIN v[p].tests, ~(p = m /\ q = l)
       PROVE  v[p].tests[q].test # r.test
  <2>1. p \in DOMAIN w /\ q \in DOMAIN w[p].tests /\ w[p].tests[q] = v[p].tests[q]
    BY <1>6, <1>10
  <2>2. \E j \in 1 .. k : w[p].tests[q] = x[j]
    BY <2>1 DEF Holds
  <2> QED
    BY <1>4, <2>1, <2>2
<1>11. ASSUME NEW p \in DOMAIN v, NEW b \in DOMAIN v,
              NEW q \in DOMAIN v[p].tests, NEW c \in DOMAIN v[b].tests,
              v[p].tests[q].test = v[b].tests[c].test
       PROVE  p = b /\ q = c
  <2>1. CASE p = m /\ q = l
    BY <1>6, <1>10, <1>11, <2>1
  <2>2. CASE b = m /\ c = l
    BY <1>6, <1>10, <1>11, <2>2
  <2>3. CASE ~(p = m /\ q = l) /\ ~(b = m /\ c = l)
    <3>1. /\ p \in DOMAIN w /\ q \in DOMAIN w[p].tests /\ w[p].tests[q] = v[p].tests[q]
          /\ b \in DOMAIN w /\ c \in DOMAIN w[b].tests /\ w[b].tests[c] = v[b].tests[c]
      BY <1>6, <2>3
    <3>2. w[p].tests[q].test = w[b].tests[c].test
      BY <1>11, <3>1
    <3>3. \A a, d \in DOMAIN w : \A e \in DOMAIN w[a].tests, f \in DOMAIN w[d].tests :
             w[a].tests[e].test = w[d].tests[f].test => a = d /\ e = f
      BY DEF Holds
    <3> QED
      <4> DEFINE d == DOMAIN w
                 e(a) == DOMAIN w[a].tests
                 h(a, z) == w[a].tests[z].test
      <4>1. p \in d /\ b \in d /\ q \in e(p) /\ c \in e(b) /\ h(p, q) = h(b, c)
        BY <3>1, <3>2
      <4>2. \A a, z \in d : \A y \in e(a), j \in e(z) : h(a, y) = h(z, j) => a = z /\ y = j
        BY <3>3
      <4> HIDE DEF d, e, h
      <4> QED
        BY <4>1, <4>2
  <2> QED
    BY <2>1, <2>2, <2>3
<1>12. Holds(v, x, k + 1)
  <2> HIDE DEF r
  <2> QED
    BY <1>2, <1>7, <1>8, <1>9, <1>11 DEF Holds
<1> QED
  BY <1>12 DEF v

(* The suite a result is added to, or a new one, is the last.              *)
LEMMA AddKeepsOrder ==
    ASSUME NEW w \in Seq(Groups), NEW r \in Results, Ascending(w),
           w # <<>> => Hash[Last(w).name] <= HashOf(r)
    PROVE  LET v == AddToSuites(w, r)
           IN  Ascending(v) /\ v # <<>> /\ Hash[Last(v).name] = HashOf(r)
<1> DEFINE v == AddToSuites(w, r)
<1>1. \A p \in DOMAIN w : Hash[w[p].name] \in Nat
  <2>1. \A p \in DOMAIN w : w[p] \in Groups
    OBVIOUS
  <2>2. \A g \in Groups : Hash[g.name] \in Nat
    BY ReportAssumption DEF Groups
  <2> QED
    BY <2>1, <2>2
<1>2. HashOf(r) \in Nat
  BY HashType
<1>3. CASE w # <<>> /\ Hash[Last(w).name] = HashOf(r)
  <2> DEFINE m == Len(w)
  <2>1. m \in Nat /\ m \in 1 .. m /\ w[m] \in Groups /\ DOMAIN w = 1 .. m
    BY <1>3
  <2>2. v = [w EXCEPT ![m] = [w[m] EXCEPT !.tests = Append(@, r)]]
    BY <1>3 DEF AddToSuites
  <2>3. DOMAIN v = DOMAIN w /\ \A p \in DOMAIN w : v[p].name = w[p].name
    BY <2>1, <2>2 DEF Groups
  <2>4. v \in Seq(Groups)
    BY AddToSuitesType
  <2> HIDE DEF v
  <2>5. Len(v) = m /\ v # <<>>
    BY <2>1, <2>3, <2>4, LenProperties
  <2> QED
    BY <1>3, <2>1, <2>3, <2>5 DEF Ascending, Last, v
<1>4. CASE ~(w # <<>> /\ Hash[Last(w).name] = HashOf(r))
  <2> DEFINE m == Len(w) + 1
             g == NewSuite(r)
  <2>1. g \in Groups /\ Hash[g.name] = HashOf(r)
    BY HashType DEF NewSuite, Groups, HashOf
  <2>2. v = Append(w, g)
    BY <1>4 DEF AddToSuites
  <2> HIDE DEF g
  <2>3. /\ DOMAIN v = 1 .. m /\ v[m] = g /\ DOMAIN w = 1 .. Len(w) /\ Len(w) \in Nat
        /\ Len(v) = m /\ \A p \in DOMAIN w : v[p] = w[p]
    BY <2>1, <2>2, AppendProperties
  <2>4. v # <<>> /\ Hash[Last(v).name] = HashOf(r)
    BY <2>1, <2>2, <2>3 DEF Last
  <2> HIDE DEF v
  <2>5. ASSUME NEW p \in DOMAIN w
        PROVE  Hash[w[p].name] < HashOf(r)
    <3>1. w # <<>> /\ Len(w) \in DOMAIN w
      BY <2>3
    <3>2. Hash[w[Len(w)].name] < HashOf(r)
      BY <1>1, <1>2, <1>4, <3>1 DEF Last
    <3>3. p = Len(w) \/ Hash[w[p].name] < Hash[w[Len(w)].name]
      <4>1. p = Len(w) \/ p < Len(w)
        BY <2>3
      <4> QED
        BY <3>1, <4>1 DEF Ascending
    <3> QED
      BY <1>1, <1>2, <3>1, <3>2, <3>3
  <2>6. ASSUME NEW p \in DOMAIN v, NEW q \in DOMAIN v, p < q
        PROVE  Hash[v[p].name] < Hash[v[q].name]
    <3>1. p \in DOMAIN w
      BY <2>3, <2>6
    <3>2. CASE q = m
      BY <2>1, <2>3, <2>5, <3>1, <3>2
    <3>3. CASE q \in DOMAIN w
      BY <2>3, <2>6, <3>1, <3>3 DEF Ascending
    <3> QED
      BY <2>3, <3>2, <3>3
  <2> QED
    BY <2>4, <2>6 DEF Ascending, v
<1> QED
  BY <1>3, <1>4

(* What a report is of the results.                                        *)
LEMMA GroupedHoldsAll ==
    ASSUME NEW n \in Nat, NEW s \in [1 .. n -> Results], Distinct(s)
    PROVE  Holds(Grouped(s), SortResults(s), n) /\ Ascending(Grouped(s))
<1> DEFINE x == SortResults(s)
<1>1. x \in [1 .. n -> Results] /\ Distinct(x)
      /\ \A k, l \in 1 .. n : k < l => HashOf(x[k]) <= HashOf(x[l])
  BY SortSorts DEF SortedAs, Rearranged
<1> HIDE DEF x
<1>2. PICK u \in [0 .. n -> Seq(Groups)] :
         /\ u[0] = <<>> /\ u[n] = Grouped(s)
         /\ \A k \in 1 .. n : u[k] = AddToSuites(u[k - 1], x[k])
  <2>1. x = SortResults(s)
    BY DEF x
  <2> QED
    <3>1. \E u \in [0 .. n -> Seq(Groups)] : GroupsInTurn(u, n, x, Grouped(s))
      BY <1>1, <2>1, GroupInSteps
    <3> QED
      BY <3>1 DEF GroupsInTurn
<1> DEFINE Ends(w, k) == IF k = 0 THEN w = <<>> ELSE w # <<>> /\ Hash[Last(w).name] = HashOf(x[k])
           Done(k) == Holds(u[k], x, k) /\ Ascending(u[k]) /\ Ends(u[k], k)
           T == {k \in Nat : k <= n => Done(k)}
<1>3. Done(0)
  <2>1. DOMAIN <<>> = {} /\ <<>> \in Seq(Groups)
    OBVIOUS
  <2>2. Holds(<<>>, x, 0) /\ Ascending(<<>>)
    BY <2>1 DEF Holds, Ascending
  <2> QED
    BY <1>2, <2>2
<1>4. ASSUME NEW k \in Nat, k + 1 <= n, Done(k)
      PROVE  Done(k + 1)
  <2> DEFINE w == u[k]
             r == x[k + 1]
  <2>1. k + 1 \in 1 .. n /\ (k + 1) - 1 = k /\ k \in 0 .. n
    <3> HIDE DEF Done
    <3> QED
      BY <1>4
  <2>2. w \in Seq(Groups) /\ r \in Results
    BY <1>1, <1>2, <2>1
  <2>3. u[k + 1] = AddToSuites(w, r)
    BY <1>2, <2>1
  <2>4. Holds(u[k + 1], x, k + 1)
    BY <1>1, <1>4, <2>3, AddKeepsHolds
  <2>5. w # <<>> => Hash[Last(w).name] <= HashOf(r)
    <3> SUFFICES ASSUME w # <<>> PROVE Hash[Last(w).name] <= HashOf(r)
      OBVIOUS
    <3>1. k \in 1 .. n /\ Hash[Last(w).name] = HashOf(x[k])
      BY <1>4, <2>1
    <3> QED
      BY <1>1, <2>1, <3>1
  <2>6. Ascending(w)
    BY <1>4
  <2> HIDE DEF w, r
  <2>7. Ascending(u[k + 1]) /\ u[k + 1] # <<>> /\ Hash[Last(u[k + 1]).name] = HashOf(r)
    BY <2>2, <2>3, <2>5, <2>6, AddKeepsOrder
  <2> QED
    BY <2>1, <2>4, <2>7 DEF r
<1>5. Done(n)
  <2> HIDE DEF Done
  <2>1. 0 \in T /\ \A k \in Nat : k \in T => k + 1 \in T
    <3>1. \A k \in Nat : k + 1 <= n => k <= n
      OBVIOUS
    <3> QED
      BY <1>3, <1>4, <3>1
  <2> HIDE DEF T
  <2>2. n \in T
    BY <2>1, UpTo
  <2> QED
    BY <2>2 DEF T
<1> QED
  BY <1>2, <1>5 DEF x

-----------------------------------------------------------------------------
LEMMA InitEstablishes == Init => IInv
<1> SUFFICES ASSUME Init PROVE IInv
  OBVIOUS
<1> USE DEF Init
<1>1. CodbInv
  <2>1. 0 \in 0 .. Len(Jsons)
    OBVIOUS
  <2>2. CodbTypes
    BY <2>1 DEF CodbTypes, CodbInit, PcTypes, NotLoaded
  <2>3. CodbMain
    BY DEF CodbMain, CodbInit, LoadedIsActive, NotLoaded, BaseFreed, ThreadEnded
  <2>4. CodbTrees
    BY DEF CodbTrees, CodbInit, Held, NoTreeLeaked, InUse, BaseInUse, CodbInUse, Count, NotLoaded
  <2>5. CodbEnd
    BY DEF CodbEnd, CodbInit, ThreadEnded, ReleasePcs
  <2> QED
    BY <2>2, <2>3, <2>4, <2>5 DEF CodbInv
<1>2. ReportInv
  BY ReportAssumption DEF ReportInv, ReportInit, Results
<1>3. ScriptInv
  <2>1. place \in Direct .. UserDirectory
    BY ScriptsAssumption DEF ScriptsInit, Direct, UserDirectory
  <2>2. SuccessEndsSearch
    <3>1. DOMAIN executed = {}
      BY DEF ScriptsInit
    <3>2. is_script_running <=> spc # "idle"
      BY Zenon DEF ScriptsInit
    <3> QED
      BY <3>1, <3>2 DEF SuccessEndsSearch
  <2>3. is_script_running \in BOOLEAN /\ is_abort \in BOOLEAN
    BY DEF ScriptsInit
  <2>4. executed \in Seq({"ok", "error"})
    BY DEF ScriptsInit
  <2> QED
    BY <2>1, <2>2, <2>3, <2>4 DEF ScriptInv, ScriptsInit
<1>5. ReportedInv
  <2>1. DOMAIN results = {}
    BY DEF ReportInit
  <2>2. reported \in [Tests -> Nat] /\ \A t \in Tests : reported[t] = 0
    BY DEF ReportInit
  <2> QED
    BY <2>1, <2>2 DEF ReportedInv, Distinct, InOneReport
<1> QED
  BY <1>1, <1>2, <1>3, <1>5 DEF IInv

-----------------------------------------------------------------------------
(* The databases.                                                          *)
(* Steps that change neither a tree nor where main is among its changes.   *)
Quiet == {"init", "prompt", "once", "clear", "cancel", "wait", "crashed"}

LEMMA QuietStep ==
    ASSUME CodbInv, pc \notin Halfway, pc' \in Quiet,
           UNCHANGED <<ds301, codb, active_no, init_th, dbpc, trees>>,
           file_no' \in 0 .. Len(Jsons), is_init_cancelled' \in BOOLEAN,
           \/ UNCHANGED interrupted /\ (pc' \in MainPcs => pc \in MainPcs)
           \/ interrupted' = "between" /\ pc' \notin MainPcs /\ interrupted = "no"
    PROVE  CodbInv'
<1> USE DEF CodbInv, Quiet
<1>1. CodbTypes'
  BY DEF CodbTypes, PcTypes, Halfway
<1>2. CodbMain'
  BY DEF CodbTypes, CodbMain, LoadedIsActive, ThreadEnded, BaseFreed, MainPcs, BaseParses, Halfway
<1>3. CodbTrees'
  <2>1. pc # "parsed" /\ pc' # "parsed" /\ pc \notin {"baseFreed", "unloading", "codbFreed"}
        /\ pc' \notin {"baseFreed", "unloading", "codbFreed"}
    BY DEF Halfway
  <2>2. (BaseFreed' <=> BaseFreed) /\ (CodbFreed' <=> CodbFreed)
        /\ (interrupted' \in Halfway <=> interrupted \in Halfway)
    BY DEF BaseFreed, CodbFreed, Halfway
  <2>3. (BaseInUse' <=> BaseInUse) /\ (CodbInUse' <=> CodbInUse)
    BY <2>1 DEF BaseInUse, CodbInUse
  <2>4. Held' = Held /\ InUse' = InUse
    BY <2>1, <2>2, <2>3 DEF Held, InUse, Count
  <2> QED
    BY <2>2, <2>4 DEF CodbTrees, NoTreeLeaked
<1>4. CodbEnd'
  BY DEF CodbEnd, ThreadEnded, ReleasePcs, Halfway
<1> QED
  BY <1>1, <1>2, <1>3, <1>4

(* A step of main before any interrupt.                                    *)
LEMMA LoadSteps ==
    ASSUME CodbInv, LoadStep \/ \E n \in 0 .. Len(Files) : LoadCommand(n)
    PROVE  CodbInv'
<1> USE DEF Main, NotLoaded
<1>1. interrupted = "no" /\ UNCHANGED interrupted /\ pc \in MainPcs /\ pc' \in MainPcs
      /\ pc' \notin {"start", "created", "calling"} \cup ReleasePcs
      /\ pc \notin {"created", "calling"}
  BY DEF CodbInv, CodbMain, LoadStep, LoadCommand, AtPrompt, MainPcs, Unloaded, ReleasePcs
<1>2. UNCHANGED <<ds301, init_th, is_init_cancelled, dbpc>>
  BY DEF LoadStep, LoadCommand, load_codb, FreeTree, ForgetProfile, LoadFails, ParseProfile,
         StoreProfile, codbVars, initVars
<1>3. CodbEnd'
  BY <1>1, <1>2 DEF CodbInv, CodbEnd, ThreadEnded, ReleasePcs, MainPcs, Halfway
<1>4. pc' \in PcTypes
  BY <1>1 DEF MainPcs, PcTypes, Halfway
<1>5. interrupted \notin Halfway /\ ~BaseFreed /\ ~BaseFreed' /\ ~CodbFreed /\ ~CodbFreed'
  BY <1>1 DEF Halfway, BaseFreed, CodbFreed
<1>6. /\ trees \in Nat /\ codb \in 0 .. Len(Jsons) /\ active_no = codb
      /\ file_no \in 0 .. Len(Jsons) /\ trees = InUse
  BY <1>5 DEF CodbInv, CodbTypes, CodbMain, CodbTrees, LoadedIsActive, NoTreeLeaked
<1>7. ASSUME trees' \in Nat, trees' = InUse', codb' \in 0 .. Len(Jsons), active_no' = codb',
             file_no' \in 0 .. Len(Jsons),
             pc' \in {"load", "parsed"} => file_no' # 0 /\ codb' = 0
      PROVE  CodbInv'
  <2>1. CodbTypes'
    BY <1>1, <1>2, <1>4, <1>7 DEF CodbInv, CodbTypes
  <2>2. CodbMain'
    BY <1>1, <1>2, <1>5, <1>7 DEF CodbInv, CodbMain, LoadedIsActive, ThreadEnded, BaseParses
  <2>3. CodbTrees'
    <3>1. Held' = InUse'
      BY <1>5 DEF Held, InUse, Count
    <3>2. InUse' \in Int
      BY <1>7
    <3> QED
      BY <1>7, <3>1, <3>2 DEF CodbTrees, NoTreeLeaked
  <2> QED
    BY <1>3, <2>1, <2>2, <2>3 DEF CodbInv
<1> USE DEF InUse, BaseInUse, CodbInUse, Count
<1>8. CASE \E n \in 0 .. Len(Files) : LoadCommand(n)
  <2>1. pc = "prompt" /\ pc' \in {"prompt", "unload"}
    BY <1>8 DEF LoadCommand, AtPrompt
  <2>2. UNCHANGED <<codb, active_no, trees>> /\ file_no' \in 0 .. Len(Jsons)
    BY <1>6, <1>8 DEF LoadCommand, load_codb, ToLoad, FileNumbers, codbVars, profileVars
  <2> QED
    BY <1>2, <1>6, <1>7, <2>1, <2>2
<1>9. CASE Main("unload", "unloading") /\ UnloadsFirst /\ FreeTree(FALSE)
  <2>1. UNCHANGED <<codb, active_no, file_no>> /\ codb # 0 /\ trees' = trees - 1
    BY <1>6, <1>9 DEF UnloadsFirst, FreeTree, profileVars
  <2> QED
    BY <1>2, <1>6, <1>7, <1>9, <2>1
<1>10. CASE Main("unload", Unloaded) /\ ~UnloadsFirst /\ UNCHANGED codbVars
  <2>1. UNCHANGED <<codb, active_no, file_no, trees>> /\ codb = 0
    BY <1>10 DEF UnloadsFirst, codbVars, profileVars
  <2>2. pc' \in {"prompt", "load"} /\ (pc' = "load" => file_no # 0)
    BY <1>10 DEF Unloaded
  <2> QED
    BY <1>2, <1>6, <1>7, <1>10, <2>1, <2>2
<1>11. CASE Main("unloading", Unloaded) /\ ForgetProfile
  <2>1. codb' = 0 /\ active_no' = 0 /\ UNCHANGED <<file_no, trees>>
    BY <1>11 DEF ForgetProfile, NumberUnloaded
  <2>2. pc' \in {"prompt", "load"} /\ (pc' = "load" => file_no # 0)
    BY <1>11 DEF Unloaded
  <2> QED
    BY <1>2, <1>6, <1>7, <1>11, <2>1, <2>2
<1>12. CASE Main("load", "prompt") /\ LoadFails
  <2>1. UNCHANGED <<codb, active_no, trees>> /\ file_no' = 0
    BY <1>12 DEF LoadFails
  <2> QED
    BY <1>2, <1>6, <1>7, <1>12, <2>1
<1>13. CASE Main("load", "parsed") /\ ParseProfile
  <2>1. UNCHANGED <<codb, active_no, file_no>> /\ trees' = trees + 1 /\ codb = 0 /\ file_no # 0
    BY <1>13 DEF ParseProfile, profileVars, CodbInv, CodbMain
  <2> QED
    BY <1>2, <1>6, <1>7, <1>13, <2>1
<1>14. CASE Main("parsed", "prompt") /\ StoreProfile
  <2>1. codb' = file_no /\ active_no' = file_no /\ file_no' = 0 /\ UNCHANGED trees
        /\ codb = 0 /\ file_no # 0
    BY <1>14 DEF StoreProfile, CodbInv, CodbMain
  <2> QED
    BY <1>2, <1>6, <1>7, <1>14, <2>1
<1> QED
  BY <1>8, <1>9, <1>10, <1>11, <1>12, <1>13, <1>14 DEF LoadStep

LEMMA ThreadStep ==
    ASSUME CodbInv, DbThread
    PROVE  CodbInv'
<1> USE DEF DbThread, DbTo, profileVars
<1>1. /\ UNCHANGED <<codb, active_no, file_no, init_th, is_init_cancelled, pc, interrupted>>
      /\ dbpc \in {"start", "read", "check", "parse"}
      /\ dbpc' \in {"read", "check", "parse", "ended"}
  BY DEF codb_init_ex, DbStart, DbRead, DbCheck, DbParse
<1>2. ~ds301 /\ ~ThreadEnded /\ ~BaseFreed /\ ~BaseFreed' /\ trees \in Nat
  BY <1>1 DEF CodbInv, CodbTypes, CodbMain, ThreadEnded, BaseFreed
<1>3. ds301' \in BOOLEAN /\ trees' = trees + Count(ds301') /\ (ds301' => BaseParses /\ dbpc' = "ended")
  <2>1. CASE DbStart \/ DbRead \/ DbCheck
    <3>1. UNCHANGED <<ds301, trees>>
      BY <2>1 DEF DbStart, DbRead, DbCheck
    <3>2. ds301 = FALSE
      BY <1>2 DEF CodbInv, CodbTypes
    <3>3. ds301' = FALSE
      BY <3>1, <3>2
    <3>4. trees' = trees + Count(ds301')
      BY <1>2, <3>1, <3>3 DEF Count
    <3>5. ds301' \in BOOLEAN /\ ~ds301'
      BY <3>3
    <3> QED
      BY <3>4, <3>5
  <2>2. CASE DbParse
    BY <1>2, <2>2 DEF DbParse, BaseParses, Count
  <2> QED
    BY <2>1, <2>2 DEF codb_init_ex
<1>4. trees' \in Nat
  BY <1>2, <1>3 DEF Count
<1>5. CodbTypes'
  BY <1>1, <1>3, <1>4 DEF CodbInv, CodbTypes
<1>6. CodbMain'
  <2>1. BaseParses' <=> BaseParses
    BY DEF BaseParses
  <2> QED
    BY <1>1, <1>2, <1>3, <2>1 DEF CodbInv, CodbMain, LoadedIsActive, ThreadEnded
<1>7. CodbTrees'
  <2>1. (CodbInUse' <=> CodbInUse) /\ (CodbFreed' <=> CodbFreed) /\ ~BaseInUse
    BY <1>1, <1>2 DEF CodbInUse, CodbFreed, BaseInUse
  <2>2. CASE ds301' /\ pc # "baseFreed"
    <3>1. trees' = trees + 1 /\ BaseInUse'
      BY <1>1, <1>3, <2>2 DEF Count, BaseInUse
    <3> HIDE DEF Main
    <3>2. Held' = Held + 1 /\ InUse' = InUse + 1
      BY <1>1, <1>2, <2>1, <3>1 DEF Held, InUse, Count
    <3>3. Held \in Int /\ InUse \in Int
      BY DEF Held, InUse, Count
    <3> QED
      BY <1>1, <1>2, <3>1, <3>2, <3>3 DEF CodbInv, CodbTrees, NoTreeLeaked
  <2>3. CASE ~ds301'
    <3>1. trees' = trees /\ ~BaseInUse'
      BY <1>2, <1>3, <2>3 DEF Count, BaseInUse
    <3>2. Held' = Held /\ InUse' = InUse
      BY <1>1, <1>2, <2>1, <3>1 DEF Held, InUse, Count
    <3> QED
      BY <1>1, <3>1, <3>2 DEF CodbInv, CodbTrees, NoTreeLeaked
  <2>4. CASE ds301' /\ pc = "baseFreed"
    <3>1. interrupted \in Halfway
      BY <1>2, <2>4 DEF CodbInv, CodbEnd, ReleasePcs
    <3>2. trees' = trees + 1 /\ ~BaseInUse'
      BY <1>1, <1>3, <2>4 DEF Count, BaseInUse
    <3>3. Held' = Held /\ Held \in Int
      BY <1>1, <1>2, <2>1, <3>2 DEF Held, Count
    <3> QED
      BY <1>1, <1>2, <3>1, <3>2, <3>3 DEF CodbInv, CodbTrees, NoTreeLeaked
  <2> QED
    BY <1>3, <2>2, <2>3, <2>4
<1>8. CodbEnd'
  BY <1>1, <1>2 DEF CodbInv, CodbEnd, ReleasePcs
<1> QED
  BY <1>5, <1>6, <1>7, <1>8 DEF CodbInv

LEMMA DeinitStep ==
    ASSUME CodbInv, core_deinit
    PROVE  CodbInv'
<1> USE DEF Main, NotLoaded, CodbInv
<1>1. /\ UNCHANGED interrupted /\ pc \notin MainPcs /\ pc' \notin MainPcs /\ pc' \in PcTypes
      /\ UNCHANGED <<file_no, dbpc>> /\ is_init_cancelled' \in BOOLEAN
  BY DEF core_deinit, codb_deinit, UndefinedUse, MainPcs, PcTypes, Halfway, CodbTypes, codbVars,
         initVars, profileVars, CancelInit, ForgetThread, FreeTree, ForgetBase, ForgetProfile,
         ResetCancel
<1>2. /\ trees \in Nat /\ codb \in 0 .. Len(Jsons) /\ active_no = codb /\ ds301 \in BOOLEAN
      /\ init_th \in BOOLEAN
  BY DEF CodbTypes, CodbMain, LoadedIsActive
<1>3. (BaseFreed' <=> BaseFreed) /\ (CodbFreed' <=> CodbFreed) /\ (ThreadEnded' <=> ThreadEnded)
      /\ (BaseParses' <=> BaseParses)
  BY <1>1 DEF BaseFreed, CodbFreed, ThreadEnded, BaseParses
<1>4. ASSUME ds301' => ds301, codb' \in {codb, 0}, active_no' = codb', init_th' \in BOOLEAN,
             trees' \in Nat, CodbTrees', CodbEnd', ds301' \in BOOLEAN
      PROVE  CodbInv'
  <2>1. codb' \in 0 .. Len(Jsons)
    BY <1>2, <1>4
  <2>2. CodbTypes'
    BY <1>1, <1>4, <2>1 DEF CodbTypes
  <2>3. CodbMain'
    BY <1>1, <1>3, <1>4 DEF CodbMain, LoadedIsActive, MainPcs
  <2> QED
    BY <1>4, <2>2, <2>3
<1>5. CASE UNCHANGED <<ds301, codb, active_no, init_th, trees>>
           /\ pc \notin {"baseFreed", "codbFreed"} /\ pc' \notin {"baseFreed", "codbFreed"}
  <2>1. CodbTrees'
    <3>1. (BaseInUse' <=> BaseInUse) /\ (CodbInUse' <=> CodbInUse) /\ pc # "parsed" /\ pc' # "parsed"
      BY <1>1, <1>5 DEF BaseInUse, CodbInUse, MainPcs
    <3>2. Held' = Held /\ InUse' = InUse
      BY <1>3, <3>1 DEF Held, InUse, Count
    <3> QED
      BY <1>1, <1>5, <3>2 DEF CodbTrees, NoTreeLeaked
  <2>2. CodbEnd'
    <3>1. \/ pc' \in {"cancel", "wait", "joining", "crashed"}
          \/ pc = "wait" /\ pc' = "base" /\ ~init_th
          \/ pc = "joining" /\ pc' = "joined" /\ (JoinedBefore \/ ThreadJoined)
          \/ pc = "joined" /\ pc' = "base" /\ ~init_th'
          \/ pc = "base" /\ pc' = "codb" /\ ~ds301
          \/ pc = "codb" /\ pc' = "reset" /\ codb = 0
          \/ pc = "reset" /\ pc' = "gone"
      BY <1>5 DEF core_deinit, codb_deinit, UndefinedUse, ForgetThread
    <3>2. interrupted \notin Halfway => ~JoinedBefore
      BY DEF JoinedBefore, Halfway
    <3> QED
      BY <1>1, <1>3, <1>5, <3>1, <3>2 DEF CodbEnd, ReleasePcs, MainPcs, ThreadJoined
  <2> QED
    BY <1>2, <1>4, <1>5, <2>1, <2>2
<1>6. CASE Main("joined", "base") /\ ForgetThread
  <2>1. UNCHANGED <<ds301, codb, active_no, trees>> /\ init_th' = FALSE
    BY <1>6 DEF ForgetThread, profileVars
  <2>2. CodbTrees'
    <3>1. (BaseInUse' <=> BaseInUse) /\ (CodbInUse' <=> CodbInUse)
      BY <1>6, <2>1 DEF BaseInUse, CodbInUse
    <3>2. Held' = Held /\ InUse' = InUse
      BY <1>3, <1>6, <3>1 DEF Held, InUse, Count
    <3> QED
      BY <1>1, <2>1, <3>2 DEF CodbTrees, NoTreeLeaked
  <2>3. CodbEnd'
    BY <1>1, <1>3, <1>6, <2>1 DEF CodbEnd, ReleasePcs
  <2> QED
    BY <1>2, <1>4, <2>1, <2>2, <2>3
<1>7. CASE Main("base", "baseFreed") /\ ds301 /\ FreeTree(BaseFreed)
  <2>1. UNCHANGED <<ds301, codb, active_no, init_th>> /\ trees' = trees - Count(~BaseFreed)
    BY <1>7 DEF FreeTree, profileVars, initVars
  <2>2. /\ (CodbInUse' <=> CodbInUse) /\ ~BaseInUse' /\ BaseInUse
        /\ interrupted \notin Halfway => ~BaseFreed
    BY <1>7, <2>1 DEF BaseInUse, CodbInUse, BaseFreed, Halfway
  <2>3. Held = Held' + Count(~BaseFreed) /\ Held' \in Nat
    BY <1>3, <1>7, <2>2 DEF Held, Count
  <2>4. trees' \in Nat /\ trees' >= Held'
    <3>1. trees >= Held /\ Count(~BaseFreed) \in Nat
      BY DEF CodbTrees, Count
    <3> QED
      BY <1>2, <2>1, <2>3, <3>1
  <2>5. interrupted \notin Halfway => trees' = InUse'
    BY <1>2, <1>7, <2>1, <2>2 DEF CodbTrees, NoTreeLeaked, InUse, Count
  <2>6. CodbTrees'
    BY <1>1, <2>4, <2>5 DEF CodbTrees, NoTreeLeaked
  <2>7. CodbEnd'
    BY <1>1, <1>3, <1>7, <2>1 DEF CodbEnd, ReleasePcs
  <2> QED
    BY <1>2, <1>4, <2>1, <2>4, <2>6, <2>7
<1>8. CASE Main("baseFreed", "codb") /\ ForgetBase
  <2>1. UNCHANGED <<codb, active_no, init_th, trees>> /\ ds301' = FALSE
    BY <1>8 DEF ForgetBase, profileVars, initVars
  <2>2. CodbTrees'
    <3>1. ~BaseInUse' /\ ~BaseInUse /\ (CodbInUse' <=> CodbInUse)
      BY <1>8, <2>1 DEF BaseInUse, CodbInUse
    <3>2. Held' = Held /\ InUse' = InUse
      BY <1>3, <1>8, <3>1 DEF Held, InUse, Count
    <3> QED
      BY <1>1, <2>1, <3>2 DEF CodbTrees, NoTreeLeaked
  <2>3. CodbEnd'
    BY <1>1, <1>3, <1>8, <2>1 DEF CodbEnd, ReleasePcs
  <2> QED
    BY <1>2, <1>4, <2>1, <2>2, <2>3
<1>9. CASE Main("codb", "codbFreed") /\ codb # NotLoaded /\ FreeTree(CodbFreed)
  <2>1. UNCHANGED <<ds301, codb, active_no, init_th>> /\ trees' = trees - Count(~CodbFreed)
    BY <1>9 DEF FreeTree, profileVars, initVars
  <2>2. /\ (BaseInUse' <=> BaseInUse) /\ ~CodbInUse' /\ CodbInUse
        /\ interrupted \notin Halfway => ~CodbFreed
    BY <1>9, <2>1 DEF BaseInUse, CodbInUse, CodbFreed, Halfway
  <2>3. Held = Held' + Count(~CodbFreed) /\ Held' \in Nat
    BY <1>3, <1>9, <2>2 DEF Held, Count
  <2>4. trees' \in Nat /\ trees' >= Held'
    <3>1. trees >= Held /\ Count(~CodbFreed) \in Nat
      BY DEF CodbTrees, Count
    <3> QED
      BY <1>2, <2>1, <2>3, <3>1
  <2>5. interrupted \notin Halfway => trees' = InUse'
    BY <1>2, <1>9, <2>1, <2>2 DEF CodbTrees, NoTreeLeaked, InUse, Count
  <2>6. CodbTrees'
    BY <1>1, <2>4, <2>5 DEF CodbTrees, NoTreeLeaked
  <2>7. CodbEnd'
    BY <1>1, <1>3, <1>9, <2>1 DEF CodbEnd, ReleasePcs
  <2> QED
    BY <1>2, <1>4, <2>1, <2>4, <2>6, <2>7
<1>10. CASE Main("codbFreed", "reset") /\ ForgetProfile
  <2>1. UNCHANGED <<ds301, init_th, trees>> /\ codb' = 0 /\ active_no' = 0
    BY <1>10 DEF ForgetProfile, NumberUnloaded, initVars
  <2>2. CodbTrees'
    <3>1. ~CodbInUse' /\ ~CodbInUse /\ (BaseInUse' <=> BaseInUse)
      BY <1>10, <2>1 DEF BaseInUse, CodbInUse
    <3>2. Held' = Held /\ InUse' = InUse
      BY <1>3, <1>10, <3>1 DEF Held, InUse, Count
    <3> QED
      BY <1>1, <2>1, <3>2 DEF CodbTrees, NoTreeLeaked
  <2>3. CodbEnd'
    BY <1>1, <1>3, <1>10, <2>1 DEF CodbEnd, ReleasePcs
  <2> QED
    BY <1>2, <1>4, <2>1, <2>2, <2>3
<1>11. core_deinit =>
          \/ /\ UNCHANGED <<ds301, codb, active_no, init_th, trees>>
             /\ pc \notin {"baseFreed", "codbFreed"} /\ pc' \notin {"baseFreed", "codbFreed"}
          \/ Main("joined", "base") /\ ForgetThread
          \/ Main("base", "baseFreed") /\ ds301 /\ FreeTree(BaseFreed)
          \/ Main("baseFreed", "codb") /\ ForgetBase
          \/ Main("codb", "codbFreed") /\ codb # NotLoaded /\ FreeTree(CodbFreed)
          \/ Main("codbFreed", "reset") /\ ForgetProfile
  BY DEF core_deinit, codb_deinit, UndefinedUse, codbVars, initVars, profileVars, CancelInit, ResetCancel
<1> QED
  BY <1>5, <1>6, <1>7, <1>8, <1>9, <1>10, <1>11

(* An interrupt halfway leaves what was allocated, and perhaps one more.   *)
LEMMA SigintStep ==
    ASSUME CodbInv, handle_sigint
    PROVE  CodbInv'
<1> USE DEF CodbInv
<1>1. /\ interrupted = "no" /\ interrupted' = (IF pc \in Halfway THEN pc ELSE "between")
      /\ pc' \in {"clear", "gone", "crashed"} /\ (pc' = "gone" => pc \in {"start", "gone"})
      /\ UNCHANGED <<ds301, codb, active_no, file_no, init_th, is_init_cancelled>>
      /\ trees' \in {trees, trees + 1} /\ (pc # "calling" => UNCHANGED <<dbpc, trees>>)
      /\ (UNCHANGED dbpc \/ dbpc' = "none")
  BY DEF handle_sigint, BreakOff, codbVars, profileVars, initVars
<1>2. trees \in Nat /\ trees' \in Nat /\ trees' >= trees
  BY <1>1 DEF CodbTypes
<1>3. CodbTypes'
  BY <1>1, <1>2 DEF CodbTypes, PcTypes
<1>4. CodbMain'
  BY <1>1 DEF CodbTypes, CodbMain, CodbEnd, LoadedIsActive, ThreadEnded, BaseFreed, MainPcs,
              ReleasePcs, BaseParses, Halfway
<1>5. CodbTrees'
  <2>1. interrupted \notin Halfway /\ trees = InUse
    BY <1>1 DEF Halfway, CodbTrees, NoTreeLeaked
  <2>2. Held' <= InUse
    <3>1. BaseInUse' /\ ~BaseFreed' => BaseInUse
      BY <1>1 DEF BaseInUse, BaseFreed, Halfway
    <3>2. CodbInUse' /\ ~CodbFreed' => CodbInUse
      BY <1>1 DEF CodbInUse, CodbFreed, Halfway
    <3> QED
      BY <1>1, <3>1, <3>2 DEF Held, InUse, Count
  <2>3. interrupted' \notin Halfway => trees' = InUse'
    <3>1. ASSUME interrupted' \notin Halfway PROVE pc \notin Halfway /\ trees' = trees
      BY <1>1, <3>1 DEF Halfway
    <3>2. ASSUME interrupted' \notin Halfway
          PROVE  (BaseInUse' <=> BaseInUse) /\ (CodbInUse' <=> CodbInUse) /\ pc # "parsed"
      BY <1>1, <3>1, <3>2 DEF BaseInUse, CodbInUse, Halfway
    <3> QED
      BY <1>1, <2>1, <3>1, <3>2 DEF InUse, Count
  <2>4. Held' \in Int /\ InUse \in Int
    BY DEF Held, InUse, Count
  <2> QED
    BY <1>2, <2>1, <2>2, <2>3, <2>4 DEF CodbTrees, NoTreeLeaked
<1>6. CodbEnd'
  <2>1. interrupted \notin Halfway
    BY <1>1 DEF Halfway
  <2>2. pc \notin Halfway => pc \notin {"created", "calling"}
    BY DEF Halfway
  <2>3. interrupted' \notin Halfway => pc \notin Halfway
    BY <1>1
  <2> QED
    BY <1>1, <2>1, <2>2, <2>3 DEF CodbEnd, CodbMain, ThreadEnded, ReleasePcs
<1> QED
  BY <1>3, <1>4, <1>5, <1>6

LEMMA InitSteps ==
    ASSUME CodbInv, core_init
    PROVE  CodbInv'
<1> USE DEF Main, CodbInv
<1>1. /\ interrupted = "no" /\ UNCHANGED <<interrupted, ds301, codb, active_no, file_no, trees>>
      /\ pc \in {"start", "created", "calling"} /\ pc' \in {"created", "calling", "init"}
  BY DEF core_init, codb_init, StoreThread, codbVars, profileVars, CodbMain, MainPcs
<1>2. init_th' \in BOOLEAN /\ is_init_cancelled' \in BOOLEAN
      /\ dbpc' \in {"none", "start", "read", "check", "parse", "ended"}
  BY DEF core_init, codb_init, StoreThread, codbVars, initVars, CodbTypes
<1>3. CodbTypes'
  BY <1>1, <1>2 DEF CodbTypes, PcTypes, Halfway
<1>4. CodbMain'
  <2>1. UNCHANGED dbpc \/ ~ds301
    BY DEF core_init, codb_init, StoreThread, codbVars, initVars, CodbMain
  <2> QED
    BY <1>1, <2>1 DEF CodbMain, LoadedIsActive, ThreadEnded, BaseFreed, MainPcs, BaseParses
<1>5. CodbTrees'
  <2>1. (BaseInUse' <=> BaseInUse) /\ (CodbInUse' <=> CodbInUse)
        /\ (BaseFreed' <=> BaseFreed) /\ (CodbFreed' <=> CodbFreed)
    BY <1>1 DEF BaseInUse, CodbInUse, BaseFreed, CodbFreed
  <2>2. Held' = Held /\ InUse' = InUse
    BY <1>1, <2>1 DEF Held, InUse, Count
  <2> QED
    BY <1>1, <2>2 DEF CodbTrees, NoTreeLeaked
<1>6. CodbEnd'
  <2>1. ThreadEnded' \/ init_th' \/ pc' \in {"created", "calling"}
    BY DEF core_init, StoreThread, ThreadEnded, codbVars, initVars
  <2> QED
    BY <1>1, <2>1 DEF CodbEnd, ReleasePcs
<1> QED
  BY <1>3, <1>4, <1>5, <1>6

LEMMA CodbStep == CodbInv /\ [Next]_vars => CodbInv'
<1> SUFFICES ASSUME CodbInv, [Next]_vars PROVE CodbInv'
  OBVIOUS
<1>1. ASSUME UNCHANGED <<codbVars, interrupted>>, pc \notin Halfway, pc' \in Quiet,
             pc' \in MainPcs => pc \in MainPcs
      PROVE  CodbInv'
  BY <1>1, QuietStep DEF CodbInv, CodbTypes, codbVars, profileVars, initVars
<1>2. CASE Prompt \/ (\E s \in DOMAIN Shelf : ScriptArgument(s) \/ RunCommand(s))
  BY <1>1, <1>2 DEF Prompt, ScriptArgument, RunCommand, AtPrompt, Main, Quiet, Halfway, MainPcs
<1>3. CASE Quit
  BY <1>1, <1>3 DEF Quit, Main, Quiet, Halfway, MainPcs
<1>4. CASE RunScript \/ ScriptReports
  BY <1>1, <1>4 DEF RunScript, ScriptReports, Quiet, Halfway, MainPcs
<1>5. CASE UNCHANGED vars
  <2>1. UNCHANGED <<ds301, codb, active_no, file_no, init_th, is_init_cancelled, dbpc, trees, pc,
                    interrupted>>
    BY <1>5 DEF vars, codbVars, profileVars, initVars
  <2>2. CodbTypes' /\ CodbMain' /\ CodbEnd'
    BY <2>1 DEF CodbInv, CodbTypes, CodbMain, CodbEnd, LoadedIsActive, ThreadEnded, BaseFreed, BaseParses
  <2>3. CodbTrees'
    BY <2>1 DEF CodbInv, CodbTrees, Held, NoTreeLeaked, InUse, BaseInUse, CodbInUse, BaseFreed, CodbFreed
  <2> QED
    BY <2>2, <2>3 DEF CodbInv
<1> QED
  BY <1>2, <1>3, <1>4, <1>5, LoadSteps, ThreadStep, DeinitStep, SigintStep, InitSteps DEF Next

-----------------------------------------------------------------------------
(* The results.                                                            *)
LEMMA ReportStep == ReportInv /\ [Next]_vars => ReportInv'
<1> SUFFICES ASSUME ReportInv, [Next]_vars PROVE ReportInv'
  OBVIOUS
<1> USE DEF ReportInv, reportVars
<1>1. ASSUME UNCHANGED reportVars, pc' \notin {"start"} \cup DeinitPcs
      PROVE  ReportInv'
  BY <1>1
<1>0. ASSUME UNCHANGED made, results' = <<>> PROVE ReportInv'
  <2>1. results' \in Seq(Results) /\ Len(results') = 0
    BY <1>0
  <2> QED
    BY <1>0, <2>1
<1>2. CASE core_init \/ Prompt \/ (\E s \in DOMAIN Shelf : ScriptArgument(s) \/ RunCommand(s))
  BY <1>1, <1>2 DEF core_init, Prompt, ScriptArgument, RunCommand, AtPrompt, Main, DeinitPcs, ReleasePcs
<1>3. CASE Quit \/ RunScript \/ (\E n \in 0 .. Len(Files) : LoadCommand(n)) \/ LoadStep
  BY <1>1, <1>3 DEF Quit, RunScript, LoadCommand, LoadStep, Unloaded, AtPrompt, Main, DeinitPcs, ReleasePcs
<1>4. CASE ScriptReports
  <2>1. pc \in {"prompt", "once"} /\ (pc' = pc \/ pc' = "crashed")
    BY <1>4 DEF ScriptReports
  <2>2. CASE \E suite \in Suites \cup {NoSuite} : test_add_result(suite)
    <3>1. PICK suite \in Suites \cup {NoSuite} : test_add_result(suite)
      BY <2>2
    <3> DEFINE r == [test |-> made + 1, suite |-> suite]
    <3>2. made' = made + 1 /\ made' \in 0 .. MaxResults /\ results' = Append(results, r)
      BY <3>1, ReportAssumption DEF test_add_result
    <3>3. r \in Results
      BY <3>1, ReportAssumption DEF test_add_result, Results, Tests
    <3> HIDE DEF r
    <3>4. results' \in Seq(Results) /\ Len(results') = Len(results) + 1
      BY <3>2, <3>3, AppendProperties
    <3> QED
      BY <2>1, <3>2, <3>4, LenProperties DEF DeinitPcs, ReleasePcs
  <2>3. CASE test_clear_results \/ test_generate_report \/ UNCHANGED reportVars
    <3>1. UNCHANGED made /\ (results' = <<>> \/ UNCHANGED results)
      BY <2>3 DEF test_clear_results, test_generate_report, WriteReport
    <3> QED
      BY <2>1, <3>1, <1>0 DEF DeinitPcs, ReleasePcs
  <2> QED
    BY <1>4, <2>2, <2>3 DEF ScriptReports
<1>5. CASE core_deinit
  <2>1. UNCHANGED made /\ (results' = <<>> \/ (UNCHANGED results /\ pc # "clear"))
    BY <1>5 DEF core_deinit, codb_deinit, UndefinedUse, Main, test_clear_results
  <2>2. pc # "clear" => pc \in DeinitPcs
    BY <1>5 DEF core_deinit, codb_deinit, UndefinedUse, Main, DeinitPcs, ReleasePcs
  <2> QED
    BY <2>1, <2>2, <1>0
<1>6. CASE DbThread \/ UNCHANGED vars
  BY <1>6 DEF DbThread, vars
<1>7. CASE handle_sigint
  <2>1. UNCHANGED reportVars /\ pc' \in {"gone", "clear", "crashed"}
          /\ (pc' = "gone" => pc \in {"start", "gone"})
    BY <1>7 DEF handle_sigint
  <2> QED
    BY <2>1 DEF DeinitPcs, ReleasePcs
<1> QED
  BY <1>2, <1>3, <1>4, <1>5, <1>6, <1>7 DEF Next, Ended

-----------------------------------------------------------------------------
(* The reports.                                                            *)

(* In a report a test has as many places as among the results.             *)
LEMMA PlacesInReport ==
    ASSUME ReportInv, Distinct(results), NEW t \in Tests
    PROVE  LET those == {k \in DOMAIN results : results[k].test = t}
           IN  /\ Cardinality(Places(Grouped(results), t)) = Cardinality(those)
               /\ Cardinality(those) = IF those = {} THEN 0 ELSE 1
<1> DEFINE n == Len(results)
           s == results
           x == SortResults(s)
           w == Grouped(s)
           those == {k \in DOMAIN s : s[k].test = t}
<1>1. n \in Nat /\ s \in [1 .. n -> Results] /\ n <= MaxResults /\ MaxResults \in Nat
  BY LenProperties, ReportAssumption DEF ReportInv
<1> HIDE DEF n, s, x, w
<1>2. Holds(w, x, n) /\ SortedAs(n, s, x)
  <2>1. Distinct(s)
    BY DEF s
  <2> QED
    BY <1>1, <2>1, GroupedHoldsAll, SortSorts DEF w, x
<1>3. DOMAIN s = 1 .. n
  BY <1>1
<1>4. CASE those = {}
  <2>1. ASSUME NEW p \in Places(w, t) PROVE FALSE
    <3>1. p[1] \in DOMAIN w /\ p[2] \in DOMAIN w[p[1]].tests /\ w[p[1]].tests[p[2]].test = t
      BY DEF Places
    <3>2. PICK l \in 1 .. n : w[p[1]].tests[p[2]] = x[l]
      BY <1>2, <3>1 DEF Holds
    <3>3. PICK k \in 1 .. n : x[l] = s[k]
      BY <1>2 DEF SortedAs, Rearranged
    <3> QED
      BY <1>3, <1>4, <3>1, <3>2, <3>3
  <2>2. Places(w, t) = {} /\ Cardinality({}) = 0
    BY <2>1, FS_EmptySet
  <2> QED
    BY <1>4, <2>2 DEF w, s
<1>5. CASE those # {}
  <2>1. PICK k \in 1 .. n : s[k].test = t
    BY <1>3, <1>5
  <2>2. those = {k}
    BY <1>3, <2>1 DEF Distinct, s
  <2>3. PICK l \in 1 .. n : x[l] = s[k]
    BY <1>2 DEF SortedAs, Rearranged
  <2>4. PICK p \in DOMAIN w : \E q \in DOMAIN w[p].tests : w[p].tests[q] = x[l]
    BY <1>2 DEF Holds
  <2>5. PICK q \in DOMAIN w[p].tests : w[p].tests[q] = x[l]
    BY <2>4
  <2>6. q \in Tests
    <3>1. w[p].tests \in Seq(Results) /\ Len(w[p].tests) <= n
      BY <1>2, GroupType DEF Holds
    <3>2. Len(w[p].tests) \in Nat /\ q \in 1 .. Len(w[p].tests)
      BY <3>1
    <3> QED
      BY <1>1, <3>1, <3>2 DEF Tests
  <2>7. <<p, q>> \in Places(w, t)
    BY <2>1, <2>3, <2>5, <2>6 DEF Places
  <2>8. ASSUME NEW z \in Places(w, t) PROVE z = <<p, q>>
    <3>1. /\ z \in (DOMAIN w) \X Tests
          /\ z[2] \in DOMAIN w[z[1]].tests /\ w[z[1]].tests[z[2]].test = t
      BY DEF Places
    <3>2. PICK a \in DOMAIN w, b \in Tests : z = <<a, b>>
      BY <3>1
    <3>3. b \in DOMAIN w[a].tests /\ w[a].tests[b].test = w[p].tests[q].test
      BY <2>1, <2>3, <2>5, <3>1, <3>2
    <3>4. \A i, j \in DOMAIN w : \A c \in DOMAIN w[i].tests, d \in DOMAIN w[j].tests :
             w[i].tests[c].test = w[j].tests[d].test => i = j /\ c = d
      BY <1>2 DEF Holds
    <3>5. a = p /\ b = q
      <4> DEFINE D(i) == DOMAIN w[i].tests
                 N(i, c) == w[i].tests[c].test
      <4>1. b \in D(a) /\ q \in D(p) /\ N(a, b) = N(p, q)
        BY <3>3
      <4>2. \A i, j \in DOMAIN w : \A c \in D(i), d \in D(j) : N(i, c) = N(j, d) => i = j /\ c = d
        BY <3>4
      <4> HIDE DEF D, N
      <4> QED
        BY <4>1, <4>2
    <3> QED
      BY <3>2, <3>5
  <2>9. Places(w, t) = {<<p, q>>}
    BY <2>7, <2>8
  <2>10. Cardinality(Places(w, t)) = 1 /\ Cardinality(those) = 1
    BY <2>2, <2>9, FS_Singleton
  <2> QED
    BY <1>5, <2>10 DEF w, s
<1> QED
  BY <1>4, <1>5

LEMMA NoPlaces == \A t \in Tests : Cardinality(Places(<<>>, t)) = 0
<1>1. DOMAIN <<>> = {}
  OBVIOUS
<1>2. \A t \in Tests : Places(<<>>, t) = {}
  BY <1>1 DEF Places
<1> QED
  BY <1>2, FS_EmptySet

(* A report counts the tests of the results, and keeps none of them.       *)
LEMMA ReportWritten ==
    ASSUME ReportInv, ReportedInv, test_generate_report
    PROVE  \/ report' = <<>> /\ UNCHANGED <<results, made, reported>>
           \/ /\ results' = <<>> /\ UNCHANGED made /\ reported' \in [Tests -> Nat]
              /\ \A t \in Tests :
                    LET those == {k \in DOMAIN results : results[k].test = t}
                    IN  /\ reported'[t] = reported[t] + Cardinality(those)
                        /\ Cardinality(those) = IF those = {} THEN 0 ELSE 1
<1> DEFINE Those(t) == {k \in DOMAIN results : results[k].test = t}
<1>1. /\ WriteReport \/ (report' = <<>> /\ UNCHANGED results)
      /\ reported' = [t \in Tests |-> reported[t] + Cardinality(Places(report', t))]
      /\ UNCHANGED made
  BY DEF test_generate_report
<1>2. reported \in [Tests -> Nat] /\ Distinct(results)
  BY DEF ReportedInv
<1>3. CASE report' = <<>> /\ UNCHANGED results
  <2>1. \A t \in Tests : reported[t] + Cardinality(Places(report', t)) = reported[t]
    BY <1>2, <1>3, NoPlaces
  <2>2. reported' = reported
    BY <1>1, <1>2, <2>1
  <2> QED
    BY <1>1, <1>3, <2>2
<1>4. CASE WriteReport
  <2>1. report' = Grouped(results) /\ results' = <<>>
    BY <1>4 DEF WriteReport
  <2>2. ASSUME NEW t \in Tests
        PROVE  /\ Cardinality(Places(report', t)) = Cardinality(Those(t))
               /\ Cardinality(Those(t)) = IF Those(t) = {} THEN 0 ELSE 1
    BY <1>2, <2>1, PlacesInReport
  <2> HIDE DEF Those
  <2>3. \A t \in Tests : /\ reported'[t] = reported[t] + Cardinality(Those(t))
                         /\ reported[t] + Cardinality(Places(report', t)) \in Nat
    BY <1>1, <1>2, <2>2
  <2>4. reported' \in [Tests -> Nat]
    BY <1>1, <2>3
  <2> QED
    BY <1>1, <2>1, <2>2, <2>3, <2>4 DEF Those
<1> QED
  BY <1>1, <1>3, <1>4

LEMMA AddStep ==
    ASSUME ReportInv, ReportedInv, NEW suite \in Suites \cup {NoSuite}, test_add_result(suite)
    PROVE  ReportedInv'
<1> DEFINE r == [test |-> made + 1, suite |-> suite]
<1>1. /\ made < MaxResults /\ made' = made + 1 /\ results' = Append(results, r)
      /\ UNCHANGED reported
  BY DEF test_add_result
<1>2. results \in Seq(Results) /\ made \in 0 .. MaxResults /\ MaxResults \in Nat
  BY ReportAssumption DEF ReportInv
<1>3. r \in Results /\ r.test = made + 1
  BY <1>1, <1>2 DEF Results, Tests
<1> HIDE DEF r
<1>4. /\ DOMAIN results = 1 .. Len(results) /\ DOMAIN results' = 1 .. Len(results) + 1
      /\ \A k \in 1 .. Len(results) : results'[k] = results[k]
      /\ results'[Len(results) + 1] = r /\ Len(results) \in Nat
  BY <1>1, <1>2, <1>3, AppendProperties
<1>5. \A k \in DOMAIN results' :
         \/ k \in DOMAIN results /\ results'[k] = results[k]
         \/ k = Len(results) + 1 /\ results'[k] = r
  BY <1>4
<1>6. \A k \in DOMAIN results : results[k].test \in Nat /\ results[k].test <= made
                               /\ reported[results[k].test] = 0
  <2>1. \A k \in DOMAIN results : results[k] \in Results
    BY <1>2
  <2>2. \A x \in Results : x.test \in Nat
    BY DEF Results, Tests
  <2> QED
    BY <2>1, <2>2 DEF ReportedInv
<1>7. Distinct(results')
  <2> SUFFICES ASSUME NEW k \in DOMAIN results', NEW l \in DOMAIN results',
                      results'[k].test = results'[l].test
               PROVE  k = l
    BY DEF Distinct
  <2>1. \A i \in DOMAIN results : results[i].test # made + 1
    BY <1>2, <1>6
  <2>2. CASE k \in DOMAIN results /\ l \in DOMAIN results
    <3>1. results[k].test = results[l].test
      BY <1>4, <2>2
    <3> QED
      BY <2>2, <3>1 DEF ReportedInv, Distinct
  <2> QED
    BY <1>3, <1>5, <2>1, <2>2
<1>8. \A k \in DOMAIN results' : results'[k].test <= made' /\ reported'[results'[k].test] = 0
  <2>1. made + 1 \in Tests /\ made + 1 > made
    BY <1>1, <1>2 DEF Tests
  <2>2. reported[made + 1] = 0
    BY <2>1 DEF ReportedInv
  <2> QED
    BY <1>1, <1>2, <1>3, <1>5, <1>6, <2>2
<1>9. \A t \in Tests : t > made' => reported'[t] = 0
  <2>1. \A t \in Tests : t > made + 1 => t > made
    BY <1>2 DEF Tests
  <2> QED
    BY <1>1, <2>1 DEF ReportedInv
<1>10. reported' \in [Tests -> Nat] /\ InOneReport'
  BY <1>1 DEF ReportedInv, InOneReport
<1> QED
  BY <1>7, <1>8, <1>9, <1>10 DEF ReportedInv

LEMMA ClearedStep ==
    ASSUME ReportedInv, results' = <<>>, UNCHANGED <<made, reported>>
    PROVE  ReportedInv'
<1>1. DOMAIN results' = {}
  OBVIOUS
<1>2. reported' \in [Tests -> Nat] /\ InOneReport' /\ \A t \in Tests : t > made' => reported'[t] = 0
  BY DEF ReportedInv, InOneReport
<1> QED
  BY <1>1, <1>2 DEF ReportedInv, Distinct

(* What a step does of the results.                                        *)
LEMMA ReportSteps ==
    ASSUME [Next]_vars
    PROVE  \/ UNCHANGED reportVars
           \/ \E suite \in Suites \cup {NoSuite} : test_add_result(suite)
           \/ test_clear_results
           \/ test_generate_report
<1>1. CASE core_init \/ Prompt \/ (\E s \in DOMAIN Shelf : ScriptArgument(s) \/ RunCommand(s))
  BY <1>1 DEF core_init, Prompt, ScriptArgument, RunCommand
<1>2. CASE Quit \/ RunScript \/ (\E n \in 0 .. Len(Files) : LoadCommand(n)) \/ LoadStep
  BY <1>2 DEF Quit, RunScript, LoadCommand, LoadStep
<1>3. CASE ScriptReports
  BY <1>3 DEF ScriptReports
<1>4. CASE core_deinit
  BY <1>4 DEF core_deinit
<1>5. CASE handle_sigint \/ DbThread \/ UNCHANGED vars
  BY <1>5 DEF handle_sigint, DbThread, vars
<1> QED
  BY <1>1, <1>2, <1>3, <1>4, <1>5 DEF Next

LEMMA ReportedStep == ReportInv /\ ReportedInv /\ [Next]_vars => ReportedInv'
<1> SUFFICES ASSUME ReportInv, ReportedInv, [Next]_vars PROVE ReportedInv'
  OBVIOUS
<1>1. ASSUME UNCHANGED <<results, made, reported>> PROVE ReportedInv'
  BY <1>1 DEF ReportedInv, InOneReport
<1>2. CASE UNCHANGED reportVars
  BY <1>1, <1>2 DEF reportVars
<1>3. CASE \E suite \in Suites \cup {NoSuite} : test_add_result(suite)
  BY <1>3, AddStep
<1>4. CASE test_clear_results
  BY <1>4, ClearedStep DEF test_clear_results
<1>5. CASE test_generate_report
  <2> DEFINE Those(t) == {k \in DOMAIN results : results[k].test = t}
  <2>1. CASE UNCHANGED <<results, made, reported>>
    BY <1>1, <2>1
  <2>2. CASE /\ results' = <<>> /\ UNCHANGED made /\ reported' \in [Tests -> Nat]
             /\ \A t \in Tests : /\ reported'[t] = reported[t] + Cardinality(Those(t))
                                 /\ Cardinality(Those(t)) = IF Those(t) = {} THEN 0 ELSE 1
    <3>1. DOMAIN results' = {}
      BY <2>2
    <3>2. ASSUME NEW t \in Tests
          PROVE  reported'[t] <= 1 /\ (t > made => reported'[t] = 0)
      <4>1. /\ reported[t] \in Nat /\ reported[t] <= 1 /\ (t > made => reported[t] = 0)
        BY DEF ReportedInv, InOneReport
      <4>2. CASE Those(t) = {}
        <5> HIDE DEF Those
        <5>1. reported'[t] = reported[t]
          BY <2>2, <4>1, <4>2
        <5> QED
          BY <4>1, <5>1
      <4>3. CASE Those(t) # {}
        <5>1. PICK k \in DOMAIN results : results[k].test = t
          BY <4>3
        <5>2. t <= made /\ reported[t] = 0
          BY <5>1 DEF ReportedInv
        <5>3. made \in Nat /\ t \in Nat
          BY DEF ReportInv, Tests
        <5> HIDE DEF Those
        <5> QED
          BY <2>2, <4>3, <5>2, <5>3
      <4> QED
        BY <4>2, <4>3
    <3> QED
      BY <2>2, <3>1, <3>2 DEF ReportedInv, Distinct, InOneReport
  <2> QED
    BY <1>5, <2>1, <2>2, ReportWritten
<1> QED
  BY <1>2, <1>3, <1>4, <1>5, ReportSteps

-----------------------------------------------------------------------------
(* The scripts.                                                            *)

(* After a try in a place the search is in the next one, or at its end.    *)
LEMMA ReturnedWhere ==
    ASSUME ScriptInv, NEW result, Returned(result)
    PROVE  /\ spc' \in {"search", "finish"} /\ place' \in Direct .. UserDirectory
           /\ status' = result
           /\ result = "ok" => spc' = "finish"
<1>1. status' = result /\ spc' \in {"search", "finish"} /\ (result = "ok" => spc' = "finish")
  BY DEF Returned
<1>2. place' = place \/ (place \in SearchPaths /\ place' = place + 1)
  BY DEF Returned
<1>3. place' \in Direct .. UserDirectory
  <2>1. max_script_search_paths \in Nat /\ place \in 0 .. max_script_search_paths + 1
    BY ScriptsAssumption DEF ScriptInv, Direct, UserDirectory
  <2>2. CASE place' = place
    BY <2>1, <2>2 DEF Direct, UserDirectory
  <2>3. CASE place \in SearchPaths /\ place' = place + 1
    BY <2>1, <2>3 DEF Direct, UserDirectory, SearchPaths
  <2> QED
    BY <1>2, <2>2, <2>3
<1> QED
  BY <1>1, <1>3

LEMMA ScriptStep == ScriptInv /\ [Next]_vars => ScriptInv'
<1> SUFFICES ASSUME ScriptInv, [Next]_vars PROVE ScriptInv'
  OBVIOUS
<1> USE DEF scriptVars
<1>1. CASE UNCHANGED scriptVars
  BY <1>1 DEF ScriptInv, SuccessEndsSearch
<1>2. ASSUME NEW s \in DOMAIN Shelf, run_script(s) PROVE ScriptInv'
  <2>1. /\ spc' = "search" /\ is_script_running' = TRUE /\ status' = "ok"
        /\ executed' = <<>> /\ UNCHANGED is_abort
    BY <1>2 DEF run_script
  <2>2. place' \in Direct .. UserDirectory
    BY <1>2, ScriptsAssumption DEF run_script, Direct, UserDirectory
  <2>3. is_script_running' \in BOOLEAN /\ executed' \in Seq({"ok", "error"})
    BY <2>1
  <2>4. DOMAIN executed' = {}
    BY <2>1
  <2>5. SuccessEndsSearch'
    BY <2>1, <2>4 DEF SuccessEndsSearch
  <2> QED
    BY <2>1, <2>2, <2>3, <2>5 DEF ScriptInv
<1>3. CASE run_script_ex
  <2>1. CASE ~Found /\ Returned("not found")
    <3>1. spc' \in {"search", "finish"} /\ place' \in Direct .. UserDirectory
            /\ status' = "not found"
      BY <2>1, ReturnedWhere
    <3> QED
      BY <3>1, <1>3 DEF run_script_ex, ScriptInv, SuccessEndsSearch
  <2>2. CASE Found /\ spc' = "running" /\ UNCHANGED <<place, status>>
    BY <2>2, <1>3 DEF run_script_ex, ScriptInv, SuccessEndsSearch
  <2> QED
    BY <1>3, <2>1, <2>2 DEF run_script_ex
<1>4. CASE ScriptEnds
  <2>1. PICK result \in {"ok", "error"} :
           Returned(result) /\ executed' = Append(executed, result)
    BY <1>4 DEF ScriptEnds
  <2>2. /\ spc = "running" /\ is_script_running \in BOOLEAN /\ is_script_running
        /\ UNCHANGED <<is_script_running, is_abort>>
    BY <1>4 DEF ScriptEnds, ScriptInv, SuccessEndsSearch
  <2>3. spc' \in {"search", "finish"} /\ place' \in Direct .. UserDirectory
          /\ status' = result /\ (result = "ok" => spc' = "finish")
    BY <2>1, ReturnedWhere
  <2>4. executed \in Seq({"ok", "error"})
    BY DEF ScriptInv
  <2>5. /\ executed' \in Seq({"ok", "error"}) /\ Len(executed') = Len(executed) + 1
        /\ \A k \in 1 .. Len(executed) : executed'[k] = executed[k]
        /\ executed'[Len(executed) + 1] = result
    BY <2>1, <2>4, AppendProperties
  <2>6. \A k \in DOMAIN executed : executed[k] # "ok"
    BY <2>2 DEF ScriptInv, SuccessEndsSearch
  <2>7. \A k \in DOMAIN executed' : executed'[k] = "ok" =>
           k = Len(executed') /\ spc' = "finish"
    BY <2>3, <2>4, <2>5, <2>6, LenProperties
  <2>8. is_script_running' <=> spc' # "idle"
    BY <2>2, <2>3
  <2> QED
    BY <2>2, <2>3, <2>5, <2>7, <2>8 DEF ScriptInv, SuccessEndsSearch
<1>5. CASE window_update_quit
  <2>1. is_abort' \in BOOLEAN
    BY <1>5 DEF window_update_quit
  <2> QED
    BY <1>5, <2>1 DEF window_update_quit, ScriptInv, SuccessEndsSearch
<1>6. CASE Finish
  <2>1. /\ spc' = "idle" /\ is_script_running' = FALSE /\ spc = "finish"
        /\ status' = "ok" /\ executed' = <<>>
    BY <1>6 DEF Finish
  <2>4. place' \in Direct .. UserDirectory
    <3>1. place' = Direct
      BY <1>6 DEF Finish
    <3> QED
      BY <3>1, ScriptsAssumption DEF Direct, UserDirectory
  <2>2. is_script_running' \in BOOLEAN /\ is_abort' \in BOOLEAN
    BY <1>6 DEF Finish, ScriptInv
  <2>6. executed' \in Seq({"ok", "error"})
    BY <2>1
  <2>5. DOMAIN executed' = {}
    BY <2>1
  <2>3. SuccessEndsSearch'
    BY <2>1, <2>5 DEF SuccessEndsSearch
  <2> QED
    BY <2>1, <2>2, <2>3, <2>4, <2>6 DEF ScriptInv
<1>7. CASE RunScript
  BY <1>3, <1>4, <1>5, <1>6, <1>7 DEF RunScript
<1>8. CASE UNCHANGED vars
  BY <1>1, <1>8 DEF vars
<1>9. CASE Next /\ ~RunScript /\ ~UNCHANGED scriptVars
  <2>1. \E s \in DOMAIN Shelf : run_script(s)
    BY <1>9 DEF Next, core_init, Prompt, Quit, ScriptReports, ScriptArgument, RunCommand,
                LoadCommand, LoadStep, core_deinit, handle_sigint, DbThread, vars
  <2> QED
    BY <2>1, <1>2
<1> QED
  BY <1>1, <1>7, <1>8, <1>9

LEMMA IInvAlways == Spec => []IInv
<1>1. IInv /\ [Next]_vars => IInv'
  BY CodbStep, ReportStep, ReportedStep, ScriptStep DEF IInv
<1> QED
  BY <1>1, InitEstablishes, PTL DEF Spec

-----------------------------------------------------------------------------
(* Every reachable state has the declared types: the profile that is loaded*)
(* is one of the directory, the results are no more than were made, the    *)
(* search of run_script stays among its places.                            *)
THEOREM TypeCorrect == Spec => []TypeOK
<1>1. ASSUME IInv PROVE TypeOK
  <2>1. results \in BoundedSeq(Results, MaxResults)
    <3>1. Len(results) \in 0 .. MaxResults /\ results \in [1 .. Len(results) -> Results]
      BY <1>1, LenProperties, ReportAssumption DEF IInv, ReportInv
    <3> QED
      BY <3>1 DEF BoundedSeq, SeqOf
  <2> QED
    BY <1>1, <2>1 DEF IInv, CodbInv, CodbTypes, ScriptInv, Results, Tests, TypeOK
<1> QED
  BY <1>1, IInvAlways, PTL

(* For every directory, the number shown as active is the profile loaded.  *)
THEOREM ActiveIsLoaded == Spec => []LoadedIsActive
<1>1. IInv => LoadedIsActive
  BY DEF IInv, CodbInv, CodbMain
<1> QED
  BY <1>1, IInvAlways, PTL

(* No sequence of loads, no interleaving with the thread, and no interrupt *)
(* but one halfway through a change, leaves a parsed file allocated that   *)
(* is not in use.                                                          *)
THEOREM TreesCorrect == Spec => []NoTreeLeaked
<1>1. IInv => NoTreeLeaked
  BY DEF IInv, CodbInv, CodbTrees
<1> QED
  BY <1>1, IInvAlways, PTL

(* core_deinit meets the thread anywhere in its work, is interrupted and   *)
(* started again anywhere but halfway through a change, and leaves no      *)
(* profile, no thread and no result behind.                                *)
THEOREM DeinitCorrect == Spec => []DeinitReleasesAll
<1>1. IInv => DeinitReleasesAll
  <2> SUFFICES ASSUME IInv, pc = "gone", interrupted \notin Halfway
               PROVE  /\ ~ds301 /\ codb = NotLoaded /\ trees = 0 /\ ~init_th
                      /\ results = <<>> /\ ThreadEnded
    BY DEF DeinitReleasesAll
  <2>1. ~ds301 /\ codb = NotLoaded /\ ~init_th /\ ThreadEnded
    BY DEF IInv, CodbInv, CodbEnd, ReleasePcs
  <2>2. trees = 0
    BY <2>1 DEF IInv, CodbInv, CodbTrees, NoTreeLeaked, InUse, BaseInUse, CodbInUse, Count
  <2>3. results = <<>>
    BY DEF IInv, ReportInv, DeinitPcs, ReleasePcs
  <2> QED
    BY <2>1, <2>2, <2>3
<1> QED
  BY <1>1, IInvAlways, PTL

(* For any number of search paths and any files in them, nothing is        *)
(* executed after a script of that name that ended well.                   *)
THEOREM SearchCorrect == Spec => []SuccessEndsSearch
<1>1. IInv => SuccessEndsSearch
  BY DEF IInv, ScriptInv
<1> QED
  BY <1>1, IInvAlways, PTL

(* However often scripts add, clear and report any number of results, of   *)
(* any suites, and wherever the interrupt or the end of the program finds  *)
(* them: the sort loses none and doubles none, each is put in one suite,   *)
(* and none is in two reports.                                             *)
THEOREM ReportsCorrect == Spec => ReportedOnce
<1>1. IInv => InOneReport
  BY DEF IInv, ReportedInv
<1>2. IInv /\ [Next]_vars =>
         [report' # <<>> =>
             \A t \in Tests :
                reported'[t] = reported[t] + Cardinality({k \in DOMAIN results : results[k].test = t})
         ]_reportVars
  <2> SUFFICES ASSUME IInv, [Next]_vars, reportVars' # reportVars, report' # <<>>, NEW t \in Tests
               PROVE  reported'[t] =
                         reported[t] + Cardinality({k \in DOMAIN results : results[k].test = t})
    OBVIOUS
  <2>1. test_generate_report
    BY ReportSteps DEF reportVars, test_add_result, test_clear_results
  <2> QED
    BY <2>1, ReportWritten DEF IInv
<1> QED
  BY <1>1, <1>2, IInvAlways, PTL DEF Spec, ReportedOnce

(* Names are told apart by their hash, whose 64 bits may collide.          *)
(* Where they do not, every report has one suite per name, and no test is  *)
(* in the suite of another name.                                           *)
THEOREM SuitesCorrect ==
    ASSUME \A a, b \in Suites : Hash[a] = Hash[b] => a = b
    PROVE  Spec => []OneSuitePerName
<1>1. Init => OneSuitePerName
  <2>1. Init => DOMAIN report = {}
    BY DEF Init, ReportInit
  <2> QED
    BY <2>1 DEF OneSuitePerName
<1>2. IInv /\ OneSuitePerName /\ [Next]_vars => OneSuitePerName'
  <2> SUFFICES ASSUME IInv, OneSuitePerName, [Next]_vars PROVE OneSuitePerName'
    OBVIOUS
  <2>1. report' = report \/ report' = <<>> \/ report' = Grouped(results)
    BY ReportSteps DEF reportVars, test_add_result, test_clear_results, test_generate_report, WriteReport
  <2>2. CASE report' = report
    BY <2>2 DEF OneSuitePerName
  <2>3. CASE report' = <<>>
    <3>1. DOMAIN report' = {}
      BY <2>3
    <3> QED
      BY <3>1 DEF OneSuitePerName
  <2>4. CASE report' = Grouped(results)
    <3> DEFINE w == report'
               n == Len(results)
    <3>1. n \in Nat /\ results \in [1 .. n -> Results] /\ Distinct(results)
      BY LenProperties DEF IInv, ReportInv, ReportedInv
    <3> HIDE DEF n
    <3>2. Holds(w, SortResults(results), n) /\ Ascending(w)
      BY <2>4, <3>1, GroupedHoldsAll
    <3> HIDE DEF w
    <3>3. \A k \in DOMAIN w : w[k].name \in Suites /\ w[k].tests \in Seq(Results)
      BY <3>2, GroupType DEF Holds
    <3>4. ASSUME NEW k \in DOMAIN w, NEW l \in DOMAIN w, w[k].name = w[l].name
          PROVE  k = l
      <4>1. k \in Nat /\ l \in Nat
        BY <3>2 DEF Holds
      <4>2. Hash[w[k].name] \in Nat /\ Hash[w[k].name] = Hash[w[l].name]
        BY <3>3, <3>4, ReportAssumption
      <4>3. ~(k < l) /\ ~(l < k)
        BY <3>2, <4>2 DEF Ascending
      <4> QED
        BY <4>1, <4>3
    <3>5. ASSUME NEW k \in DOMAIN w, NEW t \in DOMAIN w[k].tests
          PROVE  SuiteOf(w[k].tests[t]) = w[k].name
      <4>1. w[k].tests[t] \in Results
        BY <3>3
      <4>2. SuiteOf(w[k].tests[t]) \in Suites
        BY <4>1, HashType
      <4>3. Hash[SuiteOf(w[k].tests[t])] = Hash[w[k].name]
        BY <3>2 DEF Holds, HashOf
      <4> QED
        BY <3>3, <4>2, <4>3
    <3> QED
      BY <3>4, <3>5 DEF OneSuitePerName, w
  <2> QED
    BY <2>1, <2>2, <2>3, <2>4
<1> QED
  BY <1>1, <1>2, IInvAlways, PTL DEF Spec

-----------------------------------------------------------------------------
(* The look-ups.  The profiles they read are files of the directory.       *)
LEMMA ProfilesAreFiles ==
    ASSUME IInv
    PROVE  /\ codb # NotLoaded => codb \in FileNumbers
           /\ ds301 => Base \in FileNumbers /\ Base # NotLoaded
<1>1. codb # NotLoaded => codb \in FileNumbers
  BY DEF IInv, CodbInv, CodbTypes, FileNumbers, NotLoaded
<1>2. ds301 => Base \in FileNumbers
  BY DEF IInv, CodbInv, CodbMain, BaseParses, Base
<1>3. 0 \notin FileNumbers
  BY DEF FileNumbers
<1> QED
  BY <1>1, <1>2, <1>3 DEF NotLoaded

(* One profile either fills in the entry it describes, under its own name, *)
(* or leaves the entry as it was.                                          *)
InfoFields(info) ==
    info = [object |-> info.object, entry_count |-> info.entry_count, entry |-> info.entry,
            access_type |-> info.access_type, does_exist |-> info.does_exist]
LEMMA InfoLookup ==
    ASSUME NEW file, NEW index, NEW sub_index, NEW before, InfoFields(before),
           NEW after, after = codb_info_lookup(file, index, sub_index, before)
    PROVE  /\ InfoFields(after)
           /\ HasItem(file, index, sub_index) =>
                /\ after.does_exist /\ after.object = <<file, index>>
                /\ after.entry = codb_desc_lookup(file, index, sub_index)
           /\ ~HasItem(file, index, sub_index) =>
                (after.does_exist <=> before.does_exist) /\ after.entry = before.entry
BY DEF codb_info_lookup, InfoFields, HasItem

(* What a profile describes is told from no entry by its file.             *)
LEMMA DescriptionIsAnEntry ==
    ASSUME NEW file, file # NotLoaded, NEW index, NEW sub_index
    PROVE  /\ codb_desc_lookup(file, index, sub_index) # NoEntry <=> HasItem(file, index, sub_index)
           /\ HasItem(file, index, sub_index) =>
                codb_desc_lookup(file, index, sub_index).file = file
BY DEF codb_desc_lookup, NoEntry

(* For every directory, and whatever part of it is loaded, the object      *)
(* printed is the one of the entry that is described.                      *)
THEOREM PrintsCorrect == Spec => []PrintsTheEntryDescribed
<1>1. ASSUME IInv, NEW index \in Indices, NEW sub_index \in SubIndices
      PROVE  LET info  == dict_lookup_object(index, sub_index)
                 entry == dict_lookup(index, sub_index)
             IN  /\ info.does_exist <=> entry # NoEntry
                 /\ info.does_exist => info.entry = entry /\ info.object = <<entry.file, index>>
  <2> DEFINE info  == dict_lookup_object(index, sub_index)
             entry == dict_lookup(index, sub_index)
             own   == IF codb = NotLoaded THEN NoInfo
                      ELSE codb_info_lookup(codb, index, sub_index, NoInfo)
  <2>1. InfoFields(NoInfo) /\ ~NoInfo.does_exist
    BY DEF InfoFields, NoInfo
  <2>2. CASE codb # NotLoaded /\ HasItem(codb, index, sub_index)
    <3>1. /\ own.does_exist /\ own.object = <<codb, index>>
          /\ own.entry = codb_desc_lookup(codb, index, sub_index)
      BY <2>1, <2>2, InfoLookup
    <3>2. info = own
      BY <3>1 DEF dict_lookup_object
    <3>3. entry = codb_desc_lookup(codb, index, sub_index) /\ entry # NoEntry /\ entry.file = codb
      BY <2>2, DescriptionIsAnEntry DEF dict_lookup, InProfile
    <3> QED
      BY <3>1, <3>2, <3>3
  <2>3. CASE codb = NotLoaded \/ ~HasItem(codb, index, sub_index)
    <3>1. InfoFields(own) /\ ~own.does_exist
      <4>1. CASE codb = NotLoaded
        BY <2>1, <4>1
      <4>2. CASE codb # NotLoaded /\ ~HasItem(codb, index, sub_index)
        <5>1. own = codb_info_lookup(codb, index, sub_index, NoInfo)
          BY <4>2
        <5>2. InfoFields(own) /\ ~own.does_exist
          BY <2>1, <4>2, <5>1, InfoLookup
        <5> QED
          BY <2>1, <5>2
      <4> QED
        BY <2>3, <4>1, <4>2
    <3>2. InProfile(index, sub_index) = NoEntry
      BY <2>3 DEF InProfile, codb_desc_lookup
    <3>3. entry = InBase(index, sub_index)
      BY <3>2 DEF dict_lookup
    <3>4. info = IF ds301 THEN codb_info_lookup(Base, index, sub_index, own) ELSE own
      BY <3>1 DEF dict_lookup_object
    <3> HIDE DEF own, info, entry
    <3>5. CASE ds301 /\ HasItem(Base, index, sub_index)
      <4>1. /\ info.does_exist /\ info.object = <<Base, index>>
            /\ info.entry = codb_desc_lookup(Base, index, sub_index)
        <5>1. info = codb_info_lookup(Base, index, sub_index, own)
          BY <3>4, <3>5
        <5> QED
          BY <3>1, <3>5, <5>1, InfoLookup
      <4>2. entry = codb_desc_lookup(Base, index, sub_index) /\ entry # NoEntry /\ entry.file = Base
        BY <1>1, <3>3, <3>5, ProfilesAreFiles, DescriptionIsAnEntry DEF InBase
      <4> QED
        BY <4>1, <4>2 DEF info, entry
    <3>6. CASE ~ds301 \/ ~HasItem(Base, index, sub_index)
      <4>1. ~info.does_exist
        <5>1. CASE ~ds301
          BY <3>1, <3>4, <5>1
        <5>2. CASE ds301 /\ ~HasItem(Base, index, sub_index)
          <6>1. info = codb_info_lookup(Base, index, sub_index, own)
            BY <3>4, <5>2
          <6>2. (info.does_exist <=> own.does_exist)
            BY <3>1, <5>2, <6>1, InfoLookup
          <6> QED
            BY <3>1, <6>2
        <5> QED
          BY <3>6, <5>1, <5>2
      <4>2. entry = NoEntry
        BY <3>3, <3>6 DEF InBase, codb_desc_lookup
      <4> QED
        BY <4>1, <4>2 DEF info, entry
    <3> QED
      BY <3>5, <3>6
  <2> QED
    BY <2>2, <2>3
<1>2. IInv => PrintsTheEntryDescribed
  BY <1>1 DEF PrintsTheEntryDescribed
<1> QED
  BY <1>2, IInvAlways, PTL

(* The directories whose objects number their sub-indices from 0 on,       *)
(* without gaps.                                                           *)
NumberedWithoutGaps ==
    \A k \in FileNumbers : \A index \in DOMAIN Jsons[k].objects :
       /\ DOMAIN Jsons[k].objects[index] \subseteq Nat
       /\ \A s \in DOMAIN Jsons[k].objects[index] : Jsons[k].objects[index][s].sub = s - 1

(* In such a directory every object is described by its own entry, of the  *)
(* device profile before that of CiA 301; the run with the gaps of ds302   *)
(* shows that the hypothesis is needed.                                    *)
THEOREM DescribesCorrect ==
    ASSUME NumberedWithoutGaps
    PROVE  Spec => []DescribesTheObject
<1>1. ASSUME NEW file \in FileNumbers, NEW index, NEW sub_index \in SubIndices
      PROVE  /\ HasItem(file, index, sub_index) <=> Defines(file, index, sub_index)
             /\ codb_desc_lookup(file, index, sub_index) =
                   IF Defines(file, index, sub_index)
                   THEN [file |-> file, index |-> index, sub |-> sub_index] ELSE NoEntry
  <2>1. sub_index \in Nat /\ file # NotLoaded
    BY DictionaryAssumption DEF FileNumbers, NotLoaded
  <2>2. CASE index \in DOMAIN Jsons[file].objects
    <3> DEFINE subs == Jsons[file].objects[index]
    <3>1. DOMAIN subs \subseteq Nat /\ \A s \in DOMAIN subs : subs[s].sub = s - 1
      BY <2>2, NumberedWithoutGaps DEF NumberedWithoutGaps
    <3> HIDE DEF subs
    <3>2. sub_index + 1 \in DOMAIN subs => subs[sub_index + 1].sub = sub_index
      BY <2>1, <3>1
    <3>3. sub_index + 1 \in DOMAIN subs <=> \E s \in DOMAIN subs : subs[s].sub = sub_index
      BY <2>1, <3>1
    <3> QED
      BY <2>1, <2>2, <3>2, <3>3 DEF subs, HasItem, Defines, codb_desc_lookup
  <2>3. CASE index \notin DOMAIN Jsons[file].objects
    BY <2>3 DEF HasItem, Defines, codb_desc_lookup
  <2> QED
    BY <2>2, <2>3
<1>2. ASSUME IInv, NEW index \in Indices, NEW sub_index \in SubIndices
      PROVE  LET file == Defining(index, sub_index)
             IN  dict_lookup(index, sub_index) =
                    IF file = NotLoaded THEN NoEntry
                    ELSE [file |-> file, index |-> index, sub |-> sub_index]
  <2> DEFINE Described(file) == [file |-> file, index |-> index, sub |-> sub_index]
  <2>1. /\ codb # NotLoaded => codb \in FileNumbers
        /\ ds301 => Base \in FileNumbers /\ Base # NotLoaded
    BY <1>2, ProfilesAreFiles
  <2>2. InProfile(index, sub_index) =
          IF Defines(codb, index, sub_index) THEN Described(codb) ELSE NoEntry
    BY <1>1, <2>1 DEF InProfile, Defines
  <2>3. InBase(index, sub_index) =
          IF ds301 /\ Defines(Base, index, sub_index) THEN Described(Base) ELSE NoEntry
    BY <1>1, <2>1 DEF InBase
  <2>4. Defines(codb, index, sub_index) => codb # NotLoaded
    BY DEF Defines
  <2>5. \A file : file # NotLoaded => Described(file) # NoEntry
    BY DEF NoEntry
  <2> HIDE DEF Described
  <2>6. dict_lookup(index, sub_index) =
          IF Defining(index, sub_index) = NotLoaded THEN NoEntry
          ELSE Described(Defining(index, sub_index))
    BY <2>1, <2>2, <2>3, <2>4, <2>5 DEF dict_lookup, Defining
  <2> QED
    BY <2>6 DEF Described
<1>3. IInv => DescribesTheObject
  BY <1>2 DEF DescribesTheObject
<1> QED
  BY <1>3, IInvAlways, PTL

-----------------------------------------------------------------------------
(* The names of frames.                                                    *)

(* The places of a concatenation.                                          *)
Joins(u, s, t, m, n) ==
    /\ Len(u) = m + n
    /\ \A k \in 1 .. m : u[k] = s[k]
    /\ \A k \in 1 .. n : u[k + m] = t[k]
LEMMA Joined ==
    ASSUME NEW A, NEW s \in Seq(A), NEW t \in Seq(A), NEW m \in Nat, NEW n \in Nat,
           Len(s) = m, Len(t) = n
    PROVE  s \o t \in Seq(A) /\ Joins(s \o t, s, t, m, n)
<1>1. /\ s \o t \in Seq(A) /\ Len(s \o t) = m + n
      /\ \A i \in 1 .. m + n : (s \o t)[i] = IF i <= m THEN s[i] ELSE t[i - m]
  BY ConcatProperties
<1>2. \A k \in 1 .. m : k \in 1 .. m + n /\ k <= m
  OBVIOUS
<1>3. \A k \in 1 .. n : k + m \in 1 .. m + n /\ ~(k + m <= m) /\ (k + m) - m = k
  OBVIOUS
<1> QED
  BY <1>1, <1>2, <1>3 DEF Joins

(* The rules, in their order.                                              *)
LEMMA RulesInOrder ==
    ASSUME NEW f
    PROVE  /\ Len(Rules(f)) = 13
           /\ Rules(f)[1] = Nmt(f) /\ Rules(f)[2] = Heartbeat(f) /\ Rules(f)[3] = Request(f)
           /\ Rules(f)[4] = Response(f) /\ Rules(f)[13] = Emcy(f)
           /\ \A p \in 1 .. 8 : Rules(f)[p + 4] = Pdo(f, PdoRanges[p])
<1> DEFINE pdos == [p \in 1 .. 8 |-> Pdo(f, PdoRanges[p])]
           a == <<Nmt(f), Heartbeat(f), Request(f)>>
           b == <<Response(f)>>
           c == <<Emcy(f)>>
           A == {Nmt(f), Heartbeat(f), Request(f), Response(f), Emcy(f)}
                   \cup {pdos[p] : p \in 1 .. 8}
           d == b \o pdos
           e == d \o c
<1>1. Rules(f) = a \o e
  <2>1. DOMAIN PdoRanges = 1 .. 8
    BY DEF PdoRanges
  <2>2. [p \in DOMAIN PdoRanges |-> Pdo(f, PdoRanges[p])] = pdos
    BY <2>1
  <2> HIDE DEF pdos
  <2> QED
    BY <2>2 DEF Rules, AfterSdo
<1>2. \A p \in 1 .. 8 : pdos[p] = Pdo(f, PdoRanges[p])
  OBVIOUS
<1>3. pdos \in Seq(A) /\ Len(pdos) = 8
  <2>1. \A p \in 1 .. 8 : pdos[p] \in A
    OBVIOUS
  <2>2. pdos \in [1 .. 8 -> A] /\ 8 \in Nat
    BY <2>1
  <2> HIDE DEF pdos, A
  <2> QED
    <3>1. pdos \in Seq(A)
      <4>1. \A n \in Nat : \A x \in [1 .. n -> A] : x \in Seq(A)
        OBVIOUS
      <4> QED
        BY <2>2, <4>1, Zenon
    <3> QED
      BY <2>2, <3>1, LenProperties
<1>4. /\ a \in Seq(A) /\ Len(a) = 3 /\ a[1] = Nmt(f) /\ a[2] = Heartbeat(f) /\ a[3] = Request(f)
      /\ b \in Seq(A) /\ Len(b) = 1 /\ b[1] = Response(f)
      /\ c \in Seq(A) /\ Len(c) = 1 /\ c[1] = Emcy(f)
  <2>1. Nmt(f) \in A /\ Heartbeat(f) \in A /\ Request(f) \in A /\ Response(f) \in A /\ Emcy(f) \in A
    OBVIOUS
  <2> HIDE DEF A
  <2> QED
    BY <2>1
<1> HIDE DEF a, b, c, pdos, A
<1>5. /\ d \in Seq(A) /\ Len(d) = 9 /\ d[1] = b[1]
      /\ \A p \in 1 .. 8 : d[p + 1] = pdos[p]
  <2>1. d \in Seq(A) /\ Joins(d, b, pdos, 1, 8)
    BY <1>3, <1>4, Joined, 1 \in Nat, 8 \in Nat
  <2> HIDE DEF d
  <2> QED
    BY <2>1 DEF Joins
<1> HIDE DEF d
<1>6. /\ e \in Seq(A) /\ Len(e) = 10 /\ e[10] = c[1]
      /\ \A k \in 1 .. 9 : e[k] = d[k]
  <2>1. e \in Seq(A) /\ Joins(e, d, c, 9, 1)
    BY <1>4, <1>5, Joined, 1 \in Nat, 9 \in Nat
  <2> HIDE DEF e
  <2>2. e[1 + 9] = c[1]
    BY <2>1 DEF Joins
  <2> QED
    BY <2>1, <2>2 DEF Joins
<1> HIDE DEF e
<1>7. /\ Len(Rules(f)) = 13 /\ \A k \in 1 .. 3 : Rules(f)[k] = a[k]
      /\ \A k \in 1 .. 10 : Rules(f)[k + 3] = e[k]
  <2>1. Joins(Rules(f), a, e, 3, 10)
    <3>1. Joins(a \o e, a, e, 3, 10)
      BY <1>4, <1>6, Joined, 3 \in Nat, 10 \in Nat
    <3> QED
      BY <1>1, <3>1, Zenon
  <2> QED
    BY <2>1 DEF Joins
<1>8. ASSUME NEW p \in 1 .. 8
      PROVE  Rules(f)[p + 4] = Pdo(f, PdoRanges[p])
  <2>1. p + 1 \in 1 .. 10 /\ p + 1 \in 1 .. 9 /\ (p + 1) + 3 = p + 4
    OBVIOUS
  <2>2. Rules(f)[(p + 1) + 3] = e[p + 1] /\ e[p + 1] = d[p + 1] /\ d[p + 1] = pdos[p]
    BY <1>5, <1>6, <1>7, <2>1
  <2> QED
    BY <1>2, <2>1, <2>2
<1>9. Rules(f)[1 + 3] = e[1] /\ Rules(f)[10 + 3] = e[10] /\ e[1] = d[1]
  BY <1>6, <1>7
<1> QED
  BY <1>4, <1>5, <1>6, <1>7, <1>8, <1>9

(* The first rule that applies names the frame.                            *)
LEMMA FirstRule ==
    ASSUME NEW f, NEW n \in 1 .. 13, Rules(f)[n].is, \A m \in 1 .. 13 : m < n => ~Rules(f)[m].is
    PROVE  dict_lookup_raw(f) = Rules(f)[n].name
<1> DEFINE I == {i \in 1 .. Len(Rules(f)) : Rules(f)[i].is}
<1>1. I = {i \in 1 .. 13 : Rules(f)[i].is}
  BY RulesInOrder
<1>2. n \in I /\ \A i \in I : n <= i /\ i \in Nat
  <2>1. \A i \in 1 .. 13 : Rules(f)[i].is => n <= i /\ i \in Nat
    OBVIOUS
  <2> HIDE DEF I
  <2> QED
    BY <1>1, <2>1
<1>3. Min(I) = n
  <2> HIDE DEF I
  <2>1. \A x \in I : (\A y \in I : x <= y) => x = n
    BY <1>2
  <2> QED
    BY <1>2, <2>1 DEF Min
<1>4. SelectInSeq(Rules(f), LAMBDA rule : rule.is) = n
  <2>1. I # {}
    BY <1>2
  <2>2. SelectInSeq(Rules(f), LAMBDA rule : rule.is) = IF I # {} THEN Min(I) ELSE 0
    BY DEF SelectInSeq
  <2> HIDE DEF I
  <2> QED
    BY <1>3, <2>1, <2>2
<1>5. n # 0
  OBVIOUS
<1>6. dict_lookup_raw(f) = LET hit == SelectInSeq(Rules(f), LAMBDA rule : rule.is)
                           IN  IF hit = 0 THEN "" ELSE Rules(f)[hit].name
  BY DEF dict_lookup_raw
<1> QED
  BY <1>4, <1>5, <1>6

(* Which rules apply to an identifier of a function code.                  *)
LEMMA WhichRules ==
    ASSUME NEW id \in Ids, NEW length, NEW f, f.id = id, f.length = length
    PROVE  LET code == FunctionCode(id)
           IN  /\ code \in 0 .. 15
               /\ ~Rules(f)[1].is
               /\ Rules(f)[2].is <=> code \in {14, 15} /\ length = 1
               /\ Rules(f)[3].is <=> code \in {12, 13, 14, 15}
               /\ Rules(f)[4].is <=> code \in {11, 15}
               /\ \A p \in 1 .. 8 : Rules(f)[p + 4].is <=> code = p + 2
               /\ Rules(f)[13].is <=> code \in {1, 3, 5, 7, 9, 11, 13, 15}
<1> DEFINE code == FunctionCode(id)
           r == id % 128
<1>1. /\ id \in Nat /\ code \in 0 .. 15 /\ r \in 1 .. 127 /\ id = 128 * code + r
  BY DEF Ids, FunctionCode
<1>2. /\ Rules(f)[1].is = IsNmt(f) /\ Rules(f)[2].is = IsHeartbeat(f)
      /\ Rules(f)[3].is = IsSdo(f) /\ Rules(f)[4].is = IsResponse(f) /\ Rules(f)[13].is = IsEmcy(f)
      /\ \A p \in 1 .. 8 : Rules(f)[p + 4].is = (f.id \in PdoRanges[p].from .. PdoRanges[p].to)
  <2>1. /\ Nmt(f).is = IsNmt(f) /\ Heartbeat(f).is = IsHeartbeat(f) /\ Request(f).is = IsSdo(f)
        /\ Response(f).is = IsResponse(f) /\ Emcy(f).is = IsEmcy(f)
    BY Zenon DEF Nmt, Heartbeat, Request, Response, Emcy
  <2>2. \A p : Pdo(f, p).is = (f.id \in p.from .. p.to)
    BY Zenon DEF Pdo
  <2> QED
    BY <2>1, <2>2, RulesInOrder, Zenon
<1> HIDE DEF code, r
<1>3. Bits(id, 256, 8) <=> code \in {14, 15}
  BY <1>1 DEF Bits
<1>4. Bits(id, 512, 4) <=> code \in {12, 13, 14, 15}
  BY <1>1 DEF Bits
<1>5. Bits(id, 128, 4) <=> code \in {3, 7, 11, 15}
  BY <1>1 DEF Bits
<1>6. Bits(id, 1024, 2) <=> code \in 8 .. 15
  BY <1>1 DEF Bits
<1>7. Bits(id, 128, 2) <=> code \in {1, 3, 5, 7, 9, 11, 13, 15}
  BY <1>1 DEF Bits
<1>8. ASSUME NEW p \in 1 .. 8
      PROVE  id \in PdoRanges[p].from .. PdoRanges[p].to <=> code = p + 2
  <2>1. /\ PdoRanges[1].from = 385 /\ PdoRanges[1].to = 511
        /\ PdoRanges[2].from = 513 /\ PdoRanges[2].to = 639
        /\ PdoRanges[3].from = 641 /\ PdoRanges[3].to = 767
        /\ PdoRanges[4].from = 769 /\ PdoRanges[4].to = 895
        /\ PdoRanges[5].from = 897 /\ PdoRanges[5].to = 1023
        /\ PdoRanges[6].from = 1025 /\ PdoRanges[6].to = 1151
        /\ PdoRanges[7].from = 1153 /\ PdoRanges[7].to = 1279
        /\ PdoRanges[8].from = 1281 /\ PdoRanges[8].to = 1407
    BY DEF PdoRanges
  <2>2. /\ id \in 385 .. 511 <=> code = 3
        /\ id \in 513 .. 639 <=> code = 4
        /\ id \in 641 .. 767 <=> code = 5
        /\ id \in 769 .. 895 <=> code = 6
        /\ id \in 897 .. 1023 <=> code = 7
        /\ id \in 1025 .. 1151 <=> code = 8
        /\ id \in 1153 .. 1279 <=> code = 9
        /\ id \in 1281 .. 1407 <=> code = 10
    BY <1>1
  <2>3. p = 1 \/ p = 2 \/ p = 3 \/ p = 4 \/ p = 5 \/ p = 6 \/ p = 7 \/ p = 8
    OBVIOUS
  <2>4. /\ 1 + 2 = 3
        /\ 2 + 2 = 4
        /\ 3 + 2 = 5
        /\ 4 + 2 = 6
        /\ 5 + 2 = 7
        /\ 6 + 2 = 8
        /\ 7 + 2 = 9
        /\ 8 + 2 = 10
    OBVIOUS
  <2> DEFINE In(k) == id \in PdoRanges[k].from .. PdoRanges[k].to
  <2>5. \A k \in 1 .. 8 : In(k) <=> code = k + 2
    <3>1. In(1) <=> code = 1 + 2
      <4>1. PdoRanges[1].from .. PdoRanges[1].to = 385 .. 511
        BY <2>1
      <4> QED
        BY <2>2, <2>4, <4>1
    <3>2. In(2) <=> code = 2 + 2
      <4>1. PdoRanges[2].from .. PdoRanges[2].to = 513 .. 639
        BY <2>1
      <4> QED
        BY <2>2, <2>4, <4>1
    <3>3. In(3) <=> code = 3 + 2
      <4>1. PdoRanges[3].from .. PdoRanges[3].to = 641 .. 767
        BY <2>1
      <4> QED
        BY <2>2, <2>4, <4>1
    <3>4. In(4) <=> code = 4 + 2
      <4>1. PdoRanges[4].from .. PdoRanges[4].to = 769 .. 895
        BY <2>1
      <4> QED
        BY <2>2, <2>4, <4>1
    <3>5. In(5) <=> code = 5 + 2
      <4>1. PdoRanges[5].from .. PdoRanges[5].to = 897 .. 1023
        BY <2>1
      <4> QED
        BY <2>2, <2>4, <4>1
    <3>6. In(6) <=> code = 6 + 2
      <4>1. PdoRanges[6].from .. PdoRanges[6].to = 1025 .. 1151
        BY <2>1
      <4> QED
        BY <2>2, <2>4, <4>1
    <3>7. In(7) <=> code = 7 + 2
      <4>1. PdoRanges[7].from .. PdoRanges[7].to = 1153 .. 1279
        BY <2>1
      <4> QED
        BY <2>2, <2>4, <4>1
    <3>8. In(8) <=> code = 8 + 2
      <4>1. PdoRanges[8].from .. PdoRanges[8].to = 1281 .. 1407
        BY <2>1
      <4> QED
        BY <2>2, <2>4, <4>1
    <3>9. \A k \in 1 .. 8 : k = 1 \/ k = 2 \/ k = 3 \/ k = 4 \/ k = 5 \/ k = 6 \/ k = 7 \/ k = 8
      OBVIOUS
    <3> HIDE DEF In
    <3> QED
      BY <3>1, <3>2, <3>3, <3>4, <3>5, <3>6, <3>7, <3>8, <3>9, Zenon
  <2> HIDE DEF In
  <2>6. In(p) <=> code = p + 2
    BY <2>5
  <2> QED
    BY <2>6 DEF In
<1>9. ~Rules(f)[1].is
  <2>1. id # 0
    BY <1>1
  <2> QED
    BY <1>2, <2>1, Zenon DEF IsNmt
<1>10. Rules(f)[2].is <=> code \in {14, 15} /\ length = 1
  BY <1>2, <1>3, Zenon DEF IsHeartbeat
<1>11. Rules(f)[3].is <=> code \in {12, 13, 14, 15}
  BY <1>2, <1>4, Zenon DEF IsSdo
<1>12. Rules(f)[4].is <=> code \in {11, 15}
  <2>1. code \in {11, 15} <=> code \in {3, 7, 11, 15} /\ code \in 8 .. 15
    BY <1>1
  <2> QED
    BY <1>2, <1>5, <1>6, <2>1, Zenon DEF IsResponse
<1>13. \A p \in 1 .. 8 : Rules(f)[p + 4].is <=> code = p + 2
  BY <1>2, <1>8, Zenon
<1>14. Rules(f)[13].is <=> code \in {1, 3, 5, 7, 9, 11, 13, 15}
  BY <1>2, <1>7, Zenon DEF IsEmcy
<1> QED
  BY <1>1, <1>9, <1>10, <1>11, <1>12, <1>13, <1>14 DEF code

LEMMA PredefinedSet == NamesPredefinedSet
<1> SUFFICES ASSUME NEW id \in Ids, NEW length \in 0 .. 8, NEW abort \in BOOLEAN
             PROVE  NamedForFunction(id, length, abort)
  BY DEF NamesPredefinedSet
<1> DEFINE code == FunctionCode(id)
           f == [id |-> id, length |-> length, known |-> TRUE, abort |-> abort]
           rule == Rules(f)
           name == dict_lookup_raw(f)
<1>1. f.id = id /\ f.known = TRUE /\ f.length = length /\ f.abort = abort
  OBVIOUS
<1>2. /\ code \in 0 .. 15
      /\ ~rule[1].is
      /\ rule[2].is <=> code \in {14, 15} /\ length = 1
      /\ rule[3].is <=> code \in {12, 13, 14, 15}
      /\ rule[4].is <=> code \in {11, 15}
      /\ \A p \in 1 .. 8 : rule[p + 4].is <=> code = p + 2
      /\ rule[13].is <=> code \in {1, 3, 5, 7, 9, 11, 13, 15}
  BY <1>1, WhichRules
<1>3. /\ rule[2] = Heartbeat(f) /\ rule[3] = Request(f) /\ rule[4] = Response(f)
      /\ rule[13] = Emcy(f) /\ \A p \in 1 .. 8 : rule[p + 4] = Pdo(f, PdoRanges[p])
  BY RulesInOrder
<1>4. ASSUME NEW n \in 1 .. 13, rule[n].is, \A m \in 1 .. 13 : m < n => ~rule[m].is
      PROVE  name = rule[n].name
  BY <1>4, FirstRule
<1> HIDE DEF code, f, rule, name
<1>5. ASSUME NEW m \in 1 .. 13
      PROVE  m \in {1, 2, 3, 4, 13} \/ (m - 4 \in 1 .. 8 /\ m = (m - 4) + 4)
  OBVIOUS
<1>6. ASSUME code = 1 PROVE name = "EMCY"
  <2>1. rule[13].is /\ \A m \in 1 .. 13 : m < 13 => ~rule[m].is
    BY <1>2, <1>5, <1>6
  <2>2. name = rule[13].name
    BY <1>4, <2>1
  <2> QED
    BY <1>3, <1>6, <2>2 DEF Emcy
<1>7. ASSUME code \in 3 .. 10
      PROVE  /\ code \in {3, 5, 7, 9} => name = PdoName("tx", (code - 1) \div 2)
             /\ code \in {4, 6, 8, 10} => name = PdoName("rx", (code - 2) \div 2)
  <2> DEFINE p == code - 2
  <2>1. p \in 1 .. 8 /\ code = p + 2
    BY <1>7
  <2> HIDE DEF p
  <2>2. rule[p + 4].is /\ p + 4 \in 1 .. 13
    BY <1>2, <2>1
  <2>3. ASSUME NEW m \in 1 .. 13, m < p + 4
        PROVE  ~rule[m].is
    <3>1. CASE m \in {1, 2, 3, 4}
      BY <1>2, <1>7, <3>1
    <3>2. CASE m \notin {1, 2, 3, 4}
      <4>1. m - 4 \in 1 .. 8 /\ m = (m - 4) + 4 /\ code # (m - 4) + 2
        BY <1>5, <2>1, <2>3, <3>2
      <4> QED
        BY <1>2, <4>1
    <3> QED
      BY <3>1, <3>2
  <2>4. name = rule[p + 4].name
    BY <1>4, <2>2, <2>3
  <2>5. name = PdoRanges[p].name
    BY <1>3, <2>1, <2>4 DEF Pdo
  <2>6. /\ PdoRanges[1].name = "PDO1 (tx)"
        /\ PdoRanges[2].name = "PDO1 (rx)"
        /\ PdoRanges[3].name = "PDO2 (tx)"
        /\ PdoRanges[4].name = "PDO2 (rx)"
        /\ PdoRanges[5].name = "PDO3 (tx)"
        /\ PdoRanges[6].name = "PDO3 (rx)"
        /\ PdoRanges[7].name = "PDO4 (tx)"
        /\ PdoRanges[8].name = "PDO4 (rx)"
    BY DEF PdoRanges
  <2>7. /\ PdoName("tx", 1) = "PDO1 (tx)"
        /\ PdoName("rx", 1) = "PDO1 (rx)"
        /\ PdoName("tx", 2) = "PDO2 (tx)"
        /\ PdoName("rx", 2) = "PDO2 (rx)"
        /\ PdoName("tx", 3) = "PDO3 (tx)"
        /\ PdoName("rx", 3) = "PDO3 (rx)"
        /\ PdoName("tx", 4) = "PDO4 (tx)"
        /\ PdoName("rx", 4) = "PDO4 (rx)"
    BY DEF PdoName, TxNames, RxNames
  <2>8. /\ (3 - 1) \div 2 = 1
        /\ (4 - 2) \div 2 = 1
        /\ (5 - 1) \div 2 = 2
        /\ (6 - 2) \div 2 = 2
        /\ (7 - 1) \div 2 = 3
        /\ (8 - 2) \div 2 = 3
        /\ (9 - 1) \div 2 = 4
        /\ (10 - 2) \div 2 = 4
    OBVIOUS
  <2>9. code \in {3, 4, 5, 6, 7, 8, 9, 10} /\ p = code - 2
    BY <1>7 DEF p
  <2>10. /\ 3 - 2 = 1
         /\ 4 - 2 = 2
         /\ 5 - 2 = 3
         /\ 6 - 2 = 4
         /\ 7 - 2 = 5
         /\ 8 - 2 = 6
         /\ 9 - 2 = 7
         /\ 10 - 2 = 8
    OBVIOUS
  <2>11. code = 3 => name = PdoName("tx", (code - 1) \div 2)
    <3> SUFFICES ASSUME code = 3 PROVE name = PdoName("tx", (3 - 1) \div 2)
      BY Zenon
    <3>1. p = 1
      BY <2>9, <2>10, Zenon
    <3>2. name = PdoRanges[1].name
      BY <2>5, <3>1, Zenon
    <3> QED
      BY <2>6, <2>7, <2>8, <3>2, Zenon
  <2>12. code = 4 => name = PdoName("rx", (code - 2) \div 2)
    <3> SUFFICES ASSUME code = 4 PROVE name = PdoName("rx", (4 - 2) \div 2)
      BY Zenon
    <3>1. p = 2
      BY <2>9, <2>10, Zenon
    <3>2. name = PdoRanges[2].name
      BY <2>5, <3>1, Zenon
    <3> QED
      BY <2>6, <2>7, <2>8, <3>2, Zenon
  <2>13. code = 5 => name = PdoName("tx", (code - 1) \div 2)
    <3> SUFFICES ASSUME code = 5 PROVE name = PdoName("tx", (5 - 1) \div 2)
      BY Zenon
    <3>1. p = 3
      BY <2>9, <2>10, Zenon
    <3>2. name = PdoRanges[3].name
      BY <2>5, <3>1, Zenon
    <3> QED
      BY <2>6, <2>7, <2>8, <3>2, Zenon
  <2>14. code = 6 => name = PdoName("rx", (code - 2) \div 2)
    <3> SUFFICES ASSUME code = 6 PROVE name = PdoName("rx", (6 - 2) \div 2)
      BY Zenon
    <3>1. p = 4
      BY <2>9, <2>10, Zenon
    <3>2. name = PdoRanges[4].name
      BY <2>5, <3>1, Zenon
    <3> QED
      BY <2>6, <2>7, <2>8, <3>2, Zenon
  <2>15. code = 7 => name = PdoName("tx", (code - 1) \div 2)
    <3> SUFFICES ASSUME code = 7 PROVE name = PdoName("tx", (7 - 1) \div 2)
      BY Zenon
    <3>1. p = 5
      BY <2>9, <2>10, Zenon
    <3>2. name = PdoRanges[5].name
      BY <2>5, <3>1, Zenon
    <3> QED
      BY <2>6, <2>7, <2>8, <3>2, Zenon
  <2>16. code = 8 => name = PdoName("rx", (code - 2) \div 2)
    <3> SUFFICES ASSUME code = 8 PROVE name = PdoName("rx", (8 - 2) \div 2)
      BY Zenon
    <3>1. p = 6
      BY <2>9, <2>10, Zenon
    <3>2. name = PdoRanges[6].name
      BY <2>5, <3>1, Zenon
    <3> QED
      BY <2>6, <2>7, <2>8, <3>2, Zenon
  <2>17. code = 9 => name = PdoName("tx", (code - 1) \div 2)
    <3> SUFFICES ASSUME code = 9 PROVE name = PdoName("tx", (9 - 1) \div 2)
      BY Zenon
    <3>1. p = 7
      BY <2>9, <2>10, Zenon
    <3>2. name = PdoRanges[7].name
      BY <2>5, <3>1, Zenon
    <3> QED
      BY <2>6, <2>7, <2>8, <3>2, Zenon
  <2>18. code = 10 => name = PdoName("rx", (code - 2) \div 2)
    <3> SUFFICES ASSUME code = 10 PROVE name = PdoName("rx", (10 - 2) \div 2)
      BY Zenon
    <3>1. p = 8
      BY <2>9, <2>10, Zenon
    <3>2. name = PdoRanges[8].name
      BY <2>5, <3>1, Zenon
    <3> QED
      BY <2>6, <2>7, <2>8, <3>2, Zenon
  <2> QED
    BY <2>11, <2>12, <2>13, <2>14, <2>15, <2>16, <2>17, <2>18, Zenon
<1>8. ASSUME code = 11
      PROVE  name = IF abort /\ length = 8 THEN "SDO abort" ELSE "SDO response"
  <2>1. rule[4].is /\ \A m \in 1 .. 13 : m < 4 => ~rule[m].is
    BY <1>2, <1>8
  <2>2. name = Response(f).name
    BY <1>3, <1>4, <2>1
  <2>3. Response(f).name = IF f.abort /\ f.length = 8 THEN "SDO abort" ELSE "SDO response"
    BY Zenon DEF Response
  <2> QED
    BY <1>1, <2>2, <2>3, Zenon
<1>9. ASSUME code = 12 PROVE name = "SDO request"
  <2>1. rule[3].is /\ \A m \in 1 .. 13 : m < 3 => ~rule[m].is
    BY <1>2, <1>9
  <2>2. name = Request(f).name
    BY <1>3, <1>4, <2>1
  <2> QED
    BY <2>2, Zenon DEF Request
<1>10. ASSUME code = 14, length = 1 PROVE name = "Heartbeat"
  <2>1. rule[2].is /\ \A m \in 1 .. 13 : m < 2 => ~rule[m].is
    BY <1>2, <1>10
  <2>2. name = Heartbeat(f).name
    BY <1>3, <1>4, <2>1
  <2>3. Heartbeat(f).name = Named(f.known, "Heartbeat")
    BY Zenon DEF Heartbeat
  <2> QED
    BY <1>1, <2>2, <2>3, Zenon DEF Named
<1>11. code \in {3, 5, 7, 9} \/ code \in {4, 6, 8, 10} => code \in 3 .. 10
  OBVIOUS
<1> QED
  BY <1>6, <1>7, <1>8, <1>9, <1>10, <1>11, Zenon DEF NamedForFunction, code, name, f

(* The masks of dict_lookup_raw overlap, but in the order in which it asks *)
(* for them each function code of the predefined set gets its own name.    *)
THEOREM NamesCorrect == Spec => []PredefinedSetIsNamed
<1>1. PredefinedSetIsNamed
  BY PredefinedSet DEF PredefinedSetIsNamed
<1> QED
  BY <1>1, PTL
=============================================================================
