----------------------------- MODULE ReadsProofs -----------------------------
(***************************************************************************)
(* Proofs about the reads of the API, for tables of any size: the slots    *)
(* the availability engine finds in a day, the numbers of a dashboard that *)
(* is put together while bookings change, and the walk through the pages   *)
(* of a list that grows.                                                   *)
(***************************************************************************)
EXTENDS MCIntervals, Listing, Dashboard, FiniteSetTheorems, SequenceTheorems,
        NaturalsInduction, WellFoundedInduction, TLAPS

(* The least of a set of numbers, from which induction over numbers, as a  *)
(* fact about sets of them, follows.                                       *)
LEMMA FirstOf ==
  ASSUME NEW S \in SUBSET Nat, S # {}
  PROVE  \E n \in S : \A m \in S : n <= m
<1> DEFINE Smaller == {p \in Nat \X Nat : p[1] < p[2]}
<1>1. IsWellFoundedOn(Smaller, Nat)
  <2>1. Smaller \subseteq OpToRel(<, Nat)
    BY DEF OpToRel
  <2> QED
    BY NatLessThanWellFounded, <2>1, IsWellFoundedOnSubrelation
<1>2. PICK n \in S : \A m \in S : <<m, n>> \notin Smaller
  <2> HIDE DEF Smaller
  <2> QED
    BY <1>1, WFMin
<1>3. ASSUME NEW m \in S PROVE n <= m
  <2>1. m \in Nat /\ n \in Nat
    OBVIOUS
  <2>2. ~ m < n
    BY <1>2, <2>1
  <2> QED
    BY <2>1, <2>2
<1> QED
  BY <1>3

(* Induction up to n, as a fact about a set.                               *)
LEMMA Climb ==
  ASSUME NEW n \in Nat, NEW S, 0 \in S, \A k \in 1 .. n : k - 1 \in S => k \in S
  PROVE  \A k \in 0 .. n : k \in S
<1> SUFFICES ASSUME \E k \in 0 .. n : k \notin S PROVE FALSE
  OBVIOUS
<1> DEFINE Bad == {k \in 0 .. n : k \notin S}
<1>1. PICK k \in Bad : \A j \in Bad : k <= j
  <2>1. Bad \in SUBSET Nat /\ Bad # {}
    OBVIOUS
  <2> HIDE DEF Bad
  <2> QED
    BY <2>1, FirstOf
<1>2. k \in 1 .. n
  OBVIOUS
<1>3. k - 1 \in 0 .. n /\ k - 1 \notin Bad
  BY <1>1, <1>2
<1> QED
  BY <1>1, <1>2, <1>3

LEMMA MaxOfPart ==
  ASSUME NEW n \in Nat, NEW T \in SUBSET (1 .. n), T # {}
  PROVE  Max(T) \in T /\ \A k \in T : k <= Max(T)
<1> DEFINE Down == {n - k : k \in T}
<1>1. PICK d \in Down : \A e \in Down : d <= e
  <2>1. \A k \in T : n - k \in Nat
    OBVIOUS
  <2>2. Down \in SUBSET Nat /\ Down # {}
    BY <2>1
  <2> HIDE DEF Down
  <2> QED
    BY <2>2, FirstOf
<1>2. n - d \in T /\ \A k \in T : n - d >= k
  <2>1. PICK k \in T : d = n - k
    BY <1>1
  <2>2. n - d = k
    BY <2>1
  <2>3. ASSUME NEW j \in T PROVE n - d >= j
    <3>1. d <= n - j
      BY <1>1
    <3> QED BY <3>1, <2>1
  <2> QED BY <2>2, <2>3
<1>3. Max(T) \in T /\ \A k \in T : Max(T) >= k
  BY <1>2 DEF Max
<1> QED BY <1>3

LEMMA MaxOfRange ==
  ASSUME NEW k \in Nat, k # 0
  PROVE  Max(1 .. k) = k /\ (1 .. k) \ {k} = 1 .. (k - 1)
<1> DEFINE T == 1 .. k
<1>1. T \in SUBSET (1 .. k) /\ T # {} /\ k \in T
  OBVIOUS
<1>2. Max(T) \in T /\ \A j \in T : j <= Max(T)
  <2> HIDE DEF T
  <2> QED BY <1>1, MaxOfPart
<1>3. Max(T) = k
  <2> DEFINE x == Max(T)
  <2>1. x \in T /\ k <= x
    BY <1>1, <1>2
  <2> HIDE DEF x
  <2>2. x = k
    BY <2>1
  <2> QED BY <2>2 DEF x
<1>4. T \ {k} = 1 .. (k - 1)
  OBVIOUS
<1> QED BY <1>3, <1>4

(* FoldLeft recurs over the sets of indices; g folds by the function F.    *)
FoldSteps(n, Acc) == [(1 .. n) \X Acc -> Acc]
Folds(g, n, base, F) ==
  \A T \in SUBSET (1 .. n) : g[T] = IF T = {} THEN base ELSE F[<<Max(T), g[T \ {Max(T)}]>>]

LEMMA FoldExists ==
  ASSUME NEW n \in Nat, NEW Acc, NEW base \in Acc, NEW F \in FoldSteps(n, Acc)
  PROVE  \E g \in [SUBSET (1 .. n) -> Acc] : Folds(g, n, base, F)
<1> USE DEF FoldSteps, Folds
<1> DEFINE Solves(g, k) == Folds(g, k, base, F)
           Good == {k \in 0 .. n : \E g \in [SUBSET (1 .. k) -> Acc] : Solves(g, k)}
<1>1. 0 \in Good
  <2> DEFINE g == [T \in SUBSET (1 .. 0) |-> base]
  <2>1. g \in [SUBSET (1 .. 0) -> Acc]
    OBVIOUS
  <2>2. \A T \in SUBSET (1 .. 0) : T = {}
    OBVIOUS
  <2>3. Solves(g, 0)
    BY <2>2
  <2> HIDE DEF g, Solves
  <2>4. \E h \in [SUBSET (1 .. 0) -> Acc] : Solves(h, 0)
    BY <2>1, <2>3
  <2>5. 0 \in 0 .. n
    OBVIOUS
  <2> QED BY <2>4, <2>5
<1>2. ASSUME NEW k \in 1 .. n, k - 1 \in Good PROVE k \in Good
  <2>1. PICK h \in [SUBSET (1 .. (k - 1)) -> Acc] : Solves(h, k - 1)
    BY <1>2
  <2> DEFINE g == [T \in SUBSET (1 .. k) |-> IF T = {} THEN base ELSE F[<<Max(T), h[T \ {Max(T)}]>>]]
  <2>2. ASSUME NEW T \in SUBSET (1 .. k), T # {}
        PROVE  Max(T) \in 1 .. n /\ T \ {Max(T)} \in SUBSET (1 .. (k - 1))
    <3>1. Max(T) \in T /\ \A j \in T : j <= Max(T)
      <4>1. k \in Nat
        OBVIOUS
      <4> QED BY <4>1, <2>2, MaxOfPart
    <3> DEFINE top == Max(T)
    <3>2. top \in 1 .. k /\ \A j \in T : j \in 1 .. k /\ j <= top
      BY <3>1
    <3> HIDE DEF top
    <3>3. top \in 1 .. n /\ T \ {top} \in SUBSET (1 .. (k - 1))
      BY <3>2
    <3> QED BY <3>3 DEF top
  <2>3. g \in [SUBSET (1 .. k) -> Acc]
    <3>1. ASSUME NEW T \in SUBSET (1 .. k) PROVE g[T] \in Acc
      <4>1. CASE T = {} BY <4>1
      <4>2. CASE T # {}
        <5>1. <<Max(T), h[T \ {Max(T)}]>> \in (1 .. n) \X Acc
          BY <4>2, <2>2
        <5> QED BY <4>2, <5>1
      <4> QED BY <4>1, <4>2
    <3> QED BY <3>1
  <2>4. ASSUME NEW T \in SUBSET (1 .. k), T # {} PROVE g[T \ {Max(T)}] = h[T \ {Max(T)}]
    <3> DEFINE U == T \ {Max(T)}
    <3>1. U \in SUBSET (1 .. (k - 1)) /\ U \in SUBSET (1 .. k)
      BY <2>4, <2>2
    <3> HIDE DEF U
    <3>2. g[U] = h[U]
      BY <3>1, <2>1
    <3> QED BY <3>2 DEF U
  <2>5. Solves(g, k)
    BY <2>4
  <2> HIDE DEF g, Solves
  <2> QED BY <2>3, <2>5
<1>3. n \in Good
  <2> HIDE DEF Good
  <2> QED BY <1>1, <1>2, Climb
<1> QED BY <1>3

(* The steps of a fold, one index after the other.                         *)
Runs(iter, n, Acc, base, F) ==
  /\ iter[{}] = base
  /\ \A T \in SUBSET (1 .. n) : T # {} /\ iter[T \ {Max(T)}] \in Acc
       => iter[T] = F[<<Max(T), iter[T \ {Max(T)}]>>]
Traces(m, n, base, F) == m[0] = base /\ \A k \in 1 .. n : m[k] = F[<<k, m[k - 1]>>]

LEMMA FoldTrace ==
  ASSUME NEW n \in Nat, NEW Acc, NEW base \in Acc, NEW F \in FoldSteps(n, Acc), NEW iter,
         Runs(iter, n, Acc, base, F)
  PROVE  \E m \in [0 .. n -> Acc] : Traces(m, n, base, F) /\ iter[1 .. n] = m[n]
<1> DEFINE m == [k \in 0 .. n |-> iter[1 .. k]]
           G == {k \in 0 .. n : m[k] \in Acc}
<1>1. m[0] = base
  <2>1. 1 .. 0 = {}
    OBVIOUS
  <2> QED BY <2>1 DEF Runs
<1>2. ASSUME NEW k \in 1 .. n, m[k - 1] \in Acc
      PROVE  m[k] = F[<<k, m[k - 1]>>] /\ m[k] \in Acc
  <2>1. Max(1 .. k) = k /\ (1 .. k) \ {k} = 1 .. (k - 1)
    BY MaxOfRange
  <2>2. 1 .. k \in SUBSET (1 .. n) /\ 1 .. k # {}
    OBVIOUS
  <2>3. m[k] = iter[1 .. k] /\ m[k - 1] = iter[1 .. (k - 1)]
    OBVIOUS
  <2> HIDE DEF m
  <2>4. m[k] = F[<<k, m[k - 1]>>]
    BY <1>2, <2>1, <2>2, <2>3, ZenonT(40) DEF Runs
  <2>5. <<k, m[k - 1]>> \in (1 .. n) \X Acc
    BY <1>2
  <2> QED BY <2>4, <2>5 DEF FoldSteps
<1>3. \A k \in 0 .. n : k \in G
  <2>1. 0 \in G
    BY <1>1
  <2>2. ASSUME NEW k \in 1 .. n, k - 1 \in G PROVE k \in G
    <3>1. k \in 0 .. n /\ m[k - 1] \in Acc
      <4> HIDE DEF m
      <4> QED BY <2>2
    <3>2. m[k] \in Acc
      <4> HIDE DEF m
      <4> QED BY <1>2, <3>1
    <3> HIDE DEF m
    <3> QED BY <3>1, <3>2
  <2> HIDE DEF G
  <2> QED BY <2>1, <2>2, Climb
<1>4. m \in [0 .. n -> Acc] /\ iter[1 .. n] = m[n]
  BY <1>3
<1>5. ASSUME NEW k \in 1 .. n PROVE m[k] = F[<<k, m[k - 1]>>]
  <2>1. k - 1 \in G
    <3>1. k - 1 \in 0 .. n
      OBVIOUS
    <3> HIDE DEF G
    <3> QED BY <3>1, <1>3
  <2> QED BY <1>2, <2>1
<1> HIDE DEF m
<1> QED BY <1>1, <1>4, <1>5 DEF Traces

-----------------------------------------------------------------------------
(* The folds of the engine *)

Pair == [start : Int, end : Int]

LEMMA FoldOfKeep ==
  ASSUME NEW s \in Seq(Pair)
  PROVE  \E m \in [0 .. Len(s) -> Seq(Pair)] :
           /\ m[0] = <<>>
           /\ \A k \in 1 .. Len(s) : m[k] = KeepSpan(m[k - 1], s[k])
           /\ FoldLeft(KeepSpan, <<>>, s) = m[Len(s)]
<1> DEFINE n == Len(s)
           F == [p \in (1 .. n) \X Seq(Pair) |-> KeepSpan(p[2], s[p[1]])]
           none == <<>>
<1>0. n \in Nat /\ DOMAIN s = 1 .. n
  OBVIOUS
<1>1. \A acc \in Seq(Pair), i \in 1 .. n : KeepSpan(acc, s[i]) \in Seq(Pair)
  BY DEF KeepSpan
<1>2. F \in FoldSteps(n, Seq(Pair)) /\ none \in Seq(Pair)
  BY <1>1 DEF FoldSteps
<1>3. PICK g \in [SUBSET (1 .. n) -> Seq(Pair)] : Folds(g, n, none, F)
  <2> HIDE DEF F, n, none
  <2> QED BY <1>0, <1>2, FoldExists
<1>F. ASSUME NEW i \in 1 .. n, NEW acc \in Seq(Pair) PROVE F[<<i, acc>>] = KeepSpan(acc, s[i])
  OBVIOUS
<1> HIDE DEF F
<1> DEFINE Eq(h) == h = [T \in SUBSET (1 .. n) |-> IF T = {} THEN none
                          ELSE KeepSpan(h[T \ {Max(T)}], s[Max(T)])]
           iter == CHOOSE h : Eq(h)
<1>4. ASSUME NEW T \in SUBSET (1 .. n), T # {}, NEW acc \in Seq(Pair)
      PROVE  F[<<Max(T), acc>>] = KeepSpan(acc, s[Max(T)])
  <2>1. Max(T) \in 1 .. n
    BY <1>0, <1>4, MaxOfPart
  <2> QED BY <2>1, <1>F
<1>5. Eq(iter)
  <2>1. Eq(g)
    BY <1>3, <1>4 DEF Folds
  <2> HIDE DEF Eq
  <2> QED BY <2>1
<1>6. FoldLeft(KeepSpan, <<>>, s) = iter[1 .. n]
  BY <1>0 DEF FoldLeft, MapThenFoldSet
<1>7. Runs(iter, n, Seq(Pair), none, F)
  <2> HIDE DEF iter, none
  <2> QED BY <1>4, <1>5 DEF Runs
<1>8. PICK m \in [0 .. n -> Seq(Pair)] : Traces(m, n, none, F) /\ iter[1 .. n] = m[n]
  <2> HIDE DEF iter, n, none
  <2> QED BY <1>0, <1>2, <1>7, FoldTrace
<1>9. ASSUME NEW k \in 1 .. n PROVE m[k] = KeepSpan(m[k - 1], s[k])
  <2>1. m[k - 1] \in Seq(Pair)
    OBVIOUS
  <2> HIDE DEF n
  <2> QED BY <1>8, <2>1, <1>F DEF Traces
<1> QED BY <1>6, <1>8, <1>9 DEF Traces
LEMMA MinOfPart ==
  ASSUME NEW S \in SUBSET Nat, S # {}
  PROVE  Min(S) \in S /\ \A k \in S : Min(S) <= k
<1>1. PICK n \in S : \A m \in S : n <= m
  BY FirstOf
<1> QED BY <1>1 DEF Min

LEMMA InsertedIs ==
  ASSUME NEW t \in Seq(Pair), NEW i \in Pair
  PROVE  /\ Inserted(t, i) \in Seq(Pair)
         /\ Len(Inserted(t, i)) = Len(t) + 1
         /\ \E p \in 1 .. (Len(t) + 1) :
              /\ \A j \in 1 .. (p - 1) : Inserted(t, i)[j] = t[j] /\ ~ SpanBefore(i, t[j])
              /\ Inserted(t, i)[p] = i
              /\ \A j \in p .. Len(t) : Inserted(t, i)[j + 1] = t[j]
              /\ p <= Len(t) => SpanBefore(i, t[p])
<1> DEFINE later == {j \in DOMAIN t : SpanBefore(i, t[j])}
<1>1. CASE later = {}
  <2>1. Inserted(t, i) = Append(t, i)
    BY <1>1 DEF Inserted
  <2> QED BY <1>1, <2>1
<1>2. CASE later # {}
  <2> DEFINE p == Min(later)
  <2>1. p \in later /\ \A k \in later : p <= k
    <3>1. later \in SUBSET Nat
      OBVIOUS
    <3> HIDE DEF later
    <3> QED BY <1>2, <3>1, MinOfPart
  <2>2. Inserted(t, i) = SubSeq(t, 1, p - 1) \o <<i>> \o SubSeq(t, p, Len(t))
    BY <1>2 DEF Inserted, InsertAt
  <2> HIDE DEF p
  <2>3. p \in 1 .. Len(t) /\ SpanBefore(i, t[p]) /\ \A j \in 1 .. (p - 1) : ~ SpanBefore(i, t[j])
    BY <2>1
  <2> HIDE DEF later
  <2> DEFINE a == SubSeq(t, 1, p - 1)
             b == SubSeq(t, p, Len(t))
  <2>4. a \in Seq(Pair) /\ Len(a) = p - 1 /\ \A j \in 1 .. (p - 1) : a[j] = t[j]
    BY <2>3
  <2>5. b \in Seq(Pair) /\ Len(b) = Len(t) - p + 1 /\ \A j \in 1 .. (Len(t) - p + 1) : b[j] = t[p + j - 1]
    BY <2>3
  <2> HIDE DEF a, b
  <2>6. <<i>> \in Seq(Pair) /\ Len(<<i>>) = 1 /\ <<i>>[1] = i
    OBVIOUS
  <2> DEFINE r == a \o <<i>> \o b
  <2> DEFINE front == a \o <<i>>
  <2>f. front \in Seq(Pair) /\ Len(front) = p /\ front[p] = i /\ \A j \in 1 .. (p - 1) : front[j] = t[j]
    <3> DEFINE one == <<i>>
    <3>1. one \in Seq(Pair) /\ Len(one) = 1 /\ one[1] = i
      BY <2>6
    <3>2. front = a \o one
      OBVIOUS
    <3> HIDE DEF one, front
    <3>3. /\ front \in Seq(Pair) /\ Len(front) = Len(a) + Len(one)
          /\ \A j \in 1 .. Len(a) + Len(one) :
                front[j] = IF j <= Len(a) THEN a[j] ELSE one[j - Len(a)]
      BY <3>1, <3>2, <2>4, ConcatProperties
    <3>4. p \in Nat \ {0} /\ Len(a) + Len(one) = p /\ p - Len(a) = 1
      BY <3>1, <2>3, <2>4
    <3>5. front[p] = i
      BY <3>1, <3>3, <3>4, <2>4
    <3>6. \A j \in 1 .. (p - 1) : front[j] = t[j]
      BY <3>3, <3>4, <2>4
    <3> QED BY <3>3, <3>4, <3>5, <3>6
  <2>e. r = front \o b
    OBVIOUS
  <2> HIDE DEF front, r
  <2>7. r \in Seq(Pair) /\ Len(r) = Len(t) + 1
    <3>1. r \in Seq(Pair) /\ Len(r) = Len(front) + Len(b)
      BY <2>5, <2>f, <2>e, ConcatProperties
    <3> QED BY <3>1, <2>3, <2>5, <2>f
  <2>8. \A j \in 1 .. (p - 1) : r[j] = t[j]
    BY <2>3, <2>5, <2>f, <2>e
  <2>9. r[p] = i
    BY <2>3, <2>5, <2>f, <2>e
  <2>10. ASSUME NEW j \in p .. Len(t) PROVE r[j + 1] = t[j]
    <3>1. r[j + 1] = b[j + 1 - p]
      BY <2>3, <2>5, <2>f, <2>e
    <3>2. j + 1 - p \in 1 .. (Len(t) - p + 1) /\ p + (j + 1 - p) - 1 = j
      BY <2>3
    <3> QED BY <3>1, <3>2, <2>5
  <2>11. Inserted(t, i) = r
    BY <2>2 DEF a, b, r
  <2> HIDE DEF r
  <2>12. p \in 1 .. (Len(t) + 1)
    BY <2>3
  <2>13. /\ \A j \in 1 .. (p - 1) : r[j] = t[j] /\ ~ SpanBefore(i, t[j])
         /\ r[p] = i
         /\ \A j \in p .. Len(t) : r[j + 1] = t[j]
         /\ p <= Len(t) => SpanBefore(i, t[p])
    BY <2>3, <2>8, <2>9, <2>10
  <2>14. \E q \in 1 .. (Len(t) + 1) :
           /\ \A j \in 1 .. (q - 1) : r[j] = t[j] /\ ~ SpanBefore(i, t[j])
           /\ r[q] = i
           /\ \A j \in q .. Len(t) : r[j + 1] = t[j]
           /\ q <= Len(t) => SpanBefore(i, t[q])
    BY <2>12, <2>13, Zenon
  <2> QED BY <2>7, <2>11, <2>14
<1> QED BY <1>1, <1>2

LEMMA MergedIs ==
  ASSUME NEW t \in Seq(Pair), NEW i \in Pair
  PROVE  MergeIntoLast(t, i) \in Seq(Pair)
<1>1. CASE t # <<>> /\ i.start <= t[Len(t)].end /\ i.end > t[Len(t)].end
  <2> DEFINE k == Len(t)
             joined == Span(t[k].start, i.end)
  <2>1. k \in DOMAIN t /\ joined \in Pair
    <3>1. k \in DOMAIN t
      BY <1>1
    <3>2. t[k] \in Pair
      BY <3>1
    <3> HIDE DEF k
    <3> QED BY <3>1, <3>2 DEF Span, Pair
  <2>2. [t EXCEPT ![k] = joined] \in Seq(Pair)
    <3> HIDE DEF joined, k
    <3> QED BY <2>1
  <2> QED BY <1>1, <2>2 DEF MergeIntoLast
<1>2. CASE ~ (t # <<>> /\ i.start <= t[Len(t)].end)
  BY <1>2 DEF MergeIntoLast
<1>3. CASE t # <<>> /\ i.start <= t[Len(t)].end /\ ~ (i.end > t[Len(t)].end)
  BY <1>3 DEF MergeIntoLast
<1> QED BY <1>1, <1>2, <1>3

LEMMA FoldOfInserted ==
  ASSUME NEW s \in Seq(Pair)
  PROVE  \E m \in [0 .. Len(s) -> Seq(Pair)] :
           /\ m[0] = <<>>
           /\ \A k \in 1 .. Len(s) : m[k] = Inserted(m[k - 1], s[k])
           /\ FoldLeft(Inserted, <<>>, s) = m[Len(s)]
<1> DEFINE n == Len(s)
           F == [p \in (1 .. n) \X Seq(Pair) |-> Inserted(p[2], s[p[1]])]
           none == <<>>
<1>0. n \in Nat /\ DOMAIN s = 1 .. n
  OBVIOUS
<1>1. \A acc \in Seq(Pair), i \in 1 .. n : Inserted(acc, s[i]) \in Seq(Pair)
  <2>1. \A i \in 1 .. n : s[i] \in Pair
    BY <1>0
  <2> QED BY <2>1, InsertedIs
<1>2. F \in FoldSteps(n, Seq(Pair)) /\ none \in Seq(Pair)
  BY <1>1 DEF FoldSteps
<1>3. PICK g \in [SUBSET (1 .. n) -> Seq(Pair)] : Folds(g, n, none, F)
  <2> HIDE DEF F, n, none
  <2> QED BY <1>0, <1>2, FoldExists
<1>F. ASSUME NEW i \in 1 .. n, NEW acc \in Seq(Pair) PROVE F[<<i, acc>>] = Inserted(acc, s[i])
  OBVIOUS
<1> HIDE DEF F
<1> DEFINE Eq(h) == h = [T \in SUBSET (1 .. n) |-> IF T = {} THEN none
                          ELSE Inserted(h[T \ {Max(T)}], s[Max(T)])]
           iter == CHOOSE h : Eq(h)
<1>4. ASSUME NEW T \in SUBSET (1 .. n), T # {}, NEW acc \in Seq(Pair)
      PROVE  F[<<Max(T), acc>>] = Inserted(acc, s[Max(T)])
  <2>1. Max(T) \in 1 .. n
    BY <1>0, <1>4, MaxOfPart
  <2> QED BY <2>1, <1>F
<1>5. Eq(iter)
  <2>1. Eq(g)
    BY <1>3, <1>4 DEF Folds
  <2> HIDE DEF Eq
  <2> QED BY <2>1
<1>6. FoldLeft(Inserted, <<>>, s) = iter[1 .. n]
  BY <1>0 DEF FoldLeft, MapThenFoldSet
<1>7. Runs(iter, n, Seq(Pair), none, F)
  <2> HIDE DEF iter, none
  <2> QED BY <1>4, <1>5 DEF Runs
<1>8. PICK m \in [0 .. n -> Seq(Pair)] : Traces(m, n, none, F) /\ iter[1 .. n] = m[n]
  <2> HIDE DEF iter, n, none
  <2> QED BY <1>0, <1>2, <1>7, FoldTrace
<1>9. ASSUME NEW k \in 1 .. n PROVE m[k] = Inserted(m[k - 1], s[k])
  <2>1. m[k - 1] \in Seq(Pair)
    OBVIOUS
  <2> HIDE DEF n
  <2> QED BY <1>8, <2>1, <1>F DEF Traces
<1> QED BY <1>6, <1>8, <1>9 DEF Traces
LEMMA FoldOfMerge ==
  ASSUME NEW s \in Seq(Pair)
  PROVE  \E m \in [0 .. Len(s) -> Seq(Pair)] :
           /\ m[0] = <<>>
           /\ \A k \in 1 .. Len(s) : m[k] = MergeIntoLast(m[k - 1], s[k])
           /\ FoldLeft(MergeIntoLast, <<>>, s) = m[Len(s)]
<1> DEFINE n == Len(s)
           F == [p \in (1 .. n) \X Seq(Pair) |-> MergeIntoLast(p[2], s[p[1]])]
           none == <<>>
<1>0. n \in Nat /\ DOMAIN s = 1 .. n
  OBVIOUS
<1>1. \A acc \in Seq(Pair), i \in 1 .. n : MergeIntoLast(acc, s[i]) \in Seq(Pair)
  <2>1. \A i \in 1 .. n : s[i] \in Pair
    BY <1>0
  <2> QED BY <2>1, MergedIs
<1>2. F \in FoldSteps(n, Seq(Pair)) /\ none \in Seq(Pair)
  BY <1>1 DEF FoldSteps
<1>3. PICK g \in [SUBSET (1 .. n) -> Seq(Pair)] : Folds(g, n, none, F)
  <2> HIDE DEF F, n, none
  <2> QED BY <1>0, <1>2, FoldExists
<1>F. ASSUME NEW i \in 1 .. n, NEW acc \in Seq(Pair) PROVE F[<<i, acc>>] = MergeIntoLast(acc, s[i])
  OBVIOUS
<1> HIDE DEF F
<1> DEFINE Eq(h) == h = [T \in SUBSET (1 .. n) |-> IF T = {} THEN none
                          ELSE MergeIntoLast(h[T \ {Max(T)}], s[Max(T)])]
           iter == CHOOSE h : Eq(h)
<1>4. ASSUME NEW T \in SUBSET (1 .. n), T # {}, NEW acc \in Seq(Pair)
      PROVE  F[<<Max(T), acc>>] = MergeIntoLast(acc, s[Max(T)])
  <2>1. Max(T) \in 1 .. n
    BY <1>0, <1>4, MaxOfPart
  <2> QED BY <2>1, <1>F
<1>5. Eq(iter)
  <2>1. Eq(g)
    BY <1>3, <1>4 DEF Folds
  <2> HIDE DEF Eq
  <2> QED BY <2>1
<1>6. FoldLeft(MergeIntoLast, <<>>, s) = iter[1 .. n]
  BY <1>0 DEF FoldLeft, MapThenFoldSet
<1>7. Runs(iter, n, Seq(Pair), none, F)
  <2> HIDE DEF iter, none
  <2> QED BY <1>4, <1>5 DEF Runs
<1>8. PICK m \in [0 .. n -> Seq(Pair)] : Traces(m, n, none, F) /\ iter[1 .. n] = m[n]
  <2> HIDE DEF iter, n, none
  <2> QED BY <1>0, <1>2, <1>7, FoldTrace
<1>9. ASSUME NEW k \in 1 .. n PROVE m[k] = MergeIntoLast(m[k - 1], s[k])
  <2>1. m[k - 1] \in Seq(Pair)
    OBVIOUS
  <2> HIDE DEF n
  <2> QED BY <1>8, <2>1, <1>F DEF Traces
<1> QED BY <1>6, <1>8, <1>9 DEF Traces

LEMMA ProperSpans ==
  ASSUME NEW s \in Seq(Pair)
  PROVE  /\ Proper(s) \in Seq(Pair)
         /\ \A j \in DOMAIN Proper(s) :
              IsSpan(Proper(s)[j]) /\ \E i \in DOMAIN s : Proper(s)[j] = s[i]
         /\ \A i \in DOMAIN s : IsSpan(s[i]) => \E j \in DOMAIN Proper(s) : Proper(s)[j] = s[i]
<1> DEFINE n == Len(s)
<1>1. PICK m \in [0 .. n -> Seq(Pair)] :
           /\ m[0] = <<>>
           /\ \A k \in 1 .. n : m[k] = KeepSpan(m[k - 1], s[k])
           /\ FoldLeft(KeepSpan, <<>>, s) = m[n]
  BY FoldOfKeep
<1> DEFINE From(k) == \A j \in DOMAIN m[k] : IsSpan(m[k][j]) /\ \E i \in 1 .. k : m[k][j] = s[i]
           All(k) == \A i \in 1 .. k : IsSpan(s[i]) => \E j \in DOMAIN m[k] : m[k][j] = s[i]
           G == {k \in 0 .. n : From(k) /\ All(k)}
<1>2. 0 \in G
  BY <1>1
<1>3. ASSUME NEW k \in 1 .. n, k - 1 \in G PROVE k \in G
  <2>1. k \in 0 .. n /\ k - 1 \in 0 .. n /\ k \in DOMAIN s
    OBVIOUS
  <2> DEFINE t == m[k - 1]
             x == s[k]
  <2>2. t \in Seq(Pair) /\ x \in Pair /\ From(k - 1) /\ All(k - 1)
    BY <1>3, <2>1
  <2>3. m[k] = KeepSpan(t, x)
    BY <1>1
  <2>4. CASE IsSpan(x)
    <3>1. m[k] = Append(t, x)
      BY <2>3, <2>4 DEF KeepSpan
    <3>2. /\ DOMAIN m[k] = 1 .. Len(t) + 1 /\ DOMAIN t = 1 .. Len(t)
          /\ m[k][Len(t) + 1] = x /\ \A j \in 1 .. Len(t) : m[k][j] = t[j]
      <4> HIDE DEF t, x
      <4> QED BY <2>2, <3>1
    <3>3. From(k)
      <4>1. ASSUME NEW j \in DOMAIN m[k] PROVE IsSpan(m[k][j]) /\ \E i \in 1 .. k : m[k][j] = s[i]
        <5>1. CASE j = Len(t) + 1
          BY <5>1, <3>2, <2>4
        <5>2. CASE j \in 1 .. Len(t)
          <6>1. IsSpan(t[j]) /\ \E i \in 1 .. (k - 1) : t[j] = s[i]
            BY <5>2, <2>2, <3>2
          <6> QED BY <6>1, <3>2, <5>2
        <5>3. j = Len(t) + 1 \/ j \in 1 .. Len(t)
          <6> HIDE DEF t
          <6> QED BY <3>2, <2>2
        <5> QED BY <5>1, <5>2, <5>3
      <4> QED BY <4>1
    <3>4. All(k)
      <4>1. ASSUME NEW i \in 1 .. k, IsSpan(s[i]) PROVE \E j \in DOMAIN m[k] : m[k][j] = s[i]
        <5>1. CASE i = k
          <6>1. Len(t) + 1 \in DOMAIN m[k]
            <7> HIDE DEF t
            <7> QED BY <3>2, <2>2
          <6> QED BY <6>1, <5>1, <3>2
        <5>2. CASE i # k
          <6>1. i \in 1 .. (k - 1)
            BY <5>2
          <6>2. PICK j \in DOMAIN t : t[j] = s[i]
            BY <6>1, <2>2, <4>1
          <6>3. j \in DOMAIN m[k] /\ m[k][j] = s[i]
            <7> HIDE DEF t
            <7> QED BY <6>2, <3>2, <2>2
          <6> QED BY <6>3
        <5> QED BY <5>1, <5>2
      <4> QED BY <4>1
    <3> QED BY <3>3, <3>4, <2>1
  <2>5. CASE ~ IsSpan(x)
    <3>1. m[k] = t
      BY <2>3, <2>5 DEF KeepSpan
    <3>2. From(k)
      <4>1. \A i \in 1 .. (k - 1) : i \in 1 .. k
        OBVIOUS
      <4> QED BY <3>1, <2>2, <4>1
    <3>3. All(k)
      <4>1. ASSUME NEW i \in 1 .. k, IsSpan(s[i]) PROVE \E j \in DOMAIN m[k] : m[k][j] = s[i]
        <5>1. i \in 1 .. (k - 1)
          BY <4>1, <2>5
        <5> QED BY <5>1, <4>1, <3>1, <2>2
      <4> QED BY <4>1
    <3> QED BY <3>2, <3>3, <2>1
  <2> QED BY <2>4, <2>5
<1>4. n \in G
  <2> HIDE DEF G
  <2>1. n \in Nat /\ n \in 0 .. n
    OBVIOUS
  <2> QED BY <2>1, <1>2, <1>3, Climb
<1>5. Proper(s) = m[n] /\ DOMAIN s = 1 .. n /\ n \in 0 .. n
  BY <1>1 DEF Proper
<1>6. m[n] \in Seq(Pair) /\ From(n) /\ All(n)
  BY <1>4, <1>5
<1> HIDE DEF n
<1> QED BY <1>5, <1>6

(* sorted() gives a list of the same spans, in the order of their starts.  *)
Nondecreasing(t) == \A i, j \in DOMAIN t : i < j => t[i].start <= t[j].start

LEMMA SortedSpans ==
  ASSUME NEW s \in Seq(Pair)
  PROVE  /\ Ordered(s) \in Seq(Pair) /\ Len(Ordered(s)) = Len(s)
         /\ Nondecreasing(Ordered(s))
         /\ \A j \in DOMAIN Ordered(s) : \E i \in DOMAIN s : Ordered(s)[j] = s[i]
         /\ \A i \in DOMAIN s : \E j \in DOMAIN Ordered(s) : Ordered(s)[j] = s[i]
<1> DEFINE n == Len(s)
<1>1. PICK m \in [0 .. n -> Seq(Pair)] :
           /\ m[0] = <<>>
           /\ \A k \in 1 .. n : m[k] = Inserted(m[k - 1], s[k])
           /\ FoldLeft(Inserted, <<>>, s) = m[n]
  BY FoldOfInserted
<1> DEFINE From(k) == \A j \in DOMAIN m[k] : \E i \in 1 .. k : m[k][j] = s[i]
           All(k) == \A i \in 1 .. k : \E j \in DOMAIN m[k] : m[k][j] = s[i]
           G == {k \in 0 .. n : From(k) /\ All(k) /\ Nondecreasing(m[k]) /\ Len(m[k]) = k}
<1>2. 0 \in G
  BY <1>1 DEF Nondecreasing
<1>3. ASSUME NEW k \in 1 .. n, k - 1 \in G PROVE k \in G
  <2>1. k \in 0 .. n /\ k - 1 \in 0 .. n /\ k \in DOMAIN s
    OBVIOUS
  <2> DEFINE t == m[k - 1]
             x == s[k]
             u == m[k]
  <2>2. t \in Seq(Pair) /\ x \in Pair /\ From(k - 1) /\ All(k - 1) /\ Nondecreasing(t) /\ Len(t) = k - 1
    BY <1>3, <2>1
  <2>3. u = Inserted(t, x)
    BY <1>1
  <2>4. u \in Seq(Pair) /\ Len(u) = k
    <3> HIDE DEF t, x, u
    <3> QED BY <2>2, <2>3, InsertedIs
  <2>5. PICK p \in 1 .. k :
              /\ \A j \in 1 .. (p - 1) : u[j] = t[j] /\ ~ SpanBefore(x, t[j])
              /\ u[p] = x
              /\ \A j \in p .. (k - 1) : u[j + 1] = t[j]
              /\ p <= k - 1 => SpanBefore(x, t[p])
    <3>1. \E p \in 1 .. (Len(t) + 1) :
              /\ \A j \in 1 .. (p - 1) : u[j] = t[j] /\ ~ SpanBefore(x, t[j])
              /\ u[p] = x
              /\ \A j \in p .. Len(t) : u[j + 1] = t[j]
              /\ p <= Len(t) => SpanBefore(x, t[p])
      <4>1. t \in Seq(Pair) /\ x \in Pair
        BY <2>2
      <4> HIDE DEF t, x, u
      <4> QED BY <4>1, <2>3, InsertedIs, ZenonT(40)
    <3>2. Len(t) = k - 1 /\ Len(t) + 1 = k
      BY <2>2
    <3> HIDE DEF t, x, u
    <3> QED BY <3>1, <3>2
  <2> DEFINE Old(j) == IF j < p THEN j ELSE j - 1
  <2>6. \A j \in 1 .. k : j # p => Old(j) \in 1 .. (k - 1) /\ u[j] = t[Old(j)]
    <3>1. ASSUME NEW j \in 1 .. k, j < p PROVE j \in 1 .. (k - 1) /\ u[j] = t[j]
      <4> HIDE DEF t, x, u
      <4> QED BY <3>1, <2>5
    <3>2. ASSUME NEW j \in 1 .. k, p < j PROVE j - 1 \in 1 .. (k - 1) /\ u[j] = t[j - 1]
      <4>1. j - 1 \in p .. (k - 1) /\ (j - 1) + 1 = j
        BY <3>2
      <4> HIDE DEF t, x, u
      <4> QED BY <4>1, <2>5
    <3> HIDE DEF t, x, u
    <3> QED BY <3>1, <3>2
  <2>7. DOMAIN u = 1 .. k /\ DOMAIN t = 1 .. (k - 1)
    <3> HIDE DEF t, u
    <3> QED BY <2>2, <2>4
  <2>8. From(k)
    <3>1. ASSUME NEW j \in 1 .. k PROVE \E i \in 1 .. k : u[j] = s[i]
      <4>1. CASE j = p
        BY <4>1, <2>5
      <4>2. CASE j # p
        <5> DEFINE o == Old(j)
        <5>1. o \in 1 .. (k - 1) /\ u[j] = t[o]
          BY <4>2, <2>6
        <5> HIDE DEF o
        <5>2. PICK i \in 1 .. (k - 1) : t[o] = s[i]
          BY <5>1, <2>2, <2>7
        <5>3. i \in 1 .. k /\ u[j] = s[i]
          <6> HIDE DEF t, u
          <6> QED BY <5>1, <5>2
        <5> QED BY <5>3
      <4> QED BY <4>1, <4>2
    <3> QED BY <3>1, <2>7
  <2>9. All(k)
    <3>1. ASSUME NEW i \in 1 .. k PROVE \E j \in 1 .. k : u[j] = s[i]
      <4>1. CASE i = k
        BY <4>1, <2>5
      <4>2. CASE i # k
        <5>1. PICK j \in 1 .. (k - 1) : t[j] = s[i]
          <6>1. i \in 1 .. (k - 1)
            BY <4>2
          <6> QED BY <6>1, <2>2, <2>7
        <5>2. CASE j < p
          <6>1. j \in 1 .. (p - 1) /\ j \in 1 .. k
            BY <5>2
          <6> QED BY <6>1, <5>1, <2>5
        <5>3. CASE p <= j
          <6>1. j \in p .. (k - 1) /\ j + 1 \in 1 .. k
            BY <5>3
          <6> QED BY <6>1, <5>1, <2>5
        <5>4. j \in Int /\ p \in Int
          BY <2>5
        <5>5. j < p \/ p <= j
          BY <5>4
        <5> QED BY <5>2, <5>3, <5>5
      <4> QED BY <4>1, <4>2
    <3> QED BY <3>1, <2>7
  <2>10. Nondecreasing(u)
    <3>t. \A j \in 1 .. (k - 1) : t[j].start \in Int /\ t[j].end \in Int
      <4> HIDE DEF t
      <4>1. \A j \in 1 .. (k - 1) : t[j] \in Pair
        BY <2>2, <2>7
      <4> QED BY <4>1 DEF Pair
    <3>x. x.start \in Int /\ x.end \in Int
      BY <2>2 DEF Pair
    <3>s. \A a, b \in 1 .. (k - 1) : a < b => t[a].start <= t[b].start
      <4> HIDE DEF t
      <4> QED BY <2>2, <2>7 DEF Nondecreasing
    <3> HIDE DEF t, x, u
    <3>e. \A a, b \in 1 .. (k - 1) : a <= b => t[a].start <= t[b].start
      BY <3>t, <3>s
    <3>b. \A a \in 1 .. (k - 1) : a < p => t[a].start <= x.start
      <4>1. ASSUME NEW a \in 1 .. (k - 1), a < p PROVE t[a].start <= x.start
        <5>1. a \in 1 .. (p - 1)
          BY <4>1
        <5>2. ~ SpanBefore(x, t[a])
          BY <5>1, <2>5
        <5> QED BY <5>2, <3>t, <3>x DEF SpanBefore
      <4> QED BY <4>1
    <3>a. \A a \in 1 .. (k - 1) : p <= a => x.start <= t[a].start
      <4>1. ASSUME NEW a \in 1 .. (k - 1), p <= a PROVE x.start <= t[a].start
        <5>1. p \in 1 .. (k - 1) /\ SpanBefore(x, t[p])
          BY <4>1, <2>5
        <5>2. x.start <= t[p].start
          BY <5>1, <3>t, <3>x DEF SpanBefore
        <5>3. t[p].start <= t[a].start
          BY <5>1, <4>1, <3>e
        <5> QED BY <5>1, <5>2, <5>3, <3>t, <3>x
      <4> QED BY <4>1
    <3>1. ASSUME NEW i \in 1 .. k, NEW j \in 1 .. k, i < j PROVE u[i].start <= u[j].start
      <4>1. CASE i = p
        <5>1. j - 1 \in 1 .. (k - 1) /\ u[j] = t[j - 1] /\ p <= j - 1
          BY <4>1, <3>1, <2>6
        <5> QED BY <5>1, <4>1, <2>5, <3>a
      <4>2. CASE j = p
        <5>1. i \in 1 .. (k - 1) /\ u[i] = t[i] /\ i < p
          BY <4>2, <3>1, <2>6
        <5> QED BY <5>1, <4>2, <2>5, <3>b
      <4>3. CASE i # p /\ j # p
        <5>1. /\ Old(i) \in 1 .. (k - 1) /\ u[i] = t[Old(i)]
              /\ Old(j) \in 1 .. (k - 1) /\ u[j] = t[Old(j)]
          BY <4>3, <2>6
        <5>2. Old(i) <= Old(j)
          BY <3>1, <4>3
        <5> QED BY <5>1, <5>2, <3>e
      <4> QED BY <4>1, <4>2, <4>3
    <3> QED BY <3>1, <2>7 DEF Nondecreasing
  <2> QED BY <2>1, <2>4, <2>8, <2>9, <2>10
<1>4. n \in G
  <2> HIDE DEF G
  <2>1. n \in Nat /\ n \in 0 .. n
    OBVIOUS
  <2> QED BY <2>1, <1>2, <1>3, Climb
<1>5. Ordered(s) = m[n] /\ DOMAIN s = 1 .. n /\ n \in 0 .. n
  BY <1>1 DEF Ordered
<1>6. m[n] \in Seq(Pair) /\ From(n) /\ All(n) /\ Nondecreasing(m[n]) /\ Len(m[n]) = n
  BY <1>4, <1>5
<1>7. Len(s) = n
  OBVIOUS
<1>8. Ordered(s) \in Seq(Pair) /\ Len(Ordered(s)) = Len(s) /\ Nondecreasing(Ordered(s))
  BY <1>5, <1>6, <1>7, ZenonT(40)
<1>9. \A j \in DOMAIN Ordered(s) : \E i \in DOMAIN s : Ordered(s)[j] = s[i]
  BY <1>5, <1>6
<1>10. \A i \in DOMAIN s : \E j \in DOMAIN Ordered(s) : Ordered(s)[j] = s[i]
  BY <1>5, <1>6
<1> QED BY <1>8, <1>9, <1>10

(* Lists of spans: what instants they cover, and whether they are in order *)
(* with a gap between any two.                                             *)
Has(i, x) == i.start <= x /\ x < i.end
Covers(t, x) == \E j \in DOMAIN t : Has(t[j], x)
AllSpans(t) == \A j \in DOMAIN t : IsSpan(t[j])
Apart(t) == \A i, j \in DOMAIN t : i < j => t[i].end < t[j].start

LEMMA PairFields ==
  ASSUME NEW t \in Seq(Pair), NEW j \in DOMAIN t
  PROVE  t[j] \in Pair /\ t[j].start \in Int /\ t[j].end \in Int
<1>1. t[j] \in Pair
  OBVIOUS
<1> QED BY <1>1 DEF Pair

LEMMA AppendApart ==
  ASSUME NEW t \in Seq(Pair), NEW c \in Pair, IsSpan(c), AllSpans(t), Apart(t),
         t # <<>> => t[Len(t)].end < c.start
  PROVE  LET v == Append(t, c)
         IN /\ v \in Seq(Pair) /\ Len(v) = Len(t) + 1 /\ v[Len(v)] = c
            /\ AllSpans(v) /\ Apart(v)
            /\ \A x \in Int : Covers(v, x) <=> Covers(t, x) \/ Has(c, x)
<1> DEFINE v == Append(t, c)
           n == Len(t)
<1>1. /\ v \in Seq(Pair) /\ Len(v) = n + 1 /\ v[n + 1] = c /\ n \in Nat
      /\ DOMAIN v = 1 .. (n + 1) /\ DOMAIN t = 1 .. n
      /\ \A j \in 1 .. n : v[j] = t[j]
  OBVIOUS
<1>p. \A j \in 1 .. n : t[j].start \in Int /\ t[j].end \in Int /\ t[j].start < t[j].end
  BY <1>1, PairFields DEF AllSpans, IsSpan
<1>c. c.start \in Int /\ c.end \in Int /\ c.start < c.end
  BY DEF Pair, IsSpan
<1>l. \A j \in 1 .. n : t[j].end < c.start
  <2>1. ASSUME NEW j \in 1 .. n PROVE t[j].end < c.start
    <3>1. n \in 1 .. n /\ t # <<>> /\ t[n].end < c.start
      BY <2>1
    <3>0. n \in Nat
      BY <1>1
    <3>3. ASSUME j < n PROVE t[j].end < t[n].start
      BY <3>1, <3>3, <1>1 DEF Apart
    <3> HIDE DEF n
    <3>2. j = n \/ j < n
      BY <3>0
    <3> QED BY <3>1, <3>2, <3>3, <1>p, <1>c
  <2> QED BY <2>1
<1> HIDE DEF v, n
<1>2. AllSpans(v)
  <2>1. ASSUME NEW j \in 1 .. (n + 1) PROVE v[j].start < v[j].end
    <3>1. j = n + 1 \/ j \in 1 .. n
      BY <1>1
    <3> QED BY <3>1, <1>1, <1>p, <1>c
  <2> QED BY <2>1, <1>1 DEF AllSpans, IsSpan
<1>3. Apart(v)
  <2>1. ASSUME NEW i \in 1 .. (n + 1), NEW j \in 1 .. (n + 1), i < j PROVE v[i].end < v[j].start
    <3>1. i \in 1 .. n /\ v[i] = t[i]
      BY <1>1, <2>1
    <3>2. CASE j = n + 1
      BY <3>1, <3>2, <1>1, <1>l
    <3>3. CASE j # n + 1
      <4>1. j \in 1 .. n /\ v[j] = t[j]
        BY <1>1, <3>3
      <4> QED BY <3>1, <4>1, <2>1, <1>1 DEF Apart
    <3> QED BY <3>2, <3>3
  <2> QED BY <2>1, <1>1 DEF Apart
<1>4. ASSUME NEW x \in Int PROVE Covers(v, x) <=> Covers(t, x) \/ Has(c, x)
  <2>1. \A j \in 1 .. (n + 1) : j = n + 1 \/ j \in 1 .. n
    BY <1>1
  <2>2. n + 1 \in 1 .. (n + 1) /\ \A j \in 1 .. n : j \in 1 .. (n + 1)
    BY <1>1
  <2> QED BY <1>1, <2>1, <2>2 DEF Covers
<1> QED BY <1>1, <1>2, <1>3, <1>4 DEF v, n

LEMMA MergeStep ==
  ASSUME NEW t \in Seq(Pair), NEW c \in Pair, IsSpan(c), AllSpans(t), Apart(t),
         t # <<>> => t[Len(t)].start <= c.start
  PROVE  LET v == MergeIntoLast(t, c)
         IN /\ v \in Seq(Pair) /\ v # <<>> /\ v[Len(v)].start <= c.start
            /\ AllSpans(v) /\ Apart(v)
            /\ \A x \in Int : Covers(v, x) <=> Covers(t, x) \/ Has(c, x)
<1> DEFINE v == MergeIntoLast(t, c)
           n == Len(t)
<1>c. c.start \in Int /\ c.end \in Int /\ c.start < c.end
  BY DEF Pair, IsSpan
<1>d. n \in Nat /\ DOMAIN t = 1 .. n
  OBVIOUS
<1>p. \A j \in 1 .. n : t[j].start \in Int /\ t[j].end \in Int /\ t[j].start < t[j].end
  BY <1>d, PairFields DEF AllSpans, IsSpan
<1>1. CASE t = <<>> \/ c.start > t[n].end
  <2>1. t # <<>> => n \in 1 .. n
    BY <1>d
  <2>2. v = Append(t, c)
    BY <1>1, <2>1, <1>c, <1>p DEF MergeIntoLast
  <2>3. t # <<>> => t[n].end < c.start
    BY <1>1, <2>1, <1>c, <1>p
  <2> HIDE DEF v, n
  <2>4. /\ v \in Seq(Pair) /\ Len(v) = Len(t) + 1 /\ v[Len(v)] = c
        /\ AllSpans(v) /\ Apart(v)
        /\ \A x \in Int : Covers(v, x) <=> Covers(t, x) \/ Has(c, x)
    BY <2>2, <2>3, AppendApart DEF n
  <2>5. v # <<>>
    BY <2>4, <1>d DEF n
  <2> QED BY <2>4, <2>5, <1>c DEF v
<1>2. CASE t # <<>> /\ c.start <= t[n].end /\ c.end > t[n].end
  <2> DEFINE joined == Span(t[n].start, c.end)
  <2>1. n \in 1 .. n /\ t[n].start <= c.start
    BY <1>2, <1>d
  <2>2. v = [t EXCEPT ![n] = joined]
    BY <1>2 DEF MergeIntoLast
  <2>3. joined.start = t[n].start /\ joined.end = c.end /\ joined \in Pair
    <3> HIDE DEF n
    <3> QED BY <2>1, <1>c, <1>p DEF Span, Pair
  <2> HIDE DEF joined
  <2>4. /\ v \in Seq(Pair) /\ Len(v) = n /\ DOMAIN v = 1 .. n /\ v[n] = joined
        /\ \A j \in 1 .. n : j # n => v[j] = t[j]
    <3> HIDE DEF v
    <3> QED BY <2>2, <2>3, <2>1
  <2>5. v # <<>>
    <3> HIDE DEF v, n
    <3>1. n # 0 /\ Len(v) = n
      BY <2>1, <2>4, <1>d
    <3> QED BY <3>1
  <2> HIDE DEF v, n
  <2>6. v[n].start = t[n].start /\ v[n].end = c.end
    BY <2>3, <2>4
  <2>7. AllSpans(v)
    <3>1. ASSUME NEW j \in 1 .. n PROVE v[j].start < v[j].end
      <4>1. CASE j = n
        BY <4>1, <2>6, <2>1, <1>c, <1>p
      <4>2. CASE j # n
        BY <4>2, <2>4, <1>p
      <4> QED BY <4>1, <4>2
    <3> QED BY <3>1, <2>4 DEF AllSpans, IsSpan
  <2>8. Apart(v)
    <3>1. ASSUME NEW i \in 1 .. n, NEW j \in 1 .. n, i < j PROVE v[i].end < v[j].start
      <4>1. i # n
        BY <3>1, <1>d
      <4>2. v[j].start = t[j].start
        BY <2>4, <2>6
      <4>3. t[i].end < t[j].start
        BY <3>1, <1>d DEF Apart
      <4> QED BY <4>1, <4>2, <4>3, <2>4
    <3> QED BY <3>1, <2>4 DEF Apart
  <2>9. ASSUME NEW x \in Int PROVE Covers(v, x) <=> Covers(t, x) \/ Has(c, x)
    <3>1. Has(v[n], x) <=> Has(t[n], x) \/ Has(c, x)
      <4>1. /\ t[n].start \in Int /\ t[n].end \in Int
            /\ t[n].start < t[n].end /\ c.start <= t[n].end /\ c.end > t[n].end /\ t[n].start <= c.start
        BY <1>2, <2>1, <1>p
      <4> QED BY <4>1, <2>6, <1>c DEF Has
    <3>2. \A j \in 1 .. n : j # n => (Has(v[j], x) <=> Has(t[j], x))
      BY <2>4
    <3>3. Covers(v, x) <=> \E j \in 1 .. n : Has(v[j], x)
      BY <2>4 DEF Covers
    <3>4. Covers(t, x) <=> \E j \in 1 .. n : Has(t[j], x)
      BY <1>d DEF Covers
    <3> QED BY <3>1, <3>2, <3>3, <3>4, <2>1
  <2>10. v[Len(v)].start <= c.start
    BY <2>4, <2>6, <2>1
  <2> QED BY <2>4, <2>5, <2>7, <2>8, <2>9, <2>10 DEF v
<1>3. CASE t # <<>> /\ c.start <= t[n].end /\ ~ (c.end > t[n].end)
  <2>1. v = t
    BY <1>3 DEF MergeIntoLast
  <2>2. n \in 1 .. n /\ t[n].start <= c.start
    BY <1>3, <1>d
  <2>3. ASSUME NEW x \in Int, Has(c, x) PROVE Covers(t, x)
    <3>1. /\ t[n].start \in Int /\ t[n].end \in Int /\ c.end <= t[n].end
      BY <1>3, <1>p, <1>c, <2>2
    <3>2. Has(t[n], x)
      BY <3>1, <2>2, <2>3, <1>c DEF Has
    <3> QED BY <3>2, <2>2, <1>d DEF Covers
  <2> HIDE DEF v
  <2> QED BY <1>3, <2>1, <2>2, <2>3 DEF v
<1>4. t # <<>> => t[n].start \in Int /\ t[n].end \in Int
  BY <1>d, <1>p
<1> QED
  <2> HIDE DEF n, v
  <2> QED BY <1>1, <1>2, <1>3, <1>4, <1>c DEF v

LEMMA NormalizeSpans ==
  ASSUME NEW s \in Seq(Pair), AllSpans(s)
  PROVE  /\ Normalize(s) \in Seq(Pair) /\ AllSpans(Normalize(s)) /\ Apart(Normalize(s))
         /\ \A x \in Int : Covers(Normalize(s), x) <=> Covers(s, x)
<1> DEFINE t == Ordered(s)
           n == Len(s)
<1>t. t \in Seq(Pair) /\ Len(t) = n /\ Nondecreasing(t) /\ DOMAIN t = 1 .. n /\ n \in Nat
  BY SortedSpans
<1>e. /\ \A j \in DOMAIN t : \E i \in DOMAIN s : t[j] = s[i]
      /\ \A i \in DOMAIN s : \E j \in DOMAIN t : t[j] = s[i]
  BY SortedSpans
<1> HIDE DEF t
<1>s. AllSpans(t)
  BY <1>e DEF AllSpans
<1>c. \A x \in Int : Covers(t, x) <=> Covers(s, x)
  BY <1>e DEF Covers
<1>1. PICK m \in [0 .. Len(t) -> Seq(Pair)] :
           /\ m[0] = <<>>
           /\ \A k \in 1 .. Len(t) : m[k] = MergeIntoLast(m[k - 1], t[k])
           /\ FoldLeft(MergeIntoLast, <<>>, t) = m[Len(t)]
  BY <1>t, FoldOfMerge
<1> DEFINE Upto(k) == \A x \in Int : Covers(m[k], x) <=> \E j \in 1 .. k : Has(t[j], x)
           Behind(k) == k # 0 => m[k] # <<>> /\ m[k][Len(m[k])].start <= t[k].start
           Good(k) == AllSpans(m[k]) /\ Apart(m[k])
           G == {k \in 0 .. n : Good(k) /\ Upto(k) /\ Behind(k)}
<1> HIDE DEF n
<1>2. 0 \in G
  <2>1. m[0] = <<>> /\ 0 \in 0 .. n /\ 1 .. 0 = {}
    BY <1>1, <1>t
  <2> QED BY <2>1 DEF AllSpans, Apart, Covers
<1>3. ASSUME NEW k \in 1 .. n, k - 1 \in G PROVE k \in G
  <2> DEFINE u == m[k - 1]
             v == m[k]
             c == t[k]
  <2>1. k \in 0 .. n /\ k - 1 \in 0 .. n /\ k \in DOMAIN t
    BY <1>t
  <2>2. u \in Seq(Pair) /\ AllSpans(u) /\ Apart(u) /\ c \in Pair /\ IsSpan(c)
    <3>1. c \in Pair /\ IsSpan(c)
      BY <1>t, <1>s, <2>1, PairFields DEF AllSpans
    <3>2. k - 1 \in 0 .. Len(t)
      BY <1>t, <2>1
    <3>3. u \in Seq(Pair)
      BY <3>2, <1>1
    <3>4. Good(k - 1)
      BY <1>3
    <3> QED BY <3>1, <3>3, <3>4
  <2>3. v = MergeIntoLast(u, c)
    BY <1>1, <1>t
  <2>4. u # <<>> => u[Len(u)].start <= c.start
    <3>1. CASE k = 1
      BY <3>1, <1>1
    <3>2. CASE k # 1
      <4>1. k - 1 \in DOMAIN t /\ k - 1 # 0 /\ k - 1 < k
        BY <3>2, <1>t
      <4>2. t[k - 1].start <= t[k].start
        BY <4>1, <2>1, <1>t DEF Nondecreasing
      <4>3. u # <<>> /\ u[Len(u)].start <= t[k - 1].start
        BY <1>3, <4>1
      <4>4. Len(u) \in DOMAIN u
        <5> HIDE DEF u
        <5> QED BY <2>2, <4>3
      <4>5. t[k - 1].start \in Int /\ t[k].start \in Int
        BY <1>t, <4>1, <2>1, PairFields
      <4>6. u[Len(u)].start \in Int
        <5> HIDE DEF u
        <5> QED BY <2>2, <4>4, PairFields
      <4> HIDE DEF u
      <4> QED BY <4>2, <4>3, <4>5, <4>6
    <3> QED BY <3>1, <3>2
  <2> HIDE DEF u, v, c
  <2>5. /\ v \in Seq(Pair) /\ v # <<>> /\ v[Len(v)].start <= c.start
        /\ AllSpans(v) /\ Apart(v)
        /\ \A x \in Int : Covers(v, x) <=> Covers(u, x) \/ Has(c, x)
    BY <2>2, <2>3, <2>4, MergeStep
  <2>6. ASSUME NEW x \in Int PROVE Covers(v, x) <=> \E j \in 1 .. k : Has(t[j], x)
    <3>1. Covers(u, x) <=> \E j \in 1 .. (k - 1) : Has(t[j], x)
      BY <1>3 DEF u
    <3>2. \A j \in 1 .. k : j = k \/ j \in 1 .. (k - 1)
      OBVIOUS
    <3>3. k \in 1 .. k /\ \A j \in 1 .. (k - 1) : j \in 1 .. k
      OBVIOUS
    <3> QED BY <2>5, <3>1, <3>2, <3>3 DEF c
  <2>7. Good(k) /\ Behind(k)
    BY <2>5 DEF v, c
  <2>8. Upto(k)
    BY <2>6 DEF v
  <2> QED BY <2>1, <2>7, <2>8
<1>4. n \in G
  <2> HIDE DEF G
  <2>1. n \in Nat /\ n \in 0 .. n
    BY <1>t
  <2> QED BY <2>1, <1>2, <1>3, Climb
<1>5. Normalize(s) = m[n] /\ n \in 0 .. n
  BY <1>1, <1>t DEF Normalize, t
<1>6. m[n] \in Seq(Pair) /\ Good(n) /\ Upto(n)
  BY <1>4, <1>5
<1>7. ASSUME NEW x \in Int PROVE Covers(Normalize(s), x) <=> Covers(s, x)
  <2>1. Covers(t, x) <=> \E j \in 1 .. n : Has(t[j], x)
    BY <1>t DEF Covers
  <2> QED BY <1>5, <1>6, <2>1, <1>c
<1> QED BY <1>5, <1>6, <1>7

LEMMA ClipSpans ==
  ASSUME NEW s \in Seq(Pair), NEW w \in Pair
  PROVE  /\ Clip(s, w) \in Seq(Pair) /\ AllSpans(Clip(s, w))
         /\ \A x \in Int : Covers(Clip(s, w), x) <=> Covers(s, x) /\ Has(w, x)
<1> DEFINE t == [i \in DOMAIN s |-> Span(Greatest(s[i].start, w.start), Least(s[i].end, w.end))]
           c == Clip(s, w)
<1>w. w.start \in Int /\ w.end \in Int
  BY DEF Pair
<1>s. \A i \in DOMAIN s : s[i].start \in Int /\ s[i].end \in Int
  BY PairFields
<1>1. t \in Seq(Pair) /\ DOMAIN t = DOMAIN s
  <2>1. \A i \in DOMAIN s : Span(Greatest(s[i].start, w.start), Least(s[i].end, w.end)) \in Pair
    BY <1>w, <1>s DEF Span, Greatest, Least, Pair
  <2>2. DOMAIN s = 1 .. Len(s) /\ Len(s) \in Nat
    OBVIOUS
  <2> QED BY <2>1, <2>2
<1>2. ASSUME NEW i \in DOMAIN s, NEW x \in Int PROVE Has(t[i], x) <=> Has(s[i], x) /\ Has(w, x)
  BY <1>w, <1>s DEF Span, Greatest, Least, Has
<1>3. c = Proper(t)
  BY DEF Clip
<1> HIDE DEF t, c
<1>4. /\ c \in Seq(Pair)
      /\ \A j \in DOMAIN c : IsSpan(c[j]) /\ \E i \in DOMAIN t : c[j] = t[i]
      /\ \A i \in DOMAIN t : IsSpan(t[i]) => \E j \in DOMAIN c : c[j] = t[i]
  BY <1>1, <1>3, ProperSpans
<1>5. \A i \in DOMAIN t, x \in Int : Has(t[i], x) => IsSpan(t[i])
  BY <1>1, PairFields DEF Has, IsSpan
<1>6. ASSUME NEW x \in Int PROVE Covers(c, x) <=> Covers(s, x) /\ Has(w, x)
  <2>1. Covers(c, x) <=> Covers(t, x)
    BY <1>4, <1>5 DEF Covers
  <2>2. Covers(t, x) <=> Covers(s, x) /\ Has(w, x)
    BY <1>1, <1>2 DEF Covers
  <2> QED BY <2>1, <2>2
<1> QED BY <1>4, <1>6 DEF c, AllSpans

(* What the inner loop of subtract keeps while it passes the obstacles.    *)
PassState == [out : Seq(Pair), cursor : Int, done : BOOLEAN]
Untouched(span) == [out |-> <<>>, cursor |-> span.start, done |-> FALSE]

LEMMA PassBlockIs ==
  ASSUME NEW span \in Pair, NEW a \in PassState, NEW b \in Pair
  PROVE  PassBlock(span, a, b) \in PassState
<1>1. /\ span.start \in Int /\ span.end \in Int /\ b.start \in Int /\ b.end \in Int
      /\ a.out \in Seq(Pair) /\ a.cursor \in Int /\ a.done \in BOOLEAN
  BY DEF Pair, PassState
<1>2. Greatest(a.cursor, b.end) \in Int /\ (Greatest(a.cursor, b.end) >= span.end) \in BOOLEAN
  BY <1>1 DEF Greatest
<1>3. Span(a.cursor, Least(b.start, span.end)) \in Pair
  BY <1>1 DEF Span, Least, Pair
<1>4. Append(a.out, Span(a.cursor, Least(b.start, span.end))) \in Seq(Pair)
  BY <1>1, <1>3
<1>5. [a EXCEPT !.done = TRUE] \in PassState
  BY DEF PassState
<1>6. [out    |-> IF b.start > a.cursor
                  THEN Append(a.out, Span(a.cursor, Least(b.start, span.end)))
                  ELSE a.out,
       cursor |-> Greatest(a.cursor, b.end),
       done   |-> Greatest(a.cursor, b.end) >= span.end] \in PassState
  BY <1>1, <1>2, <1>4 DEF PassState
<1> QED BY <1>5, <1>6 DEF PassBlock

LEMMA FoldOfPass ==
  ASSUME NEW span \in Pair, NEW s \in Seq(Pair)
  PROVE  \E m \in [0 .. Len(s) -> PassState] :
           /\ m[0] = Untouched(span)
           /\ \A k \in 1 .. Len(s) : m[k] = PassBlock(span, m[k - 1], s[k])
           /\ FoldLeft(LAMBDA a, block : PassBlock(span, a, block), Untouched(span), s) = m[Len(s)]
<1> DEFINE n == Len(s)
           F == [p \in (1 .. n) \X PassState |-> PassBlock(span, p[2], s[p[1]])]
           none == Untouched(span)
<1>0. n \in Nat /\ DOMAIN s = 1 .. n
  OBVIOUS
<1>1. \A acc \in PassState, i \in 1 .. n : PassBlock(span, acc, s[i]) \in PassState
  <2>1. \A i \in 1 .. n : s[i] \in Pair
    BY <1>0
  <2> QED BY <2>1, PassBlockIs
<1>2. F \in FoldSteps(n, PassState) /\ none \in PassState
  <2>1. \A p \in (1 .. n) \X PassState : p[1] \in 1 .. n /\ p[2] \in PassState
    OBVIOUS
  <2>2. F \in FoldSteps(n, PassState)
    BY <1>1, <2>1 DEF FoldSteps
  <2>3. none \in PassState
    BY DEF Untouched, PassState, Pair
  <2> QED BY <2>2, <2>3
<1>3. PICK g \in [SUBSET (1 .. n) -> PassState] : Folds(g, n, none, F)
  <2> HIDE DEF F, n, none
  <2> QED BY <1>0, <1>2, FoldExists
<1>F. ASSUME NEW i \in 1 .. n, NEW acc \in PassState PROVE F[<<i, acc>>] = PassBlock(span, acc, s[i])
  OBVIOUS
<1> HIDE DEF F
<1> DEFINE Eq(h) == h = [T \in SUBSET (1 .. n) |-> IF T = {} THEN none
                          ELSE PassBlock(span, h[T \ {Max(T)}], s[Max(T)])]
           iter == CHOOSE h : Eq(h)
<1>4. ASSUME NEW T \in SUBSET (1 .. n), T # {}, NEW acc \in PassState
      PROVE  F[<<Max(T), acc>>] = PassBlock(span, acc, s[Max(T)])
  <2>1. Max(T) \in 1 .. n
    BY <1>0, <1>4, MaxOfPart
  <2> QED BY <2>1, <1>F
<1>5. Eq(iter)
  <2>1. Eq(g)
    BY <1>3, <1>4 DEF Folds
  <2> HIDE DEF Eq
  <2> QED BY <2>1
<1>6. FoldLeft(LAMBDA a, block : PassBlock(span, a, block), Untouched(span), s) = iter[1 .. n]
  BY <1>0 DEF FoldLeft, MapThenFoldSet
<1>7. Runs(iter, n, PassState, none, F)
  <2> HIDE DEF iter, none
  <2> QED BY <1>4, <1>5 DEF Runs
<1>8. PICK m \in [0 .. n -> PassState] : Traces(m, n, none, F) /\ iter[1 .. n] = m[n]
  <2> HIDE DEF iter, n, none
  <2> QED BY <1>0, <1>2, <1>7, FoldTrace
<1>9. ASSUME NEW k \in 1 .. n PROVE m[k] = PassBlock(span, m[k - 1], s[k])
  <2>1. m[k - 1] \in PassState
    OBVIOUS
  <2> HIDE DEF n
  <2> QED BY <1>8, <2>1, <1>F DEF Traces
<1> QED BY <1>6, <1>8, <1>9 DEF Traces
(* The list it has made is the part of the span before the cursor and      *)
(* outside the set P of instants that the obstacles passed so far cover.   *)
PassOk(span, a, P) ==
  /\ AllSpans(a.out) /\ Apart(a.out)
  /\ \A j \in DOMAIN a.out : /\ span.start <= a.out[j].start
                             /\ a.out[j].end <= span.end /\ a.out[j].end < a.cursor
  /\ a.cursor >= span.start
  /\ ~ a.done => a.cursor < span.end
  /\ \A x \in Int : Covers(a.out, x) <=> Has(span, x) /\ x < a.cursor /\ x \notin P
  /\ \A x \in P : Has(span, x) => x < a.cursor

LEMMA PassStep ==
  ASSUME NEW span \in Pair, NEW a \in PassState, NEW b \in Pair, NEW P \in SUBSET Int,
         IsSpan(b), PassOk(span, a, P),
         a.cursor = span.start \/ a.cursor < b.start, a.done => b.start >= span.end
  PROVE  LET v == PassBlock(span, a, b)
         IN /\ PassOk(span, v, P \cup {x \in Int : Has(b, x)})
            /\ v.cursor = a.cursor \/ v.cursor = b.end
            /\ v.done => a.done \/ b.start >= span.end \/ (v.cursor = b.end /\ b.end >= span.end)
<1> DEFINE v == PassBlock(span, a, b)
           Q == P \cup {x \in Int : Has(b, x)}
<1>1. /\ span.start \in Int /\ span.end \in Int /\ b.start \in Int /\ b.end \in Int /\ b.start < b.end
      /\ a.out \in Seq(Pair) /\ a.cursor \in Int /\ a.done \in BOOLEAN
  BY DEF Pair, PassState, IsSpan
<1>q. \A x \in Int : x \in Q <=> x \in P \/ Has(b, x)
  OBVIOUS
<1>P. Q \in SUBSET Int
  OBVIOUS
<1>i. /\ AllSpans(a.out) /\ Apart(a.out)
      /\ \A j \in DOMAIN a.out : /\ span.start <= a.out[j].start
                                 /\ a.out[j].end <= span.end /\ a.out[j].end < a.cursor
      /\ a.cursor >= span.start
      /\ ~ a.done => a.cursor < span.end
      /\ \A x \in Int : Covers(a.out, x) <=> Has(span, x) /\ x < a.cursor /\ x \notin P
      /\ \A x \in P : Has(span, x) => x < a.cursor
  BY DEF PassOk
<1>2. CASE a.done \/ b.end <= a.cursor
  <2>1. v = a
    BY <1>2 DEF PassBlock
  <2>2. \A x \in Int : ~ (Has(span, x) /\ Has(b, x))
    BY <1>1, <1>2 DEF Has
  <2> HIDE DEF Q, v
  <2>3. \A x \in Int : Covers(a.out, x) <=> Has(span, x) /\ x < a.cursor /\ x \notin Q
    BY <2>2, <1>q, <1>i
  <2>4. \A x \in Q : Has(span, x) => x < a.cursor
    BY <2>2, <1>q, <1>i, <1>P
  <2>5. PassOk(span, v, Q)
    BY <2>1, <2>3, <2>4, <1>i DEF PassOk
  <2> QED BY <2>1, <2>5 DEF v, Q
<1>3. CASE ~ a.done /\ ~ (b.end <= a.cursor) /\ b.start >= span.end
  <2>1. v = [a EXCEPT !.done = TRUE]
    BY <1>3 DEF PassBlock
  <2>2. \A x \in Int : ~ (Has(span, x) /\ Has(b, x))
    BY <1>1, <1>3 DEF Has
  <2>v. v.out = a.out /\ v.cursor = a.cursor /\ v.done = TRUE
    BY <2>1 DEF PassState
  <2> HIDE DEF Q, v
  <2>3. \A x \in Int : Covers(a.out, x) <=> Has(span, x) /\ x < a.cursor /\ x \notin Q
    BY <2>2, <1>q, <1>i
  <2>4. \A x \in Q : Has(span, x) => x < a.cursor
    BY <2>2, <1>q, <1>i, <1>P
  <2>5. PassOk(span, v, Q)
    BY <2>v, <2>3, <2>4, <1>i DEF PassOk
  <2> QED BY <1>3, <2>v, <2>5 DEF v, Q
<1>4. CASE ~ a.done /\ ~ (b.end <= a.cursor) /\ ~ (b.start >= span.end)
  <2>1. /\ v.cursor = b.end /\ v.done = (b.end >= span.end)
        /\ v.out = IF b.start > a.cursor
                   THEN Append(a.out, Span(a.cursor, Least(b.start, span.end))) ELSE a.out
    <3>1. Greatest(a.cursor, b.end) = b.end
      BY <1>1, <1>4 DEF Greatest
    <3> QED BY <1>4, <3>1 DEF PassBlock
  <2>2. a.cursor < span.end /\ a.cursor < b.end /\ b.start < span.end
    BY <1>1, <1>4, <1>i
  <2>3. CASE b.start > a.cursor
    <3> DEFINE c == Span(a.cursor, b.start)
    <3>1. c.start = a.cursor /\ c.end = b.start /\ c \in Pair /\ IsSpan(c)
      BY <1>1, <2>3 DEF Span, Pair, IsSpan
    <3>2. v.out = Append(a.out, c)
      <4>1. Least(b.start, span.end) = b.start
        BY <1>1, <2>2 DEF Least
      <4> QED BY <2>1, <2>3, <4>1
    <3> HIDE DEF c, v, Q
    <3>3. a.out # <<>> => a.out[Len(a.out)].end < c.start
      <4>1. ASSUME a.out # <<>> PROVE Len(a.out) \in DOMAIN a.out
        BY <4>1, <1>1
      <4> QED BY <4>1, <1>i, <3>1
    <3>4. /\ v.out \in Seq(Pair) /\ Len(v.out) = Len(a.out) + 1
          /\ AllSpans(v.out) /\ Apart(v.out)
          /\ \A x \in Int : Covers(v.out, x) <=> Covers(a.out, x) \/ Has(c, x)
      BY <1>1, <1>i, <3>1, <3>2, <3>3, AppendApart
    <3>5. ASSUME NEW j \in DOMAIN v.out
          PROVE  span.start <= v.out[j].start /\ v.out[j].end <= span.end /\ v.out[j].end < v.cursor
      <4>1. v.out[j] = c \/ (j \in DOMAIN a.out /\ v.out[j] = a.out[j])
        BY <1>1, <3>1, <3>2
      <4>2. CASE v.out[j] = c
        BY <4>2, <3>1, <2>1, <2>2, <1>1, <1>i
      <4>3. CASE j \in DOMAIN a.out /\ v.out[j] = a.out[j]
        <5>1. a.out[j].end \in Int
          BY <4>3, <1>1, PairFields
        <5> QED BY <4>3, <5>1, <2>1, <2>2, <1>1, <1>i
      <4> QED BY <4>1, <4>2, <4>3
    <3>6. ASSUME NEW x \in Int PROVE Covers(v.out, x) <=> Has(span, x) /\ x < v.cursor /\ x \notin Q
      <4>1. Covers(v.out, x) <=> (Has(span, x) /\ x < a.cursor /\ x \notin P) \/ (a.cursor <= x /\ x < b.start)
        BY <3>4, <3>1, <1>i DEF Has
      <4>2. x \in P /\ Has(span, x) => x < a.cursor
        BY <1>i
      <4>3. x \in Q <=> x \in P \/ (b.start <= x /\ x < b.end)
        BY <1>q DEF Has
      <4>4. Has(span, x) <=> span.start <= x /\ x < span.end
        BY DEF Has
      <4> QED BY <4>1, <4>2, <4>3, <4>4, <2>1, <2>2, <2>3, <1>1, <1>i
    <3>7. \A x \in Q : Has(span, x) => x < v.cursor
      <4>1. ASSUME NEW x \in Q, Has(span, x) PROVE x < v.cursor
        <5>1. x \in Int /\ (x \in P \/ (b.start <= x /\ x < b.end))
          BY <1>q, <1>P DEF Has
        <5> QED BY <5>1, <4>1, <1>i, <1>1, <2>1, <2>2
      <4> QED BY <4>1
    <3>9. v.cursor >= span.start /\ (~ v.done => v.cursor < span.end)
      <4>1. ~ v.done => ~ (b.end >= span.end)
        BY <2>1, Zenon
      <4>2. ~ (b.end >= span.end) => v.cursor < span.end
        BY <2>1, <1>1
      <4>3. v.cursor >= span.start
        BY <2>1, <2>2, <1>1, <1>i
      <4> QED BY <4>1, <4>2, <4>3
    <3>8. PassOk(span, v, Q)
      BY <3>4, <3>5, <3>6, <3>7, <3>9 DEF PassOk
    <3> QED BY <3>8, <2>1 DEF v, Q
  <2>4. CASE ~ (b.start > a.cursor)
    <3>1. v.out = a.out
      BY <2>1, <2>4
    <3>2. a.cursor = span.start /\ b.start <= span.start
      BY <1>1, <2>4
    <3> HIDE DEF v, Q
    <3>5. ASSUME NEW j \in DOMAIN v.out
          PROVE  span.start <= v.out[j].start /\ v.out[j].end <= span.end /\ v.out[j].end < v.cursor
      <4>1. a.out[j].end \in Int
        BY <3>1, <1>1, PairFields
      <4> QED BY <3>1, <4>1, <2>1, <2>2, <1>1, <1>i
    <3>6. ASSUME NEW x \in Int PROVE Covers(v.out, x) <=> Has(span, x) /\ x < v.cursor /\ x \notin Q
      <4>1. Covers(v.out, x) <=> Has(span, x) /\ x < a.cursor /\ x \notin P
        BY <3>1, <1>i
      <4>3. x \in Q <=> x \in P \/ (b.start <= x /\ x < b.end)
        BY <1>q DEF Has
      <4>4. Has(span, x) <=> span.start <= x /\ x < span.end
        BY DEF Has
      <4> QED BY <4>1, <4>3, <4>4, <2>1, <2>2, <3>2, <1>1
    <3>7. \A x \in Q : Has(span, x) => x < v.cursor
      <4>1. ASSUME NEW x \in Q, Has(span, x) PROVE x < v.cursor
        <5>1. x \in Int /\ (x \in P \/ (b.start <= x /\ x < b.end))
          BY <1>q, <1>P DEF Has
        <5> QED BY <5>1, <4>1, <1>i, <1>1, <2>1, <2>2
      <4> QED BY <4>1
    <3>9. v.cursor >= span.start /\ (~ v.done => v.cursor < span.end)
      <4>1. ~ v.done => ~ (b.end >= span.end)
        BY <2>1, Zenon
      <4>2. ~ (b.end >= span.end) => v.cursor < span.end
        BY <2>1, <1>1
      <4>3. v.cursor >= span.start
        BY <2>1, <2>2, <1>1, <1>i
      <4> QED BY <4>1, <4>2, <4>3
    <3>8. PassOk(span, v, Q)
      BY <3>1, <3>5, <3>6, <3>7, <3>9, <1>i DEF PassOk
    <3> QED BY <3>8, <2>1 DEF v, Q
  <2> QED BY <2>3, <2>4
<1> QED BY <1>1, <1>2, <1>3, <1>4

(* subtract, of one span: what is left of it is in order and apart, within *)
(* the span, and covers exactly what no obstacle covers.                   *)
LEMMA Remains ==
  ASSUME NEW span \in Pair, IsSpan(span),
         NEW obst \in Seq(Pair), AllSpans(obst), Apart(obst)
  PROVE  LET r == WhatRemains(span, obst)
         IN /\ r \in Seq(Pair) /\ AllSpans(r) /\ Apart(r)
            /\ \A j \in DOMAIN r : span.start <= r[j].start /\ r[j].end <= span.end
            /\ \A x \in Int : Covers(r, x) <=> Has(span, x) /\ ~ Covers(obst, x)
<1> DEFINE n == Len(obst)
<1>0. n \in Nat /\ DOMAIN obst = 1 .. n
  OBVIOUS
<1>p. \A j \in 1 .. n : obst[j] \in Pair /\ IsSpan(obst[j])
                        /\ obst[j].start \in Int /\ obst[j].end \in Int /\ obst[j].start < obst[j].end
  BY <1>0, PairFields DEF AllSpans, IsSpan
<1>s. span.start \in Int /\ span.end \in Int /\ span.start < span.end
  BY DEF Pair, IsSpan
<1>1. PICK m \in [0 .. n -> PassState] :
           /\ m[0] = Untouched(span)
           /\ \A k \in 1 .. n : m[k] = PassBlock(span, m[k - 1], obst[k])
           /\ FoldLeft(LAMBDA a, block : PassBlock(span, a, block), Untouched(span), obst) = m[n]
  BY FoldOfPass
<1> DEFINE P(k) == {x \in Int : \E j \in 1 .. k : Has(obst[j], x)}
           At(k) == m[k].cursor = span.start \/ \E j \in 1 .. k : m[k].cursor = obst[j].end
           Rest(k) == m[k].done => \A j \in k + 1 .. n : obst[j].start >= span.end
           G == {k \in 0 .. n : PassOk(span, m[k], P(k)) /\ At(k) /\ Rest(k)}
<1> HIDE DEF n
<1>2. 0 \in G
  <2>1. m[0].out = <<>> /\ m[0].cursor = span.start /\ m[0].done = FALSE
    <3>1. m[0] = [out |-> <<>>, cursor |-> span.start, done |-> FALSE]
      BY <1>1 DEF Untouched
    <3> DEFINE c == span.start
    <3> HIDE DEF c
    <3>2. m[0] = [out |-> <<>>, cursor |-> c, done |-> FALSE]
      BY <3>1 DEF c
    <3>3. m[0].cursor = c /\ m[0].done = FALSE /\ m[0].out = <<>>
      BY <3>2
    <3> QED BY <3>3 DEF c
  <2>2. P(0) = {} /\ 0 \in 0 .. n
    BY <1>0
  <2>3. PassOk(span, m[0], P(0))
    BY <2>1, <2>2, <1>s DEF PassOk, AllSpans, Apart, Covers, Has
  <2> QED BY <2>1, <2>2, <2>3
<1>3. ASSUME NEW k \in 1 .. n, k - 1 \in G PROVE k \in G
  <2> DEFINE a == m[k - 1]
             v == m[k]
             b == obst[k]
             B == {x \in Int : Has(b, x)}
  <2>1. k \in 0 .. n /\ k - 1 \in 0 .. n /\ k - 1 \in Int /\ k \in Int /\ n \in Int
    BY <1>0
  <2>2. a \in PassState /\ b \in Pair /\ IsSpan(b) /\ P(k - 1) \in SUBSET Int
    BY <1>p, <2>1
  <2>3. PassOk(span, a, P(k - 1)) /\ At(k - 1) /\ Rest(k - 1)
    BY <1>3
  <2>4. v = PassBlock(span, a, b)
    BY <1>1
  <2>5. \A j \in 1 .. (k - 1) : obst[j].end < b.start
    BY <2>1, <1>0 DEF Apart
  <2>6. a.cursor = span.start \/ a.cursor < b.start
    BY <2>3, <2>5
  <2>7. a.done => b.start >= span.end
    <3>1. k \in (k - 1) + 1 .. n
      BY <2>1
    <3> QED BY <3>1, <2>3
  <2>8. P(k) = P(k - 1) \cup B
    <3>1. \A j \in 1 .. k : j = k \/ j \in 1 .. (k - 1)
      OBVIOUS
    <3>2. k \in 1 .. k /\ \A j \in 1 .. (k - 1) : j \in 1 .. k
      OBVIOUS
    <3> QED BY <3>1, <3>2
  <2>9. /\ PassOk(span, v, P(k - 1) \cup B)
        /\ v.cursor = a.cursor \/ v.cursor = b.end
        /\ v.done => a.done \/ b.start >= span.end \/ (v.cursor = b.end /\ b.end >= span.end)
    <3> DEFINE p == P(k - 1)
    <3>1. p \in SUBSET Int /\ PassOk(span, a, p)
      BY <2>2, <2>3
    <3> HIDE DEF p, a, v, b
    <3>2. /\ PassOk(span, v, p \cup B)
          /\ v.cursor = a.cursor \/ v.cursor = b.end
          /\ v.done => a.done \/ b.start >= span.end \/ (v.cursor = b.end /\ b.end >= span.end)
      BY <2>2, <2>4, <2>6, <2>7, <3>1, PassStep
    <3> QED BY <3>2 DEF p
  <2>10. At(k)
    <3>1. k \in 1 .. k /\ \A j \in 1 .. (k - 1) : j \in 1 .. k
      OBVIOUS
    <3> QED BY <2>3, <2>9, <3>1
  <2>11. Rest(k)
    <3>1. ASSUME v.done, NEW j \in k + 1 .. n PROVE obst[j].start >= span.end
      <4>1. j \in (k - 1) + 1 .. n /\ j \in 1 .. n /\ k < j
        BY <2>1
      <4>2. b.end < obst[j].start
        BY <4>1, <1>0 DEF Apart
      <4>3. b.start < b.end /\ b.start \in Int /\ b.end \in Int /\ obst[j].start \in Int
        BY <4>1, <1>p
      <4>4. a.done => obst[j].start >= span.end
        BY <4>1, <2>3
      <4> HIDE DEF a, v, b
      <4> QED BY <4>2, <4>3, <4>4, <3>1, <2>9, <1>s
    <3> QED BY <3>1
  <2>12. PassOk(span, m[k], P(k))
    BY <2>8, <2>9
  <2> QED BY <2>1, <2>10, <2>11, <2>12
<1>4. n \in G
  <2> HIDE DEF G
  <2>1. n \in 0 .. n
    BY <1>0
  <2> QED BY <2>1, <1>0, <1>2, <1>3, Climb
<1> DEFINE a == m[n]
           r == WhatRemains(span, obst)
           Q == P(n)
<1>5. PassOk(span, a, Q) /\ a \in PassState
  BY <1>0, <1>4
<1>6. r = IF a.cursor < span.end THEN Append(a.out, Span(a.cursor, span.end)) ELSE a.out
  BY <1>1 DEF WhatRemains, Untouched
<1>7. \A x \in Int : x \in Q <=> Covers(obst, x)
  BY <1>0 DEF Covers
<1> HIDE DEF a, r, Q
<1>a. a.out \in Seq(Pair) /\ a.cursor \in Int
  BY <1>5 DEF PassState
<1>i. /\ AllSpans(a.out) /\ Apart(a.out)
      /\ \A j \in DOMAIN a.out : /\ span.start <= a.out[j].start
                                 /\ a.out[j].end <= span.end /\ a.out[j].end < a.cursor
      /\ a.cursor >= span.start
      /\ \A x \in Int : Covers(a.out, x) <=> Has(span, x) /\ x < a.cursor /\ x \notin Q
      /\ \A x \in Q : Has(span, x) => x < a.cursor
  BY <1>5 DEF PassOk
<1>8. CASE a.cursor < span.end
  <2> DEFINE c == Span(a.cursor, span.end)
  <2>1. c.start = a.cursor /\ c.end = span.end /\ c \in Pair /\ IsSpan(c)
    BY <1>s, <1>a, <1>8 DEF Span, Pair, IsSpan
  <2>2. r = Append(a.out, c)
    BY <1>6, <1>8
  <2> HIDE DEF c
  <2>3. a.out # <<>> => a.out[Len(a.out)].end < c.start
    <3>1. ASSUME a.out # <<>> PROVE Len(a.out) \in DOMAIN a.out
      BY <3>1, <1>a
    <3> QED BY <3>1, <1>i, <2>1
  <2>4. /\ r \in Seq(Pair) /\ AllSpans(r) /\ Apart(r)
        /\ \A x \in Int : Covers(r, x) <=> Covers(a.out, x) \/ Has(c, x)
    BY <1>a, <1>i, <2>1, <2>2, <2>3, AppendApart
  <2>5. ASSUME NEW j \in DOMAIN r PROVE span.start <= r[j].start /\ r[j].end <= span.end
    <3>1. r[j] = c \/ (j \in DOMAIN a.out /\ r[j] = a.out[j])
      BY <1>a, <2>1, <2>2
    <3> QED BY <3>1, <2>1, <1>i, <1>s, <1>a
  <2>6. ASSUME NEW x \in Int PROVE Covers(r, x) <=> Has(span, x) /\ ~ Covers(obst, x)
    <3>1. Covers(r, x) <=> (Has(span, x) /\ x < a.cursor /\ x \notin Q) \/ (a.cursor <= x /\ x < span.end)
      BY <2>4, <2>1, <1>i DEF Has
    <3>2. x \in Q /\ Has(span, x) => x < a.cursor
      BY <1>i
    <3>3. x \in Q <=> Covers(obst, x)
      BY <1>7
    <3>4. Has(span, x) <=> span.start <= x /\ x < span.end
      BY DEF Has
    <3> QED BY <3>1, <3>2, <3>3, <3>4, <1>s, <1>a, <1>i
  <2> QED BY <2>4, <2>5, <2>6 DEF r
<1>9. CASE ~ (a.cursor < span.end)
  <2>1. r = a.out
    BY <1>6, <1>9
  <2>2. ASSUME NEW x \in Int PROVE Covers(r, x) <=> Has(span, x) /\ ~ Covers(obst, x)
    <3>1. Has(span, x) => x < a.cursor
      BY <1>9, <1>s, <1>a DEF Has
    <3> QED BY <3>1, <2>1, <1>i, <1>7
  <2> QED BY <2>1, <2>2, <1>a, <1>i DEF r
<1> QED BY <1>8, <1>9

LEMMA TraceExists ==
  ASSUME NEW n \in Nat, NEW Acc, NEW base \in Acc, NEW F \in FoldSteps(n, Acc)
  PROVE  \E m \in [0 .. n -> Acc] : Traces(m, n, base, F)
<1>1. PICK g \in [SUBSET (1 .. n) -> Acc] : Folds(g, n, base, F)
  BY FoldExists
<1>2. Runs(g, n, Acc, base, F)
  BY <1>1 DEF Folds, Runs
<1> QED BY <1>2, FoldTrace

(* Concatenating a list of lists keeps their elements and, where both the  *)
(* elements of each and those of any two lists are in the relation R, puts *)
(* the elements in that relation.                                          *)
InOrder(t, R) == \A i, j \in DOMAIN t : i < j => <<t[i], t[j]>> \in R

LEMMA ConcatInOrder ==
  ASSUME NEW t \in Seq(Pair), NEW u \in Seq(Pair), NEW R, InOrder(t, R), InOrder(u, R),
         \A i \in DOMAIN t, j \in DOMAIN u : <<t[i], u[j]>> \in R
  PROVE  /\ t \o u \in Seq(Pair) /\ InOrder(t \o u, R)
         /\ \A j \in DOMAIN (t \o u) : \/ \E i \in DOMAIN t : (t \o u)[j] = t[i]
                                       \/ \E i \in DOMAIN u : (t \o u)[j] = u[i]
         /\ \A i \in DOMAIN t : \E j \in DOMAIN (t \o u) : (t \o u)[j] = t[i]
         /\ \A i \in DOMAIN u : \E j \in DOMAIN (t \o u) : (t \o u)[j] = u[i]
<1> DEFINE v == t \o u
           a == Len(t)
           b == Len(u)
<1>1. /\ v \in Seq(Pair) /\ a \in Nat /\ b \in Nat
      /\ DOMAIN t = 1 .. a /\ DOMAIN u = 1 .. b /\ DOMAIN v = 1 .. (a + b)
      /\ \A i \in 1 .. a : v[i] = t[i]
      /\ \A i \in 1 .. b : v[a + i] = u[i]
  OBVIOUS
<1>2. \A j \in 1 .. (a + b) : j \in 1 .. a \/ (j - a \in 1 .. b /\ a + (j - a) = j)
  BY <1>1
<1> HIDE DEF v, a, b
<1>3. \A i \in 1 .. a : i \in 1 .. (a + b)
  BY <1>1
<1>4. \A i \in 1 .. b : a + i \in 1 .. (a + b)
  BY <1>1
<1>5. InOrder(v, R)
  <2>1. ASSUME NEW i \in 1 .. (a + b), NEW j \in 1 .. (a + b), i < j PROVE <<v[i], v[j]>> \in R
    <3>1. CASE j \in 1 .. a
      <4>1. i \in 1 .. a
        BY <3>1, <2>1, <1>1
      <4> QED BY <4>1, <3>1, <2>1, <1>1 DEF InOrder
    <3>2. CASE i \in 1 .. a /\ j \notin 1 .. a
      <4>1. j - a \in 1 .. b /\ a + (j - a) = j
        BY <3>2, <1>2
      <4>2. v[j] = u[j - a] /\ v[i] = t[i]
        BY <4>1, <3>2, <1>1
      <4> QED BY <4>1, <4>2, <3>2, <1>1
    <3>3. CASE i \notin 1 .. a /\ j \notin 1 .. a
      <4>1. i - a \in 1 .. b /\ j - a \in 1 .. b /\ v[i] = u[i - a] /\ v[j] = u[j - a] /\ i - a < j - a
        BY <3>3, <2>1, <1>1, <1>2
      <4> QED BY <4>1, <1>1 DEF InOrder
    <3> QED BY <3>1, <3>2, <3>3
  <2> QED BY <2>1, <1>1 DEF InOrder
<1>6. \A j \in DOMAIN v : (\E i \in DOMAIN t : v[j] = t[i]) \/ (\E i \in DOMAIN u : v[j] = u[i])
  BY <1>1, <1>2
<1>7. \A i \in DOMAIN t : \E j \in DOMAIN v : v[j] = t[i]
  BY <1>1, <1>3
<1>8. \A i \in DOMAIN u : \E j \in DOMAIN v : v[j] = u[i]
  BY <1>1, <1>4
<1> QED BY <1>1, <1>5, <1>6, <1>7, <1>8 DEF v

Concat(m, s) == /\ s # <<>> => m[1] = s[1]
                /\ \A k \in 2 .. Len(s) : m[k] = m[k - 1] \o s[k]

LEMMA FlattenIs ==
  ASSUME NEW s \in Seq(Seq(Pair)), s # <<>>
  PROVE  \E m : Concat(m, s) /\ FlattenSeq(s) = m[Len(s)]
<1> DEFINE n == Len(s)
           F == [p \in (1 .. n) \X Seq(Pair) |-> IF p[1] = 1 THEN s[1] ELSE p[2] \o s[p[1]]]
           none == <<>>
<1>0. n \in Nat /\ n # 0 /\ DOMAIN s = 1 .. n /\ \A i \in 1 .. n : s[i] \in Seq(Pair)
  OBVIOUS
<1>1. F \in FoldSteps(n, Seq(Pair)) /\ none \in Seq(Pair)
  <2>1. \A i \in 1 .. n, acc \in Seq(Pair) : (IF i = 1 THEN s[1] ELSE acc \o s[i]) \in Seq(Pair)
    BY <1>0
  <2> QED BY <2>1 DEF FoldSteps
<1>2. PICK g \in [0 .. n -> Seq(Pair)] : Traces(g, n, none, F)
  <2> HIDE DEF F, n, none
  <2> QED BY <1>0, <1>1, TraceExists
<1>F. ASSUME NEW i \in 1 .. n, NEW acc \in Seq(Pair) PROVE F[<<i, acc>>] = IF i = 1 THEN s[1] ELSE acc \o s[i]
  OBVIOUS
<1> HIDE DEF F
<1> DEFINE Eq(h) == h = [i \in 1 .. Len(s) |-> IF i = 1 THEN s[i] ELSE h[i - 1] \o s[i]]
           h == [i \in 1 .. n |-> g[i]]
           m == CHOOSE f : Eq(f)
<1>3. Eq(h)
  <2>1. ASSUME NEW i \in 1 .. n PROVE g[i] = IF i = 1 THEN s[i] ELSE h[i - 1] \o s[i]
    <3>1. g[i - 1] \in Seq(Pair)
      BY <1>2
    <3>2. g[i] = F[<<i, g[i - 1]>>]
      BY <1>2 DEF Traces
    <3>3. g[i] = IF i = 1 THEN s[1] ELSE g[i - 1] \o s[i]
      BY <3>1, <3>2, <1>F
    <3>4. i # 1 => h[i - 1] = g[i - 1]
      OBVIOUS
    <3> QED BY <3>3, <3>4
  <2> QED BY <2>1
<1>4. Eq(m)
  <2> HIDE DEF Eq, h
  <2> QED BY <1>3
<1>5. FlattenSeq(s) = m[Len(s)]
  BY <1>0 DEF FlattenSeq
<1>6. Concat(m, s)
  <2> HIDE DEF m
  <2>1. m = [i \in 1 .. Len(s) |-> IF i = 1 THEN s[i] ELSE m[i - 1] \o s[i]]
    BY <1>4
  <2>2. \A k \in 2 .. Len(s) : k \in 1 .. Len(s) /\ k # 1
    OBVIOUS
  <2>3. 1 \in 1 .. Len(s)
    BY <1>0
  <2> QED BY <2>1, <2>2, <2>3 DEF Concat
<1> QED BY <1>5, <1>6

LEMMA FlattenInOrder ==
  ASSUME NEW s \in Seq(Seq(Pair)), NEW R,
         \A i \in DOMAIN s : InOrder(s[i], R),
         \A i, j \in DOMAIN s : i < j =>
           \A a \in DOMAIN s[i], b \in DOMAIN s[j] : <<s[i][a], s[j][b]>> \in R
  PROVE  /\ FlattenSeq(s) \in Seq(Pair) /\ InOrder(FlattenSeq(s), R)
         /\ \A p \in DOMAIN FlattenSeq(s) :
              \E i \in DOMAIN s : \E a \in DOMAIN s[i] : FlattenSeq(s)[p] = s[i][a]
         /\ \A i \in DOMAIN s : \A a \in DOMAIN s[i] :
              \E p \in DOMAIN FlattenSeq(s) : FlattenSeq(s)[p] = s[i][a]
<1>1. CASE s = <<>>
  <2>1. FlattenSeq(s) = <<>>
    BY <1>1 DEF FlattenSeq
  <2> DEFINE r == FlattenSeq(s)
  <2>2. r \in Seq(Pair) /\ DOMAIN r = {} /\ DOMAIN s = {}
    <3>1. Len(s) = 0 /\ DOMAIN s = 1 .. Len(s)
      BY <1>1
    <3>2. r = <<>>
      BY <2>1
    <3> HIDE DEF r
    <3>3. r \in Seq(Pair) /\ Len(r) = 0
      BY <3>2
    <3>4. DOMAIN r = 1 .. Len(r)
      BY <3>3
    <3>5. 1 .. 0 = {}
      OBVIOUS
    <3> QED BY <3>1, <3>3, <3>4, <3>5
  <2> HIDE DEF r
  <2>3. InOrder(r, R)
    BY <2>2 DEF InOrder
  <2> QED BY <2>2, <2>3 DEF r
<1>2. CASE s # <<>>
  <2> DEFINE n == Len(s)
  <2>0. n \in Nat /\ n # 0 /\ DOMAIN s = 1 .. n /\ \A i \in 1 .. n : s[i] \in Seq(Pair)
    BY <1>2
  <2>1. PICK m : Concat(m, s) /\ FlattenSeq(s) = m[n]
    BY <1>2, FlattenIs
  <2> DEFINE From(k) == \A p \in DOMAIN m[k] : \E i \in 1 .. k : \E a \in DOMAIN s[i] : m[k][p] = s[i][a]
             All(k) == \A i \in 1 .. k : \A a \in DOMAIN s[i] : \E p \in DOMAIN m[k] : m[k][p] = s[i][a]
             G == {k \in 0 .. n : k = 0 \/ (m[k] \in Seq(Pair) /\ InOrder(m[k], R) /\ From(k) /\ All(k))}
  <2> HIDE DEF n
  <2>2. 0 \in G
    BY <2>0
  <2>3. ASSUME NEW k \in 1 .. n, k - 1 \in G PROVE k \in G
    <3>0. k \in 0 .. n /\ k - 1 \in 0 .. n
      BY <2>0
    <3>1. CASE k = 1
      <4>1. m[1] = s[1] /\ 1 \in 1 .. n
        BY <2>1, <2>0, <1>2 DEF Concat
      <4>2. \A i \in 1 .. 1 : i = 1
        OBVIOUS
      <4>3. m[1] \in Seq(Pair) /\ InOrder(m[1], R)
        BY <4>1, <2>0
      <4>4. From(1) /\ All(1)
        BY <4>1, <4>2
      <4> QED BY <3>0, <3>1, <4>3, <4>4
    <3>2. CASE k # 1
      <4> DEFINE t == m[k - 1]
                 u == s[k]
      <4>1. t \in Seq(Pair) /\ InOrder(t, R) /\ From(k - 1) /\ All(k - 1)
        <5>1. k - 1 # 0
          BY <3>2
        <5> QED BY <5>1, <2>3
      <4>2. m[k] = t \o u
        <5>1. k \in 2 .. Len(s)
          BY <3>2, <2>0 DEF n
        <5> QED BY <5>1, <2>1 DEF Concat
      <4>3. u \in Seq(Pair) /\ InOrder(u, R)
        BY <2>0
      <4>4. ASSUME NEW i \in DOMAIN t, NEW j \in DOMAIN u PROVE <<t[i], u[j]>> \in R
        <5>1. PICK h \in 1 .. (k - 1) : \E a \in DOMAIN s[h] : t[i] = s[h][a]
          BY <4>1
        <5>2. h \in DOMAIN s /\ k \in DOMAIN s /\ h < k
          BY <2>0
        <5> QED BY <5>1, <5>2
      <4> DEFINE v == m[k]
      <4> HIDE DEF t, u, v
      <4>5. /\ v \in Seq(Pair) /\ InOrder(v, R)
            /\ \A j \in DOMAIN v : \/ \E i \in DOMAIN t : v[j] = t[i]
                                   \/ \E i \in DOMAIN u : v[j] = u[i]
            /\ \A i \in DOMAIN t : \E j \in DOMAIN v : v[j] = t[i]
            /\ \A i \in DOMAIN u : \E j \in DOMAIN v : v[j] = u[i]
        <5>1. v = t \o u
          BY <4>2 DEF v
        <5>2. t \in Seq(Pair) /\ InOrder(t, R)
          BY <4>1
        <5> QED BY <5>1, <5>2, <4>3, <4>4, ConcatInOrder, ZenonT(40)
      <4>6. k \in 1 .. k /\ \A i \in 1 .. (k - 1) : i \in 1 .. k
        OBVIOUS
      <4>7. From(k)
        <5>1. ASSUME NEW p \in DOMAIN v PROVE \E i \in 1 .. k : \E a \in DOMAIN s[i] : v[p] = s[i][a]
          <6>1. CASE \E i \in DOMAIN t : v[p] = t[i]
            <7>1. PICK q \in DOMAIN t : v[p] = t[q]
              BY <6>1
            <7>2. PICK i \in 1 .. (k - 1) : \E a \in DOMAIN s[i] : t[q] = s[i][a]
              BY <4>1 DEF t
            <7> QED BY <7>1, <7>2, <4>6
          <6>2. CASE \E i \in DOMAIN u : v[p] = u[i]
            BY <6>2, <4>6 DEF u
          <6> QED BY <6>1, <6>2, <4>5
        <5> QED BY <5>1 DEF v
      <4>8. All(k)
        <5>1. ASSUME NEW i \in 1 .. k, NEW a \in DOMAIN s[i] PROVE \E p \in DOMAIN v : v[p] = s[i][a]
          <6>1. CASE i = k
            BY <6>1, <4>5 DEF u
          <6>2. CASE i # k
            <7>1. i \in 1 .. (k - 1)
              BY <6>2
            <7>2. PICK q \in DOMAIN t : t[q] = s[i][a]
              BY <7>1, <4>1 DEF t
            <7> QED BY <7>2, <4>5
          <6> QED BY <6>1, <6>2
        <5> QED BY <5>1 DEF v
      <4> QED BY <3>0, <4>5, <4>7, <4>8 DEF v
    <3> QED BY <3>1, <3>2
  <2>4. n \in G
    <3> HIDE DEF G
    <3>1. n \in 0 .. n
      BY <2>0
    <3> QED BY <3>1, <2>0, <2>2, <2>3, Climb
  <2>5. m[n] \in Seq(Pair) /\ InOrder(m[n], R) /\ From(n) /\ All(n)
    BY <2>4, <2>0
  <2> DEFINE r == m[n]
  <2>6. \A p \in DOMAIN r : \E i \in DOMAIN s : \E a \in DOMAIN s[i] : r[p] = s[i][a]
    BY <2>0, <2>5
  <2>7. \A i \in DOMAIN s : \A a \in DOMAIN s[i] : \E p \in DOMAIN r : r[p] = s[i][a]
    BY <2>0, <2>5
  <2>8. FlattenSeq(s) = r /\ r \in Seq(Pair) /\ InOrder(r, R)
    BY <2>1, <2>5
  <2> HIDE DEF r
  <2> QED BY <2>6, <2>7, <2>8
<1> QED BY <1>1, <1>2

AllInRange(t, span) == \A j \in DOMAIN t : span.start <= t[j].start /\ t[j].end <= span.end

LEMMA SubtractSpans ==
  ASSUME NEW base \in Seq(Pair), AllSpans(base), Apart(base),
         NEW blocks \in Seq(Pair), AllSpans(blocks)
  PROVE  LET r == Subtract(base, blocks)
         IN /\ r \in Seq(Pair) /\ AllSpans(r) /\ Apart(r)
            /\ \A x \in Int : Covers(r, x) <=> Covers(base, x) /\ ~ Covers(blocks, x)
<1> DEFINE obst == Normalize(blocks)
           r == Subtract(base, blocks)
<1>1. /\ obst \in Seq(Pair) /\ AllSpans(obst) /\ Apart(obst)
      /\ \A x \in Int : Covers(obst, x) <=> Covers(blocks, x)
  BY NormalizeSpans
<1>2. CASE obst = <<>>
  <2>1. r = base
    BY <1>2 DEF Subtract
  <2>2. \A x \in Int : ~ Covers(obst, x)
    BY <1>2 DEF Covers
  <2> QED BY <2>1, <2>2, <1>1
<1>3. CASE obst # <<>>
  <2> DEFINE s == [i \in DOMAIN base |-> WhatRemains(base[i], obst)]
             R == {p \in Pair \X Pair : p[1].end < p[2].start}
  <2>1. r = FlattenSeq(s)
    BY <1>3 DEF Subtract
  <2> HIDE DEF obst, r
  <2>2. ASSUME NEW i \in DOMAIN base
        PROVE  /\ s[i] \in Seq(Pair) /\ AllSpans(s[i]) /\ Apart(s[i]) /\ AllInRange(s[i], base[i])
               /\ \A x \in Int : Covers(s[i], x) <=> Has(base[i], x) /\ ~ Covers(obst, x)
    <3> DEFINE span == base[i]
               w == WhatRemains(span, obst)
    <3>1. span \in Pair /\ IsSpan(span)
      BY PairFields DEF AllSpans
    <3>2. s[i] = w
      OBVIOUS
    <3> HIDE DEF s
    <3>3. /\ w \in Seq(Pair) /\ AllSpans(w) /\ Apart(w) /\ AllInRange(w, span)
          /\ \A x \in Int : Covers(w, x) <=> Has(span, x) /\ ~ Covers(obst, x)
      <4> HIDE DEF span
      <4> QED BY <3>1, <1>1, Remains DEF AllInRange
    <3> HIDE DEF w
    <3> QED BY <3>2, <3>3
  <2>3. s \in Seq(Seq(Pair)) /\ DOMAIN s = DOMAIN base
    <3>1. DOMAIN base = 1 .. Len(base) /\ Len(base) \in Nat
      OBVIOUS
    <3> QED BY <3>1, <2>2
  <2> HIDE DEF s
  <2>f. \A i \in DOMAIN s : base[i].start \in Int /\ base[i].end \in Int
    BY <2>3, PairFields
  <2>g. ASSUME NEW i \in DOMAIN s, NEW a \in DOMAIN s[i]
        PROVE  s[i][a] \in Pair /\ s[i][a].start \in Int /\ s[i][a].end \in Int
    BY <2>2, <2>3, PairFields
  <2>4. ASSUME NEW i \in DOMAIN s PROVE InOrder(s[i], R)
    <3>1. ASSUME NEW a \in DOMAIN s[i], NEW b \in DOMAIN s[i], a < b PROVE <<s[i][a], s[i][b]>> \in R
      <4>1. s[i][a].end < s[i][b].start
        BY <3>1, <2>2, <2>3 DEF Apart
      <4> QED BY <4>1, <2>g
    <3> HIDE DEF R
    <3> QED BY <3>1 DEF InOrder
  <2>5. ASSUME NEW i \in DOMAIN s, NEW j \in DOMAIN s, i < j
        PROVE  \A a \in DOMAIN s[i], b \in DOMAIN s[j] : <<s[i][a], s[j][b]>> \in R
    <3>1. ASSUME NEW a \in DOMAIN s[i], NEW b \in DOMAIN s[j] PROVE <<s[i][a], s[j][b]>> \in R
      <4>1. s[i][a].end <= base[i].end /\ base[j].start <= s[j][b].start
        BY <2>2, <2>3 DEF AllInRange
      <4>2. base[i].end < base[j].start
        BY <2>3, <2>5 DEF Apart
      <4>3. s[i][a].end < s[j][b].start
        BY <4>1, <4>2, <2>f, <2>g
      <4> QED BY <4>3, <2>g
    <3> QED BY <3>1
  <2>6. /\ r \in Seq(Pair) /\ InOrder(r, R)
        /\ \A p \in DOMAIN r : \E i \in DOMAIN s : \E a \in DOMAIN s[i] : r[p] = s[i][a]
        /\ \A i \in DOMAIN s : \A a \in DOMAIN s[i] : \E p \in DOMAIN r : r[p] = s[i][a]
    <3> HIDE DEF R
    <3> QED BY <2>1, <2>3, <2>4, <2>5, FlattenInOrder, ZenonT(40)
  <2>7. Apart(r)
    BY <2>6 DEF Apart, InOrder
  <2>8. AllSpans(r)
    BY <2>2, <2>3, <2>6 DEF AllSpans
  <2>9. ASSUME NEW x \in Int PROVE Covers(r, x) <=> Covers(base, x) /\ ~ Covers(blocks, x)
    <3>1. Covers(r, x) <=> \E i \in DOMAIN s : Covers(s[i], x)
      BY <2>6 DEF Covers
    <3>2. (\E i \in DOMAIN s : Covers(s[i], x)) <=> (\E i \in DOMAIN base : Has(base[i], x) /\ ~ Covers(obst, x))
      BY <2>2, <2>3
    <3>3. Covers(obst, x) <=> Covers(blocks, x)
      BY <1>1
    <3> QED BY <3>1, <3>2, <3>3 DEF Covers
  <2> QED BY <2>6, <2>7, <2>8, <2>9 DEF r
<1> QED BY <1>2, <1>3

-----------------------------------------------------------------------------
(* The grid *)

Multiple(c, s) == \E q \in Int : c = s * q
Rem(a, s) == a % s

LEMMA DivMod ==
  ASSUME NEW a \in Int, NEW s \in Nat \ {0}
  PROVE  Rem(a, s) \in 0 .. (s - 1) /\ Multiple(a - Rem(a, s), s)
<1> DEFINE q == a \div s
           r == Rem(a, s)
<1>1. q \in Int /\ r \in 0 .. (s - 1)
  BY DEF Rem
<1>2. r = a - s * q
  BY DEF Rem
<1> HIDE DEF q, r
<1>3. a - r = s * q
  BY <1>1, <1>2
<1>4. Multiple(a - r, s)
  BY <1>1, <1>3 DEF Multiple
<1> QED BY <1>1, <1>4 DEF r

LEMMA NoMultiple ==
  ASSUME NEW s \in Nat \ {0}, NEW k \in Int, s * k < s, s * k > - s
  PROVE  k = 0
<1>1. k >= 1 => s * k >= s
  OBVIOUS
<1>2. k <= -1 => s * k <= - s
  OBVIOUS
<1> QED BY <1>1, <1>2

LEMMA ModUnique ==
  ASSUME NEW a \in Int, NEW s \in Nat \ {0}, NEW q \in Int, NEW r \in 0 .. (s - 1), a = s * q + r
  PROVE  Rem(a, s) = r
<1> DEFINE t == Rem(a, s)
<1>1. t \in 0 .. (s - 1) /\ Multiple(a - t, s)
  BY DivMod
<1> HIDE DEF t
<1>2. PICK p \in Int : a - t = s * p
  BY <1>1 DEF Multiple
<1>3. s * (q - p) = t - r
  <2>1. s * (q - p) = s * q - s * p /\ s * q \in Int /\ s * p \in Int
    OBVIOUS
  <2> QED BY <2>1, <1>1, <1>2
<1>4. t - r < s /\ t - r > - s /\ q - p \in Int
  BY <1>1
<1> DEFINE k == q - p
<1>5. k \in Int /\ s * k < s /\ s * k > - s
  BY <1>3, <1>4
<1>6. k = 0
  <2> HIDE DEF k
  <2> QED BY <1>5, NoMultiple
<1>7. q = p
  BY <1>6
<1>8. t = r
  <2>1. s * q = s * p /\ s * q \in Int
    BY <1>7
  <2> QED BY <2>1, <1>1, <1>2
<1> QED BY <1>8 DEF t

Grid(f, moment, step, anchor) ==
  /\ f \in Int /\ f >= moment
  /\ \A k \in Nat : Rem(f + k * step - anchor, step) = 0
  /\ \A t \in Int : t >= moment /\ Rem(t - anchor, step) = 0 => \E k \in Nat : t = f + k * step

(* align_up: the first instant of the grid not before the moment, and the  *)
(* instants of the grid from there on are a whole number of steps away.    *)
LEMMA Aligned ==
  ASSUME NEW moment \in Int, NEW step \in Nat \ {0}, NEW anchor \in Int
  PROVE  Grid(AlignUp(moment, step, anchor), moment, step, anchor)
<1> DEFINE f == AlignUp(moment, step, anchor)
           d == moment - anchor
           o == Rem(d, step)
<1>1. f = IF o = 0 THEN moment ELSE moment + (step - o)
  BY DEF AlignUp, Rem
<1>2. PICK q \in Int : d - o = step * q
  <2>1. d \in Int
    OBVIOUS
  <2> HIDE DEF d
  <2> QED BY <2>1, DivMod DEF Multiple
<1>3. o \in 0 .. (step - 1)
  <2>1. d \in Int
    OBVIOUS
  <2> HIDE DEF d
  <2> QED BY <2>1, DivMod
<1>4. \E p \in Int : f - anchor = step * p /\ f >= moment /\ f < moment + step /\ f \in Int
  <2> HIDE DEF o
  <2>1. CASE o = 0
    <3>1. f = moment
      BY <1>1, <2>1
    <3> HIDE DEF f
    <3> QED BY <3>1, <1>2, <2>1
  <2>2. CASE o # 0
    <3>1. f = moment + (step - o)
      BY <1>1, <2>2
    <3> HIDE DEF f
    <3>2. step * (q + 1) = step * q + step
      OBVIOUS
    <3>3. f - anchor = step * (q + 1) /\ q + 1 \in Int
      BY <3>1, <3>2, <1>2, <1>3
    <3>4. f >= moment /\ f < moment + step /\ f \in Int
      BY <3>1, <2>2, <1>3
    <3> QED BY <3>3, <3>4
  <2> QED BY <2>1, <2>2
<1>5. PICK p \in Int : f - anchor = step * p /\ f >= moment /\ f < moment + step /\ f \in Int
  BY <1>4
<1> HIDE DEF f
<1>6. ASSUME NEW k \in Nat PROVE Rem(f + k * step - anchor, step) = 0
  <2> DEFINE a == f + k * step - anchor
  <2>1. k * step \in Int /\ step * p \in Int
    OBVIOUS
  <2>2. a = step * p + k * step
    BY <1>5, <2>1
  <2>3. step * (p + k) = step * p + k * step
    OBVIOUS
  <2>4. a = step * (p + k) + 0 /\ a \in Int /\ p + k \in Int /\ 0 \in 0 .. (step - 1)
    BY <2>2, <2>3, <2>1
  <2> HIDE DEF a
  <2>5. Rem(a, step) = 0
    BY <2>4, ModUnique
  <2> QED BY <2>5 DEF a
<1>7. ASSUME NEW t \in Int, t >= moment, Rem(t - anchor, step) = 0 PROVE \E k \in Nat : t = f + k * step
  <2>1. t - anchor \in Int
    OBVIOUS
  <2> DEFINE e == t - anchor
  <2>2. PICK h \in Int : e - Rem(e, step) = step * h
    <3> HIDE DEF e
    <3> QED BY <2>1, DivMod DEF Multiple, e
  <2>z. Rem(e, step) = 0
    BY <1>7
  <2>3. t - anchor = step * h
    <3>1. e \in Int
      OBVIOUS
    <3>2. e = step * h
      <4> HIDE DEF e
      <4> QED BY <3>1, <2>2, <2>z
    <3> QED BY <3>2
  <2> DEFINE k == h - p
  <2>4. k \in Int /\ step * k = step * h - step * p
    OBVIOUS
  <2>5. step * h \in Int /\ step * p \in Int
    OBVIOUS
  <2>6. step * k = t - f
    BY <2>3, <2>4, <2>5, <1>5
  <2>7. step * k > - step
    BY <2>6, <1>5, <1>7
  <2> HIDE DEF k
  <2>8. k >= 0
    <3>1. k <= -1 => step * k <= - step
      BY <2>4
    <3> QED BY <3>1, <2>7, <2>4
  <2>9. t = f + k * step
    <3>1. k * step = step * k /\ step * k \in Int
      BY <2>4
    <3> QED BY <3>1, <2>6, <1>5
  <2> QED BY <2>4, <2>8, <2>9
<1> QED BY <1>5, <1>6, <1>7 DEF f, Grid

(* The whole numbers below n, if a finite set holds all below each of its. *)
LEMMA InitialPart ==
  ASSUME NEW n \in Int, NEW T \in SUBSET (0 .. n), \A k \in T, j \in Nat : j < k => j \in T
  PROVE  Cardinality(T) \in Nat /\ T = 0 .. (Cardinality(T) - 1)
<1>1. CASE T = {}
  <2>1. Cardinality(T) = 0 /\ 0 .. (0 - 1) = {}
    BY <1>1, FS_EmptySet
  <2> QED BY <2>1, <1>1
<1>2. CASE T # {}
  <2> DEFINE D == {n - k : k \in T}
  <2>1. \A k \in T : n - k \in Nat
    OBVIOUS
  <2>2. D \in SUBSET Nat /\ D # {}
    BY <1>2, <2>1
  <2>3. PICK d \in D : \A e \in D : d <= e
    <3> HIDE DEF D
    <3> QED BY <2>2, FirstOf
  <2>4. PICK x \in T : d = n - x
    BY <2>3
  <2>5. \A k \in T : k <= x
    <3>1. ASSUME NEW k \in T PROVE k <= x
      <4>1. d <= n - k
        BY <2>3
      <4> QED BY <4>1, <2>4
    <3> QED BY <3>1
  <2>6. T = 0 .. x /\ x \in Nat
    <3>1. \A j \in 0 .. x : j = x \/ j < x
      OBVIOUS
    <3>2. \A j \in 0 .. x : j \in T
      BY <3>1
    <3>3. \A j \in T : j \in 0 .. x
      BY <2>5
    <3> QED
      <4>1. x \in Nat
        OBVIOUS
      <4>2. \A j : j \in T <=> j \in 0 .. x
        BY <3>2, <3>3
      <4> QED BY <4>1, <4>2
  <2>7. Cardinality(0 .. x) = x - 0 + 1
    BY <2>6, FS_Interval
  <2> QED BY <2>6, <2>7
<1> QED BY <1>1, <1>2

StartsAmong(t, x) == \E j \in DOMAIN t : t[j].start = x

(* slots_in, one free span: every instant of the grid at which the service *)
(* fits into the span and that is not too soon, in order.                  *)
LEMMA SlotsOfSpan ==
  ASSUME NEW span \in Pair, NEW duration \in Nat \ {0}, NEW step \in Nat \ {0},
         NEW notBefore \in Int, NEW anchor \in Int
  PROVE  LET r == SlotsInSpan(span, duration, step, notBefore, anchor)
         IN /\ r \in Seq(Pair)
            /\ \A i, j \in DOMAIN r : i < j => r[i].start < r[j].start
            /\ \A i \in DOMAIN r : /\ r[i].end = r[i].start + duration
                                   /\ span.start <= r[i].start /\ r[i].end <= span.end
            /\ \A x \in Int : StartsAmong(r, x) <=>
                 /\ Rem(x - anchor, step) = 0 /\ x >= notBefore
                 /\ span.start <= x /\ x + duration <= span.end
<1> DEFINE r == SlotsInSpan(span, duration, step, notBefore, anchor)
           moment == Greatest(span.start, notBefore)
           f == AlignUp(moment, step, anchor)
           T == Fitting(span, f, duration, step)
           c == Cardinality(T)
<1>s. span.start \in Int /\ span.end \in Int
  BY DEF Pair
<1>m. moment \in Int /\ \A x \in Int : x >= moment <=> x >= span.start /\ x >= notBefore
  BY <1>s DEF Greatest
<1> HIDE DEF moment
<1>f. /\ f \in Int /\ f >= moment
      /\ \A k \in Nat : Rem(f + k * step - anchor, step) = 0
      /\ \A t \in Int : t >= moment /\ Rem(t - anchor, step) = 0 => \E k \in Nat : t = f + k * step
  <2>1. Grid(f, moment, step, anchor)
    BY <1>m, Aligned
  <2> HIDE DEF f
  <2> QED BY <2>1 DEF Grid
<1>r. r = [n \in 1 .. c |-> Span(f + (n - 1) * step, f + (n - 1) * step + duration)]
  BY DEF SlotsInSpan, moment
<1> HIDE DEF f, r
<1>k. \A k \in Nat : k * step \in Nat /\ k * step >= k
  OBVIOUS
<1>1. \A k \in Nat : k \in T <=> f + k * step + duration <= span.end
  <2>1. ASSUME NEW k \in Nat, f + k * step + duration <= span.end PROVE k \in 0 .. (span.end - span.start)
    <3>1. k * step \in Nat /\ k * step >= k
      BY <1>k
    <3>2. f >= span.start
      BY <1>f, <1>m
    <3> DEFINE ks == k * step
    <3> HIDE DEF ks
    <3> QED BY <2>1, <3>1, <3>2, <1>f, <1>s DEF ks
  <2> QED BY <2>1 DEF Fitting
<1>2. T \in SUBSET (0 .. (span.end - span.start)) /\ span.end - span.start \in Int
  BY <1>s DEF Fitting
<1>3. ASSUME NEW k \in T, NEW j \in Nat, j < k PROVE j \in T
  <2>1. k \in Nat
    BY <1>2
  <2>2. j * step <= k * step /\ j * step \in Nat /\ k * step \in Nat
    BY <2>1, <1>3
  <2>3. f + k * step + duration <= span.end
    BY <2>1, <1>1
  <2> DEFINE ks == k * step
             js == j * step
  <2>4. f + js + duration <= span.end
    <3> HIDE DEF ks, js
    <3> QED BY <2>2, <2>3, <1>f, <1>s DEF ks, js
  <2> QED BY <2>4, <1>1
<1> HIDE DEF T
<1>4. c \in Nat /\ T = 0 .. (c - 1)
  BY <1>2, <1>3, InitialPart
<1> HIDE DEF c
<1>5. ASSUME NEW n \in 1 .. c
      PROVE  /\ n - 1 \in Nat /\ f + (n - 1) * step \in Int /\ r[n] \in Pair
             /\ r[n].start = f + (n - 1) * step /\ r[n].end = f + (n - 1) * step + duration
             /\ r[n].start \in Int /\ f + (n - 1) * step + duration <= span.end
             /\ r[n].start >= f
  <2> DEFINE a == (n - 1) * step
  <2>1. n - 1 \in Nat /\ a \in Nat
    BY <1>4
  <2>2. n - 1 \in T
    BY <1>4
  <2>3. f + a + duration <= span.end
    BY <2>1, <2>2, <1>1
  <2>4. r[n] = Span(f + a, f + a + duration)
    BY <1>r
  <2> HIDE DEF a
  <2>5. f + a \in Int /\ f + a + duration \in Int /\ f + a >= f
    BY <2>1, <1>f
  <2>6. r[n] \in Pair /\ r[n].start = f + a /\ r[n].end = f + a + duration
    BY <2>4, <2>5 DEF Span, Pair
  <2> QED BY <2>1, <2>3, <2>5, <2>6 DEF a
<1>6. r \in Seq(Pair) /\ DOMAIN r = 1 .. c
  <2>1. DOMAIN r = 1 .. c /\ r = [n \in 1 .. c |-> r[n]]
    BY <1>r
  <2>2. \A n \in 1 .. c : r[n] \in Pair
    BY <1>5
  <2>3. r \in [1 .. c -> Pair]
    BY <2>1, <2>2
  <2> QED BY <2>1, <2>3, <1>4
<1>7. ASSUME NEW i \in 1 .. c, NEW j \in 1 .. c, i < j PROVE r[i].start < r[j].start
  <2>1. (i - 1) * step < (j - 1) * step
    <3> DEFINE a == i - 1
               b == j - 1
    <3>1. a \in Int /\ b \in Int /\ b - a >= 1
      BY <1>7, <1>4
    <3> HIDE DEF a, b
    <3>2. (b - a) * step >= step /\ (b - a) * step = b * step - a * step /\ b * step \in Int /\ a * step \in Int
      BY <3>1
    <3> QED BY <3>2 DEF a, b
  <2> DEFINE u == (i - 1) * step
             v == (j - 1) * step
  <2>2. u < v /\ u \in Int /\ v \in Int
    BY <2>1, <1>4
  <2>3. r[i].start = f + u /\ r[j].start = f + v
    BY <1>5
  <2> HIDE DEF u, v
  <2> QED BY <2>2, <2>3, <1>f
<1>8. ASSUME NEW i \in 1 .. c
      PROVE  /\ r[i].end = r[i].start + duration
             /\ span.start <= r[i].start /\ r[i].end <= span.end
  <2>1. span.start <= f
    BY <1>f, <1>m
  <2> DEFINE a == f + (i - 1) * step
  <2>2. a \in Int /\ r[i].start = a /\ r[i].end = a + duration /\ a >= f /\ a + duration <= span.end
    BY <1>5
  <2> HIDE DEF a
  <2> QED BY <2>1, <2>2, <1>f, <1>s
<1>9. ASSUME NEW x \in Int
      PROVE  StartsAmong(r, x) <=> /\ Rem(x - anchor, step) = 0 /\ x >= notBefore
                                   /\ span.start <= x /\ x + duration <= span.end
  <2>1. ASSUME NEW n \in 1 .. c, r[n].start = x
        PROVE  /\ Rem(x - anchor, step) = 0 /\ x >= notBefore
               /\ span.start <= x /\ x + duration <= span.end
    <3>1. x = f + (n - 1) * step /\ n - 1 \in Nat
      BY <2>1, <1>5
    <3>2. Rem(x - anchor, step) = 0
      <4> DEFINE k == n - 1
      <4>1. k \in Nat /\ x = f + k * step
        BY <3>1
      <4> HIDE DEF k
      <4> DEFINE y == f + k * step
      <4>2. Rem(y - anchor, step) = 0 /\ x = y
        BY <4>1, <1>f
      <4> HIDE DEF y
      <4> QED BY <4>2
    <3>3. x >= f /\ x + duration <= span.end
      BY <2>1, <1>5, <1>8
    <3>4. x >= moment
      BY <3>3, <1>f, <1>m
    <3> QED BY <3>2, <3>3, <3>4, <1>m, <1>s
  <2>2. ASSUME Rem(x - anchor, step) = 0, x >= notBefore, span.start <= x, x + duration <= span.end
        PROVE  \E n \in 1 .. c : r[n].start = x
    <3>1. x >= moment
      BY <2>2, <1>m, <1>s
    <3>2. PICK k \in Nat : x = f + k * step
      BY <3>1, <2>2, <1>f
    <3>3. k \in T
      BY <3>2, <2>2, <1>1
    <3>4. k + 1 \in 1 .. c /\ (k + 1) - 1 = k
      BY <3>3, <1>4
    <3>5. r[k + 1].start = x
      BY <3>2, <3>4, <1>5
    <3> QED BY <3>4, <3>5
  <2> QED BY <2>1, <2>2, <1>6 DEF StartsAmong
<1> QED BY <1>6, <1>7, <1>8, <1>9 DEF r

(* Of spans apart, one alone covers every instant of an unbroken stretch.  *)
LEMMA FitsInOne ==
  ASSUME NEW t \in Seq(Pair), AllSpans(t), Apart(t), NEW x \in Int, NEW d \in Nat \ {0}
  PROVE  (\E i \in DOMAIN t : t[i].start <= x /\ x + d <= t[i].end)
           <=> \A y \in x .. (x + d - 1) : Covers(t, y)
<1>p. \A i \in DOMAIN t : t[i].start \in Int /\ t[i].end \in Int /\ t[i].start < t[i].end
  BY PairFields DEF AllSpans, IsSpan
<1>1. ASSUME NEW i \in DOMAIN t, t[i].start <= x, x + d <= t[i].end,
             NEW y \in x .. (x + d - 1)
      PROVE  Covers(t, y)
  <2>1. Has(t[i], y)
    BY <1>1, <1>p DEF Has
  <2> QED BY <2>1 DEF Covers
<1>2. ASSUME \A y \in x .. (x + d - 1) : Covers(t, y)
      PROVE  \E i \in DOMAIN t : t[i].start <= x /\ x + d <= t[i].end
  <2>1. PICK i \in DOMAIN t : Has(t[i], x)
    <3>1. x \in x .. (x + d - 1)
      OBVIOUS
    <3> QED BY <3>1, <1>2 DEF Covers
  <2> DEFINE G == {k \in 0 .. (d - 1) : x + k < t[i].end}
  <2>2. 0 \in G
    BY <2>1, <1>p DEF Has
  <2>3. ASSUME NEW k \in 1 .. (d - 1), k - 1 \in G PROVE k \in G
    <3>1. x + k \in x .. (x + d - 1) /\ k \in 0 .. (d - 1)
      OBVIOUS
    <3>2. PICK j \in DOMAIN t : Has(t[j], x + k)
      BY <3>1, <1>2 DEF Covers
    <3>3. x + (k - 1) < t[i].end /\ t[i].start <= x
      BY <2>1, <2>3 DEF Has
    <3>4. t[j].start <= x + k /\ x + k < t[j].end
      BY <3>2 DEF Has
    <3>5. i \in Int /\ j \in Int
      OBVIOUS
    <3>6. CASE i = j
      BY <3>6, <3>1, <3>4
    <3>7. CASE i < j
      <4>1. t[i].end < t[j].start
        BY <3>7 DEF Apart
      <4> QED BY <4>1, <3>1, <3>3, <3>4, <1>p
    <3>8. CASE j < i
      <4>1. t[j].end < t[i].start
        BY <3>8 DEF Apart
      <4> QED BY <4>1, <3>3, <3>4, <1>p
    <3> QED BY <3>5, <3>6, <3>7, <3>8
  <2>4. d - 1 \in Nat /\ d - 1 \in 0 .. (d - 1)
    OBVIOUS
  <2>5. d - 1 \in G
    <3> HIDE DEF G
    <3> QED BY <2>2, <2>3, <2>4, Climb
  <2>6. t[i].start <= x /\ x + d <= t[i].end
    BY <2>5, <2>1, <1>p DEF Has
  <2> QED BY <2>6
<1> QED BY <1>1, <1>2

(* slots_in over the free spans of a day.                                  *)
LEMMA SlotsOfFree ==
  ASSUME NEW free \in Seq(Pair), AllSpans(free), Apart(free),
         NEW duration \in Nat \ {0}, NEW step \in Nat \ {0},
         NEW notBefore \in Int, NEW anchor \in Int
  PROVE  LET r == SlotsIn(free, duration, step, notBefore, anchor)
         IN /\ r \in Seq(Pair)
            /\ \A i, j \in DOMAIN r : i < j => r[i].start < r[j].start
            /\ \A i \in DOMAIN r : r[i].end = r[i].start + duration
            /\ \A x \in Int : StartsAmong(r, x) <=>
                 /\ Rem(x - anchor, step) = 0 /\ x >= notBefore
                 /\ \A y \in x .. (x + duration - 1) : Covers(free, y)
<1> DEFINE r == SlotsIn(free, duration, step, notBefore, anchor)
           s == [i \in DOMAIN free |-> SlotsInSpan(free[i], duration, step, notBefore, anchor)]
           R == {p \in Pair \X Pair : p[1].start < p[2].start}
           On(x) == Rem(x - anchor, step) = 0 /\ x >= notBefore
<1>p. \A i \in DOMAIN free : free[i] \in Pair /\ free[i].start \in Int /\ free[i].end \in Int
  BY PairFields
<1>1. r = FlattenSeq(s)
  BY DEF SlotsIn
<1> HIDE DEF r
<1>2. ASSUME NEW i \in DOMAIN free
      PROVE  /\ s[i] \in Seq(Pair)
             /\ \A a, b \in DOMAIN s[i] : a < b => s[i][a].start < s[i][b].start
             /\ \A a \in DOMAIN s[i] : /\ s[i][a].end = s[i][a].start + duration
                                       /\ free[i].start <= s[i][a].start /\ s[i][a].end <= free[i].end
             /\ \A x \in Int : StartsAmong(s[i], x) <=>
                   On(x) /\ free[i].start <= x /\ x + duration <= free[i].end
  <2> DEFINE span == free[i]
             w == SlotsInSpan(span, duration, step, notBefore, anchor)
  <2>1. s[i] = w /\ span \in Pair
    BY <1>p
  <2> HIDE DEF s, span
  <2>2. /\ w \in Seq(Pair)
        /\ \A a, b \in DOMAIN w : a < b => w[a].start < w[b].start
        /\ \A a \in DOMAIN w : /\ w[a].end = w[a].start + duration
                               /\ span.start <= w[a].start /\ w[a].end <= span.end
        /\ \A x \in Int : StartsAmong(w, x) <=>
             /\ Rem(x - anchor, step) = 0 /\ x >= notBefore
             /\ span.start <= x /\ x + duration <= span.end
    BY <2>1, SlotsOfSpan
  <2> HIDE DEF w
  <2> QED BY <2>1, <2>2 DEF span
<1>3. s \in Seq(Seq(Pair)) /\ DOMAIN s = DOMAIN free
  <2>1. DOMAIN free = 1 .. Len(free) /\ Len(free) \in Nat
    OBVIOUS
  <2> QED BY <2>1, <1>2
<1> HIDE DEF s
<1>g. ASSUME NEW i \in DOMAIN s, NEW a \in DOMAIN s[i]
      PROVE  s[i][a] \in Pair /\ s[i][a].start \in Int /\ s[i][a].end \in Int
  BY <1>2, <1>3, PairFields
<1>4. ASSUME NEW i \in DOMAIN s PROVE InOrder(s[i], R)
  <2>1. ASSUME NEW a \in DOMAIN s[i], NEW b \in DOMAIN s[i], a < b PROVE <<s[i][a], s[i][b]>> \in R
    <3>1. s[i][a].start < s[i][b].start
      BY <2>1, <1>2, <1>3
    <3> QED BY <3>1, <1>g
  <2> HIDE DEF R
  <2> QED BY <2>1 DEF InOrder
<1>5. ASSUME NEW i \in DOMAIN s, NEW j \in DOMAIN s, i < j
      PROVE  \A a \in DOMAIN s[i], b \in DOMAIN s[j] : <<s[i][a], s[j][b]>> \in R
  <2>1. ASSUME NEW a \in DOMAIN s[i], NEW b \in DOMAIN s[j] PROVE <<s[i][a], s[j][b]>> \in R
    <3>1. s[i][a].end = s[i][a].start + duration /\ s[i][a].end <= free[i].end /\ free[j].start <= s[j][b].start
      BY <1>2, <1>3
    <3>2. free[i].end < free[j].start
      BY <1>3, <1>5 DEF Apart
    <3>3. s[i][a].start < s[j][b].start
      BY <3>1, <3>2, <1>p, <1>3, <1>g
    <3> QED BY <3>3, <1>g
  <2> QED BY <2>1
<1>6. /\ r \in Seq(Pair) /\ InOrder(r, R)
      /\ \A p \in DOMAIN r : \E i \in DOMAIN s : \E a \in DOMAIN s[i] : r[p] = s[i][a]
      /\ \A i \in DOMAIN s : \A a \in DOMAIN s[i] : \E p \in DOMAIN r : r[p] = s[i][a]
  <2>1. \A i \in DOMAIN s : InOrder(s[i], R)
    BY <1>4
  <2>2. \A i, j \in DOMAIN s : i < j =>
          \A a \in DOMAIN s[i], b \in DOMAIN s[j] : <<s[i][a], s[j][b]>> \in R
    BY <1>5
  <2>3. s \in Seq(Seq(Pair))
    BY <1>3
  <2> HIDE DEF R
  <2>4. /\ FlattenSeq(s) \in Seq(Pair) /\ InOrder(FlattenSeq(s), R)
        /\ \A p \in DOMAIN FlattenSeq(s) :
             \E i \in DOMAIN s : \E a \in DOMAIN s[i] : FlattenSeq(s)[p] = s[i][a]
        /\ \A i \in DOMAIN s : \A a \in DOMAIN s[i] :
             \E p \in DOMAIN FlattenSeq(s) : FlattenSeq(s)[p] = s[i][a]
    BY <2>1, <2>2, <2>3, FlattenInOrder
  <2> QED BY <1>1, <2>4
<1>7. \A i, j \in DOMAIN r : i < j => r[i].start < r[j].start
  BY <1>6 DEF InOrder
<1>8. \A p \in DOMAIN r : r[p].end = r[p].start + duration
  BY <1>2, <1>3, <1>6
<1>9. ASSUME NEW x \in Int
      PROVE  StartsAmong(r, x) <=> On(x) /\ \A y \in x .. (x + duration - 1) : Covers(free, y)
  <2>1. StartsAmong(r, x) <=> \E i \in DOMAIN s : StartsAmong(s[i], x)
    BY <1>6 DEF StartsAmong
  <2> HIDE DEF On
  <2>2. (\E i \in DOMAIN s : StartsAmong(s[i], x))
          <=> On(x) /\ \E i \in DOMAIN free : free[i].start <= x /\ x + duration <= free[i].end
    BY <1>2, <1>3
  <2>3. (\E i \in DOMAIN free : free[i].start <= x /\ x + duration <= free[i].end)
          <=> \A y \in x .. (x + duration - 1) : Covers(free, y)
    BY FitsInOne
  <2> QED BY <2>1, <2>2, <2>3
<1> QED BY <1>6, <1>7, <1>8, <1>9 DEF r

(* What an availability answer offers, in terms of the instants its inputs *)
(* cover: every instant of the grid from which the service fits into what  *)
(* the shifts cover of the day and no appointment and no break does.       *)
LEMMA SlotsOfDay ==
  ASSUME NEW rows \in Seq(Pair), NEW taken \in Seq(Pair), NEW window \in Pair,
         NEW duration \in Nat \ {0}, NEW step \in Nat \ {0}, NEW notBefore \in Int
  PROVE  LET r == ComputeFreeSlots(Clip(rows, window), Clip(taken, window),
                                   duration, step, notBefore, window.start)
         IN /\ r \in Seq(Pair)
            /\ \A i, j \in DOMAIN r : i < j => r[i].start < r[j].start
            /\ \A i \in DOMAIN r : r[i].end = r[i].start + duration
            /\ \A x \in Int : StartsAmong(r, x) <=>
                 /\ Rem(x - window.start, step) = 0 /\ x >= notBefore
                 /\ \A y \in x .. (x + duration - 1) :
                      Has(window, y) /\ Covers(rows, y) /\ ~ Covers(taken, y)
<1> DEFINE work == Clip(rows, window)
           block == Clip(taken, window)
           merged == Normalize(work)
           free == Subtract(merged, block)
           r == ComputeFreeSlots(work, block, duration, step, notBefore, window.start)
<1>0. window.start \in Int
  BY DEF Pair
<1>1. /\ work \in Seq(Pair) /\ AllSpans(work)
      /\ \A x \in Int : Covers(work, x) <=> Covers(rows, x) /\ Has(window, x)
  BY ClipSpans
<1>2. /\ block \in Seq(Pair) /\ AllSpans(block)
      /\ \A x \in Int : Covers(block, x) <=> Covers(taken, x) /\ Has(window, x)
  BY ClipSpans
<1>r. r = SlotsIn(free, duration, step, notBefore, window.start)
  BY DEF ComputeFreeSlots
<1> HIDE DEF work, block, r
<1>3. /\ merged \in Seq(Pair) /\ AllSpans(merged) /\ Apart(merged)
      /\ \A x \in Int : Covers(merged, x) <=> Covers(work, x)
  BY <1>1, NormalizeSpans
<1> HIDE DEF merged
<1>4. /\ free \in Seq(Pair) /\ AllSpans(free) /\ Apart(free)
      /\ \A x \in Int : Covers(free, x) <=> Covers(merged, x) /\ ~ Covers(block, x)
  BY <1>2, <1>3, SubtractSpans
<1> HIDE DEF free
<1>5. \A x \in Int : Covers(free, x) <=> Has(window, x) /\ Covers(rows, x) /\ ~ Covers(taken, x)
  BY <1>1, <1>2, <1>3, <1>4
<1> DEFINE anchor == window.start
<1> HIDE DEF anchor
<1>6. /\ r \in Seq(Pair)
      /\ \A i, j \in DOMAIN r : i < j => r[i].start < r[j].start
      /\ \A i \in DOMAIN r : r[i].end = r[i].start + duration
      /\ \A x \in Int : StartsAmong(r, x) <=>
           /\ Rem(x - anchor, step) = 0 /\ x >= notBefore
           /\ \A y \in x .. (x + duration - 1) : Covers(free, y)
  <2>1. r = SlotsIn(free, duration, step, notBefore, anchor) /\ anchor \in Int
    BY <1>r, <1>0 DEF anchor
  <2>2. free \in Seq(Pair) /\ AllSpans(free) /\ Apart(free)
    BY <1>4
  <2> DEFINE w == SlotsIn(free, duration, step, notBefore, anchor)
  <2>3. /\ w \in Seq(Pair)
        /\ \A i, j \in DOMAIN w : i < j => w[i].start < w[j].start
        /\ \A i \in DOMAIN w : w[i].end = w[i].start + duration
        /\ \A x \in Int : StartsAmong(w, x) <=>
             /\ Rem(x - anchor, step) = 0 /\ x >= notBefore
             /\ \A y \in x .. (x + duration - 1) : Covers(free, y)
    BY <2>1, <2>2, SlotsOfFree
  <2> HIDE DEF w
  <2>4. r = w
    BY <2>1 DEF w
  <2> QED BY <2>3, <2>4
<1>7. ASSUME NEW x \in Int
      PROVE  (\A y \in x .. (x + duration - 1) : Covers(free, y)) <=>
               \A y \in x .. (x + duration - 1) :
                 Has(window, y) /\ Covers(rows, y) /\ ~ Covers(taken, y)
  <2>1. \A y \in x .. (x + duration - 1) : y \in Int
    OBVIOUS
  <2> QED BY <2>1, <1>5
<1>8. \A x \in Int : StartsAmong(r, x) <=>
           /\ Rem(x - anchor, step) = 0 /\ x >= notBefore
           /\ \A y \in x .. (x + duration - 1) :
                Has(window, y) /\ Covers(rows, y) /\ ~ Covers(taken, y)
  BY <1>6, <1>7
<1> QED BY <1>6, <1>8 DEF r, work, block, anchor

-----------------------------------------------------------------------------
(* The clock *)

AZone == [cut : Int, before : Int, after : Int]

(* A local time that a clock never shows, as it goes over it, is taken for *)
(* an instant after the change.                                            *)
Skipped(w, z) == w - z.before >= z.cut /\ w - z.after < z.cut

(* From the instant on that a local time is taken for, if the clock shows  *)
(* it once, it shows that time and later ones.                             *)
Once(w, z) == (w - z.before < z.cut) # (w - z.after >= z.cut)

LEMMA ClockPassesOnce ==
  ASSUME NEW z \in AZone, NEW w \in Int, Once(w, z), NEW t \in Int
  PROVE  WallClock(t, z) >= w <=> t >= InstantOf(w, z)
<1>1. z.cut \in Int /\ z.before \in Int /\ z.after \in Int
  BY DEF AZone
<1> DEFINE c == z.cut
           p == z.before
           q == z.after
<1>2. c \in Int /\ p \in Int /\ q \in Int
  BY <1>1
<1>3. (w - p < c) # (w - q >= c)
  BY DEF Once
<1>4. InstantOf(w, z) = IF w - p >= c /\ w - q >= c THEN w - q ELSE w - p
  BY DEF InstantOf
<1>5. WallClock(t, z) = IF t < c THEN t + p ELSE t + q
  BY DEF WallClock
<1> HIDE DEF c, p, q
<1>6. CASE w - p < c /\ w - q < c
  BY <1>2, <1>4, <1>5, <1>6
<1>7. CASE w - p >= c /\ w - q >= c
  BY <1>2, <1>4, <1>5, <1>7
<1> QED BY <1>2, <1>3, <1>6, <1>7

LEMMA InstantIsInt ==
  ASSUME NEW z \in AZone, NEW w \in Int
  PROVE  InstantOf(w, z) \in Int
BY DEF AZone, InstantOf

LEMMA ClockIsInt ==
  ASSUME NEW z \in AZone, NEW t \in Int
  PROVE  WallClock(t, z) \in Int
BY DEF AZone, WallClock

(* Of two local times, the later one is taken for a later instant, except  *)
(* that one skipped may overtake one that comes soon after it.             *)
LEMMA LaterIsLater ==
  ASSUME NEW z \in AZone, NEW v \in Int, NEW w \in Int, v < w
  PROVE  \/ InstantOf(v, z) < InstantOf(w, z)
         \/ Skipped(v, z) /\ w - v <= z.after - z.before
<1>1. z.cut \in Int /\ z.before \in Int /\ z.after \in Int
  BY DEF AZone
<1> QED BY <1>1 DEF InstantOf, Skipped

LEMMA SkippedIsNotShown ==
  ASSUME NEW z \in AZone, NEW w \in Int, Skipped(w, z), NEW t \in Int
  PROVE  WallClock(t, z) # w
BY DEF AZone, Skipped, WallClock

(* The day begins and ends no later and no earlier than a time of the day  *)
(* that the clock shows once, if midnight is not within what it skips.     *)
LEMMA DayHoldsItsTimes ==
  ASSUME NEW z \in AZone, NEW m \in Int, NEW n \in Int, NEW w \in Int, Once(w, z)
  PROVE  /\ m <= w /\ ~ (z.cut + z.before < m /\ m < z.cut + z.after) => InstantOf(m, z) <= InstantOf(w, z)
         /\ w <= n => InstantOf(w, z) <= InstantOf(n, z)
<1>1. z.cut \in Int /\ z.before \in Int /\ z.after \in Int
  BY DEF AZone
<1> DEFINE c == z.cut
           p == z.before
           q == z.after
<1>2. c \in Int /\ p \in Int /\ q \in Int
  BY <1>1
<1>3. (w - p < c) # (w - q >= c)
  BY DEF Once
<1>4. /\ InstantOf(w, z) = IF w - p >= c /\ w - q >= c THEN w - q ELSE w - p
      /\ InstantOf(m, z) = IF m - p >= c /\ m - q >= c THEN m - q ELSE m - p
      /\ InstantOf(n, z) = IF n - p >= c /\ n - q >= c THEN n - q ELSE n - p
  BY DEF InstantOf
<1>5. (z.cut + z.before < m /\ m < z.cut + z.after) <=> (c + p < m /\ m < c + q)
  OBVIOUS
<1> HIDE DEF c, p, q
<1>6. m <= w /\ ~ (c + p < m /\ m < c + q) => InstantOf(m, z) <= InstantOf(w, z)
  BY <1>2, <1>3, <1>4
<1>7. w <= n => InstantOf(w, z) <= InstantOf(n, z)
  BY <1>2, <1>3, <1>4
<1> QED BY <1>5, <1>6, <1>7

-----------------------------------------------------------------------------
(* The answers *)

SlotTypes ==
  /\ zone \in Zones
  /\ shifts \in Seq(Spans(Midnight, Midnight + DayTicks))
  /\ busy \in Seq(Spans(0, MaxTick))

Answered ==
  query # NoQuery =>
    /\ query \in Queries
    /\ answer = IF Fails THEN <<>>
                ELSE AvailableSlots(query.closed, Working, busy, <<>>, Window,
                                    query.duration, query.step, query.notBefore)

SlotInv == SlotTypes /\ Answered

LEMMA SlotStep ==
  ASSUME SlotInv, [SlotNext]_slotVars
  PROVE  SlotInv'
<1> USE DEF SlotInv, SlotTypes, Answered
<1>1. CASE AddShift
  <2>1. PICK s \in Spans(Midnight, Midnight + DayTicks) : shifts' = Append(shifts, s)
    BY <1>1 DEF AddShift
  <2>2. shifts' \in Seq(Spans(Midnight, Midnight + DayTicks))
    BY <2>1
  <2> QED BY <1>1, <2>2 DEF AddShift
<1>2. CASE AddBusy
  <2>1. PICK s \in Spans(0, MaxTick) : busy' = Append(busy, s)
    BY <1>2 DEF AddBusy
  <2>2. busy' \in Seq(Spans(0, MaxTick))
    BY <2>1
  <2> QED BY <1>2, <2>2 DEF AddBusy
<1>3. CASE Ask
  <2>1. zone' = zone /\ shifts' = shifts /\ busy' = busy
    BY <1>3 DEF Ask
  <2>2. Fails' = Fails /\ Working' = Working /\ Window' = Window
    BY <2>1 DEF Fails, Working, Window
  <2>3. PICK q \in Queries :
          /\ query' = q
          /\ answer' = IF Fails THEN <<>>
                       ELSE AvailableSlots(q.closed, Working, busy, <<>>, Window,
                                           q.duration, q.step, q.notBefore)
    BY <1>3 DEF Ask
  <2> QED BY <2>1, <2>2, <2>3
<1>4. CASE UNCHANGED slotVars
  <2>1. zone' = zone /\ shifts' = shifts /\ busy' = busy /\ query' = query /\ answer' = answer
    BY <1>4 DEF slotVars
  <2>2. Fails' = Fails /\ Working' = Working /\ Window' = Window
    BY <2>1 DEF Fails, Working, Window
  <2> QED BY <2>1, <2>2
<1> QED BY <1>1, <1>2, <1>3, <1>4 DEF SlotNext

LEMMA SlotTables ==
  ASSUME SlotTypes
  PROVE  /\ zone \in AZone /\ shifts \in Seq(Pair) /\ busy \in Seq(Pair)
         /\ \A i \in DOMAIN shifts : /\ shifts[i].start \in Int /\ shifts[i].end \in Int
                                     /\ Midnight <= shifts[i].start /\ shifts[i].start < shifts[i].end
                                     /\ shifts[i].end <= Midnight + DayTicks
         /\ Window \in Pair
<1>1. zone \in AZone
  BY SlotsAssumption DEF SlotTypes, AZone
<1>2. \A lo, hi \in Int : Spans(lo, hi) \subseteq Pair
  BY DEF Spans, Pair
<1>3. Midnight \in Int /\ Midnight + DayTicks \in Int /\ MaxTick \in Int /\ 0 \in Int
  BY SlotsAssumption
<1>4. shifts \in Seq(Pair) /\ busy \in Seq(Pair)
  <2>1. \A S, T : S \subseteq T => Seq(S) \subseteq Seq(T)
    OBVIOUS
  <2>2. Spans(Midnight, Midnight + DayTicks) \subseteq Pair /\ Spans(0, MaxTick) \subseteq Pair
    BY <1>2, <1>3
  <2> QED BY <2>1, <2>2 DEF SlotTypes
<1>5. ASSUME NEW i \in DOMAIN shifts
      PROVE  /\ shifts[i].start \in Int /\ shifts[i].end \in Int
             /\ Midnight <= shifts[i].start /\ shifts[i].start < shifts[i].end
             /\ shifts[i].end <= Midnight + DayTicks
  <2>1. shifts[i] \in Spans(Midnight, Midnight + DayTicks)
    BY DEF SlotTypes
  <2> QED BY <2>1, <1>3 DEF Spans, IsSpan
<1>6. Window \in Pair
  <2>1. InstantOf(Midnight, zone) \in Int /\ InstantOf(Midnight + DayTicks, zone) \in Int
    BY <1>1, <1>3, InstantIsInt
  <2> QED BY <2>1 DEF Window, LocalDayBounds, Span, Pair
<1> QED BY <1>1, <1>4, <1>5, <1>6

(* The shifts of the day, as they are converted.                           *)
Converted(i, row) ==
  Working[i].start = InstantOf(row.start, zone) /\ Working[i].end = InstantOf(row.end, zone)

LEMMA WorkingIs ==
  ASSUME SlotTypes
  PROVE  /\ Working \in Seq(Pair)
         /\ \A i \in DOMAIN Working : \E j \in DOMAIN shifts : Converted(i, shifts[j])
         /\ \A j \in DOMAIN shifts : \E i \in DOMAIN Working : Converted(i, shifts[j])
<1> DEFINE kept == Proper(shifts)
<1>1. /\ zone \in AZone /\ shifts \in Seq(Pair)
      /\ \A i \in DOMAIN shifts : IsSpan(shifts[i])
  BY SlotTables DEF IsSpan
<1>2. /\ kept \in Seq(Pair)
      /\ \A j \in DOMAIN kept : \E i \in DOMAIN shifts : kept[j] = shifts[i]
      /\ \A i \in DOMAIN shifts : \E j \in DOMAIN kept : kept[j] = shifts[i]
  BY <1>1, ProperSpans
<1>3. Working = [i \in DOMAIN kept |-> Span(InstantOf(kept[i].start, zone), InstantOf(kept[i].end, zone))]
  BY DEF Working, WorkingIntervals
<1> HIDE DEF kept
<1>4. ASSUME NEW i \in DOMAIN kept PROVE Working[i] \in Pair /\ Converted(i, kept[i])
  <2>1. InstantOf(kept[i].start, zone) \in Int /\ InstantOf(kept[i].end, zone) \in Int
    BY <1>1, <1>2, PairFields, InstantIsInt
  <2>2. Working[i] = Span(InstantOf(kept[i].start, zone), InstantOf(kept[i].end, zone))
    BY <1>3
  <2> QED BY <2>1, <2>2 DEF Converted, Span, Pair
<1>5. DOMAIN Working = DOMAIN kept
  BY <1>3
<1>6. Working \in Seq(Pair)
  <2>1. DOMAIN kept = 1 .. Len(kept) /\ Len(kept) \in Nat
    BY <1>2
  <2>2. Working = [i \in 1 .. Len(kept) |-> Working[i]]
    BY <2>1, <1>3
  <2>3. Working \in [1 .. Len(kept) -> Pair]
    BY <2>1, <2>2, <1>4
  <2> QED BY <2>1, <2>3
<1> QED BY <1>2, <1>4, <1>5, <1>6

LEMMA FailsOnly ==
  ASSUME SlotTypes
  PROVE  FailsOnlyOverASkippedStart
<1> SUFFICES ASSUME Fails
             PROVE  \E j \in DOMAIN shifts :
                      /\ \A t \in Instants : WallClock(t, zone) # shifts[j].start
                      /\ shifts[j].end - shifts[j].start <= zone.after - zone.before
  BY DEF FailsOnlyOverASkippedStart
<1>1. PICK i \in DOMAIN Working : ~ IsSpan(Working[i])
  BY DEF Fails
<1>2. PICK j \in DOMAIN shifts : Converted(i, shifts[j])
  BY WorkingIs
<1> DEFINE v == shifts[j].start
           w == shifts[j].end
<1>3. v \in Int /\ w \in Int /\ v < w /\ zone \in AZone
  BY SlotTables
<1>4. ~ (InstantOf(v, zone) < InstantOf(w, zone))
  BY <1>1, <1>2 DEF Converted, IsSpan
<1> HIDE DEF v, w
<1>5. Skipped(v, zone) /\ w - v <= zone.after - zone.before
  BY <1>3, <1>4, LaterIsLater
<1>6. \A t \in Instants : t \in Int
  BY SlotsAssumption DEF Instants
<1>7. \A t \in Instants : WallClock(t, zone) # v
  BY <1>3, <1>5, <1>6, SkippedIsNotShown
<1> QED BY <1>5, <1>7 DEF v, w

LEMMA NoneRejected ==
  ASSUME SlotTypes
  PROVE  NoIntervalIsRejected
<1> DEFINE work == Clip(Working, Window)
           blocks == Clip(busy, Window)
           merged == Normalize(work)
           free == Subtract(merged, blocks)
<1>1. Working \in Seq(Pair) /\ busy \in Seq(Pair) /\ Window \in Pair
  BY WorkingIs, SlotTables
<1>2. work \in Seq(Pair) /\ AllSpans(work)
  BY <1>1, ClipSpans
<1>3. blocks \in Seq(Pair) /\ AllSpans(blocks)
  BY <1>1, ClipSpans
<1> HIDE DEF work, blocks
<1>4. merged \in Seq(Pair) /\ AllSpans(merged) /\ Apart(merged)
  BY <1>2, NormalizeSpans
<1> HIDE DEF merged
<1>5. AllSpans(free)
  BY <1>3, <1>4, SubtractSpans
<1> HIDE DEF free
<1>6. \A spans \in {work, blocks, merged, free} : \A i \in DOMAIN spans : IsSpan(spans[i])
  BY <1>2, <1>3, <1>4, <1>5 DEF AllSpans
<1> QED BY <1>6 DEF NoIntervalIsRejected, work, blocks, merged, free

LEMMA PlainIsOnce ==
  ASSUME SlotTypes, NEW w \in Midnight .. (Midnight + DayTicks), Plain(w)
  PROVE  Once(w, zone)
<1> DEFINE c == zone.cut
           p == zone.before
           q == zone.after
           T == {t \in Instants : WallClock(t, zone) = w}
<1>1. c \in Int /\ p \in Int /\ q \in Int /\ w \in Int
  BY SlotTables, SlotsAssumption DEF AZone
<1>2. w - p \in Instants /\ w - q \in Instants
  BY SlotsAssumption DEF SlotTypes, Instants
<1>3. \A t \in Instants : t \in T <=> (IF t < c THEN t + p ELSE t + q) = w
  BY DEF WallClock
<1>4. \E x : T = {x}
  <2>1. IsFiniteSet(Instants)
    <3>1. 0 \in Int /\ MaxTick + DayTicks \in Int
      BY SlotsAssumption
    <3> QED BY <3>1, FS_Interval DEF Instants
  <2>2. IsFiniteSet(T)
    BY <2>1, FS_Subset
  <2>3. Cardinality(T) = 1
    BY DEF Plain
  <2> HIDE DEF T
  <2> QED BY <2>2, <2>3, FS_Singleton
<1>5. \A t \in T : t \in Instants /\ t \in Int
  BY SlotsAssumption DEF Instants
<1>6. Once(w, zone) <=> ((w - p < c) # (w - q >= c))
  BY DEF Once
<1> HIDE DEF T, c, p, q
<1>7. ASSUME w - p < c, w - q >= c PROVE FALSE
  <2>1. w - p \in T /\ w - q \in T
    BY <1>1, <1>2, <1>3, <1>7
  <2>2. w - p = w - q
    BY <2>1, <1>4
  <2> QED BY <2>2, <1>1, <1>7
<1>8. ASSUME ~ (w - p < c), ~ (w - q >= c) PROVE FALSE
  <2>1. PICK x : x \in T
    BY <1>4
  <2>2. x \in Instants /\ x \in Int /\ (IF x < c THEN x + p ELSE x + q) = w
    BY <2>1, <1>3, <1>5
  <2> QED BY <2>2, <1>1, <1>8
<1> QED BY <1>6, <1>7, <1>8

AllPlain == \A i \in DOMAIN shifts : Plain(shifts[i].start) /\ Plain(shifts[i].end)

(* What the shifts cover after the conversion is what they cover by the    *)
(* clock of the shop, and all of it is of the day.                         *)
LEMMA AtWorkIs ==
  ASSUME SlotTypes, AllPlain, NEW t \in Int
  PROVE  Has(Window, t) /\ Covers(Working, t) <=> t \in AtWork
<1> DEFINE wc == WallClock(t, zone)
           During(j) == shifts[j].start <= wc /\ wc < shifts[j].end
<1>z. zone \in AZone /\ zone \in Zones /\ Midnight \in Int /\ Midnight + DayTicks \in Int
  BY SlotTables, SlotsAssumption DEF SlotTypes
<1>w. wc \in Int
  BY <1>z, ClockIsInt
<1>s. \A j \in DOMAIN shifts :
        /\ shifts[j].start \in Int /\ shifts[j].end \in Int
        /\ Midnight <= shifts[j].start /\ shifts[j].start < shifts[j].end
        /\ shifts[j].end <= Midnight + DayTicks
        /\ Once(shifts[j].start, zone) /\ Once(shifts[j].end, zone)
  <2>1. ASSUME NEW j \in DOMAIN shifts
        PROVE  Once(shifts[j].start, zone) /\ Once(shifts[j].end, zone)
    <3>1. /\ shifts[j].start \in Midnight .. (Midnight + DayTicks)
          /\ shifts[j].end \in Midnight .. (Midnight + DayTicks)
      BY <1>z, SlotTables
    <3> QED BY <3>1, PlainIsOnce DEF AllPlain
  <2> QED BY <2>1, SlotTables
<1>1. ASSUME NEW j \in DOMAIN shifts, NEW i \in DOMAIN Working, Converted(i, shifts[j])
      PROVE  /\ Has(Working[i], t) <=> During(j)
             /\ Has(Working[i], t) => Has(Window, t)
  <2> DEFINE a == shifts[j].start
             b == shifts[j].end
  <2>1. a \in Int /\ b \in Int /\ Midnight <= a /\ b <= Midnight + DayTicks /\ Once(a, zone) /\ Once(b, zone)
    BY <1>s
  <2> HIDE DEF a, b
  <2>2. (wc >= a <=> t >= InstantOf(a, zone)) /\ (wc >= b <=> t >= InstantOf(b, zone))
    BY <2>1, <1>z, ClockPassesOnce
  <2>3. Working[i].start = InstantOf(a, zone) /\ Working[i].end = InstantOf(b, zone)
    BY <1>1 DEF Converted, a, b
  <2>4. InstantOf(a, zone) \in Int /\ InstantOf(b, zone) \in Int
        /\ InstantOf(Midnight, zone) \in Int /\ InstantOf(Midnight + DayTicks, zone) \in Int
    BY <2>1, <1>z, InstantIsInt
  <2>5. Has(Working[i], t) <=> a <= wc /\ wc < b
    BY <2>1, <2>2, <2>3, <2>4, <1>w DEF Has
  <2>6. InstantOf(Midnight, zone) <= InstantOf(a, zone)
    <3>1. ~ (zone.cut + zone.before < Midnight /\ Midnight < zone.cut + zone.after)
      BY <1>z, SlotsAssumption
    <3> QED BY <3>1, <2>1, <1>z, DayHoldsItsTimes
  <2>7. InstantOf(b, zone) <= InstantOf(Midnight + DayTicks, zone)
    BY <2>1, <1>z, DayHoldsItsTimes
  <2>8. Window.start = InstantOf(Midnight, zone) /\ Window.end = InstantOf(Midnight + DayTicks, zone)
    BY DEF Window, LocalDayBounds, Span
  <2>9. Has(Working[i], t) => Has(Window, t)
    BY <2>3, <2>4, <2>6, <2>7, <2>8 DEF Has
  <2> QED BY <2>5, <2>9 DEF a, b
<1>2. Covers(Working, t) <=> \E j \in DOMAIN shifts : During(j)
  BY <1>1, WorkingIs DEF Covers
<1>3. Covers(Working, t) => Has(Window, t)
  BY <1>1, WorkingIs DEF Covers
<1>4. t \in AtWork <=> t \in Instants /\ wc \in Midnight .. (Midnight + DayTicks - 1)
                         /\ \E j \in DOMAIN shifts : During(j)
  BY DEF AtWork
<1>5. ASSUME NEW j \in DOMAIN shifts, During(j)
      PROVE  t \in Instants /\ wc \in Midnight .. (Midnight + DayTicks - 1)
  <2>1. wc \in Midnight .. (Midnight + DayTicks - 1)
    <3> DEFINE a == shifts[j].start
               b == shifts[j].end
    <3>1. /\ a \in Int /\ b \in Int /\ a <= wc /\ wc < b
          /\ Midnight <= a /\ b <= Midnight + DayTicks
      BY <1>5, <1>s
    <3>2. DayTicks \in Int
      BY SlotsAssumption
    <3> HIDE DEF a, b, wc
    <3> QED BY <3>1, <3>2, <1>w, <1>z
  <2>2. wc \in Midnight .. (Midnight + DayTicks)
    <3>1. DayTicks \in Int
      BY SlotsAssumption
    <3> HIDE DEF wc
    <3> QED BY <2>1, <3>1, <1>z
  <2>3. wc - zone.before \in Instants /\ wc - zone.after \in Instants
    BY <2>2, <1>z, SlotsAssumption DEF Instants
  <2>4. t = wc - zone.before \/ t = wc - zone.after
    BY <1>z DEF WallClock, AZone
  <2> QED BY <2>1, <2>3, <2>4
<1> QED BY <1>2, <1>3, <1>4, <1>5

LEMMA BusyIs ==
  ASSUME SlotTypes, NEW t \in Int
  PROVE  t \in Covered(busy) <=> Covers(busy, t)
<1>1. \A i \in DOMAIN busy : busy[i].start \in Int /\ busy[i].end \in Int
  BY SlotTables, PairFields
<1>2. \A i \in DOMAIN busy : t \in busy[i].start .. (busy[i].end - 1) <=> Has(busy[i], t)
  BY <1>1 DEF Has
<1>3. t \in Covered(busy) <=> \E i \in DOMAIN busy : t \in busy[i].start .. (busy[i].end - 1)
  BY DEF Covered
<1> QED BY <1>2, <1>3 DEF Covers

LEMMA OffersExactly ==
  ASSUME SlotInv
  PROVE  OffersExactlyTheBookable
<1> SUFFICES ASSUME query # NoQuery, AllPlain
             PROVE  /\ StartsOf(answer) = Bookable(query)
                    /\ \A i \in DOMAIN answer : answer[i].end - answer[i].start = query.duration
                    /\ \A i, j \in DOMAIN answer : i < j => answer[i].start < answer[j].start
  BY DEF OffersExactlyTheBookable, AllPlain
<1>t. SlotTypes
  BY DEF SlotInv
<1> DEFINE d == query.duration
           step == query.step
           soon == query.notBefore
<1>q. d \in Nat \ {0} /\ step \in Nat \ {0} /\ soon \in Int /\ query \in Queries
  <2>1. query \in Queries
    BY DEF SlotInv, Answered
  <2> DEFINE asked == [duration : Durations, step : Steps, notBefore : NotBefores, closed : {FALSE}]
             shut == [duration |-> 1, step |-> 1, notBefore |-> 0, closed |-> TRUE]
  <2>2. query \in asked \cup {shut}
    BY <2>1 DEF Queries
  <2>3. CASE query \in asked
    <3>1. query.duration \in Durations /\ query.step \in Steps /\ query.notBefore \in NotBefores
      BY <2>3
    <3> QED BY <3>1, <2>1, SlotsAssumption
  <2>4. CASE query = shut
    <3>1. query.duration = 1 /\ query.step = 1 /\ query.notBefore = 0
      BY <2>4
    <3> HIDE DEF shut
    <3> QED BY <3>1, <2>1
  <2> HIDE DEF asked, shut
  <2> QED BY <2>2, <2>3, <2>4
<1>a. answer = IF Fails THEN <<>>
               ELSE AvailableSlots(query.closed, Working, busy, <<>>, Window, d, step, soon)
  BY DEF SlotInv, Answered
<1> HIDE DEF d, step, soon
<1>b. \A x : x \in Bookable(query) <=>
        /\ x \in Instants /\ ~ query.closed
        /\ Rem(x - Window.start, step) = 0 /\ x >= soon
        /\ \A y \in x .. (x + d - 1) : y \in AtWork /\ y \notin Covered(busy)
  BY DEF Bookable, Rem, d, step, soon
<1>i. \A x \in Instants : x \in Int /\ x \in x .. (x + d - 1)
  BY <1>q, SlotsAssumption DEF Instants
<1>1. CASE query.closed \/ Working = <<>>
  <2>1. answer = <<>>
    BY <1>1, <1>a DEF AvailableSlots
  <2>2. Bookable(query) = {}
    <3>1. ASSUME Working = <<>>, NEW x \in Instants PROVE x \notin AtWork
      <4>1. ~ Covers(Working, x)
        BY <3>1 DEF Covers
      <4> QED BY <4>1, <1>i, <1>t, AtWorkIs
    <3> QED BY <3>1, <1>1, <1>b, <1>i
  <2> QED BY <2>1, <2>2 DEF StartsOf
<1>2. CASE ~ query.closed /\ Working # <<>>
  <2>1. ~ Fails
    <3>1. ASSUME NEW i \in DOMAIN Working PROVE IsSpan(Working[i])
      <4>1. PICK j \in DOMAIN shifts : Converted(i, shifts[j])
        BY <1>t, WorkingIs
      <4> DEFINE v == shifts[j].start
                 w == shifts[j].end
      <4>2. v \in Int /\ w \in Int /\ v < w /\ v \in Midnight .. (Midnight + DayTicks) /\ zone \in AZone
        BY <1>t, SlotTables, SlotsAssumption
      <4>3. Once(v, zone)
        BY <1>t, <4>2, PlainIsOnce DEF AllPlain
      <4>4. ~ Skipped(v, zone)
        BY <4>2, <4>3 DEF Once, Skipped, AZone
      <4>5. Working[i].start = InstantOf(v, zone) /\ Working[i].end = InstantOf(w, zone)
        BY <4>1 DEF Converted
      <4> HIDE DEF v, w
      <4> QED BY <4>2, <4>4, <4>5, LaterIsLater DEF IsSpan
    <3> QED BY <3>1 DEF Fails
  <2>2. /\ Working \in Seq(Pair) /\ busy \in Seq(Pair) /\ Window \in Pair
    BY <1>t, SlotTables, WorkingIs
  <2>3. busy \o <<>> = busy
    BY <2>2, ConcatEmptySeq
  <2>4. answer = ComputeFreeSlots(Clip(Working, Window), Clip(busy, Window), d, step, soon, Window.start)
    BY <1>2, <1>a, <2>1, <2>3 DEF AvailableSlots
  <2>5. /\ answer \in Seq(Pair)
        /\ \A i, j \in DOMAIN answer : i < j => answer[i].start < answer[j].start
        /\ \A i \in DOMAIN answer : answer[i].end = answer[i].start + d
        /\ \A x \in Int : StartsAmong(answer, x) <=>
             /\ Rem(x - Window.start, step) = 0 /\ x >= soon
             /\ \A y \in x .. (x + d - 1) :
                  Has(Window, y) /\ Covers(Working, y) /\ ~ Covers(busy, y)
    <3> DEFINE r == ComputeFreeSlots(Clip(Working, Window), Clip(busy, Window), d, step, soon, Window.start)
    <3>1. /\ r \in Seq(Pair)
          /\ \A i, j \in DOMAIN r : i < j => r[i].start < r[j].start
          /\ \A i \in DOMAIN r : r[i].end = r[i].start + d
          /\ \A x \in Int : StartsAmong(r, x) <=>
               /\ Rem(x - Window.start, step) = 0 /\ x >= soon
               /\ \A y \in x .. (x + d - 1) :
                    Has(Window, y) /\ Covers(Working, y) /\ ~ Covers(busy, y)
      BY <1>q, <2>2, SlotsOfDay
    <3> HIDE DEF r
    <3>2. answer = r
      BY <2>4 DEF r
    <3> QED BY <3>1, <3>2
  <2>6. \A i \in DOMAIN answer : answer[i].start \in Int /\ answer[i].end \in Int
    BY <2>5, PairFields
  <2>7. ASSUME NEW y \in Int
        PROVE  (Has(Window, y) /\ Covers(Working, y) /\ ~ Covers(busy, y))
                 <=> (y \in AtWork /\ y \notin Covered(busy))
    BY <1>t, AtWorkIs, BusyIs
  <2>8. ASSUME NEW x \in Int PROVE StartsAmong(answer, x) <=> x \in Bookable(query)
    <3>1. \A y \in x .. (x + d - 1) : y \in Int
      BY <1>q
    <3>2. x \in x .. (x + d - 1)
      BY <1>q
    <3>3. (\A y \in x .. (x + d - 1) : y \in AtWork /\ y \notin Covered(busy)) => x \in Instants
      BY <3>2 DEF AtWork
    <3> QED BY <3>1, <3>3, <2>5, <2>7, <1>b, <1>2
  <2>9. StartsOf(answer) = Bookable(query)
    <3>1. \A x : x \in StartsOf(answer) <=> \E i \in DOMAIN answer : answer[i].start = x
      BY DEF StartsOf
    <3>2. \A x : x \in StartsOf(answer) => x \in Int
      BY <3>1, <2>6
    <3>3. \A x : x \in Bookable(query) => x \in Int
      BY <1>b, <1>i
    <3> QED BY <3>1, <3>2, <3>3, <2>8 DEF StartsAmong
  <2>10. \A i \in DOMAIN answer : answer[i].end - answer[i].start = d
    BY <2>5, <2>6, <1>q
  <2> QED BY <2>5, <2>9, <2>10 DEF d
<1> QED BY <1>1, <1>2

(* On any day, with any shifts and any appointments, in any zone that does *)
(* not skip over midnight: the slots offered are exactly those that a      *)
(* service can be booked at.                                               *)
THEOREM SlotsAreExactlyTheBookable == SlotSpec => []OffersExactlyTheBookable
<1>1. SlotInit => SlotInv
  BY DEF SlotInit, SlotInv, SlotTypes, Answered
<1>2. SlotInv /\ [SlotNext]_slotVars => SlotInv'
  BY SlotStep
<1>3. SlotInv => OffersExactlyTheBookable
  BY OffersExactly
<1> QED BY <1>1, <1>2, <1>3, PTL DEF SlotSpec

(* Whatever rows there are, every list of spans the engine makes on its    *)
(* way is one of spans with a length.                                      *)
THEOREM NoIntervalIsEverRejected == SlotSpec => []NoIntervalIsRejected
<1>1. SlotInit => SlotInv
  BY DEF SlotInit, SlotInv, SlotTypes, Answered
<1>2. SlotInv /\ [SlotNext]_slotVars => SlotInv'
  BY SlotStep
<1>3. SlotInv => NoIntervalIsRejected
  BY NoneRejected DEF SlotInv
<1> QED BY <1>1, <1>2, <1>3, PTL DEF SlotSpec

(* An availability request fails over a shift that begins within what the  *)
(* clock skips and ends within so much of it, and over nothing else.       *)
THEOREM OnlyASkippedStartFails == SlotSpec => []FailsOnlyOverASkippedStart
<1>1. SlotInit => SlotInv
  BY DEF SlotInit, SlotInv, SlotTypes, Answered
<1>2. SlotInv /\ [SlotNext]_slotVars => SlotInv'
  BY SlotStep
<1>3. SlotInv => FailsOnlyOverASkippedStart
  BY FailsOnly DEF SlotInv
<1> QED BY <1>1, <1>2, <1>3, PTL DEF SlotSpec

-----------------------------------------------------------------------------
(* Counting *)

(* A set is at least as large as its subsets.                              *)
LEMMA SmallerSubset ==
  ASSUME NEW T, IsFiniteSet(T), NEW S, S \subseteq T
  PROVE  /\ IsFiniteSet(S)
         /\ Cardinality(S) \in Nat /\ Cardinality(T) \in Nat
         /\ Cardinality(S) <= Cardinality(T)
BY FS_Subset, FS_CardinalityType

-----------------------------------------------------------------------------
(* The dashboard *)

(* The completed bookings a request is about, as the table is now.         *)
Done == Earning(InPeriod)

ReadTypes ==
  read # NoRead =>
    /\ {"next", "scope", "period", "meanwhile"} \subseteq DOMAIN read
    /\ read.next \in 1 .. 6
    /\ read.next > 1 => "counts" \in DOMAIN read /\ read.counts["COMPLETED"] \in Nat
    /\ read.next > 2 => "revenue" \in DOMAIN read /\ read.revenue.over \in Nat

(* Between the two statements the completed bookings only become more, and *)
(* after the second one the numbers stand.                                 *)
Covering ==
  read # NoRead /\ read.meanwhile # "undone" =>
    /\ read.next = 2 => read.counts["COMPLETED"] <= Cardinality(Done)
    /\ read.next > 2 => read.counts["COMPLETED"] <= read.revenue.over

DashInv == IsFiniteSet(DOMAIN booked) /\ ReadTypes /\ Covering

LEMMA DoneIsFinite ==
  ASSUME IsFiniteSet(DOMAIN booked)
  PROVE  IsFiniteSet(Done) /\ Cardinality(Done) \in Nat
<1>1. Done \subseteq DOMAIN booked
  BY DEF Done, Earning, OfStatus, InPeriod, Scoped
<1> QED  BY <1>1, SmallerSubset

(* Which statement's turn it is, by its number.                            *)
LEMMA Turns ==
  ASSUME ReadTypes, NEW statement, Turn(statement)
  PROVE  /\ read # NoRead /\ read.next \in 1 .. 5
         /\ read.next = 1 <=> statement = "counts"
         /\ read.next = 2 <=> statement = "revenue"
<1>1. read # NoRead /\ ~ Shown /\ Statements[read.next] = statement
  BY DEF Turn
<1>2. Len(Statements) = 5
  BY DEF Statements
<1>3. read.next \in 1 .. 5
  BY <1>1, <1>2 DEF Shown, ReadTypes
<1> QED  BY <1>1, <1>3 DEF Statements

LEMMA AnswerStep ==
  ASSUME DashInv, NEW statement, Turn(statement), NEW value, Answer(statement, value),
         statement \notin {"next", "scope", "period", "meanwhile"},
         statement = "counts" => value["COMPLETED"] = Cardinality(Done),
         statement = "revenue" => value.over = Cardinality(Done)
  PROVE  DashInv'
<1>1. /\ read # NoRead /\ read.next \in 1 .. 5
      /\ read.next = 1 <=> statement = "counts"
      /\ read.next = 2 <=> statement = "revenue"
  BY Turns DEF DashInv
<1>2. /\ DOMAIN read' = DOMAIN read \cup {statement}
      /\ read'.next = read.next + 1
      /\ read'.scope = read.scope /\ read'.period = read.period
      /\ read'.meanwhile = read.meanwhile
      /\ read'[statement] = value
      /\ \A f \in DOMAIN read : f \notin {"next", statement} => read'[f] = read[f]
  BY <1>1 DEF Answer, DashInv, ReadTypes
<1>3. UNCHANGED booked
  BY DEF Answer
<1>4. Done' = Done
  BY <1>2, <1>3 DEF Done, Earning, OfStatus, InPeriod, Scoped, Within
<1>5. Cardinality(Done) \in Nat
  BY DoneIsFinite DEF DashInv
<1>6. read' # NoRead
  BY <1>1, <1>2 DEF NoRead
<1>7. CASE statement = "counts"
  <2>1. read'.next = 2 /\ "counts" \in DOMAIN read' /\ read'.counts["COMPLETED"] = Cardinality(Done)
    BY <1>1, <1>2, <1>7
  <2> QED  BY <1>1, <1>2, <1>3, <1>4, <1>5, <1>6, <2>1 DEF DashInv, ReadTypes, Covering
<1>8. CASE statement = "revenue"
  <2>1. /\ read'.next = 3 /\ "revenue" \in DOMAIN read' /\ read'.revenue.over = Cardinality(Done)
        /\ "counts" \in DOMAIN read' /\ read'.counts = read.counts
    BY <1>1, <1>2, <1>8 DEF DashInv, ReadTypes
  <2> QED  BY <1>1, <1>2, <1>3, <1>5, <1>6, <1>8, <2>1 DEF DashInv, ReadTypes, Covering
<1>9. CASE statement \notin {"counts", "revenue"}
  <2>1. /\ read.next > 2 /\ read'.counts = read.counts /\ read'.revenue = read.revenue
        /\ {"counts", "revenue"} \subseteq DOMAIN read'
    BY <1>1, <1>2, <1>9 DEF DashInv, ReadTypes
  <2> QED  BY <1>1, <1>2, <1>3, <1>6, <2>1 DEF DashInv, ReadTypes, Covering
<1> QED  BY <1>7, <1>8, <1>9

(* What is completed stays completed, and stays where it is, unless a race *)
(* overwrites it.                                                          *)
LEMMA DoneGrows ==
  ASSUME Book \/ Decide \/ Reschedule, IsFiniteSet(DOMAIN booked),
         read'.scope = read.scope, read'.period = read.period
  PROVE  IsFiniteSet(DOMAIN booked') /\ Done \subseteq Done'
<1>1. CASE Book
  <2>1. PICK a \in Appts \ DOMAIN booked :
          /\ DOMAIN booked' = DOMAIN booked \cup {a}
          /\ \A x \in DOMAIN booked : booked'[x] = booked[x]
    BY <1>1 DEF Book
  <2>2. IsFiniteSet(DOMAIN booked')
    BY <2>1, FS_AddElement
  <2> QED  BY <2>1, <2>2 DEF Done, Earning, OfStatus, InPeriod, Scoped, Within
<1>2. CASE Decide \/ Reschedule
  <2>1. PICK a \in DOMAIN booked :
          /\ booked[a].status \in Active /\ DOMAIN booked' = DOMAIN booked
          /\ \A x \in DOMAIN booked \ {a} : booked'[x] = booked[x]
    BY <1>2 DEF Decide, Reschedule
  <2>2. a \notin Done
    BY <2>1 DEF Active, Done, Earning, OfStatus
  <2> QED  BY <2>1, <2>2 DEF Done, Earning, OfStatus, InPeriod, Scoped, Within
<1> QED  BY <1>1, <1>2

LEMMA DashStep ==
  ASSUME DashInv, [DashNext]_dashVars
  PROVE  DashInv'
<1>1. CASE Open
  <2>1. read' # NoRead /\ UNCHANGED booked /\ read'.next = 1
        /\ DOMAIN read' = {"next", "scope", "period", "meanwhile"}
    BY <1>1 DEF Open, NoRead
  <2> QED  BY <2>1 DEF DashInv, ReadTypes, Covering
<1>2. CASE CountStatuses
  <2>1. PICK value : /\ Answer("counts", value)
                      /\ value["COMPLETED"] = Cardinality(OfStatus(InPeriod, {"COMPLETED"}))
    BY <1>2 DEF CountStatuses, Status, Terminal
  <2> QED  BY <1>2, <2>1, AnswerStep DEF CountStatuses, Done, Earning
<1>3. CASE SumRevenue
  <2>1. PICK value : Answer("revenue", value) /\ value.over = Cardinality(Earning(InPeriod))
    BY <1>3 DEF SumRevenue
  <2> QED  BY <1>3, <2>1, AnswerStep DEF SumRevenue, Done
<1>4. CASE CountToday
  <2>1. PICK value : Answer("today", value)
    BY <1>4 DEF CountToday
  <2> QED  BY <1>4, <2>1, AnswerStep DEF CountToday
<1>5. CASE FindPopular
  <2>1. PICK value : Answer("popular", value)
    BY <1>5 DEF FindPopular
  <2> QED  BY <1>5, <2>1, AnswerStep DEF FindPopular
<1>6. CASE FindTop
  <2>1. PICK value : Answer("top", value)
    BY <1>6 DEF FindTop
  <2> QED  BY <1>6, <2>1, AnswerStep DEF FindTop
<1>7. CASE Book \/ Decide \/ Reschedule \/ Overwrite
  <2>1. PICK what \in {"usual", "undone"} :
          /\ UnderRead(what)
          /\ what = "usual" => Book \/ Decide \/ Reschedule
    BY <1>7 DEF Book, Decide, Reschedule, Overwrite
  <2>2. IsFiniteSet(DOMAIN booked')
    <3>1. CASE Overwrite
      BY <3>1 DEF Overwrite, DashInv
    <3>2. CASE Book
      <4>1. PICK a \in Appts : DOMAIN booked' = DOMAIN booked \cup {a}
        BY <3>2 DEF Book
      <4> QED  BY <4>1, FS_AddElement DEF DashInv
    <3>3. CASE Decide \/ Reschedule
      BY <3>3 DEF Decide, Reschedule, DashInv
    <3> QED  BY <1>7, <3>1, <3>2, <3>3
  <2>3. CASE read = NoRead
    BY <2>1, <2>2, <2>3 DEF UnderRead, DashInv, ReadTypes, Covering
  <2>4. CASE read # NoRead /\ Shown
    <3>1. read' = read
      BY <2>1, <2>4 DEF UnderRead
    <3>2. read.next # 2
      BY <2>4 DEF Shown, Statements
    <3> QED  BY <2>2, <2>4, <3>1, <3>2 DEF DashInv, ReadTypes, Covering
  <2>5. CASE read # NoRead /\ ~ Shown
    <3>1. read' = [read EXCEPT !.meanwhile =
                     IF @ = "undone" \/ what = "undone" THEN "undone" ELSE "usual"]
      BY <2>1, <2>5 DEF UnderRead
    <3>2. /\ DOMAIN read' = DOMAIN read
          /\ \A f \in DOMAIN read : f # "meanwhile" => read'[f] = read[f]
          /\ read'.meanwhile # "undone" => read.meanwhile # "undone" /\ what = "usual"
      BY <2>5, <3>1 DEF DashInv, ReadTypes
    <3>3. read' # NoRead /\ ReadTypes'
      BY <2>5, <3>2 DEF DashInv, ReadTypes, NoRead
    <3>4. ASSUME read'.meanwhile # "undone", read'.next = 2
          PROVE  read'.counts["COMPLETED"] <= Cardinality(Done')
      <4>1. read.meanwhile # "undone" /\ read.next = 2 /\ read'.counts = read.counts
        BY <2>5, <3>2, <3>4 DEF DashInv, ReadTypes
      <4>2. Done \subseteq Done'
        BY <2>1, <2>5, <3>2, <3>4, DoneGrows DEF DashInv, ReadTypes
      <4>3. IsFiniteSet(Done')
        <5>1. Done' \subseteq DOMAIN booked'
          BY DEF Done, Earning, OfStatus, InPeriod, Scoped
        <5> QED  BY <2>2, <5>1, SmallerSubset
      <4>4. /\ Cardinality(Done) \in Nat /\ Cardinality(Done') \in Nat
            /\ Cardinality(Done) <= Cardinality(Done')
        BY <4>2, <4>3, SmallerSubset
      <4>5. read.counts["COMPLETED"] \in Nat /\ read.counts["COMPLETED"] <= Cardinality(Done)
        BY <2>5, <4>1 DEF DashInv, ReadTypes, Covering
      <4> QED  BY <4>1, <4>4, <4>5
    <3>5. read'.meanwhile # "undone" /\ read'.next > 2
            => read'.counts["COMPLETED"] <= read'.revenue.over
      BY <2>5, <3>2 DEF DashInv, ReadTypes, Covering
    <3> QED  BY <2>2, <3>3, <3>4, <3>5 DEF DashInv, Covering
  <2> QED  BY <2>3, <2>4, <2>5
<1>8. CASE UNCHANGED dashVars
  BY <1>8 DEF dashVars, DashInv, ReadTypes, Covering, Done, Earning, OfStatus, InPeriod, Scoped, Within
<1> QED  BY <1>1, <1>2, <1>3, <1>4, <1>5, <1>6, <1>7, <1>8 DEF DashNext

(* However many bookings are made, moved, closed out and cancelled between *)
(* the two statements, the revenue is that of at least as many bookings as *)
(* the answer says are completed.                                          *)
THEOREM RevenueCovers == DashSpec => []RevenueCoversTheCompleted
<1>1. DashInit => DashInv
  BY FS_EmptySet DEF DashInit, DashInv, ReadTypes, Covering
<1>2. DashInv /\ [DashNext]_dashVars => DashInv'
  BY DashStep
<1>3. DashInv => RevenueCoversTheCompleted
  <2> SUFFICES ASSUME DashInv, Shown, read.meanwhile # "undone"
               PROVE  read.revenue.over >= read.counts["COMPLETED"]
    BY DEF RevenueCoversTheCompleted
  <2>1. read # NoRead /\ read.next > 2
    <3>1. Len(Statements) = 5 /\ Statements[1] # "top" /\ Statements[2] # "top"
      BY DEF Statements
    <3> QED  BY <3>1 DEF Shown, DashInv, ReadTypes
  <2> QED  BY <2>1 DEF DashInv, ReadTypes, Covering
<1> QED  BY <1>1, <1>2, <1>3, PTL DEF DashSpec

-----------------------------------------------------------------------------
(* Sums over finite sets *)

(* Induction over the subsets of a finite set, as a fact about a set of    *)
(* them.                                                                   *)
LEMMA ClimbSets ==
  ASSUME NEW A, IsFiniteSet(A), NEW G,
         \A U \in SUBSET A : (\A x \in U : U \ {x} \in G) => U \in G
  PROVE  \A U \in SUBSET A : U \in G
<1> DEFINE n == Cardinality(A)
           K == {k \in 0 .. n : \A U \in SUBSET A : Cardinality(U) = k => U \in G}
<1>1. n \in Nat /\ \A U \in SUBSET A : IsFiniteSet(U) /\ Cardinality(U) \in 0 .. n
  <2>1. n \in Nat
    BY FS_CardinalityType
  <2>2. ASSUME NEW U \in SUBSET A PROVE IsFiniteSet(U) /\ Cardinality(U) \in 0 .. n
    <3>1. IsFiniteSet(U) /\ Cardinality(U) <= n
      BY FS_Subset
    <3>2. Cardinality(U) \in Nat
      BY <3>1, FS_CardinalityType
    <3> HIDE DEF n
    <3> QED BY <2>1, <3>1, <3>2
  <2> QED BY <2>1, <2>2
<1> HIDE DEF n
<1>2. 0 \in K
  <2>1. ASSUME NEW U \in SUBSET A, Cardinality(U) = 0 PROVE U \in G
    <3>1. U = {}
      BY <1>1, <2>1, FS_EmptySet
    <3> QED BY <3>1
  <2> QED BY <1>1, <2>1
<1>3. ASSUME NEW k \in 1 .. n, k - 1 \in K PROVE k \in K
  <2>1. ASSUME NEW U \in SUBSET A, Cardinality(U) = k PROVE U \in G
    <3>1. ASSUME NEW x \in U PROVE U \ {x} \in G
      <4>1. Cardinality(U \ {x}) = k - 1
        BY <1>1, <2>1, FS_RemoveElement
      <4>2. U \ {x} \in SUBSET A
        OBVIOUS
      <4> QED BY <1>3, <4>1, <4>2
    <3> QED BY <3>1
  <2> QED BY <2>1
<1>4. \A k \in 0 .. n : k \in K
  <2> HIDE DEF K
  <2> QED BY <1>1, <1>2, <1>3, Climb
<1>5. ASSUME NEW U \in SUBSET A PROVE U \in G
  <2>1. Cardinality(U) \in K
    BY <1>1, <1>4
  <2> QED BY <2>1
<1> QED BY <1>5

(* MapThenSumSet takes one element after the other: g adds up f over the   *)
(* subsets of A.                                                           *)
Some(T) == CHOOSE x \in T : TRUE
Adds(g, A, f) ==
  \A T \in SUBSET A : g[T] = IF T = {} THEN 0 ELSE f[Some(T)] + g[T \ {Some(T)}]
Weighs(f, A) == \A x \in A : f[x] \in Nat

LEMMA SomeOf == ASSUME NEW T, T # {} PROVE Some(T) \in T
  BY DEF Some

LEMMA AddsExists ==
  ASSUME NEW A, IsFiniteSet(A), NEW f, Weighs(f, A)
  PROVE  \E g \in [SUBSET A -> Nat] : Adds(g, A, f)
<1> DEFINE n == Cardinality(A)
           Upto(k, g) == \A T \in SUBSET A : Cardinality(T) <= k =>
                           g[T] = IF T = {} THEN 0 ELSE f[Some(T)] + g[T \ {Some(T)}]
           Good == {k \in 0 .. n : \E g \in [SUBSET A -> Nat] : Upto(k, g)}
<1>1. n \in Nat /\ \A T \in SUBSET A : Cardinality(T) \in Nat /\ Cardinality(T) <= n
  <2>1. n \in Nat
    BY FS_CardinalityType
  <2>2. ASSUME NEW U \in SUBSET A PROVE Cardinality(U) \in Nat /\ Cardinality(U) <= n
    <3>1. IsFiniteSet(U) /\ Cardinality(U) <= n
      BY FS_Subset
    <3>2. Cardinality(U) \in Nat
      BY <3>1, FS_CardinalityType
    <3> QED BY <3>1, <3>2
  <2> QED BY <2>1, <2>2
<1>f. ASSUME NEW T \in SUBSET A, T # {}
      PROVE  /\ f[Some(T)] \in Nat /\ T \ {Some(T)} \in SUBSET A
             /\ Cardinality(T \ {Some(T)}) = Cardinality(T) - 1
  <2>1. Some(T) \in T
    BY <1>f, SomeOf
  <2>2. IsFiniteSet(T)
    BY FS_Subset
  <2>3. Cardinality(T \ {Some(T)}) = Cardinality(T) - 1
    BY <2>1, <2>2, FS_RemoveElement
  <2>4. Some(T) \in A /\ T \ {Some(T)} \in SUBSET A
    BY <2>1
  <2> QED BY <2>3, <2>4 DEF Weighs
<1> HIDE DEF n
<1>2. 0 \in Good
  <2> DEFINE g == [T \in SUBSET A |-> 0]
  <2>1. g \in [SUBSET A -> Nat]
    OBVIOUS
  <2>2. Upto(0, g)
    <3>1. ASSUME NEW T \in SUBSET A, Cardinality(T) <= 0 PROVE T = {}
      <4>1. IsFiniteSet(T) /\ Cardinality(T) = 0
        BY <1>1, <3>1, FS_Subset
      <4> QED BY <4>1, FS_EmptySet
    <3> QED BY <3>1
  <2>3. 0 \in 0 .. n
    BY <1>1
  <2> HIDE DEF g, Upto
  <2>4. \E h \in [SUBSET A -> Nat] : Upto(0, h)
    BY <2>1, <2>2
  <2> QED BY <2>3, <2>4
<1>3. ASSUME NEW k \in 1 .. n, k - 1 \in Good PROVE k \in Good
  <2>1. PICK h \in [SUBSET A -> Nat] : Upto(k - 1, h)
    BY <1>3
  <2> DEFINE g == [T \in SUBSET A |-> IF T = {} THEN 0 ELSE f[Some(T)] + h[T \ {Some(T)}]]
  <2>2. g \in [SUBSET A -> Nat]
    <3>1. ASSUME NEW T \in SUBSET A PROVE g[T] \in Nat
      <4>1. CASE T = {} BY <4>1
      <4>2. CASE T # {}
        <5>1. f[Some(T)] \in Nat /\ h[T \ {Some(T)}] \in Nat
          BY <4>2, <1>f
        <5>2. g[T] = f[Some(T)] + h[T \ {Some(T)}]
          BY <4>2
        <5> HIDE DEF g
        <5> QED BY <5>1, <5>2
      <4> QED BY <4>1, <4>2
    <3> QED BY <3>1
  <2>3. \A T \in SUBSET A : Cardinality(T) <= k - 1 => g[T] = h[T]
    BY <2>1
  <2>4. ASSUME NEW T \in SUBSET A, Cardinality(T) <= k, T # {}
        PROVE  g[T] = f[Some(T)] + g[T \ {Some(T)}]
    <3> DEFINE U == T \ {Some(T)}
    <3>1. U \in SUBSET A /\ Cardinality(U) <= k - 1
      BY <1>1, <1>f, <2>4
    <3>2. g[T] = f[Some(T)] + h[U]
      BY <2>4
    <3> HIDE DEF U, g
    <3>3. g[U] = h[U]
      BY <3>1, <2>3
    <3>4. g[T] = f[Some(T)] + g[U]
      BY <3>2, <3>3
    <3> QED BY <3>4 DEF U
  <2>5. g[{}] = 0
    OBVIOUS
  <2> HIDE DEF g
  <2>6. Upto(k, g)
    BY <2>4, <2>5
  <2> HIDE DEF Upto
  <2>7. k \in 0 .. n
    OBVIOUS
  <2> QED BY <2>2, <2>6, <2>7
<1>4. n \in Good
  <2>1. \A k \in 0 .. n : k \in Good
    <3> HIDE DEF Good
    <3> QED BY <1>1, <1>2, <1>3, Climb
  <2>2. n \in 0 .. n
    BY <1>1
  <2> HIDE DEF Good
  <2> QED BY <2>1, <2>2
<1>5. PICK g \in [SUBSET A -> Nat] : Upto(n, g)
  BY <1>4
<1>6. Adds(g, A, f)
  BY <1>1, <1>5 DEF Adds
<1> QED BY <1>6

LEMMA AddsAlike ==
  ASSUME NEW A, IsFiniteSet(A), NEW f, NEW g, Adds(g, A, f),
         NEW B \in SUBSET A, NEW h, Adds(h, B, f)
  PROVE  h[B] = g[B]
<1> DEFINE G == {T \in SUBSET B : h[T] = g[T]}
<1>1. ASSUME NEW U \in SUBSET B, \A x \in U : U \ {x} \in G PROVE U \in G
  <2>1. CASE U = {}
    <3>1. h[U] = 0 /\ g[U] = 0
      BY <2>1 DEF Adds
    <3> QED BY <3>1
  <2>2. CASE U # {}
    <3> DEFINE x == Some(U)
               V == U \ {x}
    <3>1. x \in U
      BY <2>2, SomeOf
    <3>2. h[V] = g[V]
      BY <1>1, <3>1
    <3>3. h[U] = f[x] + h[V] /\ g[U] = f[x] + g[V]
      BY <2>2 DEF Adds
    <3> QED BY <3>2, <3>3
  <2> QED BY <2>1, <2>2
<1>2. IsFiniteSet(B)
  BY FS_Subset
<1>3. B \in G
  <2> HIDE DEF G
  <2> QED BY <1>1, <1>2, ClimbSets
<1> QED BY <1>3

(* The sum of f over A, and how it is put together from parts of A.        *)
Total(f, A) == (CHOOSE g \in [SUBSET A -> Nat] : Adds(g, A, f))[A]

LEMMA TotalIs ==
  ASSUME NEW A, IsFiniteSet(A), NEW f, Weighs(f, A), NEW g, Adds(g, A, f)
  PROVE  \A B \in SUBSET A : Total(f, B) = g[B] /\ Total(f, B) \in Nat
<1> SUFFICES ASSUME NEW B \in SUBSET A PROVE Total(f, B) = g[B] /\ Total(f, B) \in Nat
  OBVIOUS
<1> DEFINE h == CHOOSE k \in [SUBSET B -> Nat] : Adds(k, B, f)
<1>1. IsFiniteSet(B) /\ Weighs(f, B)
  BY FS_Subset DEF Weighs
<1>2. h \in [SUBSET B -> Nat] /\ Adds(h, B, f)
  <2>1. \E k \in [SUBSET B -> Nat] : Adds(k, B, f)
    BY <1>1, AddsExists
  <2> QED BY <2>1
<1>3. Total(f, B) = h[B]
  BY DEF Total
<1> HIDE DEF h
<1>4. h[B] = g[B]
  BY <1>2, AddsAlike
<1>5. h[B] \in Nat
  BY <1>2
<1> QED BY <1>3, <1>4, <1>5

LEMMA TotalWithout ==
  ASSUME NEW A, IsFiniteSet(A), NEW f, Weighs(f, A)
  PROVE  /\ Total(f, {}) = 0
         /\ \A B \in SUBSET A : /\ Total(f, B) \in Nat
                                /\ \A x \in B : Total(f, B) = f[x] + Total(f, B \ {x})
<1>1. PICK g \in [SUBSET A -> Nat] : Adds(g, A, f)
  BY AddsExists
<1>2. \A B \in SUBSET A : Total(f, B) = g[B] /\ Total(f, B) \in Nat
  BY <1>1, TotalIs
<1> DEFINE G == {B \in SUBSET A : \A x \in B : g[B] = f[x] + g[B \ {x}]}
<1>3. ASSUME NEW B \in SUBSET A, \A x \in B : B \ {x} \in G PROVE B \in G
  <2>1. ASSUME NEW x \in B PROVE g[B] = f[x] + g[B \ {x}]
    <3> DEFINE c == Some(B)
    <3>1. c \in B /\ g[B] = f[c] + g[B \ {c}]
      BY SomeOf, <1>1 DEF Adds
    <3> HIDE DEF c
    <3>2. CASE x = c
      BY <3>1, <3>2
    <3>3. CASE x # c
      <4> DEFINE V == B \ {c}
                 W == B \ {x}
                 Z == (B \ {c}) \ {x}
      <4>1. V \in G /\ x \in V /\ V \ {x} = Z
        BY <1>3, <3>1, <3>3
      <4>2. W \in G /\ c \in W /\ W \ {c} = Z
        BY <1>3, <3>1, <3>3
      <4>3. g[V] = f[x] + g[Z]
        BY <4>1
      <4>4. g[W] = f[c] + g[Z]
        BY <4>2
      <4>5. f[x] \in Nat /\ f[c] \in Nat /\ Z \in SUBSET A
        BY <3>1 DEF Weighs
      <4>6. g[Z] \in Nat
        BY <4>5, <1>1
      <4>7. g[B] = f[c] + g[V]
        BY <3>1
      <4> HIDE DEF V, W, Z
      <4>8. g[B] = f[x] + g[W]
        BY <4>3, <4>4, <4>5, <4>6, <4>7
      <4> QED BY <4>8 DEF W
    <3> QED BY <3>2, <3>3
  <2> QED BY <2>1
<1>4. \A B \in SUBSET A : B \in G
  <2> HIDE DEF G
  <2> QED BY <1>3, ClimbSets
<1>5. Total(f, {}) = 0
  <2>1. g[{}] = 0
    BY <1>1 DEF Adds
  <2> QED BY <1>2, <2>1
<1>6. ASSUME NEW B \in SUBSET A, NEW x \in B PROVE Total(f, B) = f[x] + Total(f, B \ {x})
  <2>1. g[B] = f[x] + g[B \ {x}]
    BY <1>4
  <2>2. B \ {x} \in SUBSET A
    OBVIOUS
  <2> QED BY <1>2, <2>1, <2>2
<1> QED BY <1>2, <1>5, <1>6

LEMMA TotalOfBoth ==
  ASSUME NEW A, IsFiniteSet(A), NEW f, Weighs(f, A),
         NEW B \in SUBSET A, NEW C \in SUBSET A, B \cap C = {}
  PROVE  Total(f, B \cup C) = Total(f, B) + Total(f, C)
<1>0. \A Y \in SUBSET A : \A z \in Y : Total(f, Y) = f[z] + Total(f, Y \ {z})
  <2>1. \A Y \in SUBSET A : /\ Total(f, Y) \in Nat
                           /\ \A z \in Y : Total(f, Y) = f[z] + Total(f, Y \ {z})
    BY TotalWithout
  <2> QED BY <2>1
<1> DEFINE G == {D \in SUBSET C : Total(f, B \cup D) = Total(f, B) + Total(f, D)}
<1>1. ASSUME NEW D \in SUBSET C, \A x \in D : D \ {x} \in G PROVE D \in G
  <2>1. CASE D = {}
    <3>1. B \cup D = B /\ Total(f, D) = 0 /\ Total(f, B) \in Nat
      BY <2>1, TotalWithout
    <3> QED BY <3>1
  <2>2. CASE D # {}
    <3>1. PICK x \in D : TRUE
      BY <2>2
    <3> DEFINE E == D \ {x}
    <3>2. /\ B \cup D \in SUBSET A /\ x \in B \cup D /\ (B \cup D) \ {x} = B \cup E
          /\ D \in SUBSET A /\ E \in SUBSET A /\ B \cup E \in SUBSET A
      BY <3>1
    <3>3. Total(f, B \cup D) = f[x] + Total(f, B \cup E)
      BY <1>0, <3>1, <3>2
    <3>4. Total(f, D) = f[x] + Total(f, E)
      BY <1>0, <3>1, <3>2
    <3>5. Total(f, B \cup E) = Total(f, B) + Total(f, E)
      BY <1>1
    <3>6. f[x] \in Nat
      BY DEF Weighs
    <3>7. Total(f, B) \in Nat /\ Total(f, E) \in Nat
      BY <3>2, TotalWithout
    <3> HIDE DEF E
    <3>8. Total(f, B \cup D) = Total(f, B) + Total(f, D)
      BY <3>3, <3>4, <3>5, <3>6, <3>7
    <3> QED BY <3>8
  <2> QED BY <2>1, <2>2
<1>2. IsFiniteSet(C)
  BY FS_Subset
<1>3. C \in G
  <2> HIDE DEF G
  <2>1. \A D \in SUBSET C : (\A x \in D : D \ {x} \in G) => D \in G
    BY <1>1
  <2>2. \A D \in SUBSET C : D \in G
    BY <1>2, <2>1, ClimbSets
  <2> QED BY <2>2
<1> QED BY <1>3

LEMMA TotalBounds ==
  ASSUME NEW A, IsFiniteSet(A), NEW f, Weighs(f, A), NEW lo \in Nat, NEW hi \in Nat,
         \A x \in A : lo <= f[x] /\ f[x] <= hi
  PROVE  Cardinality(A) * lo <= Total(f, A) /\ Total(f, A) <= Cardinality(A) * hi
<1> DEFINE Within2(n, t) == n * lo <= t /\ t <= n * hi
           G == {B \in SUBSET A : Within2(Cardinality(B), Total(f, B))}
<1>1. /\ Total(f, {}) = 0
      /\ \A B \in SUBSET A : /\ Total(f, B) \in Nat
                             /\ \A x \in B : Total(f, B) = f[x] + Total(f, B \ {x})
  BY TotalWithout
<1>2. ASSUME NEW n \in Nat, NEW t \in Nat, Within2(n, t), NEW w \in Nat, lo <= w, w <= hi
      PROVE  Within2(n + 1, w + t)
  BY <1>2
<1>3. ASSUME NEW B \in SUBSET A, \A x \in B : B \ {x} \in G PROVE B \in G
  <2>1. CASE B = {}
    <3>1. Within2(0, 0)
      OBVIOUS
    <3>2. Cardinality(B) = 0 /\ Total(f, B) = 0
      BY <2>1, <1>1, FS_EmptySet
    <3> HIDE DEF Within2
    <3> QED BY <3>1, <3>2
  <2>2. CASE B # {}
    <3>1. PICK x \in B : TRUE
      BY <2>2
    <3> DEFINE C == B \ {x}
    <3>2. C \in G /\ IsFiniteSet(B) /\ IsFiniteSet(C) /\ C \in SUBSET A
      BY <1>3, FS_Subset
    <3>3. Cardinality(C) \in Nat /\ Cardinality(B) = Cardinality(C) + 1
      <4>1. Cardinality(C) = Cardinality(B) - 1 /\ Cardinality(B) \in Nat
        BY <3>2, FS_RemoveElement, FS_CardinalityType
      <4>2. Cardinality(C) \in Nat
        BY <3>2, FS_CardinalityType
      <4> HIDE DEF C
      <4> QED BY <4>1, <4>2
    <3>4. Total(f, B) = f[x] + Total(f, C) /\ Total(f, C) \in Nat
      BY <1>1, <3>1, <3>2
    <3>5. f[x] \in Nat /\ lo <= f[x] /\ f[x] <= hi
      BY DEF Weighs
    <3>6. Within2(Cardinality(C), Total(f, C))
      BY <3>2
    <3> HIDE DEF C, Within2
    <3>7. Within2(Cardinality(C) + 1, f[x] + Total(f, C))
      BY <1>2, <3>3, <3>4, <3>5, <3>6
    <3> QED BY <3>3, <3>4, <3>7
  <2> QED BY <2>1, <2>2
<1>4. A \in G
  <2> HIDE DEF G
  <2>1. \A B \in SUBSET A : (\A x \in B : B \ {x} \in G) => B \in G
    BY <1>3
  <2>2. \A B \in SUBSET A : B \in G
    BY <2>1, ClimbSets
  <2> QED BY <2>2
<1> QED BY <1>4

(* The parts of A, told apart by h, add up to A.                           *)
Part(A, h, L) == {a \in A : h[a] \in L}
Sorts(h, A, K) == \A a \in A : h[a] \in K
PartTotals(c, f, A, h, K) == \A k \in K : c[k] = Total(f, Part(A, h, {k}))

LEMMA PartsAddUp ==
  ASSUME NEW A, IsFiniteSet(A), NEW f, Weighs(f, A), NEW K, IsFiniteSet(K), NEW h, NEW c,
         Sorts(h, A, K), PartTotals(c, f, A, h, K)
  PROVE  Weighs(c, K) /\ Total(c, K) = Total(f, A)
<1> USE DEF Sorts, PartTotals
<1>0. \A B \in SUBSET A : Total(f, B) \in Nat
  <2>1. \A B \in SUBSET A : /\ Total(f, B) \in Nat
                            /\ \A x \in B : Total(f, B) = f[x] + Total(f, B \ {x})
    BY TotalWithout
  <2> QED BY <2>1
<1>1. Weighs(c, K)
  <2>1. \A k \in K : Part(A, h, {k}) \in SUBSET A
    BY DEF Part
  <2> QED BY <1>0, <2>1 DEF Weighs
<1>2. /\ Total(c, {}) = 0
      /\ \A L \in SUBSET K : /\ Total(c, L) \in Nat
                             /\ \A x \in L : Total(c, L) = c[x] + Total(c, L \ {x})
  BY <1>1, TotalWithout
<1>e. Total(f, {}) = 0
  BY TotalWithout
<1> DEFINE G == {L \in SUBSET K : Total(c, L) = Total(f, Part(A, h, L))}
<1>3. ASSUME NEW L \in SUBSET K, \A k \in L : L \ {k} \in G PROVE L \in G
  <2>1. CASE L = {}
    <3>1. Part(A, h, L) = {}
      BY <2>1 DEF Part
    <3> QED BY <2>1, <3>1, <1>2, <1>e
  <2>2. CASE L # {}
    <3>1. PICK k \in L : TRUE
      BY <2>2
    <3> DEFINE M == L \ {k}
               P == Part(A, h, M)
               Q == Part(A, h, {k})
    <3>2. P \in SUBSET A /\ Q \in SUBSET A /\ Q \cap P = {} /\ Part(A, h, L) = Q \cup P
      BY <3>1 DEF Part
    <3>3. Total(c, L) = c[k] + Total(c, M)
      BY <1>2, <3>1
    <3>4. Total(c, M) = Total(f, P)
      BY <1>3, <3>1
    <3>5. c[k] = Total(f, Q)
      BY <3>1
    <3> HIDE DEF P, Q, M
    <3>6. Total(f, Q \cup P) = Total(f, Q) + Total(f, P)
      BY <3>2, TotalOfBoth
    <3>7. Total(c, L) = Total(f, Part(A, h, L))
      BY <3>2, <3>3, <3>4, <3>5, <3>6
    <3> QED BY <3>7
  <2> QED BY <2>1, <2>2
<1>4. K \in G
  <2> HIDE DEF G
  <2>1. \A B \in SUBSET K : (\A x \in B : B \ {x} \in G) => B \in G
    BY <1>3
  <2>2. \A B \in SUBSET K : B \in G
    BY <2>1, ClimbSets
  <2> QED BY <2>2
<1>5. Part(A, h, K) = A
  BY DEF Part
<1> QED BY <1>1, <1>4, <1>5

LEMMA TotalOfOnes ==
  ASSUME NEW A, IsFiniteSet(A), NEW f, \A x \in A : f[x] = 1
  PROVE  Weighs(f, A) /\ \A B \in SUBSET A : Total(f, B) = Cardinality(B)
<1>1. Weighs(f, A)
  BY DEF Weighs
<1>2. ASSUME NEW B \in SUBSET A PROVE Total(f, B) = Cardinality(B)
  <2>1. IsFiniteSet(B) /\ Weighs(f, B) /\ Cardinality(B) \in Nat
    BY FS_Subset, FS_CardinalityType, <1>1 DEF Weighs
  <2>2. Total(f, B) \in Nat
    <3>1. \A C \in SUBSET A : /\ Total(f, C) \in Nat
                              /\ \A x \in C : Total(f, C) = f[x] + Total(f, C \ {x})
      BY <1>1, TotalWithout
    <3> QED BY <3>1
  <2>3. \A x \in B : 1 <= f[x] /\ f[x] <= 1
    OBVIOUS
  <2> DEFINE one == 1
  <2>4. one \in Nat /\ \A x \in B : one <= f[x] /\ f[x] <= one
    BY <2>3
  <2> HIDE DEF one
  <2>5. Cardinality(B) * one <= Total(f, B) /\ Total(f, B) <= Cardinality(B) * one
    BY <2>1, <2>4, TotalBounds
  <2> QED BY <2>1, <2>2, <2>5 DEF one
<1> QED BY <1>1, <1>2

(* MapThenSumSet is the total.                                             *)
LEMMA TotalIsTheSum ==
  ASSUME NEW A, IsFiniteSet(A), NEW f, Weighs(f, A)
  PROVE  MapThenSumSet(LAMBDA a : f[a], A) = Total(f, A)
<1> DEFINE Eq(g) == g = [T \in SUBSET A |-> IF T = {} THEN 0
                           ELSE f[CHOOSE x \in T : TRUE] + g[T \ {CHOOSE x \in T : TRUE}]]
           iter == CHOOSE g : Eq(g)
<1>1. PICK g \in [SUBSET A -> Nat] : Adds(g, A, f)
  BY AddsExists
<1>2. Eq(iter)
  <2>1. Eq(g)
    BY <1>1 DEF Adds, Some
  <2> HIDE DEF Eq
  <2> QED BY <2>1
<1>3. Adds(iter, A, f)
  <2> HIDE DEF iter
  <2> QED BY <1>2 DEF Adds, Some
<1>4. MapThenSumSet(LAMBDA a : f[a], A) = iter[A]
  BY DEF MapThenSumSet, MapThenFoldSet
<1> HIDE DEF iter
<1>5. Total(f, A) = iter[A]
  <2>1. \A B \in SUBSET A : Total(f, B) = iter[B] /\ Total(f, B) \in Nat
    BY <1>3, TotalIs
  <2> QED BY <2>1
<1> QED BY <1>4, <1>5

-----------------------------------------------------------------------------
(* What the numbers of a dashboard have to do with each other *)

LEMMA PartOfTotal ==
  ASSUME NEW A, IsFiniteSet(A), NEW f, Weighs(f, A), NEW B \in SUBSET A
  PROVE  Total(f, B) \in Nat /\ Total(f, A) \in Nat /\ Total(f, B) <= Total(f, A)
<1>1. \A C \in SUBSET A : Total(f, C) \in Nat
  <2>1. \A C \in SUBSET A : /\ Total(f, C) \in Nat
                            /\ \A x \in C : Total(f, C) = f[x] + Total(f, C \ {x})
    BY TotalWithout
  <2> QED BY <2>1
<1> DEFINE C == A \ B
<1>2. C \in SUBSET A /\ B \cap C = {} /\ B \cup C = A
  OBVIOUS
<1> HIDE DEF C
<1>3. Total(f, B \cup C) = Total(f, B) + Total(f, C)
  BY <1>2, TotalOfBoth
<1> QED BY <1>1, <1>2, <1>3

LEMMA TakingsIs ==
  ASSUME NEW A, IsFiniteSet(A), \A a \in A : booked[a].price \in Nat,
         NEW f, \A a \in A : f[a] = booked[a].price
  PROVE  Weighs(f, A) /\ \A B \in SUBSET A : Takings(B) = Total(f, B)
<1>1. Weighs(f, A)
  BY DEF Weighs
<1>2. ASSUME NEW B \in SUBSET A PROVE Takings(B) = Total(f, B)
  <2> DEFINE Eq(g) == g = [T \in SUBSET B |-> IF T = {} THEN 0
                             ELSE booked[CHOOSE x \in T : TRUE].price + g[T \ {CHOOSE x \in T : TRUE}]]
             iter == CHOOSE g : Eq(g)
  <2>1. IsFiniteSet(B) /\ Weighs(f, B)
    BY <1>1, FS_Subset DEF Weighs
  <2>2. PICK g \in [SUBSET B -> Nat] : Adds(g, B, f)
    BY <2>1, AddsExists
  <2>3. ASSUME NEW T \in SUBSET B, T # {}
        PROVE  f[Some(T)] = booked[CHOOSE x \in T : TRUE].price
    <3>1. Some(T) \in A
      BY <2>3, SomeOf
    <3> QED BY <3>1 DEF Some
  <2>4. Eq(iter)
    <3>1. Eq(g)
      BY <2>2, <2>3 DEF Adds, Some
    <3> HIDE DEF Eq
    <3> QED BY <3>1
  <2>5. Adds(iter, B, f)
    <3> HIDE DEF iter
    <3> QED BY <2>3, <2>4 DEF Adds, Some
  <2>6. Takings(B) = iter[B]
    BY DEF Takings, MapThenSumSet, MapThenFoldSet
  <2> HIDE DEF iter
  <2>7. \A C \in SUBSET B : Total(f, C) = iter[C] /\ Total(f, C) \in Nat
    BY <2>1, <2>5, TotalIs
  <2> QED BY <2>6, <2>7
<1> QED BY <1>1, <1>2

LEMMA StatusesAddUp ==
  ASSUME NEW P, IsFiniteSet(P), \A a \in P : booked[a].status \in Status,
         NEW c, \A s \in Status : c[s] = Cardinality(OfStatus(P, {s}))
  PROVE  /\ MapThenSumSet(LAMBDA s : c[s], Status) = Cardinality(P)
         /\ Cardinality(P) - c["CANCELLED"] = Cardinality(PopularAmong(P))
<1> DEFINE ones == [a \in P |-> 1]
           h == [a \in P |-> booked[a].status]
<1>1. Weighs(ones, P) /\ \A B \in SUBSET P : Total(ones, B) = Cardinality(B)
  <2>1. \A a \in P : ones[a] = 1
    OBVIOUS
  <2> HIDE DEF ones
  <2> QED BY <2>1, TotalOfOnes
<1>2. IsFiniteSet(Status)
  <2>1. /\ Status = {"PENDING"} \cup ({"CONFIRMED"} \cup ({"COMPLETED"} \cup ({"CANCELLED"} \cup {"NO_SHOW"})))
    BY DEF Status, Active, Terminal
  <2> QED BY <2>1, FS_Singleton, FS_Union
<1>3. PartTotals(c, ones, P, h, Status)
  <2>1. ASSUME NEW s \in Status PROVE c[s] = Total(ones, Part(P, h, {s}))
    <3>1. Part(P, h, {s}) = OfStatus(P, {s}) /\ Part(P, h, {s}) \in SUBSET P
      BY DEF Part, OfStatus
    <3> HIDE DEF ones, h
    <3> QED BY <3>1, <1>1
  <2> QED BY <2>1 DEF PartTotals
<1>4. Sorts(h, P, Status)
  BY DEF Sorts
<1> HIDE DEF ones, h
<1>5. Weighs(c, Status) /\ Total(c, Status) = Total(ones, P)
  BY <1>1, <1>2, <1>3, <1>4, PartsAddUp
<1>6. MapThenSumSet(LAMBDA s : c[s], Status) = Total(c, Status)
  BY <1>2, <1>5, TotalIsTheSum
<1>7. Cardinality(P) - c["CANCELLED"] = Cardinality(PopularAmong(P))
  <2> DEFINE B == PopularAmong(P)
             C == OfStatus(P, {"CANCELLED"})
  <2>1. B \in SUBSET P /\ C \in SUBSET P /\ B \cap C = {} /\ B \cup C = P
    BY DEF PopularAmong, OfStatus
  <2>2. c["CANCELLED"] = Cardinality(C)
    BY DEF Status, Terminal
  <2> HIDE DEF B, C
  <2>3. Total(ones, B \cup C) = Total(ones, B) + Total(ones, C)
    BY <1>1, <2>1, TotalOfBoth
  <2>4. Cardinality(P) = Cardinality(B) + Cardinality(C)
    BY <1>1, <2>1, <2>3
  <2>5. Cardinality(B) \in Nat /\ Cardinality(C) \in Nat
    BY <2>1, FS_Subset, FS_CardinalityType
  <2>6. Cardinality(P) - c["CANCELLED"] = Cardinality(B)
    BY <2>2, <2>4, <2>5
  <2> QED BY <2>6 DEF B
<1> QED BY <1>1, <1>5, <1>6, <1>7

LEMMA PopularShare ==
  ASSUME NEW E, IsFiniteSet(E), IsFiniteSet(Services),
         \A a \in E : booked[a].service \in Services,
         NEW most \in Nat, \A v \in Services : Bookings(E, v) <= most
  PROVE  Cardinality(E) <= Cardinality(Services) * most
<1>f. PICK ones : ones = [a \in E |-> 1]
  OBVIOUS
<1>h. PICK h : h = [a \in E |-> booked[a].service]
  OBVIOUS
<1>c. PICK c : c = [v \in Services |-> Bookings(E, v)]
  OBVIOUS
<1>1. Weighs(ones, E) /\ \A B \in SUBSET E : Total(ones, B) = Cardinality(B)
  <2>1. \A a \in E : ones[a] = 1
    BY <1>f
  <2> QED BY <2>1, TotalOfOnes
<1>2. PartTotals(c, ones, E, h, Services)
  <2>1. ASSUME NEW v \in Services PROVE c[v] = Total(ones, Part(E, h, {v}))
    <3>1. /\ Part(E, h, {v}) = {a \in E : booked[a].service = v}
          /\ Part(E, h, {v}) \in SUBSET E
      BY <1>h DEF Part
    <3>2. c[v] = Cardinality({a \in E : booked[a].service = v})
      BY <1>c DEF Bookings
    <3> QED BY <3>1, <3>2, <1>1
  <2> QED BY <2>1 DEF PartTotals
<1>3. Sorts(h, E, Services)
  BY <1>h DEF Sorts
<1>4. \A v \in Services : c[v] <= most
  BY <1>c
<1>5. Weighs(c, Services) /\ Total(c, Services) = Total(ones, E)
  <2>1. Weighs(ones, E)
    BY <1>1
  <2> QED BY <2>1, <1>2, <1>3, PartsAddUp, SMTT(60)
<1>6. Total(c, Services) <= Cardinality(Services) * most
  <2> DEFINE lo == 0
  <2>1. lo \in Nat /\ \A v \in Services : lo <= c[v] /\ c[v] <= most
    BY <1>4, <1>5 DEF Weighs
  <2> HIDE DEF lo
  <2>2. Cardinality(Services) * lo <= Total(c, Services) /\ Total(c, Services) <= Cardinality(Services) * most
    BY <1>5, <2>1, TotalBounds
  <2> QED BY <2>2
<1> QED BY <1>1, <1>5, <1>6

LEMMA TopShare ==
  ASSUME NEW E, IsFiniteSet(E), IsFiniteSet(Barbers),
         \A a \in E : booked[a].barber \in Barbers /\ booked[a].price \in Nat,
         NEW most \in Nat, \A b \in Barbers : Takings(By(E, b)) <= most
  PROVE  Takings(E) <= Cardinality(Barbers) * most
<1>f. PICK price : price = [a \in E |-> booked[a].price]
  OBVIOUS
<1>h. PICK h : h = [a \in E |-> booked[a].barber]
  OBVIOUS
<1>c. PICK c : c = [b \in Barbers |-> Takings(By(E, b))]
  OBVIOUS
<1>1. Weighs(price, E) /\ \A B \in SUBSET E : Takings(B) = Total(price, B)
  <2>1. \A a \in E : booked[a].price \in Nat /\ price[a] = booked[a].price
    BY <1>f
  <2> QED BY <2>1, TakingsIs
<1>2. PartTotals(c, price, E, h, Barbers)
  <2>1. ASSUME NEW b \in Barbers PROVE c[b] = Total(price, Part(E, h, {b}))
    <3>1. /\ Part(E, h, {b}) = By(E, b)
          /\ Part(E, h, {b}) \in SUBSET E
      BY <1>h DEF Part, By
    <3>2. c[b] = Takings(By(E, b))
      BY <1>c
    <3> QED BY <3>1, <3>2, <1>1
  <2> QED BY <2>1 DEF PartTotals
<1>3. Sorts(h, E, Barbers)
  BY <1>h DEF Sorts
<1>4. \A b \in Barbers : c[b] <= most
  BY <1>c
<1>5. Weighs(c, Barbers) /\ Total(c, Barbers) = Total(price, E)
  <2>1. Weighs(price, E)
    BY <1>1
  <2> QED BY <2>1, <1>2, <1>3, PartsAddUp, SMTT(61)
<1>6. Total(c, Barbers) <= Cardinality(Barbers) * most
  <2> DEFINE lo == 0
  <2>1. lo \in Nat /\ \A b \in Barbers : lo <= c[b] /\ c[b] <= most
    BY <1>4, <1>5 DEF Weighs
  <2> HIDE DEF lo
  <2>2. Cardinality(Barbers) * lo <= Total(c, Barbers) /\ Total(c, Barbers) <= Cardinality(Barbers) * most
    BY <1>5, <2>1, TotalBounds
  <2> QED BY <2>2
<1> QED BY <1>1, <1>5, <1>6

(* The numbers of an answer r, each right about the table as it is.        *)
Meant(r) == Scoped(r.scope, r.period.from, r.period.to)
RightCounts(r) == \A s \in Status : r.counts[s] = Cardinality(OfStatus(Meant(r), {s}))
RightRevenue(r) ==
  /\ r.revenue.sum = Takings(Earning(Meant(r)))
  /\ r.revenue.over = Cardinality(Earning(Meant(r)))
LocalMidnight == Today - (Today % DayLength)
RightToday(r) == r.today = Cardinality(Scoped(r.scope, LocalMidnight, LocalMidnight + DayLength))
RightPopular(r) ==
  \/ PopularAmong(Meant(r)) = {} /\ r.popular.count = 0
  \/ \E v \in Services : /\ r.popular.count = Bookings(PopularAmong(Meant(r)), v)
                         /\ \A w \in Services : Bookings(PopularAmong(Meant(r)), w) <= r.popular.count
RightTop(r) ==
  \/ Earning(Meant(r)) = {} /\ r.top.completed = 0 /\ r.top.sum = 0
  \/ \E b \in Barbers : /\ r.top.sum = Takings(By(Earning(Meant(r)), b))
                        /\ r.top.completed = Cardinality(By(Earning(Meant(r)), b))
                        /\ \A c \in Barbers : Takings(By(Earning(Meant(r)), c)) <= r.top.sum

(* What ReportAddsUp says of an answer.                                    *)
Agrees(r) ==
  LET total     == MapThenSumSet(LAMBDA s : r.counts[s], Status)
      standing  == total - r.counts["CANCELLED"]
      midnight  == Today - (Today % DayLength)
  IN /\ r.revenue.over = r.counts["COMPLETED"]
     /\ r.popular.count <= standing
     /\ standing <= Cardinality(Services) * r.popular.count
     /\ r.scope = Everybody =>
          /\ r.top.completed <= r.counts["COMPLETED"]
          /\ r.top.sum <= r.revenue.sum
          /\ r.revenue.sum <= Cardinality(Barbers) * r.top.sum
     /\ r.period.from <= midnight /\ midnight + DayLength <= r.period.to =>
          r.today <= total

Table ==
  /\ IsFiniteSet(DOMAIN booked)
  /\ \A a \in DOMAIN booked :
       /\ booked[a].barber \in Barbers /\ booked[a].service \in Services
       /\ booked[a].start \in Nat /\ booked[a].price \in Nat
       /\ booked[a].status \in Status

LEMMA PopularAgrees ==
  ASSUME DashboardAssumption, Table, NEW r, RightPopular(r)
  PROVE  /\ r.popular.count <= Cardinality(PopularAmong(Meant(r)))
         /\ Cardinality(PopularAmong(Meant(r))) <= Cardinality(Services) * r.popular.count
<1>1. PICK E : E = PopularAmong(Meant(r))
  OBVIOUS
<1>2. E \subseteq DOMAIN booked
  BY <1>1 DEF PopularAmong, OfStatus, Meant, Scoped
<1>3. IsFiniteSet(E) /\ Cardinality(E) \in Nat
  BY <1>2, FS_Subset, FS_CardinalityType DEF Table
<1>4. IsFiniteSet(Services) /\ Cardinality(Services) \in Nat
  BY FS_CardinalityType DEF DashboardAssumption
<1>5. CASE E = {} /\ r.popular.count = 0
  <2>1. Cardinality(E) = 0
    BY <1>5, FS_EmptySet
  <2> QED BY <1>1, <1>4, <1>5, <2>1
<1>6. ASSUME NEW v \in Services, r.popular.count = Bookings(E, v),
             \A w \in Services : Bookings(E, w) <= r.popular.count
      PROVE  /\ r.popular.count <= Cardinality(E)
             /\ Cardinality(E) <= Cardinality(Services) * r.popular.count
  <2>1. PICK most : most = r.popular.count
    OBVIOUS
  <2>2. most \in Nat /\ most <= Cardinality(E)
    <3>1. {a \in E : booked[a].service = v} \subseteq E
      OBVIOUS
    <3> QED BY <1>3, <1>6, <2>1, <3>1, FS_Subset, FS_CardinalityType DEF Bookings
  <2>3. \A a \in E : booked[a].service \in Services
    BY <1>2 DEF Table
  <2>4. \A w \in Services : Bookings(E, w) <= most
    BY <1>6, <2>1
  <2>5. Cardinality(E) <= Cardinality(Services) * most
    BY <1>3, <1>4, <2>2, <2>3, <2>4, PopularShare
  <2> QED BY <2>1, <2>2, <2>5
<1> QED BY <1>1, <1>5, <1>6 DEF RightPopular

LEMMA TopAgrees ==
  ASSUME DashboardAssumption, Table, NEW r, RightTop(r)
  PROVE  /\ r.top.completed <= Cardinality(Earning(Meant(r)))
         /\ r.top.sum <= Takings(Earning(Meant(r)))
         /\ Takings(Earning(Meant(r))) <= Cardinality(Barbers) * r.top.sum
<1>1. PICK E : E = Earning(Meant(r))
  OBVIOUS
<1>2. E \subseteq DOMAIN booked
  BY <1>1 DEF Earning, OfStatus, Meant, Scoped
<1>3. IsFiniteSet(E) /\ Cardinality(E) \in Nat
  BY <1>2, FS_Subset, FS_CardinalityType DEF Table
<1>4. IsFiniteSet(Barbers) /\ Cardinality(Barbers) \in Nat
  BY FS_CardinalityType DEF DashboardAssumption
<1>5. PICK price : price = [a \in E |-> booked[a].price]
  OBVIOUS
<1>6. \A a \in E : booked[a].barber \in Barbers /\ booked[a].price \in Nat
  BY <1>2 DEF Table
<1>7. Weighs(price, E) /\ \A B \in SUBSET E : Takings(B) = Total(price, B)
  <2>1. \A a \in E : booked[a].price \in Nat
    BY <1>6
  <2>2. \A a \in E : price[a] = booked[a].price
    BY <1>5
  <2> QED BY <1>3, <2>1, <2>2, TakingsIs
<1>8. \A B \in SUBSET E : Takings(B) \in Nat /\ Takings(B) <= Takings(E)
  <2>1. ASSUME NEW B \in SUBSET E PROVE Takings(B) \in Nat /\ Takings(B) <= Takings(E)
    <3>1. Total(price, B) \in Nat /\ Total(price, B) <= Total(price, E)
      BY <1>3, <1>7, PartOfTotal
    <3> QED BY <3>1, <1>7
  <2> QED BY <2>1
<1>9. CASE E = {} /\ r.top.completed = 0 /\ r.top.sum = 0
  <2>1. Cardinality(E) = 0
    BY <1>9, FS_EmptySet
  <2>2. Takings(E) = 0
    <3>1. Total(price, {}) = 0
      <4>1. /\ Total(price, {}) = 0
            /\ \A B \in SUBSET E : /\ Total(price, B) \in Nat
                                   /\ \A x \in B : Total(price, B) = price[x] + Total(price, B \ {x})
        BY <1>3, <1>7, TotalWithout
      <4> QED BY <4>1
    <3> QED BY <3>1, <1>7, <1>9
  <2> QED BY <1>1, <1>4, <1>9, <2>1, <2>2
<1>10. ASSUME NEW b \in Barbers, r.top.sum = Takings(By(E, b)),
              r.top.completed = Cardinality(By(E, b)),
              \A c \in Barbers : Takings(By(E, c)) <= r.top.sum
       PROVE  /\ r.top.completed <= Cardinality(E)
              /\ r.top.sum <= Takings(E)
              /\ Takings(E) <= Cardinality(Barbers) * r.top.sum
  <2>1. PICK most : most = r.top.sum
    OBVIOUS
  <2>2. By(E, b) \in SUBSET E
    BY DEF By
  <2>3. most \in Nat /\ most <= Takings(E)
    BY <1>8, <1>10, <2>1, <2>2
  <2>4. \A c \in Barbers : Takings(By(E, c)) <= most
    BY <1>10, <2>1
  <2>5. Takings(E) <= Cardinality(Barbers) * most
    BY <1>3, <1>4, <1>6, <2>3, <2>4, TopShare
  <2>6. r.top.completed <= Cardinality(E)
    BY <1>3, <1>10, <2>2, FS_Subset
  <2> QED BY <2>1, <2>3, <2>5, <2>6
<1> QED BY <1>1, <1>9, <1>10 DEF RightTop

LEMMA RightIsAgreed ==
  ASSUME DashboardAssumption, Table, NEW r, r.period.from \in Int, r.period.to \in Int,
         RightCounts(r), RightRevenue(r), RightToday(r), RightPopular(r),
         r.scope = Everybody => RightTop(r)
  PROVE  Agrees(r)
<1>1. PICK P : P = Meant(r)
  OBVIOUS
<1>2. P \subseteq DOMAIN booked /\ IsFiniteSet(P) /\ Cardinality(P) \in Nat
  <2>1. P \subseteq DOMAIN booked
    BY <1>1 DEF Meant, Scoped
  <2> QED BY <2>1, FS_Subset, FS_CardinalityType DEF Table
<1>3. PICK c : c = r.counts
  OBVIOUS
<1>4. /\ MapThenSumSet(LAMBDA s : c[s], Status) = Cardinality(P)
      /\ Cardinality(P) - c["CANCELLED"] = Cardinality(PopularAmong(P))
  <2>1. \A a \in P : booked[a].status \in Status
    BY <1>2 DEF Table
  <2>2. \A s \in Status : c[s] = Cardinality(OfStatus(P, {s}))
    BY <1>1, <1>3 DEF RightCounts
  <2> QED BY <1>2, <2>1, <2>2, StatusesAddUp
<1>5. c["COMPLETED"] = Cardinality(Earning(P))
  BY <1>1, <1>3 DEF RightCounts, Earning, Status, Terminal
<1>6. r.revenue.over = c["COMPLETED"] /\ r.revenue.sum = Takings(Earning(P))
  BY <1>1, <1>5 DEF RightRevenue
<1>7. /\ r.popular.count <= Cardinality(PopularAmong(P))
      /\ Cardinality(PopularAmong(P)) <= Cardinality(Services) * r.popular.count
  BY <1>1, PopularAgrees
<1>8. r.scope = Everybody =>
        /\ r.top.completed <= c["COMPLETED"]
        /\ r.top.sum <= r.revenue.sum
        /\ r.revenue.sum <= Cardinality(Barbers) * r.top.sum
  BY <1>1, <1>5, <1>6, TopAgrees
<1>9. ASSUME r.period.from <= LocalMidnight, LocalMidnight + DayLength <= r.period.to
      PROVE  r.today <= Cardinality(P)
  <2>1. PICK T : T = Scoped(r.scope, LocalMidnight, LocalMidnight + DayLength)
    OBVIOUS
  <2>2. T \subseteq P
    <3>1. LocalMidnight \in Int /\ DayLength \in Int
      BY DEF DashboardAssumption, LocalMidnight
    <3>2. ASSUME NEW a \in DOMAIN booked,
                 LocalMidnight <= booked[a].start, booked[a].start < LocalMidnight + DayLength
          PROVE  r.period.from <= booked[a].start /\ booked[a].start < r.period.to
      <4>1. booked[a].start \in Nat
        BY DEF Table
      <4> QED BY <1>9, <3>1, <3>2, <4>1
    <3> QED BY <1>1, <2>1, <3>1, <3>2 DEF Meant, Scoped, Within, Table
  <2>3. Cardinality(T) <= Cardinality(P)
    BY <1>2, <2>2, FS_Subset
  <2> QED BY <2>1, <2>3 DEF RightToday
<1> QED BY <1>1, <1>3, <1>4, <1>6, <1>7, <1>8, <1>9 DEF Agrees, LocalMidnight

(* While nothing changes, each number answered so far is right about the   *)
(* table.                                                                  *)
RightUpTo(r) ==
  /\ r.next > 1 => RightCounts(r)
  /\ r.next > 2 => RightRevenue(r)
  /\ r.next > 3 => RightToday(r)
  /\ r.next > 4 => RightPopular(r)
  /\ r.next > 5 => RightTop(r)

RightSoFar ==
  \A r : r = read /\ read # NoRead /\ ~ Shown /\ read.meanwhile = "nothing" => RightUpTo(r)

ReportTypes ==
  read # NoRead =>
    /\ {"next", "scope", "period", "meanwhile"} \subseteq DOMAIN read
    /\ read.next \in 1 .. 6
    /\ \A i \in 1 .. 5 : i < read.next => Statements[i] \in DOMAIN read
    /\ read.period.from \in Int /\ read.period.to \in Int

ReportInv == Table /\ ReportTypes /\ RightSoFar /\ ReportAddsUp

LEMMA SameTable ==
  ASSUME booked' = booked, NEW r
  PROVE  RightUpTo(r)' <=> RightUpTo(r)
<1>0. ASSUME NEW S PROVE Takings(S)' = Takings(S)
  BY DEF Takings, MapThenSumSet, MapThenFoldSet
<1>1. RightCounts(r)' <=> RightCounts(r)
  BY DEF RightCounts, OfStatus, Meant, Scoped, Within
<1>2. RightRevenue(r)' <=> RightRevenue(r)
  BY DEF RightRevenue, Earning, OfStatus, Meant, Scoped, Within, Takings, MapThenSumSet, MapThenFoldSet
<1>3. RightToday(r)' <=> RightToday(r)
  BY DEF RightToday, Scoped, Within, LocalMidnight
<1>4. RightPopular(r)' <=> RightPopular(r)
  BY DEF RightPopular, PopularAmong, Bookings, OfStatus, Meant, Scoped, Within
<1>5. RightTop(r)' <=> RightTop(r)
  BY DEF RightTop, By, Earning, OfStatus, Meant, Scoped, Within, Takings, MapThenSumSet, MapThenFoldSet
<1> QED BY <1>1, <1>2, <1>3, <1>4, <1>5 DEF RightUpTo

(* The answer to a statement is right when it is given; it completes the   *)
(* report or is one of those that stand so far.                            *)
Right(statement, r) ==
  /\ statement = "counts" => RightCounts(r)
  /\ statement = "revenue" => RightRevenue(r)
  /\ statement = "today" => RightToday(r)
  /\ statement = "popular" => RightPopular(r)
  /\ statement = "top" => RightTop(r)

LEMMA ReportAnswer ==
  ASSUME DashboardAssumption, ReportInv, NEW statement \in {"counts", "revenue", "today", "popular", "top"},
         Turn(statement), NEW value, Answer(statement, value),
         \A r : r = read' => Right(statement, r)
  PROVE  ReportInv'
<1>1. /\ read # NoRead /\ ~ Shown /\ read.next \in 1 .. 5 /\ Statements[read.next] = statement
  <2>1. Len(Statements) = 5
    BY DEF Statements
  <2> QED BY <2>1 DEF Turn, ReportInv, ReportTypes, Shown
<1>2. PICK r : r = read'
  OBVIOUS
<1>3. /\ DOMAIN r = DOMAIN read \cup {statement}
      /\ r.next = read.next + 1
      /\ r.scope = read.scope /\ r.period = read.period /\ r.meanwhile = read.meanwhile
      /\ \A f \in DOMAIN read : f \notin {"next", statement} => r[f] = read[f]
  BY <1>1, <1>2 DEF Answer, ReportInv, ReportTypes
<1>4. UNCHANGED booked
  BY DEF Answer
<1>5. Statements[1] = "counts" /\ Statements[2] = "revenue" /\ Statements[3] = "today"
      /\ Statements[4] = "popular" /\ Statements[5] = "top" /\ Len(Statements) = 5
  BY DEF Statements
<1>6. ReportTypes'
  <2>1. \A i \in 1 .. 5 : i < read.next + 1 => Statements[i] \in DOMAIN r
    BY <1>1, <1>3 DEF ReportInv, ReportTypes
  <2>2. r.next \in 1 .. 6
    BY <1>1, <1>3
  <2>3. Statements' = Statements
    BY DEF Statements
  <2> QED BY <1>1, <1>2, <1>3, <2>1, <2>2, <2>3 DEF ReportInv, ReportTypes
<1>7. Table'
  BY <1>4 DEF ReportInv, Table
<1>8. ASSUME read.meanwhile = "nothing" PROVE RightUpTo(r)
  <2>1. PICK q : q = read
    OBVIOUS
  <2>2. RightUpTo(q)
    BY <1>1, <1>8, <2>1 DEF ReportInv, RightSoFar
  <2>3. /\ r.scope = q.scope /\ r.period = q.period /\ r.next = q.next + 1 /\ q.next \in 1 .. 5
        /\ Statements[q.next] = statement
    BY <1>1, <1>3, <2>1
  <2>4. Meant(r) = Meant(q)
    BY <2>3 DEF Meant
  <2>5. \A i \in 1 .. 5 : i < q.next => r[Statements[i]] = q[Statements[i]]
    <3>1. ASSUME NEW i \in 1 .. 5, i < q.next PROVE r[Statements[i]] = q[Statements[i]]
      <4>1. Statements[i] \in DOMAIN read
        BY <1>1, <2>1, <3>1 DEF ReportInv, ReportTypes
      <4>2. Statements[i] \notin {"next", statement}
        BY <1>5, <2>3, <3>1
      <4> QED BY <4>1, <4>2, <1>3, <2>1
    <3> QED BY <3>1
  <2>6. Right(statement, r)
    BY <1>2
  <2>7. r.next > 1 => RightCounts(r)
    <3>1. CASE q.next = 1
      BY <1>5, <2>3, <2>6, <3>1 DEF Right
    <3>2. CASE q.next > 1
      <4>1. r.counts = q.counts /\ RightCounts(q)
        BY <1>5, <2>2, <2>5, <3>2 DEF RightUpTo
      <4> QED BY <2>4, <4>1 DEF RightCounts
    <3> QED BY <2>3, <3>1, <3>2
  <2>8. r.next > 2 => RightRevenue(r)
    <3>1. CASE q.next = 2
      BY <1>5, <2>3, <2>6, <3>1 DEF Right
    <3>2. CASE q.next > 2
      <4>1. r.revenue = q.revenue /\ RightRevenue(q)
        BY <1>5, <2>2, <2>5, <3>2 DEF RightUpTo
      <4> QED BY <2>4, <4>1 DEF RightRevenue
    <3> QED BY <2>3, <3>1, <3>2
  <2>9. r.next > 3 => RightToday(r)
    <3>1. CASE q.next = 3
      BY <1>5, <2>3, <2>6, <3>1 DEF Right
    <3>2. CASE q.next > 3
      <4>1. r.today = q.today /\ RightToday(q)
        BY <1>5, <2>2, <2>5, <3>2 DEF RightUpTo
      <4> QED BY <2>3, <4>1 DEF RightToday
    <3> QED BY <2>3, <3>1, <3>2
  <2>10. r.next > 4 => RightPopular(r)
    <3>1. CASE q.next = 4
      BY <1>5, <2>3, <2>6, <3>1 DEF Right
    <3>2. CASE q.next > 4
      <4>1. r.popular = q.popular /\ RightPopular(q)
        BY <1>5, <2>2, <2>5, <3>2 DEF RightUpTo
      <4> QED BY <2>4, <4>1 DEF RightPopular
    <3> QED BY <2>3, <3>1, <3>2
  <2>11. r.next > 5 => RightTop(r)
    BY <1>5, <2>3, <2>6 DEF Right
  <2> QED BY <2>7, <2>8, <2>9, <2>10, <2>11 DEF RightUpTo
<1>9. RightSoFar'
  <2> SUFFICES ASSUME read'.meanwhile = "nothing" PROVE RightUpTo(r)'
    BY <1>2 DEF RightSoFar
  <2>1. RightUpTo(r)
    BY <1>2, <1>3, <1>8
  <2> QED BY <1>4, <2>1, SameTable
<1>10. ReportAddsUp'
  <2> SUFFICES ASSUME Shown', read'.meanwhile = "nothing" PROVE Agrees(r)
    BY <1>2 DEF ReportAddsUp, Agrees, MapThenSumSet, MapThenFoldSet
  <2>1. RightUpTo(r)
    BY <1>2, <1>3, <1>8
  <2>2. r.next = 6 \/ (r.scope # Everybody /\ r.next = 5)
    <3>1. r.next \in 1 .. 6
      BY <1>1, <1>3
    <3> QED BY <1>2, <1>5, <3>1 DEF Shown, Statements
  <2>3. RightCounts(r) /\ RightRevenue(r) /\ RightToday(r) /\ RightPopular(r)
    BY <2>1, <2>2 DEF RightUpTo
  <2>4. r.scope = Everybody => RightTop(r)
    BY <2>1, <2>2 DEF RightUpTo
  <2>5. r.period.from \in Int /\ r.period.to \in Int
    BY <1>1, <1>3 DEF ReportInv, ReportTypes
  <2> QED BY <2>3, <2>4, <2>5, RightIsAgreed DEF ReportInv
<1> QED BY <1>6, <1>7, <1>9, <1>10 DEF ReportInv

LEMMA ReportStatement ==
  ASSUME DashboardAssumption, ReportInv,
         CountStatuses \/ SumRevenue \/ CountToday \/ FindPopular \/ FindTop
  PROVE  ReportInv'
<1>0. ASSUME NEW statement, NEW value, Turn(statement), Answer(statement, value),
             statement \notin {"next", "scope", "period", "meanwhile"}, NEW r, r = read'
      PROVE  r[statement] = value /\ r.scope = read.scope /\ Meant(r) = InPeriod
  <2>1. {"next", "scope", "period", "meanwhile"} \subseteq DOMAIN read
    BY <1>0 DEF Turn, ReportInv, ReportTypes
  <2>2. r[statement] = value /\ r.scope = read.scope /\ r.period = read.period
    BY <1>0, <2>1 DEF Answer
  <2> QED BY <2>2 DEF Meant, InPeriod
<1>1. CASE CountStatuses
  <2>1. PICK value : /\ Answer("counts", value)
                     /\ value = [s \in Status |-> Cardinality(OfStatus(InPeriod, {s}))]
    BY <1>1 DEF CountStatuses
  <2>2. Turn("counts")
    BY <1>1 DEF CountStatuses
  <2>3. ASSUME NEW r, r = read' PROVE Right("counts", r)
    <3>1. r.counts = value /\ Meant(r) = InPeriod
      BY <1>0, <2>1, <2>2, <2>3
    <3> QED BY <2>1, <3>1 DEF Right, RightCounts
  <2> QED BY <2>1, <2>2, <2>3, ReportAnswer
<1>2. CASE SumRevenue
  <2>1. PICK value : /\ Answer("revenue", value)
                     /\ value = [sum |-> Takings(Earning(InPeriod)), over |-> Cardinality(Earning(InPeriod))]
    BY <1>2 DEF SumRevenue
  <2>2. Turn("revenue")
    BY <1>2 DEF SumRevenue
  <2>3. ASSUME NEW r, r = read' PROVE Right("revenue", r)
    <3>1. r.revenue = value /\ Meant(r) = InPeriod
      BY <1>0, <2>1, <2>2, <2>3
    <3> QED BY <2>1, <3>1 DEF Right, RightRevenue
  <2> QED BY <2>1, <2>2, <2>3, ReportAnswer
<1>3. CASE CountToday
  <2>1. PICK value : /\ Answer("today", value)
                     /\ value = Cardinality(Scoped(read.scope, LocalMidnight, LocalMidnight + DayLength))
    BY <1>3 DEF CountToday, LocalMidnight
  <2>2. Turn("today")
    BY <1>3 DEF CountToday
  <2>3. ASSUME NEW r, r = read' PROVE Right("today", r)
    <3>1. r.today = value /\ r.scope = read.scope
      BY <1>0, <2>1, <2>2, <2>3
    <3> QED BY <2>1, <3>1 DEF Right, RightToday
  <2> QED BY <2>1, <2>2, <2>3, ReportAnswer
<1>4. CASE FindPopular
  <2>1. PICK E : E = PopularAmong(InPeriod)
    OBVIOUS
  <2>2. PICK value :
          /\ Answer("popular", value)
          /\ \/ E = {} /\ value.count = 0
             \/ \E v \in Services : value.count = Bookings(E, v)
                                    /\ \A w \in Services : Bookings(E, w) <= Bookings(E, v)
    <3>1. \/ E = {} /\ Answer("popular", [service |-> Nothing, count |-> 0])
          \/ \E v \in Services : /\ \A w \in Services : Bookings(E, w) <= Bookings(E, v)
                                 /\ Answer("popular", [service |-> v, count |-> Bookings(E, v)])
      BY <1>4, <2>1 DEF FindPopular
    <3>2. CASE E = {} /\ Answer("popular", [service |-> Nothing, count |-> 0])
      <4>1. PICK none : none = [service |-> Nothing, count |-> 0]
        OBVIOUS
      <4> QED BY <3>2, <4>1
    <3>3. ASSUME NEW v \in Services, \A w \in Services : Bookings(E, w) <= Bookings(E, v),
                 Answer("popular", [service |-> v, count |-> Bookings(E, v)])
          PROVE  \E value :
                   /\ Answer("popular", value) /\ value.count = Bookings(E, v)
      <4>1. PICK most : most = [service |-> v, count |-> Bookings(E, v)]
        OBVIOUS
      <4> QED BY <3>3, <4>1
    <3> QED BY <3>1, <3>2, <3>3
  <2>3. Turn("popular")
    BY <1>4 DEF FindPopular
  <2>4. ASSUME NEW r, r = read' PROVE Right("popular", r)
    <3>1. r.popular = value /\ Meant(r) = InPeriod
      BY <1>0, <2>2, <2>3, <2>4
    <3> QED BY <2>1, <2>2, <3>1 DEF Right, RightPopular
  <2> QED BY <2>2, <2>3, <2>4, ReportAnswer
<1>5. CASE FindTop
  <2>1. PICK E : E = Earning(InPeriod)
    OBVIOUS
  <2>2. PICK value :
          /\ Answer("top", value)
          /\ \/ E = {} /\ value.completed = 0 /\ value.sum = 0
             \/ \E b \in Barbers : /\ value.sum = Takings(By(E, b))
                                   /\ value.completed = Cardinality(By(E, b))
                                   /\ \A c \in Barbers : Takings(By(E, c)) <= Takings(By(E, b))
    <3>1. \/ E = {} /\ Answer("top", [barber |-> Nothing, completed |-> 0, sum |-> 0])
          \/ \E b \in Barbers : /\ \A c \in Barbers : Takings(By(E, c)) <= Takings(By(E, b))
                                /\ Answer("top", [barber |-> b, sum |-> Takings(By(E, b)),
                                                  completed |-> Cardinality(By(E, b))])
      BY <1>5, <2>1 DEF FindTop
    <3>2. CASE E = {} /\ Answer("top", [barber |-> Nothing, completed |-> 0, sum |-> 0])
      <4>1. PICK none : none = [barber |-> Nothing, completed |-> 0, sum |-> 0]
        OBVIOUS
      <4> QED BY <3>2, <4>1
    <3>3. ASSUME NEW b \in Barbers, \A c \in Barbers : Takings(By(E, c)) <= Takings(By(E, b)),
                 Answer("top", [barber |-> b, sum |-> Takings(By(E, b)),
                                completed |-> Cardinality(By(E, b))])
          PROVE  \E value :
                   /\ Answer("top", value) /\ value.sum = Takings(By(E, b))
                   /\ value.completed = Cardinality(By(E, b))
      <4>1. PICK most : most = [barber |-> b, sum |-> Takings(By(E, b)),
                                completed |-> Cardinality(By(E, b))]
        OBVIOUS
      <4> QED BY <3>3, <4>1
    <3> QED BY <3>1, <3>2, <3>3
  <2>3. Turn("top")
    BY <1>5 DEF FindTop
  <2>4. ASSUME NEW r, r = read' PROVE Right("top", r)
    <3>1. r.top = value /\ Meant(r) = InPeriod
      BY <1>0, <2>2, <2>3, <2>4
    <3> QED BY <2>1, <2>2, <3>1 DEF Right, RightTop
  <2> QED BY <2>2, <2>3, <2>4, ReportAnswer
<1> QED BY <1>1, <1>2, <1>3, <1>4, <1>5

LEMMA TableStep ==
  ASSUME DashboardAssumption, Table, Book \/ Decide \/ Reschedule \/ Overwrite
  PROVE  Table'
<1>1. CASE Book
  <2>1. PICK a \in Appts \ DOMAIN booked, b \in Barbers, v \in Services,
             t \in Starts, p \in Prices, s \in Active :
          booked' = [x \in DOMAIN booked \cup {a} |->
                       IF x = a THEN [barber |-> b, service |-> v, start |-> t,
                                      price |-> p, status |-> s]
                       ELSE booked[x]]
    BY <1>1 DEF Book
  <2>2. /\ DOMAIN booked' = DOMAIN booked \cup {a}
        /\ \A x \in DOMAIN booked : booked'[x] = booked[x]
        /\ booked'[a] = [barber |-> b, service |-> v, start |-> t, price |-> p, status |-> s]
    BY <2>1
  <2>3. IsFiniteSet(DOMAIN booked')
    BY <2>2, FS_AddElement DEF Table
  <2>4. t \in Nat /\ p \in Nat /\ s \in Status
    BY DEF DashboardAssumption, Status
  <2> QED BY <2>2, <2>3, <2>4 DEF Table
<1>2. CASE Decide
  <2>1. PICK a \in DOMAIN booked, s \in Status \ {"PENDING"} :
          booked' = [booked EXCEPT ![a].status = s]
    BY <1>2 DEF Decide
  <2> QED BY <2>1 DEF Table
<1>3. CASE Reschedule
  <2>1. PICK a \in DOMAIN booked, t \in Starts : booked' = [booked EXCEPT ![a].start = t]
    BY <1>3 DEF Reschedule
  <2>2. t \in Nat
    BY DEF DashboardAssumption
  <2> QED BY <2>1, <2>2 DEF Table
<1>4. CASE Overwrite
  <2>1. PICK a \in DOMAIN booked, s \in Status \ {"PENDING"}, t \in Starts :
          /\ booked[a].status \in Terminal
          /\ (s = booked[a].status) # (t = booked[a].start)
          /\ booked' = [booked EXCEPT ![a].status = s, ![a].start = t]
    BY <1>4, ZenonT(30) DEF Overwrite
  <2>2. t \in Nat
    BY DEF DashboardAssumption
  <2> QED BY <2>1, <2>2 DEF Table
<1> QED BY <1>1, <1>2, <1>3, <1>4

LEMMA ReportStep ==
  ASSUME DashboardAssumption, ReportInv, [DashNext]_dashVars
  PROVE  ReportInv'
<1>1. CASE Open
  <2>1. PICK asked \in Periods, scope \in Barbers \cup {Everybody} :
          read' = [next |-> 1, scope |-> scope, period |-> Resolve(asked, Today),
                   meanwhile |-> "nothing"]
    BY <1>1 DEF Open
  <2>2. UNCHANGED booked
    BY <1>1 DEF Open
  <2>3. /\ Resolve(asked, Today).from \in Int /\ Resolve(asked, Today).to \in Int
    <3>1. asked.from \in Nat \cup {Nothing} /\ asked.to \in Nat \cup {Nothing}
      BY DEF DashboardAssumption
    <3>2. MonthStart(Today) \in Int /\ MonthLength \in Int
      BY DEF DashboardAssumption, MonthStart
    <3> HIDE DEF MonthStart
    <3> QED BY <3>1, <3>2 DEF Resolve
  <2>4. read'.next = 1 /\ read'.period = Resolve(asked, Today)
        /\ DOMAIN read' = {"next", "scope", "period", "meanwhile"}
    BY <2>1
  <2>5. Table' /\ ReportTypes'
    BY <2>2, <2>3, <2>4 DEF ReportInv, Table, ReportTypes
  <2>6. ~ Shown'
    BY <2>4 DEF Shown, Statements
  <2>7. RightSoFar'
    BY <2>4 DEF RightSoFar, RightUpTo
  <2> QED BY <2>5, <2>6, <2>7 DEF ReportInv, ReportAddsUp
<1>2. CASE CountStatuses \/ SumRevenue \/ CountToday \/ FindPopular \/ FindTop
  BY <1>2, ReportStatement
<1>3. CASE Book \/ Decide \/ Reschedule \/ Overwrite
  <2>1. PICK what : UnderRead(what)
    BY <1>3 DEF Book, Decide, Reschedule, Overwrite
  <2>2. Table'
    BY <1>3, TableStep DEF ReportInv
  <2>3. CASE read = NoRead \/ Shown
    <3>1. read' = read
      BY <2>1, <2>3 DEF UnderRead
    <3>2. (Shown' <=> Shown) /\ (read' = NoRead \/ Shown')
      BY <2>3, <3>1 DEF Shown, Statements
    <3>3. ReportTypes'
      BY <3>1 DEF ReportInv, ReportTypes, Statements
    <3>4. RightSoFar'
      BY <3>2 DEF RightSoFar
    <3>5. ReportAddsUp'
      BY <3>1, <3>2 DEF ReportInv, ReportAddsUp, MapThenSumSet, MapThenFoldSet
    <3> QED BY <2>2, <3>3, <3>4, <3>5 DEF ReportInv
  <2>4. CASE read # NoRead /\ ~ Shown
    <3>1. read' = [read EXCEPT !.meanwhile =
                     IF @ = "undone" \/ what = "undone" THEN "undone" ELSE "usual"]
      BY <2>1, <2>4 DEF UnderRead
    <3>2. /\ DOMAIN read' = DOMAIN read /\ read'.meanwhile # "nothing"
          /\ \A f \in DOMAIN read : f # "meanwhile" => read'[f] = read[f]
      BY <2>4, <3>1 DEF ReportInv, ReportTypes
    <3>3. ReportTypes'
      BY <2>4, <3>2 DEF ReportInv, ReportTypes, Statements
    <3> QED BY <2>2, <3>2, <3>3 DEF ReportInv, RightSoFar, ReportAddsUp
  <2> QED BY <2>3, <2>4
<1>4. CASE UNCHANGED dashVars
  <2>1. booked' = booked /\ read' = read
    BY <1>4 DEF dashVars
  <2>2. Table' /\ ReportTypes'
    BY <2>1 DEF ReportInv, Table, ReportTypes, Statements
  <2>3. Shown' <=> Shown
    BY <2>1 DEF Shown, Statements
  <2>4. RightSoFar'
    BY <2>1, <2>3, SameTable DEF ReportInv, RightSoFar
  <2>5. ReportAddsUp'
    BY <2>1, <2>3 DEF ReportInv, ReportAddsUp, MapThenSumSet, MapThenFoldSet
  <2> QED BY <2>2, <2>4, <2>5 DEF ReportInv
<1> QED BY <1>1, <1>2, <1>3, <1>4 DEF DashNext

(* The numbers of a dashboard that is read while nothing changes agree     *)
(* with each other, for any bookings, prices, services and barbers: each   *)
(* statement looks at the same rows under conditions of its own, and these *)
(* conditions part the bookings the way the answer presents them.          *)
THEOREM ReportsAddUp == DashSpec => []ReportAddsUp
<1>1. DashInit => ReportInv
  BY FS_EmptySet DEF DashInit, ReportInv, Table, ReportTypes, RightSoFar, ReportAddsUp, Shown
<1>2. ReportInv /\ [DashNext]_dashVars => ReportInv'
  BY DashboardAssumption, ReportStep
<1>3. ReportInv => ReportAddsUp
  BY DEF ReportInv
<1> QED BY <1>1, <1>2, <1>3, PTL DEF DashSpec

-----------------------------------------------------------------------------
(* The order of a list *)

Walking == [at : {"count", "fetch", "over"}, page : Nat \ {0}, limit : Limits, total : Nat,
            got : Seq(Rows), all : SUBSET Rows, meanwhile : {"nothing", "added", "other"}]

ListTypes ==
  /\ DOMAIN list \subseteq Rows /\ IsFiniteSet(DOMAIN list)
  /\ list \in [DOMAIN list -> [key : Keys, shown : BOOLEAN]]
  /\ walk \in Walking \cup {NoWalk}

(* The place of row x in the answer: how many rows do not come after it.   *)
UpTo(x) == {y \in Matching : Before(y, x)}
Rank(x) == Cardinality(UpTo(x))

LEMMA MatchingIsFinite ==
  ASSUME ListTypes
  PROVE  /\ Matching \subseteq Rows /\ IsFiniteSet(Matching)
         /\ Cardinality(Matching) \in Nat
         /\ \A x : IsFiniteSet(UpTo(x)) /\ Rank(x) \in Nat /\ Rank(x) <= Cardinality(Matching)
<1>1. Matching \subseteq DOMAIN list
  BY DEF Matching
<1>2. IsFiniteSet(Matching) /\ Cardinality(Matching) \in Nat
  BY <1>1, SmallerSubset DEF ListTypes
<1>3. \A x : UpTo(x) \subseteq Matching
  BY DEF UpTo
<1>4. \A x : IsFiniteSet(UpTo(x)) /\ Rank(x) \in Nat /\ Rank(x) <= Cardinality(Matching)
  BY <1>2, <1>3, SmallerSubset DEF Rank
<1> QED  BY <1>1, <1>2, <1>4 DEF ListTypes

(* Two rows that tie on the key are told apart by their ids.               *)
LEMMA OrderIsStrict ==
  ASSUME ListTypes, NEW x \in Matching, NEW y \in Matching
  PROVE  /\ Before(x, x)
         /\ Before(x, y) /\ Before(y, x) => x = y
<1>1. x \in Rows /\ y \in Rows /\ list[x].key \in Nat /\ list[y].key \in Nat
  BY ListingAssumption DEF ListTypes, Matching
<1>2. IdOrder[x] \in Nat /\ IdOrder[y] \in Nat /\ (IdOrder[x] = IdOrder[y] => x = y)
  BY <1>1, ListingAssumption
<1> QED  BY <1>1, <1>2 DEF Before

(* An ordered answer is an enumeration of what matches, ...                *)
LEMMA AnswerEnumerates ==
  ASSUME ListTypes, NEW s \in Sorted
  PROVE  /\ s \in Seq(Matching) /\ Len(s) = Cardinality(Matching)
         /\ \A i, j \in 1 .. Len(s) : i # j => s[i] # s[j]
         /\ \A x \in Matching : \E i \in 1 .. Len(s) : s[i] = x
<1> DEFINE n == Cardinality(Matching)
<1>1. n \in Nat /\ IsFiniteSet(Matching)
  BY MatchingIsFinite
<1>2. s \in [1 .. n -> Matching] /\ \A i, j \in 1 .. n : i # j => s[i] # s[j]
  BY DEF Sorted, SetToSeqs
<1>3. s \in Seq(Matching) /\ Len(s) = n
  BY <1>1, <1>2
<1>4. s \in Injection(1 .. n, Matching)
  BY <1>2 DEF Injection, IsInjective
<1>5. IsFiniteSet(1 .. n) /\ Cardinality(1 .. n) = n
  BY <1>1, FS_Interval
<1>6. s \in Surjection(1 .. n, Matching)
  BY <1>1, <1>4, <1>5, FS_Injection
<1> QED  BY <1>2, <1>3, <1>6 DEF Surjection

(* ... with every row at its place.                                        *)
LEMMA RankIsPlace ==
  ASSUME ListTypes, NEW s \in Sorted, NEW i \in 1 .. Len(s)
  PROVE  Rank(s[i]) = i
<1>1. /\ s \in Seq(Matching)
      /\ \A j, k \in 1 .. Len(s) : j # k => s[j] # s[k]
      /\ \A x \in Matching : \E j \in 1 .. Len(s) : s[j] = x
  BY AnswerEnumerates
<1>2. \A j, k \in 1 .. Len(s) : j < k => Before(s[j], s[k])
  <2>1. \A j, k \in DOMAIN s : j < k => Before(s[j], s[k])
    BY Zenon DEF Sorted
  <2>2. DOMAIN s = 1 .. Len(s)
    BY <1>1
  <2> QED  BY <2>1, <2>2
<1>3. \A j \in 1 .. Len(s) : s[j] \in Matching
  BY <1>1
<1> DEFINE f == [j \in 1 .. i |-> s[j]]
<1>4. \A j \in 1 .. i : j \in 1 .. Len(s) /\ s[j] \in UpTo(s[i])
  <2> SUFFICES ASSUME NEW j \in 1 .. i
               PROVE  j \in 1 .. Len(s) /\ s[j] \in UpTo(s[i])
    OBVIOUS
  <2>1. j \in 1 .. Len(s) /\ (j < i \/ j = i)
    BY <1>1
  <2> QED  BY <1>2, <1>3, <2>1, OrderIsStrict DEF UpTo
<1>5. \A x \in UpTo(s[i]) : \E j \in 1 .. i : s[j] = x
  <2> SUFFICES ASSUME NEW x \in UpTo(s[i])
               PROVE  \E j \in 1 .. i : s[j] = x
    OBVIOUS
  <2>1. PICK j \in 1 .. Len(s) : s[j] = x
    BY <1>1 DEF UpTo
  <2>2. CASE i < j
    <3>1. Before(s[i], s[j]) /\ Before(s[j], s[i])
      BY <1>2, <2>1, <2>2 DEF UpTo
    <3>2. s[i] = s[j]
      BY <1>3, <3>1, OrderIsStrict
    <3>3. i # j
      BY <1>1, <2>2
    <3> QED  BY <1>1, <3>2, <3>3
  <2> QED  BY <1>1, <2>1, <2>2
<1>6. f \in Injection(1 .. i, UpTo(s[i]))
  BY <1>1, <1>4 DEF Injection, IsInjective
<1>7. f \in Surjection(1 .. i, UpTo(s[i]))
  BY <1>4, <1>5 DEF Surjection
<1>8. ExistsBijection(1 .. i, UpTo(s[i]))
  BY <1>6, <1>7 DEF ExistsBijection, Bijection
<1>9. IsFiniteSet(1 .. i) /\ Cardinality(1 .. i) = i
  BY <1>1, FS_Interval
<1> QED  BY <1>8, <1>9, FS_Bijection DEF Rank

-----------------------------------------------------------------------------
(* Pages *)

(* The last page is the first one behind which nothing is left.            *)
LEMMA PagesCover ==
  ASSUME NEW total \in Nat, NEW limit \in Nat \ {0}, NEW page \in Nat \ {0}
  PROVE  /\ Offset(page, limit) \in Nat /\ Offset(1, limit) = 0
         /\ Offset(page + 1, limit) = Offset(page, limit) + limit
         /\ page >= Pages(total, limit) <=> total <= Offset(page + 1, limit)
<1>1. Offset(page, limit) \in Nat /\ Offset(1, limit) = 0
  BY DEF Offset
<1>2. Offset(page + 1, limit) = page * limit
  BY DEF Offset
<1>3. page * limit = (page - 1) * limit + limit
  OBVIOUS
<1> DEFINE q == Pages(total, limit)
<1>4. q \in Nat /\ q * limit <= total + limit - 1 /\ total + limit - 1 < (q + 1) * limit
  BY DEF Pages
<1>5. CASE page >= q
  <2>1. page * limit >= q * limit
    BY <1>4, <1>5
  <2>2. (q + 1) * limit = q * limit + limit
    BY <1>4
  <2> QED  BY <1>1, <1>2, <1>3, <1>4, <1>5, <2>1, <2>2 DEF Offset
<1>6. CASE page < q
  <2>1. (page + 1) * limit <= q * limit
    BY <1>4, <1>6
  <2>2. (page + 1) * limit = page * limit + limit
    OBVIOUS
  <2> QED  BY <1>1, <1>2, <1>3, <1>4, <1>6, <2>1, <2>2 DEF Offset
<1> QED  BY <1>4, <1>5, <1>6

-----------------------------------------------------------------------------
(* A walk *)

(* The rows a client still has to be shown come after those of the pages   *)
(* fetched; while nothing changes, these pages were full and showed        *)
(* nothing else.                                                           *)
Promise ==
  walk \in Walking /\ walk.at \in {"count", "fetch"} /\ walk.meanwhile # "other" =>
    /\ walk.all \subseteq Matching
    /\ \A x \in walk.all \ ToSet(walk.got) : Rank(x) > Offset(walk.page, walk.limit)
    /\ walk.at = "fetch" => walk.total = Cardinality(Matching)
    /\ walk.meanwhile = "nothing" =>
         /\ walk.all = Matching
         /\ ToSet(walk.got) \subseteq walk.all
         /\ Len(walk.got) = Offset(walk.page, walk.limit)
         /\ Offset(walk.page, walk.limit) <= Cardinality(Matching)

WalkInv == ListTypes /\ Promise /\ WalkFindsEachRow

LEMMA WalkOrNone ==
  ASSUME ListTypes
  PROVE  walk # NoWalk <=> walk \in Walking
BY DEF ListTypes, Walking, NoWalk

LEMMA ElementsOfConcat ==
  ASSUME NEW S, NEW s \in Seq(S), NEW u \in Seq(S)
  PROVE  s \o u \in Seq(S) /\ Len(s \o u) = Len(s) + Len(u) /\ ToSet(s \o u) = ToSet(s) \cup ToSet(u)
<1>1. s \o u \in Seq(S) /\ Len(s \o u) = Len(s) + Len(u)
  OBVIOUS
<1>2. \A i \in 1 .. Len(s) + Len(u) :
        (s \o u)[i] = IF i <= Len(s) THEN s[i] ELSE u[i - Len(s)]
  OBVIOUS
<1>3. \A i \in 1 .. Len(u) : i + Len(s) \in 1 .. Len(s) + Len(u) /\ (s \o u)[i + Len(s)] = u[i]
  BY <1>2
<1>4. \A i \in 1 .. Len(s) : i \in 1 .. Len(s) + Len(u) /\ (s \o u)[i] = s[i]
  BY <1>2
<1>5. ToSet(s \o u) \subseteq ToSet(s) \cup ToSet(u)
  BY <1>1, <1>2 DEF ToSet
<1>6. DOMAIN (s \o u) = 1 .. Len(s) + Len(u) /\ DOMAIN s = 1 .. Len(s) /\ DOMAIN u = 1 .. Len(u)
  BY <1>1
<1>7. ToSet(s) \subseteq ToSet(s \o u)
  BY <1>4, <1>6 DEF ToSet
<1>8. ToSet(u) \subseteq ToSet(s \o u)
  <2> SUFFICES ASSUME NEW i \in 1 .. Len(u)
               PROVE  \E j \in 1 .. Len(s) + Len(u) : u[i] = (s \o u)[j]
    BY <1>6 DEF ToSet
  <2>1. i + Len(s) \in 1 .. Len(s) + Len(u) /\ u[i] = (s \o u)[i + Len(s)]
    BY <1>3
  <2> QED  BY <2>1
<1> QED  BY <1>1, <1>5, <1>7, <1>8

(* The page that FetchPage cuts out of an ordered answer.                  *)
CutPage(s, from, limit) ==
  SubSeq(s, from + 1, IF from + limit < Len(s) THEN from + limit ELSE Len(s))

LEMMA PageHolds ==
  ASSUME ListTypes, NEW s \in Sorted, NEW from \in Nat, NEW limit \in Nat \ {0}
  PROVE  /\ CutPage(s, from, limit) \in Seq(Matching)
         /\ \A x \in Matching :
              Rank(x) > from /\ Rank(x) <= from + limit => x \in ToSet(CutPage(s, from, limit))
         /\ from + limit < Cardinality(Matching) => Len(CutPage(s, from, limit)) = limit
         /\ from <= Cardinality(Matching) /\ Cardinality(Matching) <= from + limit
              => Len(CutPage(s, from, limit)) = Cardinality(Matching) - from
<1> DEFINE page == CutPage(s, from, limit)
           n    == Cardinality(Matching)
           to   == IF from + limit < n THEN from + limit ELSE n
<1>1. /\ s \in Seq(Matching) /\ Len(s) = n /\ n \in Nat
      /\ \A x \in Matching : \E i \in 1 .. Len(s) : s[i] = x
  BY AnswerEnumerates, MatchingIsFinite
<1>2. page = SubSeq(s, from + 1, to) /\ to \in Nat /\ to <= n /\ to <= from + limit
  BY <1>1 DEF CutPage
<1>3. CASE from >= to
  <2>1. page = <<>>
    BY <1>1, <1>2, <1>3
  <2>2. ~ (from + limit < n) /\ (from <= n => n = from)
    BY <1>1, <1>2, <1>3
  <2>3. \A x \in Matching : ~ (Rank(x) > from)
    BY <1>1, <1>2, <1>3, <2>2, MatchingIsFinite
  <2> QED  BY <1>1, <2>1, <2>2, <2>3
<1>4. CASE from < to
  <2>1. /\ page \in Seq(Matching) /\ Len(page) = to - from
        /\ \A i \in 1 .. (to - from) : page[i] = s[from + i]
    <3>1. from + 1 \in Int /\ to \in Int /\ from + 1 <= to
      BY <1>2, <1>4
    <3>2. \A i \in from + 1 .. to : s[i] \in Matching
      BY <1>1, <1>2
    <3>3. to - (from + 1) + 1 = to - from /\ \A i \in Int : (from + 1) + i - 1 = from + i
      BY <1>2
    <3> HIDE DEF to, page
    <3>4. /\ page \in Seq(Matching) /\ Len(page) = to - (from + 1) + 1
          /\ \A i \in 1 .. to - (from + 1) + 1 : page[i] = s[(from + 1) + i - 1]
      BY <1>2, <3>1, <3>2, SubSeqProperties
    <3>5. \A i \in 1 .. (to - from) : page[i] = s[from + i]
      BY <3>3, <3>4
    <3> QED  BY <3>3, <3>4, <3>5
  <2>2. ASSUME NEW x \in Matching, Rank(x) > from, Rank(x) <= from + limit
        PROVE  x \in ToSet(page)
    <3>1. PICK i \in 1 .. n : s[i] = x
      BY <1>1
    <3>2. Rank(x) = i
      BY <1>1, <3>1, RankIsPlace
    <3>3. i - from \in 1 .. (to - from) /\ from + (i - from) = i
      BY <1>1, <1>2, <2>2, <3>1, <3>2
    <3>4. page[i - from] = x
      BY <2>1, <3>1, <3>3
    <3> QED  BY <2>1, <3>3, <3>4 DEF ToSet
  <2> QED  BY <1>1, <1>2, <1>4, <2>1, <2>2
<1> QED  BY <1>1, <1>2, <1>3, <1>4

LEMMA FetchStep ==
  ASSUME WalkInv, FetchPage
  PROVE  WalkInv'
<1>1. walk \in Walking /\ walk.at = "fetch" /\ UNCHANGED <<list, writes>> /\ ListTypes
  BY DEF FetchPage, WalkInv, ListTypes, NoWalk
<1> DEFINE from  == Offset(walk.page, walk.limit)
           limit == walk.limit
           n     == Cardinality(Matching)
           last  == walk.page >= Pages(walk.total, walk.limit)
<1>2. PICK s \in Sorted :
        walk' = [walk EXCEPT !.at = IF last THEN "over" ELSE "count",
                             !.page = IF last THEN @ ELSE @ + 1,
                             !.got = @ \o CutPage(s, from, limit)]
  BY DEF FetchPage, CutPage
<1> DEFINE page == CutPage(s, from, limit)
<1>3. /\ walk.page \in Nat \ {0} /\ limit \in Nat \ {0} /\ limit \in Limits /\ walk.total \in Nat
      /\ walk.got \in Seq(Rows) /\ walk.all \subseteq Rows
  BY <1>1, ListingAssumption DEF Walking
<1>4. /\ from \in Nat /\ Offset(walk.page + 1, limit) = from + limit
      /\ last <=> walk.total <= from + limit
  <2>1. /\ Offset(walk.page, walk.limit) \in Nat
        /\ Offset(walk.page + 1, walk.limit) = Offset(walk.page, walk.limit) + walk.limit
        /\ walk.page >= Pages(walk.total, walk.limit)
             <=> walk.total <= Offset(walk.page + 1, walk.limit)
    BY <1>3, PagesCover
  <2> QED  BY <2>1
<1>5. /\ page \in Seq(Matching)
      /\ \A x \in Matching : Rank(x) > from /\ Rank(x) <= from + limit => x \in ToSet(page)
      /\ from + limit < n => Len(page) = limit
      /\ from <= n /\ n <= from + limit => Len(page) = n - from
  <2>1. ListTypes /\ from \in Nat /\ limit \in Nat \ {0}
    BY <1>1, <1>3, <1>4
  <2> HIDE DEF from, limit
  <2> QED  BY <2>1, PageHolds
<1>6. page \in Seq(Rows) /\ Matching \subseteq Rows /\ n \in Nat /\ ToSet(page) \subseteq Matching
      /\ \A x : Rank(x) \in Nat /\ Rank(x) <= n
  BY <1>1, <1>5, MatchingIsFinite DEF ToSet
<1>7. /\ walk.got \o page \in Seq(Rows)
      /\ Len(walk.got \o page) = Len(walk.got) + Len(page)
      /\ ToSet(walk.got \o page) = ToSet(walk.got) \cup ToSet(page)
  BY <1>3, <1>6, ElementsOfConcat
<1>8. /\ walk'.got = walk.got \o page /\ walk'.all = walk.all /\ walk'.limit = limit
      /\ walk'.meanwhile = walk.meanwhile /\ walk'.total = walk.total
      /\ walk'.at = (IF last THEN "over" ELSE "count")
      /\ walk'.page = (IF last THEN walk.page ELSE walk.page + 1)
      /\ walk' \in Walking
  <2>1. /\ DOMAIN walk = {"at", "page", "limit", "total", "got", "all", "meanwhile"}
        /\ walk = [f \in DOMAIN walk |-> walk[f]]
    BY <1>1 DEF Walking
  <2>2. /\ walk'.got = walk.got \o page /\ walk'.all = walk.all /\ walk'.limit = limit
        /\ walk'.meanwhile = walk.meanwhile /\ walk'.total = walk.total
        /\ walk'.at = (IF last THEN "over" ELSE "count")
        /\ walk'.page = (IF last THEN walk.page ELSE walk.page + 1)
    BY <1>2, <2>1
  <2>3. walk' = [at |-> walk'.at, page |-> walk'.page, limit |-> walk'.limit,
                 total |-> walk'.total, got |-> walk'.got, all |-> walk'.all,
                 meanwhile |-> walk'.meanwhile]
    BY <1>2, <2>1
  <2>4. /\ walk'.at \in {"count", "fetch", "over"} /\ walk'.page \in Nat \ {0}
        /\ walk.meanwhile \in {"nothing", "added", "other"}
    BY <1>1, <1>3, <2>2 DEF Walking
  <2>5. walk' \in Walking
    BY <1>3, <1>7, <2>2, <2>3, <2>4 DEF Walking
  <2> QED  BY <2>2, <2>5
<1>9. ListTypes'
  BY <1>1, <1>8 DEF ListTypes
<1>10. Matching' = Matching /\ \A x : Rank(x)' = Rank(x)
  BY <1>1 DEF Matching, Rank, UpTo, Before
<1>11. walk.meanwhile # "other" =>
         /\ walk.all \subseteq Matching /\ walk.total = n
         /\ \A x \in walk.all \ ToSet(walk.got) : Rank(x) > from
         /\ walk.meanwhile = "nothing" =>
              /\ walk.all = Matching /\ ToSet(walk.got) \subseteq walk.all
              /\ Len(walk.got) = from /\ from <= n
  BY <1>1 DEF WalkInv, Promise
<1>12. walk.meanwhile # "other" =>
         \A x \in walk.all \ ToSet(walk'.got) : Rank(x) > from + limit
  BY <1>3, <1>4, <1>5, <1>6, <1>7, <1>8, <1>11
<1>13. CASE last
  <2>1. walk'.at = "over" /\ walk.total <= from + limit
    BY <1>4, <1>8, <1>13
  <2>2. walk.meanwhile # "other" => walk.all \subseteq ToSet(walk'.got)
    BY <1>3, <1>4, <1>6, <1>11, <1>12, <2>1
  <2>3. walk.meanwhile = "nothing" =>
          Len(walk'.got) = Cardinality(walk.all) /\ ToSet(walk'.got) \subseteq walk.all
    <3> HAVE walk.meanwhile = "nothing"
    <3>1. /\ walk.all = Matching /\ walk.total = n /\ ToSet(walk.got) \subseteq walk.all
          /\ Len(walk.got) = from /\ from <= n
      BY <1>11
    <3>2. Len(page) = n - from
      BY <1>5, <2>1, <3>1
    <3>3. from + (n - from) = n
      BY <1>4, <1>6
    <3>4. Len(walk'.got) = n
      BY <1>7, <1>8, <3>1, <3>2, <3>3
    <3>5. ToSet(walk'.got) \subseteq walk.all
      BY <1>6, <1>7, <1>8, <3>1
    <3> QED  BY <3>1, <3>4, <3>5
  <2>4. WalkFindsEachRow'
    BY <1>8, <2>2, <2>3 DEF WalkFindsEachRow
  <2> QED  BY <1>9, <2>1, <2>4 DEF WalkInv, Promise
<1>14. CASE ~ last
  <2>1. walk'.at = "count" /\ walk'.page = walk.page + 1 /\ from + limit < walk.total
    BY <1>3, <1>4, <1>8, <1>14
  <2>2. Offset(walk'.page, walk'.limit) = from + limit
    BY <1>4, <1>8, <2>1
  <2>3. walk.meanwhile = "nothing" =>
          /\ Len(walk'.got) = from + limit /\ from + limit <= n
          /\ ToSet(walk'.got) \subseteq walk.all
    <3> HAVE walk.meanwhile = "nothing"
    <3>1. /\ walk.all = Matching /\ walk.total = n /\ ToSet(walk.got) \subseteq walk.all
          /\ Len(walk.got) = from /\ from <= n
      BY <1>11
    <3>2. Len(page) = limit
      BY <1>5, <2>1, <3>1
    <3>3. Len(walk'.got) = from + limit
      BY <1>7, <1>8, <3>1, <3>2
    <3>4. from + limit <= n
      BY <1>3, <1>4, <1>6, <2>1, <3>1
    <3>5. ToSet(walk'.got) \subseteq walk.all
      BY <1>6, <1>7, <1>8, <3>1
    <3> QED  BY <3>3, <3>4, <3>5
  <2>4. Promise'
    BY <1>3, <1>4, <1>6, <1>8, <1>10, <1>11, <1>12, <2>1, <2>2, <2>3 DEF Promise
  <2>5. WalkFindsEachRow'
    BY <2>1 DEF WalkFindsEachRow
  <2> QED  BY <1>9, <2>4, <2>5 DEF WalkInv
<1> QED  BY <1>13, <1>14

(* Rows that are added may only push a row towards the end.                *)
LEMMA AddStep ==
  ASSUME WalkInv, Add
  PROVE  WalkInv'
<1>1. PICK z \in Rows \ DOMAIN list, k \in Keys, shown \in BOOLEAN :
        list' = [y \in DOMAIN list \cup {z} |->
                   IF y = z THEN [key |-> k, shown |-> shown] ELSE list[y]]
  BY DEF Add
<1>2. ListTypes
  BY DEF WalkInv
<1>3. /\ DOMAIN list' \subseteq Rows /\ IsFiniteSet(DOMAIN list')
      /\ list' \in [DOMAIN list' -> [key : Keys, shown : BOOLEAN]]
  <2>1. DOMAIN list' = DOMAIN list \cup {z}
    BY <1>1
  <2>2. IsFiniteSet(DOMAIN list')
    BY <1>2, <2>1, FS_AddElement DEF ListTypes
  <2> QED  BY <1>1, <1>2, <2>1, <2>2 DEF ListTypes
<1>4. Matching \subseteq Matching' /\ \A x, y \in Matching : Before(x, y) => Before(x, y)'
  BY <1>1 DEF Matching, Before
<1>5. CASE walk = NoWalk \/ walk.at = "over"
  <2>1. UNCHANGED walk
    BY <1>5 DEF Add, UnderWalk
  <2>2. ListTypes'
    BY <1>2, <1>3, <2>1 DEF ListTypes
  <2>3. Promise'
    BY <1>2, <1>5, <2>1, WalkOrNone DEF Promise
  <2> QED  BY <2>1, <2>2, <2>3 DEF WalkInv, WalkFindsEachRow
<1>6. CASE walk # NoWalk /\ walk.at # "over"
  <2>1. walk \in Walking
    BY <1>2, <1>6, WalkOrNone
  <2>2. /\ walk' = [walk EXCEPT !.meanwhile = walk'.meanwhile]
        /\ walk'.meanwhile \in {"added", "other"}
        /\ walk'.meanwhile = "added" => walk.at # "fetch" /\ walk.meanwhile # "other"
    <3>1. UnderWalk("added")
      BY DEF Add
    <3> QED  BY <1>6, <2>1, <3>1 DEF UnderWalk, Walking
  <2>3. /\ walk' \in Walking /\ walk'.at = walk.at /\ walk'.all = walk.all
        /\ walk'.got = walk.got /\ walk'.page = walk.page /\ walk'.limit = walk.limit
    BY <2>1, <2>2 DEF Walking
  <2>4. ListTypes'
    BY <1>3, <2>3 DEF ListTypes
  <2>5. \A x \in Matching : Rank(x) <= Rank(x)'
    <3> SUFFICES ASSUME NEW x \in Matching
                 PROVE  Rank(x) <= Rank(x)'
      OBVIOUS
    <3>1. UpTo(x) \subseteq UpTo(x)'
      BY <1>4 DEF UpTo
    <3>2. IsFiniteSet(UpTo(x)')
      <4>1. UpTo(x)' \subseteq DOMAIN list'
        BY DEF UpTo, Matching
      <4> QED  BY <1>3, <4>1, SmallerSubset
    <3> QED  BY <3>1, <3>2, SmallerSubset DEF Rank
  <2>6. ASSUME walk'.at \in {"count", "fetch"}, walk'.meanwhile # "other"
        PROVE  /\ walk'.all \subseteq Matching'
               /\ \A x \in walk'.all \ ToSet(walk'.got) :
                    Rank(x)' > Offset(walk'.page, walk'.limit)
               /\ walk'.at = "count" /\ walk'.meanwhile = "added"
    <3>1. walk.at = "count" /\ walk.meanwhile # "other" /\ walk'.meanwhile = "added"
      BY <2>2, <2>3, <2>6
    <3>2. /\ walk.all \subseteq Matching
          /\ \A x \in walk.all \ ToSet(walk.got) : Rank(x) > Offset(walk.page, walk.limit)
      BY <2>1, <3>1 DEF WalkInv, Promise
    <3>3. \A x \in Matching : Rank(x) \in Nat /\ Rank(x)' \in Nat
      <4>1. \A x : Rank(x) \in Nat
        BY <1>2, MatchingIsFinite
      <4>2. \A x : IsFiniteSet(UpTo(x)')
        <5>1. \A x : UpTo(x)' \subseteq DOMAIN list'
          BY DEF UpTo, Matching
        <5> QED  BY <1>3, <5>1, SmallerSubset
      <4>3. \A x : Rank(x)' \in Nat
        BY <4>2, FS_CardinalityType DEF Rank
      <4> QED  BY <4>1, <4>3
    <3>4. Offset(walk.page, walk.limit) \in Nat
      BY <2>1, ListingAssumption, PagesCover DEF Walking
    <3>5. \A x \in walk.all \ ToSet(walk.got) : Rank(x)' > Offset(walk.page, walk.limit)
      BY <2>5, <3>2, <3>3, <3>4
    <3> QED  BY <1>4, <2>3, <3>1, <3>2, <3>5
  <2>7. Promise'
    BY <2>6 DEF Promise
  <2>8. WalkFindsEachRow'
    BY <1>6, <2>3 DEF WalkFindsEachRow
  <2> QED  BY <2>4, <2>7, <2>8 DEF WalkInv
<1> QED  BY <1>5, <1>6

LEMMA WalkStep ==
  ASSUME WalkInv, [ListNext]_listVars
  PROVE  WalkInv'
<1>1. ListTypes
  BY DEF WalkInv
<1>2. CASE Begin
  <2>1. PICK l \in Limits :
          walk' = [at |-> "count", page |-> 1, limit |-> l, total |-> 0, got |-> <<>>,
                   all |-> Matching, meanwhile |-> "nothing"]
    BY <1>2 DEF Begin
  <2>2. UNCHANGED list /\ Matching' = Matching /\ \A x : Rank(x)' = Rank(x)
    BY <1>2 DEF Begin, Matching, Rank, UpTo, Before
  <2>3. Matching \subseteq Rows /\ Cardinality(Matching) \in Nat
    BY <1>1, MatchingIsFinite
  <2>4. walk' \in Walking
    BY <2>1, <2>3 DEF Walking
  <2>5. Offset(1, l) = 0
    BY ListingAssumption DEF Offset
  <2>6. \A x \in Matching : Rank(x) > 0
    <3> SUFFICES ASSUME NEW x \in Matching
                 PROVE  Rank(x) > 0
      OBVIOUS
    <3>1. x \in UpTo(x)
      BY <1>1, OrderIsStrict DEF UpTo
    <3>2. IsFiniteSet(UpTo(x)) /\ Rank(x) \in Nat
      BY <1>1, MatchingIsFinite
    <3>3. Cardinality(UpTo(x)) # 0
      BY <3>1, <3>2, FS_EmptySet
    <3> QED  BY <3>2, <3>3 DEF Rank
  <2>7. ToSet(walk'.got) = {} /\ Len(walk'.got) = 0
    BY <2>1 DEF ToSet
  <2>8. ListTypes'
    BY <1>1, <2>2, <2>4 DEF ListTypes
  <2>9. Promise'
    BY <2>1, <2>2, <2>3, <2>5, <2>6, <2>7 DEF Promise
  <2> QED  BY <2>1, <2>8, <2>9 DEF WalkInv, WalkFindsEachRow
<1>3. CASE CountRows
  <2>1. walk \in Walking /\ walk.at = "count" /\ UNCHANGED list
    BY <1>1, <1>3 DEF CountRows, ListTypes, NoWalk
  <2>2. Cardinality(Matching) \in Nat
    BY <1>1, MatchingIsFinite
  <2>3. /\ walk'.at = "fetch" /\ walk'.total = Cardinality(Matching) /\ walk' \in Walking
        /\ walk'.all = walk.all /\ walk'.got = walk.got /\ walk'.page = walk.page
        /\ walk'.limit = walk.limit /\ walk'.meanwhile = walk.meanwhile
    BY <1>3, <2>1, <2>2 DEF CountRows, Walking
  <2>4. Matching' = Matching /\ \A x : Rank(x)' = Rank(x)
    BY <2>1 DEF Matching, Rank, UpTo, Before
  <2>5. Promise'
    BY <2>1, <2>3, <2>4 DEF WalkInv, Promise
  <2> QED  BY <1>1, <2>1, <2>3, <2>5 DEF WalkInv, ListTypes, WalkFindsEachRow
<1>4. CASE FetchPage
  BY <1>4, FetchStep
<1>5. CASE Add
  BY <1>5, AddStep
<1>6. CASE Move
  <2>1. PICK x \in DOMAIN list, k \in Keys, shown \in BOOLEAN :
          list' = [list EXCEPT ![x] = [key |-> k, shown |-> shown]]
    BY <1>6 DEF Move
  <2>2. /\ DOMAIN list' = DOMAIN list
        /\ list' \in [DOMAIN list' -> [key : Keys, shown : BOOLEAN]]
    BY <1>1, <2>1 DEF ListTypes
  <2>3. CASE walk = NoWalk \/ walk.at = "over"
    <3>1. UNCHANGED walk
      BY <1>6, <2>3 DEF Move, UnderWalk
    <3> QED  BY <1>1, <2>2, <2>3, <3>1, WalkOrNone DEF WalkInv, ListTypes, Promise, WalkFindsEachRow
  <2>4. CASE walk # NoWalk /\ walk.at # "over"
    <3>1. walk \in Walking
      BY <1>1, <2>4, WalkOrNone
    <3>2. walk' = [walk EXCEPT !.meanwhile = "other"]
      BY <1>6, <2>4 DEF Move, UnderWalk
    <3>3. walk' \in Walking /\ walk'.at = walk.at /\ walk'.meanwhile = "other"
      BY <3>1, <3>2 DEF Walking
    <3> QED  BY <1>1, <2>2, <2>4, <3>3 DEF WalkInv, ListTypes, Promise, WalkFindsEachRow
  <2> QED  BY <2>3, <2>4
<1>7. CASE UNCHANGED listVars
  BY <1>7 DEF listVars, WalkInv, ListTypes, Promise, WalkFindsEachRow, Matching, Rank, UpTo, Before
<1> QED  BY <1>2, <1>3, <1>4, <1>5, <1>6, <1>7 DEF ListNext

(* Whatever the size of the table and of the pages: a walk over a list     *)
(* nobody changes shows every row exactly once, because the order is total *)
(* (the id breaks the ties); and rows added between two answers never hide *)
(* one that was there when the walk began.                                 *)
THEOREM NoRowIsPassedBy == ListSpec => []WalkFindsEachRow
<1>1. ListInit => WalkInv
  <2> SUFFICES ASSUME ListInit
               PROVE  WalkInv
    OBVIOUS
  <2>1. DOMAIN list = {} /\ walk = NoWalk
    BY DEF ListInit
  <2>2. list \in [DOMAIN list -> [key : Keys, shown : BOOLEAN]]
    BY <2>1 DEF ListInit
  <2>3. ListTypes
    BY <2>1, <2>2, FS_EmptySet DEF ListTypes
  <2> QED  BY <2>1, <2>3, WalkOrNone DEF WalkInv, Promise, WalkFindsEachRow
<1>2. WalkInv /\ [ListNext]_listVars => WalkInv'
  BY WalkStep
<1>3. WalkInv => WalkFindsEachRow
  BY DEF WalkInv
<1> QED  BY <1>1, <1>2, <1>3, PTL DEF ListSpec
=============================================================================
