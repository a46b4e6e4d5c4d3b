----------------------------- MODULE ScoreProofs -----------------------------
(***************************************************************************)
(* Theorems about the two scores: the trust score of a heartbeat and the   *)
(* lock it decides, for every set of payloads, history length and warm-up; *)
(* the threat score of a report, for reports of any length.                *)
(*                                                                         *)
(* The trust score folds a series of values from left to right.  What such *)
(* a fold computes follows by induction over the length of the series: the *)
(* fold of the library is a recursive function of sets of indices; there   *)
(* is such a function, and along the prefixes of the series it runs        *)
(* through the accumulator's values one after the other.                   *)
(***************************************************************************)
EXTENDS Trust, Threat, FiniteSetTheorems, SequenceTheorems, WellFoundedInduction, TLAPS

-----------------------------------------------------------------------------
(* Folds along a series                                                    *)

\* A set that has 0, and with a number the next one, has them all.
LEMMA Induction ==
    ASSUME NEW A, 0 \in A, \A n \in Nat : n \in A => n + 1 \in A
    PROVE  Nat \subseteq A
<1> DEFINE T == Nat \ A
           R == OpToRel(<, Nat)
<1> SUFFICES ASSUME T # {} PROVE FALSE
  OBVIOUS
<1>1. \E m \in T : \A k \in T : ~ (<<k, m>> \in R)
  <2>1. T \subseteq Nat
    OBVIOUS
  <2>2. IsWellFoundedOn(R, Nat)
    BY NatLessThanWellFounded
  <2> HIDE DEF T, R
  <2> QED
    BY <2>1, <2>2, WFMin
<1>2. PICK m \in T : \A k \in T : ~ (<<k, m>> \in R)
  BY <1>1, Zenon
<1>3. \A k \in T : ~ (k < m)
  BY <1>2 DEF OpToRel
<1>4. m \in Nat \ {0} /\ m - 1 \in Nat /\ m - 1 \notin T
  BY <1>3
<1>5. m - 1 \in A
  BY <1>4
<1>6. (m - 1) + 1 \in A
  BY <1>4, <1>5, Zenon
<1> QED
  BY <1>4, <1>6

\* A set of indices has a last one.
LEMMA MaxOf ==
    ASSUME NEW n \in Nat, NEW S \in SUBSET (1 .. n), S # {}
    PROVE  Max(S) \in S /\ \A y \in S : Max(S) >= y
<1> SUFFICES \E x \in S : \A y \in S : x >= y
  BY Zenon DEF Max
<1> SUFFICES ASSUME \A x \in S : \E y \in S : ~(x >= y) PROVE FALSE
  OBVIOUS
<1> DEFINE A == {k \in Nat : \E y \in S : y >= k}
<1>1. 0 \in A
  <2>1. \A y \in S : y >= 0
    OBVIOUS
  <2> QED
    BY <2>1
<1>2. \A k \in Nat : k \in A => k + 1 \in A
  <2> SUFFICES ASSUME NEW k \in Nat, NEW y \in S, y >= k PROVE \E z \in S : z >= k + 1
    OBVIOUS
  <2>1. PICK z \in S : ~(y >= z)
    OBVIOUS
  <2> QED
    BY <2>1
<1>3. n + 1 \in A
  <2> HIDE DEF A
  <2> QED
    BY <1>1, <1>2, Induction
<1> QED
  BY <1>3

\* The last index of a prefix, and the prefix before it.
LEMMA Prefix ==
    ASSUME NEW k \in Nat
    PROVE  Max(1 .. k + 1) = k + 1 /\ (1 .. k + 1) \ {k + 1} = 1 .. k
<1>1. (1 .. k + 1) # {} /\ k + 1 \in 1 .. k + 1 /\ (1 .. k + 1) \ {k + 1} = 1 .. k
  OBVIOUS
<1>2. Max(1 .. k + 1) \in 1 .. k + 1 /\ \A y \in 1 .. k + 1 : Max(1 .. k + 1) >= y
  BY <1>1, MaxOf, k + 1 \in Nat
<1> QED
  BY <1>1, <1>2

\* At most n of 1 .. n have a property.
LEMMA Counted ==
    ASSUME NEW n \in Nat, NEW S \in SUBSET (1 .. n)
    PROVE  IsFiniteSet(S) /\ Cardinality(S) \in 0 .. n
<1>1. IsFiniteSet(1 .. n) /\ Cardinality(1 .. n) = n
  BY FS_Interval
<1>2. IsFiniteSet(S) /\ Cardinality(S) \in Nat /\ Cardinality(S) <= n
  BY <1>1, FS_Subset, FS_CardinalityType
<1> QED
  BY <1>2

\* Recursion over sets of indices, largest index last: there is a function.
Unfolds(f, n, b, F) ==
    f = [S \in SUBSET (1 .. n) |-> IF S = {} THEN b ELSE F[Max(S)][f[S \ {Max(S)}]]]

LEMMA FoldExists ==
    ASSUME NEW V, NEW b \in V, NEW n \in Nat, NEW F \in [1 .. n -> [V -> V]]
    PROVE  \E f \in [SUBSET (1 .. n) -> V] : Unfolds(f, n, b, F)
<1> DEFINE D == SUBSET (1 .. n)
           Right(f, S) == f[S] = IF S = {} THEN b ELSE F[Max(S)][f[S \ {Max(S)}]]
           A == {k \in Nat : \E f \in [D -> V] : \A S \in D : Cardinality(S) <= k => Right(f, S)}
<1>1. \A S \in D : IsFiniteSet(S) /\ Cardinality(S) \in 0 .. n
  BY Counted
<1>2. \A S \in D : S # {} =>
         /\ Max(S) \in S /\ Max(S) \in 1 .. n /\ S \ {Max(S)} \in D
         /\ Cardinality(S \ {Max(S)}) = Cardinality(S) - 1
  <2> SUFFICES ASSUME NEW S \in D, S # {}
               PROVE  /\ Max(S) \in S /\ Max(S) \in 1 .. n /\ S \ {Max(S)} \in D
                      /\ Cardinality(S \ {Max(S)}) = Cardinality(S) - 1
    OBVIOUS
  <2>1. Max(S) \in S
    BY MaxOf
  <2>2. IsFiniteSet(S)
    BY <1>1
  <2> QED
    BY <2>1, <2>2, FS_RemoveElement
<1>3. \A S \in D : Cardinality(S) = 0 => S = {}
  BY <1>1, FS_EmptySet
<1>4. 0 \in A
  <2> DEFINE f == [S \in D |-> b]
  <2>1. f \in [D -> V]
    <3> HIDE DEF D
    <3> QED
      OBVIOUS
  <2>2. \A S \in D : Cardinality(S) <= 0 => Right(f, S)
    <3>1. \A S \in D : Cardinality(S) <= 0 => S = {}
      <4> HIDE DEF D
      <4> QED
        BY <1>1, <1>3
    <3> HIDE DEF D
    <3> QED
      BY <3>1
  <2> HIDE DEF f, D
  <2> QED
    BY <2>1, <2>2
<1>5. \A k \in Nat : k \in A => k + 1 \in A
  <2> SUFFICES ASSUME NEW k \in Nat, k \in A PROVE k + 1 \in A
    OBVIOUS
  <2>1. PICK f \in [D -> V] : \A S \in D : Cardinality(S) <= k => Right(f, S)
    OBVIOUS
  <2> DEFINE g == [S \in D |-> IF S = {} THEN b ELSE F[Max(S)][f[S \ {Max(S)}]]]
  <2>2. g \in [D -> V]
    <3>1. \A S \in D : S # {} => F[Max(S)] \in [V -> V] /\ f[S \ {Max(S)}] \in V
      <4> HIDE DEF D
      <4> QED
        BY <1>2, Zenon
    <3>2. \A S \in D : (IF S = {} THEN b ELSE F[Max(S)][f[S \ {Max(S)}]]) \in V
      <4> HIDE DEF D
      <4> QED
        BY <3>1
    <3> HIDE DEF D
    <3> QED
      BY <3>2, Zenon
  <2>3. \A S \in D : Cardinality(S) <= k => g[S] = f[S]
    BY <2>1
  <2>4. \A S \in D : Cardinality(S) <= k + 1 => Right(g, S)
    <3> SUFFICES ASSUME NEW S \in D, Cardinality(S) <= k + 1 PROVE Right(g, S)
      OBVIOUS
    <3>1. CASE S = {}
      BY <3>1
    <3>2. CASE S # {}
      <4>1. S \ {Max(S)} \in D /\ Cardinality(S \ {Max(S)}) <= k
        <5>1. /\ S \ {Max(S)} \in D /\ Cardinality(S) \in 0 .. n
              /\ Cardinality(S \ {Max(S)}) = Cardinality(S) - 1
          BY <1>1, <1>2, <3>2, Zenon
        <5>2. \A c \in 0 .. n : c <= k + 1 => c - 1 <= k
          BY ONLY n \in Nat, k \in Nat
        <5> QED
          BY <5>1, <5>2, Zenon
      <4>2. g[S \ {Max(S)}] = f[S \ {Max(S)}]
        BY <2>3, <4>1
      <4> QED
        BY <3>2, <4>2
    <3> QED
      BY <3>1, <3>2
  <2> HIDE DEF g, Right, D
  <2> QED
    BY <2>2, <2>4
<1>6. n \in A
  <2> HIDE DEF A
  <2> QED
    BY <1>4, <1>5, Induction
<1>7. PICK f \in [D -> V] : \A S \in D : Cardinality(S) <= n => Right(f, S)
  BY <1>6
<1>8. \A S \in D : Right(f, S)
  <2>1. \A S \in D : Cardinality(S) <= n
    <3> HIDE DEF D
    <3> QED
      BY <1>1
  <2> QED
    BY <1>7, <2>1, Zenon
<1>9. f = [S \in D |-> IF S = {} THEN b ELSE F[Max(S)][f[S \ {Max(S)}]]]
  BY <1>8
<1> QED
  BY <1>9 DEF Unfolds

\* f unfolds where the fold of the rest is an accumulator's value.
Steps(f, n, b, F, V) ==
    /\ f[{}] = b
    /\ \A S \in SUBSET (1 .. n) :
        S # {} /\ f[S \ {Max(S)}] \in V => f[S] = F[Max(S)][f[S \ {Max(S)}]]

\* All that makes f such a function.
Folds(f, n, b, F, V) ==
    b \in V /\ n \in Nat /\ F \in [1 .. n -> [V -> V]] /\ Steps(f, n, b, F, V)

\* The accumulator's values along 1 .. n.
Run(g, n, b, F, V) ==
    g \in [0 .. n -> V] /\ g[0] = b /\ \A k \in 1 .. n : g[k] = F[k][g[k - 1]]

RunsTo(f, n, b, F, V) == \E g : Run(g, n, b, F, V) /\ g[n] = f[1 .. n]

\* The fold of all of 1 .. n is the last of these values.
LEMMA FoldRuns ==
    ASSUME NEW V, NEW b, NEW n, NEW F, NEW f, Folds(f, n, b, F, V)
    PROVE  RunsTo(f, n, b, F, V)
<1>0. b \in V /\ n \in Nat /\ F \in [1 .. n -> [V -> V]] /\ Steps(f, n, b, F, V)
  BY DEF Folds
<1> USE <1>0
<1> DEFINE g == [k \in 0 .. n |-> f[1 .. k]]
           A == {k \in Nat : k <= n => g[k] \in V}
<1>1. g[0] = b
  <2>1. 1 .. 0 = {} /\ 0 \in 0 .. n
    OBVIOUS
  <2>2. g[0] = f[1 .. 0]
    BY <2>1, Zenon
  <2> QED
    BY <2>1, <2>2, Zenon DEF Steps
<1>2. \A k \in 1 .. n : g[k - 1] \in V => g[k] = F[k][g[k - 1]]
  <2> SUFFICES ASSUME NEW k \in 1 .. n, g[k - 1] \in V PROVE g[k] = F[k][g[k - 1]]
    OBVIOUS
  <2>1. 1 .. k \in SUBSET (1 .. n) /\ 1 .. k # {} /\ k \in 0 .. n /\ k - 1 \in 0 .. n
    <3>1. k \in Int /\ 1 <= k /\ k <= n
      OBVIOUS
    <3>2. \A i \in 1 .. k : i \in 1 .. n
      BY <3>1
    <3>3. k \in 1 .. k /\ k \in 0 .. n /\ k - 1 \in 0 .. n
      BY <3>1
    <3> QED
      BY <3>2, <3>3, Zenon
  <2>2. Max(1 .. k) = k /\ (1 .. k) \ {k} = 1 .. k - 1
    <3>1. k - 1 \in Nat /\ (k - 1) + 1 = k
      OBVIOUS
    <3> QED
      BY <3>1, Prefix
  <2>3. g[k] = f[1 .. k] /\ g[k - 1] = f[1 .. k - 1]
    BY <2>1, Zenon
  <2>4. f[(1 .. k) \ {Max(1 .. k)}] \in V
    BY <2>2, <2>3, Zenon
  <2>5. f[1 .. k] = F[Max(1 .. k)][f[(1 .. k) \ {Max(1 .. k)}]]
    BY <2>1, <2>4, Zenon DEF Steps
  <2> HIDE DEF g
  <2> QED
    BY <2>2, <2>3, <2>5, Zenon
<1>3. 0 \in A
  BY <1>1
<1>4. \A k \in Nat : k \in A => k + 1 \in A
  <2> SUFFICES ASSUME NEW k \in Nat, k \in A, k + 1 <= n PROVE g[k + 1] \in V
    OBVIOUS
  <2>1. k + 1 \in 1 .. n /\ (k + 1) - 1 = k /\ k <= n
    OBVIOUS
  <2>2. g[k] \in V
    BY <2>1, Zenon
  <2>3. g[k + 1] = F[k + 1][g[k]]
    <3> HIDE DEF g
    <3> QED
      BY <1>2, <2>1, <2>2
  <2> HIDE DEF g
  <2> QED
    BY <2>1, <2>2, <2>3
<1>5. \A k \in 0 .. n : g[k] \in V
  <2>1. Nat \subseteq A
    <3> HIDE DEF A
    <3> QED BY <1>3, <1>4, Induction
  <2>2. \A k \in 0 .. n : k \in Nat /\ k <= n
    OBVIOUS
  <2> HIDE DEF g
  <2> QED
    BY <2>1, <2>2, Zenon
<1>6. n \in 0 .. n /\ \A k \in 1 .. n : k - 1 \in 0 .. n
  OBVIOUS
<1>7. g[n] = f[1 .. n] /\ g \in [0 .. n -> V]
  BY <1>5, <1>6, Zenon
<1> HIDE DEF g
<1> QED
  BY <1>1, <1>2, <1>5, <1>6, <1>7, Zenon DEF Run, RunsTo

-----------------------------------------------------------------------------
(* Sums and averages of a series                                           *)

IsSeries(s, n) == n \in Nat /\ s \in [1 .. n -> Int]

Adding(s, n) == [i \in 1 .. n |-> [a \in Int |-> a + s[i]]]

\* Sum is such a fold.
LEMMA SumFolds ==
    ASSUME NEW n \in Nat, NEW s \in [1 .. n -> Int]
    PROVE  \E f : Folds(f, n, 0, Adding(s, n), Int) /\ f[1 .. n] = Sum(s)
<1> DEFINE E(f, S) == f[S \ {Max(S)}] + s[Max(S)]
           P(f) == f = [S \in SUBSET (1 .. n) |-> IF S = {} THEN 0 ELSE E(f, S)]
           F == Adding(s, n)
           f == CHOOSE h : P(h)
<1>1. F \in [1 .. n -> [Int -> Int]] /\ \A a \in Int, i \in 1 .. n : F[i][a] = a + s[i]
  BY DEF Adding
<1>2. \A S \in SUBSET (1 .. n) : S # {} => Max(S) \in 1 .. n /\ S \ {Max(S)} \in SUBSET (1 .. n)
  <2> SUFFICES ASSUME NEW S \in SUBSET (1 .. n), S # {} PROVE Max(S) \in S
    OBVIOUS
  <2> QED
    BY MaxOf
<1> HIDE DEF F
<1>3. \E h : P(h)
  <2>1. PICK h \in [SUBSET (1 .. n) -> Int] : Unfolds(h, n, 0, F)
    BY <1>1, 0 \in Int, FoldExists, Zenon
  <2>2. \A S \in SUBSET (1 .. n) : S # {} => F[Max(S)][h[S \ {Max(S)}]] = E(h, S)
    BY <1>1, <1>2
  <2>3. P(h)
    BY <2>1, <2>2 DEF Unfolds
  <2> QED
    BY <2>3, Zenon
<1>4. P(f)
  <2> HIDE DEF P
  <2> QED
    BY <1>3, Zenon
<1>5. Sum(s) = f[1 .. n]
  <2>1. DOMAIN s = 1 .. n
    OBVIOUS
  <2> QED
    BY <2>1, Zenon DEF Sum, FoldLeft, MapThenFoldSet
<1> HIDE DEF f, E
<1>6. f[{}] = 0
  <2>1. {} \in SUBSET (1 .. n)
    OBVIOUS
  <2> QED
    BY <1>4, <2>1, Zenon
<1>7. Steps(f, n, 0, F, Int)
  <2>1. \A S \in SUBSET (1 .. n) : S # {} => f[S] = E(f, S)
    BY <1>4, Zenon
  <2> USE DEF E, Steps
  <2> QED
    BY <1>1, <1>2, <1>6, <2>1
<1>8. Folds(f, n, 0, F, Int)
  <2>1. 0 \in Int
    OBVIOUS
  <2> QED
    BY <1>1, <1>7, <2>1, Zenon DEF Folds
<1>9. Folds(f, n, 0, Adding(s, n), Int)
  BY <1>8 DEF F
<1> QED
  BY <1>5, <1>9, Zenon

\* The partial sums of a series.
LEMMA SumRuns ==
    ASSUME NEW n, NEW s, IsSeries(s, n)
    PROVE  \E g \in [0 .. n -> Int] : /\ g[0] = 0 /\ g[n] = Sum(s)
                                      /\ \A k \in 1 .. n : g[k] = g[k - 1] + s[k]
<1>1. PICK f : Folds(f, n, 0, Adding(s, n), Int) /\ f[1 .. n] = Sum(s)
  BY SumFolds, Zenon DEF IsSeries
<1>2. PICK g : Run(g, n, 0, Adding(s, n), Int) /\ g[n] = f[1 .. n]
  <2>1. \E g : Run(g, n, 0, Adding(s, n), Int) /\ g[n] = f[1 .. n]
    <3>1. RunsTo(f, n, 0, Adding(s, n), Int)
      BY <1>1, FoldRuns, Zenon
    <3> QED
      BY <3>1, Zenon DEF RunsTo
  <2> QED
    BY <2>1, Zenon
<1>3. /\ g \in [0 .. n -> Int] /\ g[0] = 0 /\ g[n] = Sum(s)
      /\ \A k \in 1 .. n : g[k] = Adding(s, n)[k][g[k - 1]]
  BY <1>1, <1>2, Zenon DEF Run
<1>4. \A k \in 1 .. n : k - 1 \in 0 .. n
  BY DEF IsSeries
<1>5. \A k \in 1 .. n : g[k - 1] \in Int
  BY <1>3, <1>4, Zenon
<1>6. \A k \in 1 .. n : \A a \in Int : Adding(s, n)[k][a] = a + s[k]
  BY DEF Adding, IsSeries
<1>7. \A k \in 1 .. n : g[k] = g[k - 1] + s[k]
  BY <1>3, <1>5, <1>6, Zenon
<1> QED
  BY <1>3, <1>7, Zenon

\* A sum of squares is the sum of the squares.
LEMMA SquaresSum ==
    ASSUME NEW n \in Nat, NEW s \in [1 .. n -> Int]
    PROVE  Squares(s) = Sum([i \in 1 .. n |-> s[i] * s[i]])
<1> DEFINE t == [i \in 1 .. n |-> s[i] * s[i]]
           D == SUBSET (1 .. n)
           A(h) == [S \in D |-> IF S = {} THEN 0 ELSE h[S \ {Max(S)}] + s[Max(S)] * s[Max(S)]]
           B(h) == [S \in D |-> IF S = {} THEN 0 ELSE h[S \ {Max(S)}] + t[Max(S)]]
<1>1. \A S \in D : S # {} => t[Max(S)] = s[Max(S)] * s[Max(S)]
  <2> SUFFICES ASSUME NEW S \in D, S # {} PROVE Max(S) \in 1 .. n
    OBVIOUS
  <2> QED
    BY MaxOf
<1>2. DOMAIN s = 1 .. n /\ DOMAIN t = 1 .. n
  OBVIOUS
<1>3. Squares(s) = (CHOOSE h : h = A(h))[1 .. n]
  BY <1>2, Zenon DEF Squares, FoldLeft, MapThenFoldSet
<1>4. Sum(t) = (CHOOSE h : h = B(h))[1 .. n]
  <2> HIDE DEF t
  <2> QED
    BY <1>2, Zenon DEF Sum, FoldLeft, MapThenFoldSet
<1> HIDE DEF t
<1>5. \A h : A(h) = B(h)
  BY <1>1
<1> HIDE DEF A, B
<1>6. (CHOOSE h : h = A(h)) = (CHOOSE h : h = B(h))
  BY <1>5, Zenon
<1> QED
  BY <1>3, <1>4, <1>6, Zenon DEF t

Average == [sum : Int, scale : Nat \ {0}]

Averaging(s, n) ==
    [i \in 1 .. n |-> [e \in Average |-> [sum |-> e.scale * s[i] + 4 * e.sum, scale |-> 5 * e.scale]]]

\* What Ema folds.
EmaFrom(b, s) ==
    FoldLeft(LAMBDA e, v : [sum |-> e.scale * v + 4 * e.sum, scale |-> 5 * e.scale], b, s)

\* Ema is such a fold, too.
LEMMA EmaFolds ==
    ASSUME NEW n \in Nat, NEW s \in [1 .. n -> Int], NEW b \in Average
    PROVE  \E f : Folds(f, n, b, Averaging(s, n), Average) /\ f[1 .. n] = EmaFrom(b, s)
<1> DEFINE E(f, S) == [sum |-> f[S \ {Max(S)}].scale * s[Max(S)] + 4 * f[S \ {Max(S)}].sum,
                       scale |-> 5 * f[S \ {Max(S)}].scale]
           P(f) == f = [S \in SUBSET (1 .. n) |-> IF S = {} THEN b ELSE E(f, S)]
           F == Averaging(s, n)
           f == CHOOSE h : P(h)
<1>1. /\ F \in [1 .. n -> [Average -> Average]]
      /\ \A e \in Average, i \in 1 .. n : F[i][e] = [sum |-> e.scale * s[i] + 4 * e.sum, scale |-> 5 * e.scale]
  <2>1. \A e \in Average, i \in 1 .. n : [sum |-> e.scale * s[i] + 4 * e.sum, scale |-> 5 * e.scale] \in Average
    <3> SUFFICES ASSUME NEW e \in Average, NEW i \in 1 .. n
                 PROVE  e.scale * s[i] + 4 * e.sum \in Int /\ 5 * e.scale \in Nat \ {0}
      BY Zenon DEF Average
    <3>1. e.scale \in Nat \ {0} /\ e.sum \in Int /\ s[i] \in Int
      BY DEF Average
    <3> QED
      BY ONLY <3>1
  <2> QED
    BY <2>1 DEF Averaging
<1>2. \A S \in SUBSET (1 .. n) : S # {} => Max(S) \in 1 .. n /\ S \ {Max(S)} \in SUBSET (1 .. n)
  <2> SUFFICES ASSUME NEW S \in SUBSET (1 .. n), S # {} PROVE Max(S) \in S
    OBVIOUS
  <2> QED
    BY MaxOf
<1> HIDE DEF F
<1>3. \E h : P(h)
  <2>1. PICK h \in [SUBSET (1 .. n) -> Average] : Unfolds(h, n, b, F)
    BY <1>1, FoldExists, Zenon
  <2>2. \A S \in SUBSET (1 .. n) : S # {} => F[Max(S)][h[S \ {Max(S)}]] = E(h, S)
    BY <1>1, <1>2, Zenon
  <2>3. P(h)
    <3> HIDE DEF E
    <3> QED
      BY <2>1, <2>2 DEF Unfolds
  <2> QED
    BY <2>3, Zenon
<1>4. P(f)
  <2> HIDE DEF P
  <2> QED
    BY <1>3, Zenon
<1>5. EmaFrom(b, s) = f[1 .. n]
  <2>1. DOMAIN s = 1 .. n
    OBVIOUS
  <2> QED
    BY <2>1, Zenon DEF EmaFrom, FoldLeft, MapThenFoldSet
<1> HIDE DEF f, E
<1>6. f[{}] = b
  <2>1. {} \in SUBSET (1 .. n)
    OBVIOUS
  <2> QED
    BY <1>4, <2>1, Zenon
<1>7. Steps(f, n, b, F, Average)
  <2>1. \A S \in SUBSET (1 .. n) : S # {} => f[S] = E(f, S)
    BY <1>4, Zenon
  <2> USE DEF E, Steps
  <2> QED
    BY <1>1, <1>2, <1>6, <2>1, Zenon
<1>8. Folds(f, n, b, F, Average)
  BY <1>1, <1>7, Zenon DEF Folds
<1>9. Folds(f, n, b, Averaging(s, n), Average)
  BY <1>8 DEF F
<1> QED
  BY <1>5, <1>9, Zenon

\* The partial averages of a series.
EmaRun(g, b, s, n) ==
    /\ g \in [0 .. n -> Average] /\ g[0] = b /\ g[n] = EmaFrom(b, s)
    /\ \A k \in 1 .. n : g[k] = [sum |-> g[k - 1].scale * s[k] + 4 * g[k - 1].sum,
                                 scale |-> 5 * g[k - 1].scale]

LEMMA EmaRuns ==
    ASSUME NEW n, NEW s, NEW b \in Average, IsSeries(s, n)
    PROVE  \E g : EmaRun(g, b, s, n)
<1>1. PICK f : Folds(f, n, b, Averaging(s, n), Average) /\ f[1 .. n] = EmaFrom(b, s)
  BY EmaFolds, Zenon DEF IsSeries
<1>2. PICK g : Run(g, n, b, Averaging(s, n), Average) /\ g[n] = f[1 .. n]
  <2>1. \E g : Run(g, n, b, Averaging(s, n), Average) /\ g[n] = f[1 .. n]
    <3>1. RunsTo(f, n, b, Averaging(s, n), Average)
      BY <1>1, FoldRuns, Zenon
    <3> QED
      BY <3>1, Zenon DEF RunsTo
  <2> QED
    BY <2>1, Zenon
<1>3. /\ g \in [0 .. n -> Average] /\ g[0] = b /\ g[n] = EmaFrom(b, s)
      /\ \A k \in 1 .. n : g[k] = Averaging(s, n)[k][g[k - 1]]
  BY <1>1, <1>2, Zenon DEF Run
<1>4. \A k \in 1 .. n : k - 1 \in 0 .. n
  BY DEF IsSeries
<1>5. \A k \in 1 .. n : g[k - 1] \in Average
  BY <1>3, <1>4, Zenon
<1>6. \A k \in 1 .. n : \A e \in Average :
         Averaging(s, n)[k][e] = [sum |-> e.scale * s[k] + 4 * e.sum, scale |-> 5 * e.scale]
  BY Zenon DEF Averaging, IsSeries
<1>7. \A k \in 1 .. n : g[k] = [sum |-> g[k - 1].scale * s[k] + 4 * g[k - 1].sum,
                                scale |-> 5 * g[k - 1].scale]
  BY <1>3, <1>5, <1>6, Zenon
<1>8. EmaRun(g, b, s, n)
  BY <1>3, <1>7, Zenon DEF EmaRun
<1> QED
  BY <1>8, Zenon

-----------------------------------------------------------------------------
(* A series that does not vary                                             *)

LEMMA ConstantSum ==
    ASSUME NEW n, NEW s, NEW v \in Int, IsSeries(s, n), \A i \in 1 .. n : s[i] = v
    PROVE  Sum(s) = n * v
<1>1. PICK g \in [0 .. n -> Int] :
         g[0] = 0 /\ g[n] = Sum(s) /\ \A k \in 1 .. n : g[k] = g[k - 1] + s[k]
  BY SumRuns
<1>2. \A k \in 1 .. n : g[k] = g[k - 1] + v
  BY <1>1, Zenon
<1> DEFINE A == {k \in Nat : k <= n => g[k] = k * v}
<1>3. n \in Nat
  BY DEF IsSeries
<1>4. 0 \in A
  BY <1>1
<1>5. \A k \in Nat : k \in A => k + 1 \in A
  <2> SUFFICES ASSUME NEW k \in Nat, k <= n => g[k] = k * v, k + 1 <= n PROVE g[k + 1] = (k + 1) * v
    OBVIOUS
  <2>1. k + 1 \in 1 .. n /\ (k + 1) - 1 = k /\ k <= n
    BY <1>3
  <2>2. g[k + 1] = g[k] + v /\ g[k] = k * v
    BY <1>2, <2>1
  <2> QED
    BY <2>2
<1>6. n \in A
  <2> HIDE DEF A
  <2> QED
    BY <1>3, <1>4, <1>5, Induction
<1> QED
  BY <1>1, <1>6

LEMMA ConstantSquares ==
    ASSUME NEW n, NEW s, NEW v \in Int, IsSeries(s, n), \A i \in 1 .. n : s[i] = v
    PROVE  Squares(s) = n * (v * v)
<1> DEFINE t == [i \in 1 .. n |-> s[i] * s[i]]
<1>1. IsSeries(t, n) /\ v * v \in Int /\ \A i \in 1 .. n : t[i] = v * v
  BY DEF IsSeries
<1>2. Squares(s) = Sum(t)
  BY SquaresSum, Zenon DEF IsSeries
<1> HIDE DEF t
<1> QED
  BY <1>1, <1>2, ConstantSum

\* A series as a sequence.
LEMMA SeriesIsSeq ==
    ASSUME NEW n, NEW s, IsSeries(s, n), n # 0
    PROVE  /\ s \in Seq(Int) /\ Len(s) = n /\ Head(s) = s[1] /\ Last(s) = s[n]
           /\ Tail(s) \in Seq(Int) /\ IsSeries(Tail(s), n - 1) /\ \A i \in 1 .. n - 1 : Tail(s)[i] = s[i + 1]
<1>1. n \in Nat \ {0} /\ s \in [1 .. n -> Int]
  BY DEF IsSeries
<1>2. s \in Seq(Int) /\ Len(s) = n /\ s # <<>>
  BY <1>1
<1>3. Head(s) = s[1] /\ Last(s) = s[n]
  BY <1>2 DEF Last
<1>4. Tail(s) \in Seq(Int) /\ Len(Tail(s)) = n - 1 /\ \A i \in 1 .. n - 1 : Tail(s)[i] = s[i + 1]
  BY <1>1, <1>2
<1>5. IsSeries(Tail(s), n - 1)
  <2>1. DOMAIN Tail(s) = 1 .. n - 1 /\ n - 1 \in Nat
    BY <1>1, <1>4
  <2>2. Tail(s) \in [1 .. n - 1 -> Int]
    BY <1>4, <2>1, LenProperties
  <2> QED
    BY <2>1, <2>2, Zenon DEF IsSeries
<1> QED
  BY <1>2, <1>3, <1>4, <1>5

\* Its average is its value.
LEMMA ConstantEma ==
    ASSUME NEW n, NEW s, NEW v \in Int, IsSeries(s, n), n # 0, \A i \in 1 .. n : s[i] = v
    PROVE  Ema(s).scale \in Nat \ {0} /\ Ema(s).sum = Ema(s).scale * v
<1> DEFINE b == [sum |-> v, scale |-> 1]
           m == n - 1
<1>1. b \in Average /\ b.sum = b.scale * v
  BY DEF Average
<1>2. n \in Nat \ {0} /\ m \in Nat
  BY DEF IsSeries
<1>3. Ema(s) = EmaFrom(b, Tail(s))
  <2>1. Head(s) = v
    BY <1>2, SeriesIsSeq
  <2> QED
    BY <2>1, Zenon DEF Ema, EmaFrom
<1>4. IsSeries(Tail(s), m) /\ \A i \in 1 .. m : Tail(s)[i] = v
  BY <1>2, SeriesIsSeq
<1> HIDE DEF b, m
<1>10. PICK g : EmaRun(g, b, Tail(s), m)
  BY <1>1, <1>4, EmaRuns, Zenon
<1>5. /\ g \in [0 .. m -> Average] /\ g[0] = b /\ g[m] = EmaFrom(b, Tail(s))
      /\ \A k \in 1 .. m : g[k] = [sum |-> g[k - 1].scale * Tail(s)[k] + 4 * g[k - 1].sum,
                                   scale |-> 5 * g[k - 1].scale]
  BY <1>10, Zenon DEF EmaRun
<1> DEFINE B == {k \in Nat : k <= m => g[k] \in Average /\ g[k].sum = g[k].scale * v}
<1>6. 0 \in B
  BY <1>1, <1>5
<1>7. \A k \in Nat : k \in B => k + 1 \in B
  <2> SUFFICES ASSUME NEW k \in Nat, k <= m => g[k] \in Average /\ g[k].sum = g[k].scale * v, k + 1 <= m
               PROVE  g[k + 1] \in Average /\ g[k + 1].sum = g[k + 1].scale * v
    OBVIOUS
  <2>1. k + 1 \in 1 .. m /\ (k + 1) - 1 = k /\ k <= m /\ k + 1 \in 0 .. m
    BY <1>2
  <2>2. g[k] \in Average /\ g[k].sum = g[k].scale * v /\ g[k + 1] \in Average
    BY <1>5, <2>1, Zenon
  <2>3. g[k + 1] = [sum |-> g[k].scale * v + 4 * g[k].sum, scale |-> 5 * g[k].scale]
    <3>1. g[k + 1] = [sum |-> g[(k + 1) - 1].scale * Tail(s)[k + 1] + 4 * g[(k + 1) - 1].sum,
                      scale |-> 5 * g[(k + 1) - 1].scale]
      BY <1>5, <2>1, Zenon
    <3>2. Tail(s)[k + 1] = v
      BY <1>4, <2>1, Zenon
    <3> QED
      BY <2>1, <3>1, <3>2, Zenon
  <2>4. g[k + 1].sum = g[k].scale * v + 4 * g[k].sum /\ g[k + 1].scale = 5 * g[k].scale
    BY ONLY <2>3
  <2>5. \A a \in Int, c \in Nat \ {0} : a = c * v => c * v + 4 * a = (5 * c) * v
    OBVIOUS
  <2>6. g[k].scale \in Nat \ {0} /\ g[k].sum \in Int
    BY <2>2 DEF Average
  <2> QED
    BY <2>2, <2>4, <2>5, <2>6
<1>8. m \in B
  <2> HIDE DEF B
  <2> QED
    BY <1>2, <1>6, <1>7, Induction
<1>9. Ema(s) \in Average /\ Ema(s).sum = Ema(s).scale * v
  BY <1>2, <1>3, <1>5, <1>8
<1> QED
  BY <1>9 DEF Average

\* What does not vary is not penalised.
LEMMA ConstantPenalty ==
    ASSUME NEW n, NEW s, NEW v \in Int, IsSeries(s, n), n # 0, \A i \in 1 .. n : s[i] = v
    PROVE  Penalty(s) = 0
<1> DEFINE e == Ema(s)
           gap == e.scale * Last(s) - e.sum
           off == 20 * (IF gap < 0 THEN -gap ELSE gap)
<1>1. n \in Nat \ {0} /\ Len(s) = n /\ Last(s) = v
  <2>1. n \in Nat \ {0}
    BY DEF IsSeries
  <2> QED
    BY <2>1, SeriesIsSeq
<1>2. Sum(s) = n * v /\ Squares(s) = n * (v * v)
  BY ConstantSum, ConstantSquares
<1>3. Variance(s) = 0
  <2>1. Variance(s) = n * (n * (v * v)) - (n * v) * (n * v)
    BY <1>1, <1>2, Zenon DEF Variance
  <2>2. n * (n * (v * v)) - (n * v) * (n * v) = 0
    BY <1>1
  <2> QED
    BY <2>1, <2>2
<1>4. e.scale \in Nat \ {0} /\ e.sum = e.scale * v
  BY ConstantEma
<1> HIDE DEF e
<1>5. off = 0
  BY <1>1, <1>4
<1>6. Deviation(s, 20) = Cardinality({k \in 1 .. 100 : k * e.scale <= off})
  BY <1>3, Zenon DEF Deviation, e
<1>7. {k \in 1 .. 100 : k * e.scale <= off} = {}
  <2>1. \A k \in 1 .. 100 : \A c \in Nat \ {0} : ~(k * c <= 0)
    OBVIOUS
  <2> QED
    BY <1>4, <1>5, <2>1, Zenon
<1> QED
  BY <1>6, <1>7, FS_EmptySet, Zenon DEF Penalty
-----------------------------------------------------------------------------
(* The bounds of a score                                                   *)

\* No series costs more than 100 points.
LEMMA PenaltyBound == \A s : Penalty(s) \in 0 .. 100
<1> SUFFICES ASSUME NEW s PROVE Deviation(s, 20) \in 0 .. 100
  BY DEF Penalty
<1>1. \A k : k \in Nat => k \in Int
  OBVIOUS
<1>2. \A S \in SUBSET (1 .. 100) : Cardinality(S) \in 0 .. 100
  BY Counted
<1>3. \E S, T \in SUBSET (1 .. 100) :
          Deviation(s, 20) = IF Variance(s) = 0 THEN Cardinality(S) ELSE Cardinality(T)
  <2> DEFINE e == Ema(s)
             gap == e.scale * Last(s) - e.sum
             off == 20 * (IF gap < 0 THEN -gap ELSE gap)
             square == (Len(s) * Len(s) * off * off) \div (e.scale * e.scale * Variance(s))
             S == {k \in 1 .. 100 : k * e.scale <= off}
             T == {k \in 1 .. 100 : k * k <= square}
  <2>1. Deviation(s, 20) = IF Variance(s) = 0 THEN Cardinality(S) ELSE Cardinality(T)
    BY Zenon DEF Deviation
  <2>2. S \in SUBSET (1 .. 100) /\ T \in SUBSET (1 .. 100)
    BY Zenon
  <2> HIDE DEF S, T
  <2> QED
    BY <2>1, <2>2, Zenon
<1> QED
  BY <1>2, <1>3, Zenon

\* int(100 * motion_delta) is cut to 0 .. 100.
LEMMA ClampBound == \A v \in Int : Clamp(v) \in 0 .. 100
  BY DEF Clamp

\* The score, of the four numbers it weighs: what each takes off 100, and the motion.
Weighted(a, g, l, m) == (40 * (100 - a) + 30 * (100 - g) + 15 * (100 - l) + 15 * m) \div 100

\* It is a mean: four numbers of 0 .. 100 give one.
LEMMA WeightedBound ==
    \A a, g, m \in 0 .. 100 : \A l \in 0 .. 50 :
        Weighted(a, g, l, m) \in Score
<1> SUFFICES ASSUME NEW a \in 0 .. 100, NEW g \in 0 .. 100, NEW m \in 0 .. 100, NEW l \in 0 .. 50
             PROVE  Weighted(a, g, l, m) \in Score
  BY Zenon
<1> DEFINE A == 40 * (100 - a)
           G == 30 * (100 - g)
           L == 15 * (100 - l)
           M == 15 * m
<1>1. A \in Int /\ 0 <= A /\ A <= 4000
  OBVIOUS
<1>2. G \in Int /\ 0 <= G /\ G <= 3000
  OBVIOUS
<1>3. L \in Int /\ 0 <= L /\ L <= 1500
  OBVIOUS
<1>4. M \in Int /\ 0 <= M /\ M <= 1500
  OBVIOUS
<1> HIDE DEF A, G, L, M
<1>5. A + G + L + M \in Int /\ 0 <= A + G + L + M /\ A + G + L + M <= 10000
  BY <1>1, <1>2, <1>3, <1>4
<1>6. \A v \in Int : 0 <= v /\ v <= 10000 => v \div 100 \in 0 .. 100
  OBVIOUS
<1> DEFINE T == A + G + L + M
<1>7. T \div 100 \in Score
  <2>1. T \in Int /\ 0 <= T /\ T <= 10000
    BY <1>5
  <2> HIDE DEF T
  <2> QED
    BY <2>1, <1>6 DEF Score
<1>8. Weighted(a, g, l, m) = T \div 100
  BY Zenon DEF Weighted, A, G, L, M
<1> HIDE DEF T
<1> QED
  BY <1>7, <1>8, Zenon

\* A score is a weighted mean of four numbers in 0 .. 100.
LEMMA ScoreBound ==
    ASSUME TrustAssumption, NEW h \in Seq(Payloads), Len(h) <= MaxHistory, NEW p \in Payloads
    PROVE  ScoreOf(h, p) \in Score
<1> DEFINE series == Append(h, p)
           n == Len(series)
           A == Penalty([i \in 1 .. n |-> series[i].accel])
           G == Penalty([i \in 1 .. n |-> series[i].gyro])
           K == {i \in 1 .. n : series[i].touch}
           L == TouchLoss(n, Cardinality(K))
           M == Clamp(p.motion)
<1>1. n \in 1 .. MaxHistory + 1
  BY DEF TrustAssumption
<1>2. Cardinality(K) \in 0 .. n
  <2>1. n \in Nat /\ K \in SUBSET (1 .. n)
    BY <1>1
  <2> HIDE DEF n, K
  <2> QED
    BY <2>1, Counted, Zenon
<1>3. L \in 0 .. 50
  <2> HIDE DEF n, K
  <2> QED
    BY <1>1, <1>2, Zenon DEF TrustAssumption
<1>4. A \in 0 .. 100 /\ G \in 0 .. 100
  BY PenaltyBound, Zenon
<1>5. M \in 0 .. 100
  BY ClampBound DEF TrustAssumption
<1>6. ScoreOf(h, p) = Weighted(A, G, L, M)
  BY Zenon DEF ScoreOf, Weighted
<1> QED
  <2> HIDE DEF A, G, L, M, n, K
  <2>1. \A a, g, m \in 0 .. 100 : \A l \in 0 .. 50 : Weighted(a, g, l, m) \in Score
    BY WeightedBound, Zenon
  <2>2. Weighted(A, G, L, M) \in Score
    BY <1>3, <1>4, <1>5, <2>1
  <2> QED
    BY <1>6, <2>2, Zenon

\* What is left without the oldest payload.
LEMMA FrontLength ==
    ASSUME NEW S, NEW t \in Seq(S), Len(t) > 0
    PROVE  Front(t) \in Seq(S) /\ Len(Front(t)) = Len(t) - 1
<1>1. Front(t) = SubSeq(t, 1, Len(t) - 1)
  BY Zenon DEF Front
<1>2. Len(t) - 1 \in Nat
  OBVIOUS
<1>3. \A k \in Nat : k <= Len(t) => SubSeq(t, 1, k) \in Seq(S) /\ Len(SubSeq(t, 1, k)) = k
  OBVIOUS
<1>4. Len(t) - 1 <= Len(t)
  BY <1>2
<1> QED
  BY <1>1, <1>2, <1>3, <1>4, Zenon

\* The history a heartbeat leaves: no longer than MaxHistory.
LEMMA PushBound ==
    ASSUME TrustAssumption, NEW h \in Seq(Payloads), Len(h) <= MaxHistory, NEW p \in Payloads,
           NEW q, q = IF Len(<<p>> \o h) > MaxHistory THEN Front(<<p>> \o h) ELSE <<p>> \o h
    PROVE  q \in Seq(Payloads) /\ Len(q) <= MaxHistory
<1> DEFINE s == <<p>> \o h
<1>1. s \in Seq(Payloads) /\ Len(s) = Len(h) + 1
  OBVIOUS
<1>2. \A t \in Seq(Payloads) : Len(t) > 0 =>
          Front(t) \in Seq(Payloads) /\ Len(Front(t)) = Len(t) - 1
  BY FrontLength, Zenon
<1>3. MaxHistory \in Nat /\ Len(h) \in Nat
  BY DEF TrustAssumption
<1>4. q = IF Len(s) > MaxHistory THEN Front(s) ELSE s
  OBVIOUS
<1>5. Len(s) > 0
  BY <1>1, <1>3
<1> HIDE DEF s
<1>6. CASE Len(s) > MaxHistory
  <2>1. q = Front(s)
    BY <1>4, <1>6, Zenon
  <2>2. Front(s) \in Seq(Payloads) /\ Len(Front(s)) = Len(s) - 1
    BY <1>1, <1>2, <1>5, Zenon
  <2>3. Len(s) - 1 <= MaxHistory
    BY <1>1, <1>3
  <2> QED
    BY <2>1, <2>2, <2>3, Zenon
<1>7. CASE ~(Len(s) > MaxHistory)
  <2>1. q = s
    BY <1>4, <1>7, Zenon
  <2>2. Len(s) <= MaxHistory
    BY <1>1, <1>3, <1>7
  <2> QED
    BY <1>1, <2>1, <2>2, Zenon
<1> QED
  BY <1>6, <1>7, Zenon

\* TypeOK: scores, counts and the history keep their bounds, whatever devices send.
THEOREM TypeCorrect == Spec => []TypeOK
<1>1. Init => TypeOK
  BY TrustAssumption DEF Init, TypeOK, NoBaseline, Score, TrustAssumption
<1>2. TypeOK /\ [Next]_vars => TypeOK'
  <2> SUFFICES ASSUME TypeOK, [Next]_vars PROVE TypeOK'
    OBVIOUS
  <2>1. ASSUME NEW p \in Payloads, Beat(p) PROVE TypeOK'
    <3> DEFINE score == ScoreOf(hist', p)
               counted == [count |-> base.count + 1, sum |-> base.sum + score,
                           sq |-> base.sq + score * score]
    <3>1. hist' \in Seq(Payloads) /\ Len(hist') <= MaxHistory
      <4>1. hist' = IF Len(<<p>> \o hist) > MaxHistory THEN Front(<<p>> \o hist) ELSE <<p>> \o hist
        BY <2>1, Zenon DEF Beat
      <4> QED
        BY <4>1, PushBound, TrustAssumption DEF TypeOK
    <3>2. score \in Score
      BY <3>1, ScoreBound, TrustAssumption
    <3>3. /\ base' = counted
          /\ last' = [score |-> score, locked |-> Below(score, counted)]
          /\ scores' = Append(scores, score)
          /\ steady' = (steady /\ (hist = <<>> \/ p = Head(hist)))
      BY <2>1, Zenon DEF Beat
    <3> HIDE DEF score
    <3>4. score \in 0 .. 100 /\ score * score \in Nat
      BY <3>2 DEF Score
    <3>5. base'.count \in Nat /\ base'.sum \in Nat /\ base'.sq \in Nat
      <4>1. base.count \in Nat /\ base.sum \in Nat /\ base.sq \in Nat
        BY DEF TypeOK
      <4>2. \A c, u, q \in Nat : \A v \in 0 .. 100 : \A w \in Nat :
                c + 1 \in Nat /\ u + v \in Nat /\ q + w \in Nat
        OBVIOUS
      <4>3. /\ base'.count = base.count + 1
            /\ base'.sum = base.sum + score
            /\ base'.sq = base.sq + score * score
        BY <3>3, Zenon
      <4>4. base'.count \in Nat
        BY <4>1, <4>3
      <4>5. base'.sum \in Nat
        BY <3>4, <4>1, <4>3
      <4>6. base'.sq \in Nat
        <5> HIDE DEF counted
        <5>1. \A w : w = score * score => base.sq + w \in Nat
          BY <3>4, <4>1, <4>2, Zenon
        <5> QED
          BY <5>1, <4>3, Zenon
      <4> QED
        BY <4>4, <4>5, <4>6
    <3>6. Below(score, counted) \in BOOLEAN
      <4>1. \A v, w \in Int : (v < w) \in BOOLEAN
        OBVIOUS
      <4>2. counted.count \in Int /\ Warmup \in Int /\ score \in Int /\ 50 \in Int
        BY <3>4, <3>5, <3>3, TrustAssumption DEF TrustAssumption
      <4> HIDE DEF counted
      <4> QED
        BY <4>1, <4>2, Zenon DEF Below
    <3>7. last' \in [score : Score, locked : BOOLEAN]
      <4> HIDE DEF counted
      <4> QED
        BY <3>2, <3>3, <3>6
    <3>8. scores' \in Seq(Score)
      BY <3>2, <3>3 DEF TypeOK
    <3>9. steady' \in BOOLEAN
      BY <3>3, Zenon
    <3> QED
      BY <3>1, <3>5, <3>7, <3>8, <3>9 DEF TypeOK
  <2>2. CASE Expire
    BY <2>2 DEF Expire, TypeOK, NoBaseline
  <2>3. CASE UNCHANGED vars
    BY <2>3 DEF vars, TypeOK
  <2> QED
    BY <2>1, <2>2, <2>3 DEF Next
<1> QED
  BY <1>1, <1>2, PTL DEF Spec

-----------------------------------------------------------------------------
(* Which scores lock                                                       *)

\* How many of some scores, and of the baseline's, are at most t.
UpTo(s, t) == Cardinality({i \in DOMAIN s : s[i] <= t})
Within(t) == UpTo(scores, t)

\* The sum over the baseline of (p - q * score) ^ 2.
Spread(p, q) == base.count * (p * p) - 2 * ((p * q) * base.sum) + (q * q) * base.sq

\* Each score of at most t adds at least (p - q * t) ^ 2 to it.
Far == \A t \in Score : \A p \in Int : \A q \in Nat :
          p >= q * t => Within(t) * ((p - q * t) * (p - q * t)) <= Spread(p, q)

\* How far the last score is below the mean, and the variance, both scaled.
Gap == base.sum - base.count * last.score
Var == base.count * base.sq - base.sum * base.sum

\* The inductive invariant: the baseline counts the scores, they keep the bound, and the
\* last one, if it locked by the adaptive threshold, is two deviations below their mean.
RareInv ==
    /\ base.count = Len(scores)
    /\ Far
    /\ (last.locked /\ last.score >= 30 /\ base.count >= Warmup /\ base.count > 0) =>
           Gap > 0 /\ Gap * Gap > 4 * Var

\* One more score counts if it is at most t.
LEMMA AppendWithin ==
    ASSUME NEW s \in Seq(Score), NEW x \in Score, NEW t \in Score
    PROVE  UpTo(s, t) \in Nat /\ UpTo(Append(s, x), t) = UpTo(s, t) + (IF x <= t THEN 1 ELSE 0)
<1> DEFINE a == Append(s, x)
           n == Len(s)
           S == {i \in DOMAIN s : s[i] <= t}
           T == {i \in DOMAIN a : a[i] <= t}
<1>1. /\ n \in Nat /\ DOMAIN s = 1 .. n /\ DOMAIN a = 1 .. n + 1 /\ a[n + 1] = x
      /\ \A i \in 1 .. n : a[i] = s[i]
  OBVIOUS
<1>2. IsFiniteSet(S) /\ Cardinality(S) \in Nat
  <2>1. S \in SUBSET (1 .. n) /\ n \in Nat
    BY <1>1
  <2>2. IsFiniteSet(1 .. n)
    BY <2>1, FS_Interval
  <2> HIDE DEF S, n
  <2> QED
    BY <2>1, <2>2, FS_Subset, FS_CardinalityType
<1>3. n + 1 \notin S
  BY <1>1
<1>4. T = IF x <= t THEN S \cup {n + 1} ELSE S
  <2> HIDE DEF a, n
  <2>1. \A i : i \in 1 .. n + 1 <=> i \in 1 .. n \/ i = n + 1
    BY <1>1
  <2>2. \A i \in T : i \in S \/ (i = n + 1 /\ x <= t)
    BY <1>1, <2>1, Zenon
  <2>3. \A i \in S : i \in T
    BY <1>1, <2>1, Zenon
  <2>4. x <= t => n + 1 \in T
    BY <1>1, <2>1, Zenon
  <2> HIDE DEF S, T
  <2> QED
    BY <1>3, <2>2, <2>3, <2>4
<1> HIDE DEF S, T, n, a, UpTo
<1>5. Cardinality(S \cup {n + 1}) = Cardinality(S) + 1
  BY <1>2, <1>3, FS_AddElement
<1>6. Cardinality(T) = Cardinality(S) + (IF x <= t THEN 1 ELSE 0)
  BY <1>2, <1>4, <1>5
<1> QED
  BY <1>2, <1>6 DEF S, T, n, a, UpTo

\* The arithmetic of one more score.
LEMMA SpreadGrows ==
    ASSUME NEW c \in Int, NEW u \in Int, NEW w \in Int, NEW p \in Int, NEW q \in Int, NEW x \in Int
    PROVE
        (c + 1) * (p * p) - 2 * ((p * q) * (u + x)) + (q * q) * (w + x * x)
            = (c * (p * p) - 2 * ((p * q) * u) + (q * q) * w) + (p - q * x) * (p - q * x)
OBVIOUS

LEMMA Square == \A a \in Int : a * a >= 0
OBVIOUS

LEMMA SquareGrows == \A a, b \in Int : 0 <= a /\ a <= b => a * a <= b * b
OBVIOUS

LEMMA Times == \A a, b, q \in Int : q >= 0 /\ a <= b => q * a <= q * b
OBVIOUS

\* One more score keeps the bound.
LEMMA FarStep ==
    ASSUME NEW c \in Int, NEW u \in Int, NEW w \in Int, NEW p \in Int, NEW q \in Nat,
           NEW x \in Int, NEW t \in Int, NEW k \in Nat, p >= q * t,
           k * ((p - q * t) * (p - q * t)) <= c * (p * p) - 2 * ((p * q) * u) + (q * q) * w
    PROVE  (k + (IF x <= t THEN 1 ELSE 0)) * ((p - q * t) * (p - q * t))
             <= (c + 1) * (p * p) - 2 * ((p * q) * (u + x)) + (q * q) * (w + x * x)
<1> DEFINE d == p - q * t
           e == p - q * x
           l == c * (p * p) - 2 * ((p * q) * u) + (q * q) * w
           r == (c + 1) * (p * p) - 2 * ((p * q) * (u + x)) + (q * q) * (w + x * x)
<1>1. d \in Int /\ e \in Int /\ d >= 0 /\ l \in Int /\ r \in Int
  OBVIOUS
<1>2. r = l + e * e
  <2>1. q \in Int
    OBVIOUS
  <2> QED
    BY ONLY <2>1, c \in Int, u \in Int, w \in Int, p \in Int, x \in Int, SpreadGrows
<1>3. x <= t => d <= e
  <2>1. x <= t => q * x <= q * t
    BY Times
  <2> QED
    BY <2>1
<1>4. k * (d * d) <= l
  OBVIOUS
<1> HIDE DEF d, e, l, r
<1>5. e * e >= 0 /\ e * e \in Int /\ d * d \in Int
  BY <1>1, Square
<1>6. x <= t => d * d <= e * e
  BY <1>1, <1>3, SquareGrows
<1> DEFINE dd == d * d  ee == e * e  kd == k * dd
<1>7. dd \in Int /\ ee \in Int /\ kd \in Int /\ (k + 1) * dd = kd + dd /\ (k + 0) * dd = kd
  BY <1>5
<1>8. kd <= l /\ r = l + ee /\ ee >= 0 /\ (x <= t => dd <= ee)
  BY <1>2, <1>4, <1>5, <1>6
<1> HIDE DEF dd, ee, kd
<1>9. (k + (IF x <= t THEN 1 ELSE 0)) * dd <= r
  BY <1>1, <1>7, <1>8
<1> QED
  BY <1>9 DEF d, r, dd

\* The arithmetic of a score that locks: n scores with sum u and sum of squares w,
\* and k of them no more than s.
LEMMA FewLow ==
    ASSUME NEW n \in Nat, NEW u \in Nat, NEW w \in Nat, NEW s \in Nat, NEW k \in Nat, n > 0,
           u - n * s > 0, (u - n * s) * (u - n * s) > 4 * (n * w - u * u),
           n * w - u * u >= 0,
           LET e == w - 2 * (s * u) + n * (s * s)
           IN  e >= 0 /\ k * (e * e) <= (n * w - u * u) * e
    PROVE  5 * k <= n
<1> DEFINE e == w - 2 * (s * u) + n * (s * s)
           d == u - n * s
           v == n * w - u * u
<1>1. e \in Int /\ d \in Int /\ v \in Int /\ e >= 0 /\ v >= 0 /\ d > 0 /\ d * d > 4 * v
  OBVIOUS
<1>2. n * e = v + d * d
  OBVIOUS
<1>3. k * (e * e) <= v * e
  OBVIOUS
<1> HIDE DEF e, d, v
<1>4. n * e > 5 * v /\ n * e \in Int
  <2> DEFINE dd == d * d  ne == n * e
  <2>1. dd \in Int /\ ne \in Int /\ ne = v + dd /\ dd > 4 * v
    BY <1>1, <1>2
  <2> HIDE DEF dd, ne
  <2>2. ne > 5 * v
    BY <1>1, <2>1
  <2> QED
    BY <2>1, <2>2 DEF ne
<1>5. e > 0
  <2>1. e = 0 => n * e = 0
    OBVIOUS
  <2> QED
    BY <1>1, <1>4, <2>1
<1>6. k * e <= v
  <2>1. \A a, b, c \in Int : c > 0 /\ a * c <= b * c => a <= b
    OBVIOUS
  <2>2. k * (e * e) = (k * e) * e /\ k * e \in Int
    BY <1>1
  <2> QED
    BY <1>1, <1>3, <1>5, <2>1, <2>2
<1>7. (5 * k) * e < n * e
  <2> DEFINE ke == k * e  ne == n * e
  <2>1. ke \in Int /\ ne \in Int /\ ke <= v /\ ne > 5 * v
    BY <1>1, <1>4, <1>6
  <2>2. (5 * k) * e = 5 * ke
    BY <1>1
  <2> HIDE DEF ke, ne
  <2>3. 5 * ke < ne
    BY <1>1, <2>1
  <2> QED
    BY <2>2, <2>3 DEF ne
<1>8. \A a, b, c \in Int : c > 0 /\ a * c < b * c => a < b
  OBVIOUS
<1>9. 5 * k \in Int /\ n \in Int
  OBVIOUS
<1>10. 5 * k < n
  BY <1>1, <1>5, <1>7, <1>8, <1>9
<1> QED
  BY <1>9, <1>10

\* What Spread is at the two points the bound is taken at.
LEMMA SpreadAt ==
    ASSUME NEW n \in Int, NEW u \in Int, NEW w \in Int, NEW s \in Int
    PROVE  /\ n * (u * u) - 2 * ((u * n) * u) + (n * n) * w = n * (n * w - u * u)
           /\ LET p == w - s * u
                  q == u - n * s
                  e == w - 2 * (s * u) + n * (s * s)
              IN  /\ p - q * s = e
                  /\ n * (p * p) - 2 * ((p * q) * u) + (q * q) * w = (n * w - u * u) * e
OBVIOUS

\* What a heartbeat does to the baseline and to the last score.
LEMMA BeatStep ==
    ASSUME TypeOK, TypeOK', NEW p \in Payloads, Beat(p)
    PROVE  \E x \in Score :
             /\ base' = [count |-> base.count + 1, sum |-> base.sum + x, sq |-> base.sq + x * x]
             /\ last' = [score |-> x, locked |-> Below(x, base')]
             /\ scores' = Append(scores, x)
             /\ x = ScoreOf(hist', p)
<1> DEFINE x == ScoreOf(hist', p)
<1>1. /\ base' = [count |-> base.count + 1, sum |-> base.sum + x, sq |-> base.sq + x * x]
      /\ last' = [score |-> x, locked |-> Below(x, base')]
      /\ scores' = Append(scores, x)
  BY Zenon DEF Beat
<1>2. x \in Score
  <2>1. last'.score = x
    BY <1>1, Zenon
  <2> HIDE DEF x
  <2> QED
    BY <2>1 DEF TypeOK
<1> HIDE DEF x
<1> QED
  BY <1>1, <1>2, Zenon DEF x

\* RareInv is inductive.
LEMMA RareInvariant == Spec => []RareInv
<1>1. Init => RareInv
  <2> SUFFICES ASSUME Init PROVE RareInv
    OBVIOUS
  <2>1. base = NoBaseline /\ scores = <<>> /\ ~last.locked
    BY Zenon DEF Init
  <2>2. base.count = 0 /\ base.sum = 0 /\ base.sq = 0 /\ Len(scores) = 0
    BY <2>1 DEF NoBaseline
  <2>3. Far
    <3> SUFFICES ASSUME NEW t \in Score, NEW p \in Int, NEW q \in Nat
                 PROVE  Within(t) * ((p - q * t) * (p - q * t)) <= Spread(p, q)
      BY DEF Far
    <3>1. Within(t) = 0
      <4>1. {i \in DOMAIN scores : scores[i] <= t} = {}
        BY <2>1
      <4> QED
        BY <4>1, FS_EmptySet, Zenon DEF Within, UpTo
    <3>2. t \in Int /\ (p - q * t) * (p - q * t) \in Int
      BY DEF Score
    <3>3. Spread(p, q) = 0
      BY <2>2 DEF Spread
    <3> QED
      BY <3>1, <3>2, <3>3
  <2> QED
    BY <2>1, <2>2, <2>3 DEF RareInv
<1>2. TypeOK /\ TypeOK' /\ RareInv /\ [Next]_vars => RareInv'
  <2> SUFFICES ASSUME TypeOK, TypeOK', RareInv, [Next]_vars PROVE RareInv'
    OBVIOUS
  <2>1. ASSUME NEW p0 \in Payloads, Beat(p0) PROVE RareInv'
    <3>1. PICK x \in Score :
             /\ base' = [count |-> base.count + 1, sum |-> base.sum + x, sq |-> base.sq + x * x]
             /\ last' = [score |-> x, locked |-> Below(x, base')]
             /\ scores' = Append(scores, x)
      BY <2>1, BeatStep
    <3>2. /\ base'.count = base.count + 1 /\ base'.sum = base.sum + x /\ base'.sq = base.sq + x * x
          /\ last'.score = x /\ last'.locked = Below(x, base')
      BY <3>1, Zenon
    <3>3. x \in Nat /\ base.count \in Nat /\ base.sum \in Nat /\ base.sq \in Nat /\ scores \in Seq(Score)
      BY DEF Score, TypeOK
    <3>4. base'.count = Len(scores')
      BY <3>1, <3>2, <3>3 DEF RareInv
    <3>5. Far'
      <4> SUFFICES ASSUME NEW t \in Score, NEW p \in Int, NEW q \in Nat, p >= q * t
                   PROVE  Within(t)' * ((p - q * t) * (p - q * t)) <= Spread(p, q)'
        BY DEF Far
      <4>1. Within(t) \in Nat /\ Within(t)' = Within(t) + (IF x <= t THEN 1 ELSE 0)
        <5>1. Within(t)' = UpTo(Append(scores, x), t)
          BY <3>1, Zenon DEF Within
        <5>2. scores \in Seq(Score)
          BY <3>3
        <5> QED
          BY <5>1, <5>2, AppendWithin, Zenon DEF Within
      <4>2. Within(t) * ((p - q * t) * (p - q * t)) <= Spread(p, q)
        BY DEF RareInv, Far
      <4>3. Spread(p, q) = base.count * (p * p) - 2 * ((p * q) * base.sum) + (q * q) * base.sq
        BY DEF Spread
      <4>4. Spread(p, q)' = (base.count + 1) * (p * p) - 2 * ((p * q) * (base.sum + x))
                              + (q * q) * (base.sq + x * x)
        BY <3>2, Zenon DEF Spread
      <4>5. t \in Int /\ x \in Int /\ base.count \in Int /\ base.sum \in Int /\ base.sq \in Int
        BY <3>3 DEF Score
      <4> DEFINE k == Within(t)  c == base.count  u == base.sum  w == base.sq
      <4>6. k \in Nat /\ c \in Int /\ u \in Int /\ w \in Int
        BY <4>1, <4>5
      <4>7. k * ((p - q * t) * (p - q * t)) <= c * (p * p) - 2 * ((p * q) * u) + (q * q) * w
        BY <4>2, <4>3, Zenon
      <4> HIDE DEF k, c, u, w
      <4>8. (k + (IF x <= t THEN 1 ELSE 0)) * ((p - q * t) * (p - q * t))
               <= (c + 1) * (p * p) - 2 * ((p * q) * (u + x)) + (q * q) * (w + x * x)
        BY <4>5, <4>6, <4>7, FarStep
      <4> QED
        BY <4>1, <4>4, <4>8, Zenon DEF k, c, u, w
    <3>6. (last'.locked /\ last'.score >= 30 /\ base'.count >= Warmup /\ base'.count > 0) =>
             Gap' > 0 /\ Gap' * Gap' > 4 * Var'
      <4> SUFFICES ASSUME Below(x, base'), x >= 30, base'.count >= Warmup
                   PROVE  Gap' > 0 /\ Gap' * Gap' > 4 * Var'
        BY <3>2, Zenon
      <4> DEFINE g == base'.sum - base'.count * x
                 v == base'.count * base'.sq - base'.sum * base'.sum
      <4>1. Gap' = g /\ Var' = v
        BY <3>2, Zenon DEF Gap, Var
      <4>2. ~(base'.count < Warmup) /\ ~(x < 30)
        BY <3>2, <3>3, TrustAssumption DEF TrustAssumption
      <4>3. g > 0 /\ g * g > 4 * v
        BY <4>2, Zenon DEF Below
      <4> QED
        BY <4>1, <4>3, Zenon
    <3> QED
      BY <3>4, <3>5, <3>6, Zenon DEF RareInv
  <2>2. CASE Expire
    <3>1. base' = NoBaseline /\ scores' = <<>>
      BY <2>2, Zenon DEF Expire
    <3>2. base'.count = 0 /\ base'.sum = 0 /\ base'.sq = 0 /\ Len(scores') = 0
      BY <3>1 DEF NoBaseline
    <3>3. Far'
      <4> SUFFICES ASSUME NEW t \in Score, NEW p \in Int, NEW q \in Nat
                   PROVE  Within(t)' * ((p - q * t) * (p - q * t)) <= Spread(p, q)'
        BY DEF Far
      <4>1. Within(t)' = 0
        <5>1. {i \in DOMAIN scores' : scores'[i] <= t} = {}
          BY <3>1
        <5> QED
          BY <5>1, FS_EmptySet, Zenon DEF Within, UpTo
      <4>2. t \in Int /\ (p - q * t) * (p - q * t) \in Int
        BY DEF Score
      <4>3. Spread(p, q)' = 0
        BY <3>2 DEF Spread
      <4> QED
        BY <4>1, <4>2, <4>3
    <3> QED
      BY <3>2, <3>3 DEF RareInv
  <2>3. CASE UNCHANGED vars
    <3>1. hist' = hist /\ base' = base /\ last' = last /\ scores' = scores
      BY <2>3 DEF vars
    <3> QED
      BY <3>1 DEF RareInv, Far, Within, UpTo, Spread, Gap, Var
  <2> QED
    BY <2>1, <2>2, <2>3 DEF Next
<1> QED
  BY <1>1, <1>2, TypeCorrect, PTL DEF Spec

\* LockIsRare: once the threshold adapts, a score of 30 and more that locks is among
\* the lowest fifth of the baseline.
THEOREM LocksAreRare == Spec => []LockIsRare
<1>1. TypeOK /\ RareInv => LockIsRare
  <2> SUFFICES ASSUME TypeOK, RareInv, last.locked, last.score >= 30, base.count >= Warmup, base.count > 0
               PROVE  5 * Within(last.score) <= Len(scores)
    BY Zenon DEF LockIsRare, Within, UpTo
  <2> DEFINE n == base.count  u == base.sum  w == base.sq  s == last.score  k == Within(s)
             v == n * w - u * u
             e == w - 2 * (s * u) + n * (s * s)
             d == u - n * s
             p == w - s * u
  <2>1. n \in Nat /\ u \in Nat /\ w \in Nat /\ s \in Score /\ s \in Nat /\ n > 0
    <3>1. base.count \in Nat /\ base.sum \in Nat /\ base.sq \in Nat /\ last.score \in Score
      BY DEF TypeOK
    <3>2. \A t \in Score : t \in Nat
      BY DEF Score
    <3> QED
      BY <3>1, <3>2, Zenon
  <2>2. d > 0 /\ d * d > 4 * v
    BY Zenon DEF RareInv, Gap, Var
  <2>3. k \in Nat /\ Within(0) \in Nat
    <3> DEFINE S(t) == {i \in DOMAIN scores : scores[i] <= t}
    <3>1. DOMAIN scores = 1 .. Len(scores) /\ Len(scores) \in Nat
      BY DEF TypeOK
    <3>2. S(s) \in SUBSET (1 .. Len(scores)) /\ S(0) \in SUBSET (1 .. Len(scores))
      BY <3>1
    <3>3. IsFiniteSet(1 .. Len(scores))
      BY <3>1, FS_Interval
    <3>4. \A T \in SUBSET (1 .. Len(scores)) : Cardinality(T) \in Nat
      BY <3>3, FS_Subset, FS_CardinalityType
    <3>5. Within(s) = Cardinality(S(s)) /\ Within(0) = Cardinality(S(0))
      BY Zenon DEF Within, UpTo
    <3> HIDE DEF S, s
    <3> QED
      BY <3>2, <3>4, <3>5, Zenon
  <2>4. \A t \in Score : \A y \in Int : \A q \in Nat : y >= q * t =>
           Within(t) * ((y - q * t) * (y - q * t)) <= n * (y * y) - 2 * ((y * q) * u) + (q * q) * w
    BY Zenon DEF RareInv, Far, Spread
  <2> HIDE DEF n, u, w, s, k
  <2>5. Within(0) * ((u - n * 0) * (u - n * 0)) <= n * (u * u) - 2 * ((u * n) * u) + (n * n) * w
    <3>1. 0 \in Score /\ u \in Int /\ u >= n * 0
      BY <2>1 DEF Score
    <3> QED
      BY <2>1, <2>4, <3>1
  <2>6. v >= 0
    <3>1. n * (u * u) - 2 * ((u * n) * u) + (n * n) * w = n * v
      BY <2>1, SpreadAt
    <3>2. v \in Int
      BY <2>1
    <3> HIDE DEF v
    <3>3. \A a, b \in Nat : a * b >= 0
      OBVIOUS
    <3>4. (u - n * 0) * (u - n * 0) \in Nat
      BY <2>1, u - n * 0 = u
    <3>5. Within(0) * ((u - n * 0) * (u - n * 0)) >= 0
      BY <2>3, <3>3, <3>4
    <3>6. n * v >= 0
      <4> DEFINE l == Within(0) * ((u - n * 0) * (u - n * 0))  nv == n * v
      <4>1. l \in Int /\ nv \in Int /\ l >= 0 /\ l <= nv
        BY <2>1, <2>3, <2>5, <3>1, <3>2, <3>4, <3>5
      <4> HIDE DEF l, nv
      <4>2. nv >= 0
        BY <4>1
      <4> QED
        BY <4>2 DEF nv
    <3>7. \A a, b \in Int : a > 0 /\ a * b >= 0 => b >= 0
      OBVIOUS
    <3> QED
      BY <2>1, <3>2, <3>6, <3>7
  <2>7. e >= 0
    <3>1. s \in Int /\ s >= 1 * s
      BY <2>1
    <3>2. k * ((s - 1 * s) * (s - 1 * s)) <= n * (s * s) - 2 * ((s * 1) * u) + (1 * 1) * w
      BY <2>1, <2>4, <3>1, 1 \in Nat DEF k
    <3>3. k * ((s - 1 * s) * (s - 1 * s)) = 0
      BY <2>1, <2>3
    <3>4. n * (s * s) - 2 * ((s * 1) * u) + (1 * 1) * w = e
      BY <2>1
    <3> QED
      BY <3>2, <3>3, <3>4
  <2>8. p - d * s = e /\ n * (p * p) - 2 * ((p * d) * u) + (d * d) * w = v * e
    BY <2>1, SpreadAt
  <2>9. k * (e * e) <= v * e
    <3>1. d \in Nat /\ p \in Int /\ e \in Int
      BY <2>1, <2>2
    <3> HIDE DEF d, p, e, v
    <3>2. p >= d * s
      BY <2>1, <2>7, <2>8, <3>1
    <3>3. k * ((p - d * s) * (p - d * s)) <= n * (p * p) - 2 * ((p * d) * u) + (d * d) * w
      BY <2>1, <2>4, <3>1, <3>2, Zenon DEF k
    <3> QED
      BY <2>8, <3>3, Zenon
  <2>10. 5 * k <= n
    BY <2>1, <2>2, <2>3, <2>6, <2>7, <2>9, FewLow
  <2>11. n = Len(scores)
    BY DEF RareInv, n
  <2> QED
    BY <2>10, <2>11, Zenon DEF k, s
<1> QED
  BY <1>1, TypeCorrect, RareInvariant, PTL

-----------------------------------------------------------------------------
(* A device that reports the same                                          *)

\* Every payload of the history is p.
Constantly(h, p) == \A i \in 1 .. Len(h) : h[i] = p

\* What a payload scores after any number of its like.
Flat(p) == Weighted(0, 0, 0, Clamp(p.motion))

\* Motion alone takes no more than 15 points off.
LEMMA FlatBound == ASSUME TrustAssumption, NEW p \in Payloads PROVE Flat(p) \in 85 .. 100
<1>1. Clamp(p.motion) \in 0 .. 100
  BY ClampBound DEF TrustAssumption
<1>2. \A m \in 0 .. 100 : (40 * (100 - 0) + 30 * (100 - 0) + 15 * (100 - 0) + 15 * m) \div 100 \in 85 .. 100
  OBVIOUS
<1> QED
  BY <1>1, <1>2, Zenon DEF Flat, Weighted

\* A payload after its like scores Flat.
LEMMA ConstantScore ==
    ASSUME TrustAssumption, NEW h \in Seq(Payloads), Len(h) <= MaxHistory, NEW p \in Payloads, Constantly(h, p)
    PROVE  ScoreOf(h, p) = Flat(p)
<1> DEFINE series == Append(h, p)
           n == Len(series)
           a == [i \in 1 .. n |-> series[i].accel]
           g == [i \in 1 .. n |-> series[i].gyro]
           K == {i \in 1 .. n : series[i].touch}
<1>1. n \in 1 .. MaxHistory + 1 /\ n \in Nat /\ n # 0
  BY DEF TrustAssumption
<1>2. \A i \in 1 .. n : series[i] = p
  BY DEF Constantly
<1>3. p.accel \in Int /\ p.gyro \in Int /\ p.touch \in BOOLEAN
  BY DEF TrustAssumption
<1> HIDE DEF n, series
<1>4. /\ IsSeries(a, n) /\ \A i \in 1 .. n : a[i] = p.accel
      /\ IsSeries(g, n) /\ \A i \in 1 .. n : g[i] = p.gyro
  BY <1>1, <1>2, <1>3 DEF IsSeries
<1> HIDE DEF a, g
<1>5. Penalty(a) = 0 /\ Penalty(g) = 0
  BY <1>1, <1>3, <1>4, ConstantPenalty
<1>6. Cardinality(K) = 0 \/ Cardinality(K) = n
  <2>1. CASE p.touch
    <3>1. K = 1 .. n
      BY <1>2, <2>1
    <3> HIDE DEF K
    <3> QED
      BY <1>1, <3>1, FS_Interval
  <2>2. CASE ~p.touch
    <3>1. K = {}
      BY <1>2, <2>2
    <3> HIDE DEF K
    <3> QED
      BY <3>1, FS_EmptySet
  <2> QED
    BY <2>1, <2>2
<1> HIDE DEF K
<1>7. TouchLoss(n, Cardinality(K)) = 0
  BY <1>1, <1>6, Zenon DEF TrustAssumption
<1>8. ScoreOf(h, p) = Weighted(Penalty(a), Penalty(g), TouchLoss(n, Cardinality(K)), Clamp(p.motion))
  BY Zenon DEF ScoreOf, Weighted, a, g, K, n, series
<1> QED
  BY <1>5, <1>7, <1>8, Zenon DEF Flat

\* The inductive invariant: the history is of one payload, and the mean of the baseline is
\* exactly what that payload scores, so that no score is below the mean.
SteadyInv ==
    steady => /\ ~last.locked
              /\ hist = <<>> => base = NoBaseline
              /\ hist # <<>> => /\ Constantly(hist, Head(hist))
                                /\ base.sum = base.count * Flat(Head(hist))

\* What is pushed on a history of the same is a history of the same.
LEMMA PushConstant ==
    ASSUME TrustAssumption, NEW h \in Seq(Payloads), Len(h) <= MaxHistory, NEW p \in Payloads, Constantly(h, p),
           NEW q, q = IF Len(<<p>> \o h) > MaxHistory THEN Front(<<p>> \o h) ELSE <<p>> \o h
    PROVE  q # <<>> /\ Head(q) = p /\ Constantly(q, p)
<1> DEFINE s == <<p>> \o h
<1>1. s \in Seq(Payloads) /\ Len(s) = Len(h) + 1 /\ Len(h) \in Nat /\ Constantly(s, p)
  BY DEF Constantly
<1>2. MaxHistory \in Nat \ {0}
  BY DEF TrustAssumption
<1> HIDE DEF s
<1>3. Front(s) = SubSeq(s, 1, Len(s) - 1)
  BY Zenon DEF Front
<1>4. CASE Len(s) > MaxHistory
  <2>1. q = SubSeq(s, 1, Len(s) - 1)
    BY <1>3, <1>4, Zenon DEF s
  <2>2. Len(s) - 1 \in Nat \ {0} /\ Len(s) - 1 <= Len(s)
    BY <1>1, <1>2, <1>4
  <2>3. q \in Seq(Payloads) /\ Len(q) = Len(s) - 1 /\ \A i \in 1 .. Len(s) - 1 : q[i] = s[i]
    <3>1. \A m \in Nat : m <= Len(s) =>
             SubSeq(s, 1, m) \in Seq(Payloads) /\ Len(SubSeq(s, 1, m)) = m /\ \A i \in 1 .. m : SubSeq(s, 1, m)[i] = s[i]
      <4> SUFFICES ASSUME NEW m \in Nat, m <= Len(s)
                   PROVE  /\ SubSeq(s, 1, m) \in Seq(Payloads) /\ Len(SubSeq(s, 1, m)) = m
                          /\ \A i \in 1 .. m : SubSeq(s, 1, m)[i] = s[i]
        OBVIOUS
      <4>1. \A i \in 1 .. m : s[i] \in Payloads
        <5>1. \A i \in 1 .. m : i \in 1 .. Len(s)
          BY <1>1
        <5>2. \A i \in 1 .. Len(s) : s[i] \in Payloads
          BY ONLY <1>1
        <5> QED
          BY <5>1, <5>2, Zenon
      <4>2. m - 1 + 1 = m /\ (1 <= m \/ m = 0) /\ \A i \in 1 .. m : 1 + i - 1 = i
        OBVIOUS
      <4>3. /\ SubSeq(s, 1, m) \in Seq(Payloads)
            /\ Len(SubSeq(s, 1, m)) = IF 1 <= m THEN m - 1 + 1 ELSE 0
            /\ \A i \in 1 .. m - 1 + 1 : SubSeq(s, 1, m)[i] = s[1 + i - 1]
        BY <4>1, SubSeqProperties, 1 \in Int, m \in Int
      <4> QED
        BY <4>2, <4>3, Zenon
    <3> QED
      BY <2>1, <2>2, <3>1, Zenon
  <2>4. Constantly(q, p)
    <3>1. \A i \in 1 .. Len(s) - 1 : i \in 1 .. Len(s)
      BY <1>1
    <3> QED
      BY <1>1, <2>3, <3>1, Zenon DEF Constantly
  <2>5. 1 \in 1 .. Len(q) /\ q # <<>> /\ Head(q) = q[1]
    <3>1. \A m \in Nat \ {0} : 1 \in 1 .. m
      OBVIOUS
    <3>2. Len(q) \in Nat \ {0} /\ q \in Seq(Payloads)
      BY <2>2, <2>3, Zenon
    <3>3. q # <<>> /\ Head(q) = q[1]
      BY ONLY <3>2
    <3> QED
      BY <3>1, <3>2, <3>3, Zenon
  <2> QED
    BY <2>4, <2>5, Zenon DEF Constantly
<1>5. CASE ~(Len(s) > MaxHistory)
  <2>1. q = s
    BY <1>5, Zenon DEF s
  <2>2. s # <<>> /\ Head(s) = p
    BY <1>1 DEF Constantly
  <2> QED
    BY <1>1, <2>1, <2>2, Zenon
<1> QED
  BY <1>4, <1>5, Zenon

\* SteadyInv is inductive.
LEMMA SteadyInvariant == Spec => []SteadyInv
<1>1. Init => SteadyInv
  <2> SUFFICES ASSUME Init PROVE SteadyInv
    OBVIOUS
  <2>1. hist = <<>> /\ base = NoBaseline /\ last.locked = FALSE
    BY DEF Init
  <2> QED
    BY <2>1, Zenon DEF SteadyInv
<1>2. TypeOK /\ TypeOK' /\ SteadyInv /\ [Next]_vars => SteadyInv'
  <2> SUFFICES ASSUME TypeOK, TypeOK', SteadyInv, [Next]_vars, steady' PROVE SteadyInv'
    BY DEF SteadyInv
  <2>1. ASSUME NEW p \in Payloads, Beat(p) PROVE SteadyInv'
    <3>1. steady /\ (hist = <<>> \/ p = Head(hist))
      BY <2>1, Zenon DEF Beat
    <3>2. PICK x \in Score :
             /\ base' = [count |-> base.count + 1, sum |-> base.sum + x, sq |-> base.sq + x * x]
             /\ last' = [score |-> x, locked |-> Below(x, base')]
             /\ scores' = Append(scores, x)
             /\ x = ScoreOf(hist', p)
      BY <2>1, BeatStep
    <3>3. hist \in Seq(Payloads) /\ Len(hist) <= MaxHistory /\ hist' \in Seq(Payloads) /\ Len(hist') <= MaxHistory
      BY DEF TypeOK
    <3>4. Constantly(hist, p)
      <4>1. CASE hist = <<>>
        BY <4>1 DEF Constantly
      <4>2. CASE hist # <<>>
        BY <3>1, <4>2, Zenon DEF SteadyInv
      <4> QED
        BY <4>1, <4>2
    <3>5. hist' # <<>> /\ Head(hist') = p /\ Constantly(hist', p)
      <4>1. hist' = IF Len(<<p>> \o hist) > MaxHistory THEN Front(<<p>> \o hist) ELSE <<p>> \o hist
        BY <2>1, Zenon DEF Beat
      <4> QED
        BY <3>3, <3>4, <4>1, PushConstant, TrustAssumption
    <3>6. x = Flat(p)
      BY <3>2, <3>3, <3>5, ConstantScore, TrustAssumption
    <3>7. x \in 85 .. 100
      BY <3>6, FlatBound, TrustAssumption
    <3>8. base.count \in Nat /\ base.sum \in Nat /\ base.sum = base.count * x
      <4>1. base.count \in Nat /\ base.sum \in Nat
        BY DEF TypeOK
      <4>2. CASE hist = <<>>
        <5>1. base.count = 0 /\ base.sum = 0
          BY <3>1, <4>2 DEF SteadyInv, NoBaseline
        <5> QED
          BY <3>7, <4>1, <5>1
      <4>3. CASE hist # <<>>
        BY <3>1, <3>6, <4>1, <4>3, Zenon DEF SteadyInv
      <4> QED
        BY <4>2, <4>3
    <3>9. base'.count = base.count + 1 /\ base'.sum = base.sum + x /\ last'.locked = Below(x, base')
      BY <3>2, Zenon
    <3>10. base'.sum = base'.count * x /\ base'.count \in Nat /\ base'.sum \in Nat
      <4>1. \A c, u \in Nat : \A y \in 85 .. 100 : u = c * y => u + y = (c + 1) * y /\ c + 1 \in Nat /\ u + y \in Nat
        OBVIOUS
      <4> QED
        BY <3>7, <3>8, <3>9, <4>1
    <3>11. ~Below(x, base')
      <4> DEFINE gap == base'.sum - base'.count * x
      <4>1. gap = 0 /\ ~(gap > 0) /\ ~(x < 50) /\ ~(x < 30)
        BY <3>7, <3>10
      <4>2. Below(x, base') = IF base'.count < Warmup THEN x < 50
                ELSE x < 30 \/ (gap > 0 /\ gap * gap > 4 * (base'.count * base'.sq - base'.sum * base'.sum))
        BY Zenon DEF Below
      <4> HIDE DEF gap
      <4> QED
        BY <4>1, <4>2, Zenon
    <3> QED
      BY <3>5, <3>6, <3>9, <3>10, <3>11, Zenon DEF SteadyInv
  <2>2. CASE Expire
    <3>1. base' = NoBaseline /\ hist' = hist /\ last' = last /\ steady' = steady
      BY <2>2, Zenon DEF Expire
    <3>2. hist # <<>> => base'.sum = base'.count * Flat(Head(hist))
      <4> SUFFICES ASSUME hist # <<>> PROVE base'.sum = base'.count * Flat(Head(hist))
        OBVIOUS
      <4>1. Head(hist) \in Payloads
        BY DEF TypeOK
      <4>2. Flat(Head(hist)) \in 85 .. 100
        BY <4>1, FlatBound, TrustAssumption
      <4>3. base'.sum = 0 /\ base'.count = 0
        BY <3>1 DEF NoBaseline
      <4> QED
        BY <4>2, <4>3
    <3> QED
      BY <3>1, <3>2, Zenon DEF SteadyInv
  <2>3. CASE UNCHANGED vars
    BY <2>3, Zenon DEF vars, SteadyInv
  <2> QED
    BY <2>1, <2>2, <2>3 DEF Next
<1> QED
  BY <1>1, <1>2, TypeCorrect, PTL DEF Spec

\* SteadyDevice: a device that reports the same again and again is never locked, and
\* gRPC calls it safe.
THEOREM SteadyNeverLocked == Spec => []SteadyDevice
<1>1. TypeOK /\ SteadyInv => SteadyDevice
  <2> SUFFICES ASSUME TypeOK, SteadyInv, steady, hist # <<>> PROVE Verdict(Head(hist)) = "safe"
    BY Zenon DEF SteadyDevice, SteadyInv
  <2>1. Head(hist) \in Payloads /\ hist \in Seq(Payloads) /\ Len(hist) <= MaxHistory
    BY DEF TypeOK
  <2>2. Constantly(hist, Head(hist))
    BY Zenon DEF SteadyInv
  <2>3. ScoreOf(hist, Head(hist)) = Flat(Head(hist))
    BY <2>1, <2>2, ConstantScore, TrustAssumption
  <2>4. Flat(Head(hist)) \in 85 .. 100
    BY <2>1, FlatBound, TrustAssumption
  <2> QED
    BY <2>3, <2>4 DEF Verdict
<1> QED
  BY <1>1, TypeCorrect, SteadyInvariant, PTL

-----------------------------------------------------------------------------
(* The threat score of a report                                            *)

\* A report keeps its type as it grows.
LEMMA ReportTypes == ReportSpec => []ReportOK
<1>1. NoReport => ReportOK
  BY ThreatAssumption DEF NoReport, ReportOK
<1>2. ReportOK /\ [ReportGrows]_report => ReportOK'
  <2> SUFFICES ASSUME ReportOK, [ReportGrows]_report PROVE ReportOK'
    OBVIOUS
  <2> USE ThreatAssumption DEF ReportOK
  <2>1. ASSUME NEW k \in Kinds, AddApp(k) PROVE ReportOK' BY <2>1 DEF AddApp
  <2>2. ASSUME NEW p \in Permissions, AddPermission(p) PROVE ReportOK' BY <2>2 DEF AddPermission
  <2>3. CASE AddRat BY <2>3 DEF AddRat
  <2>4. CASE UNCHANGED report BY <2>4 DEF report
  <2> QED BY <2>1, <2>2, <2>3, <2>4 DEF ReportGrows
<1> QED BY <1>1, <1>2, PTL DEF ReportSpec

\* The sums of a report, as numbers.
SumsOK ==
    /\ BlackApps \in Nat /\ SideApps \in Nat /\ rats \in Nat
    /\ AppScore = 50 * BlackApps + 15 * SideApps /\ AppScore \in Nat
    /\ PermissionScore \in 0..35 /\ Combo \in {0, 30}
    /\ RawScore = AppScore + PermissionScore + Combo + 40 * rats /\ RawScore \in Nat

LEMMA ReportSums == ReportOK => SumsOK
<1> SUFFICES ASSUME ReportOK PROVE SumsOK
  OBVIOUS
<1>1. \A k \in Kinds : apps[k] \in Nat
  BY ThreatAssumption DEF ReportOK
<1>2. BlackApps \in Nat /\ SideApps \in Nat /\ rats \in Nat
  BY <1>1, ThreatAssumption DEF ReportOK, Kinds, BlackApps, SideApps
<1>3. AppScore \in Nat
  BY <1>2 DEF AppScore
<1>4. PermissionScore \in 0..35
  BY DEF PermissionScore, When
<1>5. Combo \in {0, 30}
  BY DEF Combo, When
<1> QED BY <1>2, <1>3, <1>4, <1>5 DEF SumsOK, RawScore, AppScore

\* The level and the answered score agree on every report.
THEOREM LevelsAgree == ReportSpec => []LevelAgrees
<1>1. ReportOK => LevelAgrees
  <2> SUFFICES ASSUME SumsOK PROVE LevelAgrees
    BY ReportSums
  <2> DEFINE s == RawScore
  <2>1. s \in Nat /\ rats \in Nat
    BY DEF SumsOK
  <2>2. RiskScore = IF rats > 0 THEN Capped(AtLeast(s, 80), 100) ELSE Capped(s, 100)
    BY DEF RiskScore
  <2>3. RiskLevel = IF rats > 0 \/ s >= 80 THEN "critical" ELSE IF s >= 50 THEN "high"
                    ELSE IF s >= 25 THEN "medium" ELSE "low"
    BY DEF RiskLevel
  <2> HIDE DEF s
  <2>4. CASE rats > 0 BY <2>1, <2>2, <2>3, <2>4 DEF LevelAgrees, Capped, AtLeast
  <2>5. CASE ~(rats > 0) BY <2>1, <2>2, <2>3, <2>5 DEF LevelAgrees, Capped
  <2> QED BY <2>4, <2>5
<1> QED BY <1>1, ReportTypes, PTL

LEMMA AppScoreGrows ==
    \A b, s, c, t \in Nat : c >= b /\ t >= s => 50 * c + 15 * t >= 50 * b + 15 * s
OBVIOUS

\* One more entry never takes anything from the sum.
LEMMA RawScoreGrows ==
    ASSUME ReportOK, ReportOK', SumsOK, SumsOK', [ReportGrows]_report
    PROVE  RawScore' >= RawScore /\ rats' >= rats
<1>1. \A k \in Kinds : apps[k] \in Nat /\ apps'[k] \in Nat /\ apps'[k] >= apps[k]
  <2>1. \A k \in Kinds : apps[k] \in Nat /\ apps'[k] \in Nat
    BY ThreatAssumption DEF ReportOK
  <2>2. ASSUME NEW j \in Kinds, AddApp(j) PROVE \A k \in Kinds : apps'[k] >= apps[k]
    BY <2>1, <2>2 DEF AddApp, ReportOK
  <2>3. CASE UNCHANGED apps
    BY <2>1, <2>3
  <2> QED BY <2>1, <2>2, <2>3 DEF ReportGrows, AddPermission, AddRat, report
<1>2. perms \subseteq perms' /\ rats' >= rats
  BY DEF SumsOK, ReportGrows, AddApp, AddPermission, AddRat, report
<1>3. BlackApps' >= BlackApps /\ SideApps' >= SideApps
  BY <1>1 DEF Kinds, BlackApps, SideApps
<1>4. AppScore' >= AppScore
  <2>1. BlackApps' \in Nat /\ SideApps' \in Nat /\ BlackApps \in Nat /\ SideApps \in Nat
    BY DEF SumsOK
  <2> QED BY <1>3, <2>1, AppScoreGrows DEF AppScore
<1>5. PermissionScore' >= PermissionScore
  BY <1>2 DEF PermissionScore, When
<1>6. Combo' >= Combo
  BY <1>2, <1>3 DEF SumsOK, Combo, When
<1>7. AppScore \in Nat /\ PermissionScore \in 0..35 /\ Combo \in {0, 30} /\ rats \in Nat
  BY DEF SumsOK
<1>8. AppScore' \in Nat /\ PermissionScore' \in 0..35 /\ Combo' \in {0, 30} /\ rats' \in Nat
  BY DEF SumsOK
<1> DEFINE a == AppScore  p == PermissionScore  c == Combo  r == rats
           b == AppScore' q == PermissionScore' d == Combo' u == rats'
<1>9. /\ a \in Nat /\ p \in Nat /\ c \in Nat /\ r \in Nat
      /\ b \in Nat /\ q \in Nat /\ d \in Nat /\ u \in Nat
      /\ b >= a /\ q >= p /\ d >= c /\ u >= r
  BY <1>2, <1>4, <1>5, <1>6, <1>7, <1>8
<1>10. RawScore = a + p + c + 40 * r /\ RawScore' = b + q + d + 40 * u
  BY DEF RawScore
<1> HIDE DEF a, p, c, r, b, q, d, u
<1>11. b + q + d + 40 * u >= a + p + c + 40 * r
  BY <1>9
<1> QED BY <1>2, <1>10, <1>11

\* A report with more in it never scores less, nor ranks lower.
THEOREM EvidenceAdds == ReportSpec => EvidenceOnlyAdds
<1>1. ASSUME ReportOK, ReportOK', SumsOK, SumsOK', [ReportGrows]_report
      PROVE  RiskScore' >= RiskScore /\ Rank(RiskLevel') >= Rank(RiskLevel)
  <2> DEFINE s == RawScore  t == RawScore'
  <2>1. s \in Nat /\ t \in Nat /\ t >= s /\ rats \in Nat /\ rats' \in Nat /\ rats' >= rats
    BY <1>1, RawScoreGrows DEF SumsOK
  <2>2. RiskScore = IF rats > 0 THEN Capped(AtLeast(s, 80), 100) ELSE Capped(s, 100)
    BY DEF RiskScore
  <2>3. RiskScore' = IF rats' > 0 THEN Capped(AtLeast(t, 80), 100) ELSE Capped(t, 100)
    BY DEF RiskScore
  <2>4. Rank(RiskLevel) = IF rats > 0 \/ s >= 80 THEN 3 ELSE IF s >= 50 THEN 2
                          ELSE IF s >= 25 THEN 1 ELSE 0
    BY DEF RiskLevel, Rank
  <2>5. Rank(RiskLevel') = IF rats' > 0 \/ t >= 80 THEN 3 ELSE IF t >= 50 THEN 2
                           ELSE IF t >= 25 THEN 1 ELSE 0
    BY DEF RiskLevel, Rank
  <2> HIDE DEF s, t
  <2> QED BY <2>1, <2>2, <2>3, <2>4, <2>5 DEF Capped, AtLeast
<1>2. ReportSpec => [](ReportOK /\ SumsOK)
  BY ReportTypes, ReportSums, PTL
<1> QED BY <1>1, <1>2, PTL DEF ReportSpec, EvidenceOnlyAdds
=============================================================================
