----------------------------- MODULE DataLemmas -----------------------------
(***************************************************************************)
(* Facts about integers, finite sets and folds that the proofs about       *)
(* several components rest on.  No induction theorem of the library can be *)
(* cited here, so whatever needs one goes through the least counterexample.*)
(***************************************************************************)
EXTENDS FrobeniusOrder, FiniteSetTheorems, WellFoundedInduction, TLAPS

-----------------------------------------------------------------------------
(* Division with remainder.                                                *)

\* The remainder is the only one of its size.
LEMMA ModUnique ==
  ASSUME NEW c \in Int, NEW m \in Nat, m > 0,
         NEW k \in Int, NEW r \in 0 .. m - 1, c = m * k + r
  PROVE  c % m = r
<1> DEFINE q == c \div m
           s == c % m
<1>1. q \in Int /\ s \in 0 .. m - 1 /\ c = m * q + s
  OBVIOUS
<1> HIDE DEF q, s
<1>2. m * (k - q) = s - r
  BY <1>1
<1>3. ~(k - q >= 1)
  BY <1>1, <1>2
<1>4. ~(k - q <= -1)
  BY <1>1, <1>2
<1>5. k = q
  BY <1>1, <1>3, <1>4
<1>6. s = r
  BY <1>1, <1>5
<1> QED
  BY <1>6 DEF s

LEMMA ModFacts ==
  ASSUME NEW c \in Int, NEW m \in Nat, m > 0
  PROVE  \E k \in Int : \E r \in 0 .. m - 1 : c = m * k + r /\ c % m = r
<1>1. c \div m \in Int /\ c % m \in 0 .. m - 1 /\ c = m * (c \div m) + (c % m)
  OBVIOUS
<1> QED
  BY <1>1

\* Quotient and remainder of a natural number.
LEMMA DivFacts ==
  ASSUME NEW c \in Nat, NEW m \in Nat, m > 0
  PROVE  c \div m \in Nat /\ c % m \in 0 .. m - 1 /\ c = m * (c \div m) + (c % m)
<1> DEFINE q == c \div m
           r == c % m
<1>1. q \in Int /\ r \in 0 .. m - 1 /\ c = m * q + r
  OBVIOUS
<1> HIDE DEF q, r
<1>2. q >= 0
  <2> SUFFICES ASSUME q <= -1 PROVE FALSE
    BY <1>1
  <2>1. m * q <= -m
    BY <1>1
  <2> QED
    BY <1>1, <2>1
<1> QED
  BY <1>1, <1>2 DEF q, r

LEMMA ModRange ==
  ASSUME NEW c \in Int, NEW m \in Nat, m > 0
  PROVE  c % m \in 0 .. m - 1
OBVIOUS

\* A small number is its own remainder.
LEMMA ModSmall ==
  ASSUME NEW m \in Nat, m > 0, NEW r \in 0 .. m - 1
  PROVE  r % m = r
<1>1. r = m * 0 + r
  OBVIOUS
<1> QED
  BY <1>1, ModUnique

\* A remainder passes through a multiple of its modulus.
LEMMA ModThrough ==
  ASSUME NEW c \in Int, NEW d \in Nat, d > 0, NEW l \in Nat, l > 0
  PROVE  (c % (l * d)) % l = c % l
<1> DEFINE m == l * d
<1>1. m \in Nat /\ m > 0
  OBVIOUS
<1>2. PICK k \in Int : \E r \in 0 .. m - 1 : c = m * k + r /\ c % m = r
  BY <1>1, ModFacts
<1>3. PICK r \in 0 .. m - 1 : c = m * k + r /\ c % m = r
  BY <1>2
<1> HIDE DEF m
<1>4. r \in Int
  BY <1>1, <1>3
<1>5. PICK q \in Int : \E s \in 0 .. l - 1 : r = l * q + s /\ r % l = s
  BY <1>4, ModFacts
<1>6. PICK s \in 0 .. l - 1 : r = l * q + s /\ r % l = s
  BY <1>5
<1>7. d * k + q \in Int
  OBVIOUS
<1>8. c = l * (d * k + q) + s
  <2>1. c = (l * d) * k + (l * q + s)
    BY <1>3, <1>6 DEF m
  <2> QED
    BY <2>1, <1>6
<1>9. c % l = s
  BY <1>7, <1>8, <1>6, ModUnique
<1> QED
  BY <1>3, <1>6, <1>9 DEF m

\* Numbers that differ by a multiple of l have the same remainder.
LEMMA ModCongruent ==
  ASSUME NEW l \in Nat, l > 0
  PROVE  \A c, d, n \in Int : c = d + l * n => c % l = d % l
<1> TAKE c, d, n \in Int
<1> HAVE c = d + l * n
<1>1. PICK q \in Int : \E r \in 0 .. l - 1 : d = l * q + r /\ d % l = r
  BY ModFacts
<1>2. PICK r \in 0 .. l - 1 : d = l * q + r /\ d % l = r
  BY <1>1
<1>3. c = l * (q + n) + r /\ q + n \in Int
  BY <1>2
<1> QED
  BY <1>2, <1>3, ModUnique

LEMMA ModOfMultiple ==
  ASSUME NEW l \in Nat, l > 0
  PROVE  \A d \in Int : (l * d) % l = 0
<1> TAKE d \in Int
<1>1. l * d \in Int /\ l * d = l * d + 0 /\ 0 \in 0 .. l - 1
  OBVIOUS
<1> DEFINE c == l * d
<1>2. c \in Int /\ c = l * d + 0
  BY <1>1
<1> HIDE DEF c
<1>3. c % l = 0
  BY <1>1, <1>2, ModUnique
<1> QED
  BY <1>3 DEF c

-----------------------------------------------------------------------------
(* Folds over finite sets.  A fold is a recursive function on the subsets  *)
(* of the set; that there is one, and what it satisfies, is shown by the   *)
(* least counterexample, since an induction over sets cannot be cited.     *)

\* Every non-empty set of naturals has a least element.
LEMMA LeastNatural ==
  ASSUME NEW T \in SUBSET Nat, T # {}
  PROVE  \E x \in T : \A y \in T : x <= y
<1> DEFINE R == OpToRel(<, Nat)
<1>1. IsWellFoundedOn(R, Nat)
  BY NatLessThanWellFounded
<1>2. \A x, y \in Nat : y < x => <<y, x>> \in R
  BY DEF OpToRel
<1> HIDE DEF R
<1>3. PICK x \in T : \A y \in T : ~ (<<y, x>> \in R)
  BY <1>1, WFMin
<1>4. ASSUME NEW y \in T PROVE x <= y
  <2>1. x \in Nat /\ y \in Nat
    OBVIOUS
  <2>2. ~(y < x)
    BY <1>2, <1>3, <2>1, Zenon
  <2> QED
    BY <2>1, <2>2
<1> QED
  BY <1>4

\* The element of a set a fold takes next, and what it leaves.
Pick(s) == CHOOSE x \in s : TRUE
Others(s) == s \ {Pick(s)}

LEMMA PickFacts ==
  ASSUME NEW S, IsFiniteSet(S), NEW s \in SUBSET S, s # {}
  PROVE  /\ Pick(s) \in s /\ Others(s) \in SUBSET S
         /\ Cardinality(s) \in Nat /\ Cardinality(Others(s)) = Cardinality(s) - 1
<1>1. Pick(s) \in s
  BY DEF Pick
<1>2. IsFiniteSet(s)
  BY FS_Subset
<1> QED
  BY <1>1, <1>2, FS_RemoveElement, FS_CardinalityType DEF Others

LEMMA SubsetInduction ==
  ASSUME NEW S, IsFiniteSet(S), NEW T \in SUBSET (SUBSET S), {} \in T,
         \A s \in SUBSET S : s # {} /\ Others(s) \in T => s \in T
  PROVE  T = SUBSET S
<1> SUFFICES ASSUME NEW bad \in SUBSET S, bad \notin T PROVE FALSE
  OBVIOUS
<1> DEFINE sizes == {Cardinality(s) : s \in (SUBSET S) \ T}
<1>1. \A s \in SUBSET S : Cardinality(s) \in Nat
  BY FS_Subset, FS_CardinalityType
<1>2. sizes \in SUBSET Nat /\ sizes # {}
  BY <1>1
<1>3. PICK n \in sizes : \A k \in sizes : n <= k
  <2> HIDE DEF sizes
  <2> QED
    BY <1>2, LeastNatural
<1>4. PICK s \in (SUBSET S) \ T : n = Cardinality(s)
  BY <1>3
<1>5. s # {} /\ Others(s) \in SUBSET S /\ Cardinality(Others(s)) = n - 1 /\ n \in Nat
  BY <1>4, PickFacts
<1>6. Others(s) \notin T
  BY <1>4, <1>5
<1>7. n - 1 \in sizes
  BY <1>5, <1>6
<1> QED
  BY <1>3, <1>5, <1>7

FoldStep(f, base, step, s) == IF s = {} THEN base ELSE step[<<Pick(s), f[Others(s)]>>]

\* Folding a function over a finite set is well defined.
LEMMA FoldExists ==
  ASSUME NEW S, IsFiniteSet(S), NEW V
  PROVE  \A base \in V, step \in [S \X V -> V] :
           \E f \in [SUBSET S -> V] : \A s \in SUBSET S : f[s] = FoldStep(f, base, step, s)
<1> TAKE base \in V, step \in [S \X V -> V]
<1> DEFINE Correct(f, n) ==
             \A s \in SUBSET S : Cardinality(s) <= n => f[s] = FoldStep(f, base, step, s)
           reached == {n \in Nat : \E f \in [SUBSET S -> V] : Correct(f, n)}
<1>1. \A s \in SUBSET S : Cardinality(s) \in Nat /\ (Cardinality(s) = 0 <=> s = {})
  BY FS_Subset, FS_CardinalityType, FS_EmptySet
<1>2. \A f \in [SUBSET S -> V], s \in SUBSET S : FoldStep(f, base, step, s) \in V
  BY PickFacts DEF FoldStep
<1>3. 0 \in reached
  <2> DEFINE f == [s \in SUBSET S |-> base]
  <2>1. f \in [SUBSET S -> V] /\ Correct(f, 0)
    BY <1>1 DEF FoldStep
  <2> QED
    BY <2>1
<1>4. ASSUME NEW n \in reached PROVE n + 1 \in reached
  <2>1. PICK f \in [SUBSET S -> V] : Correct(f, n)
    OBVIOUS
  <2> DEFINE g == [s \in SUBSET S |-> FoldStep(f, base, step, s)]
  <2>2. g \in [SUBSET S -> V]
    BY <1>2
  <2>3. ASSUME NEW s \in SUBSET S, Cardinality(s) <= n + 1
        PROVE  g[s] = FoldStep(g, base, step, s)
    <3>1. CASE s = {}
      BY <3>1 DEF FoldStep
    <3>2. CASE s # {}
      <4>1. Others(s) \in SUBSET S /\ Cardinality(Others(s)) <= n
        BY <1>1, <2>3, <3>2, PickFacts
      <4>2. g[Others(s)] = f[Others(s)]
        BY <2>1, <4>1
      <4> QED
        BY <3>2, <4>2 DEF FoldStep
    <3> QED
      BY <3>1, <3>2
  <2> HIDE DEF g
  <2> QED
    BY <2>2, <2>3
<1>5. ASSUME Nat \ reached # {} PROVE FALSE
  <2> HIDE DEF reached
  <2>1. PICK n \in Nat \ reached : \A k \in Nat \ reached : n <= k
    BY <1>5, LeastNatural
  <2>2. n # 0 /\ n - 1 \in Nat /\ n - 1 \notin Nat \ reached
    BY <1>3, <2>1
  <2>3. (n - 1) + 1 = n
    BY <2>1
  <2> QED
    BY <1>4, <2>1, <2>2, <2>3
<1>6. Cardinality(S) \in reached /\ \A s \in SUBSET S : Cardinality(s) <= Cardinality(S)
  BY <1>1, <1>5, FS_Subset
<1> QED
  BY <1>6

\* A set that numbers are proved to be in step by step.
LEMMA NaturalInduction ==
  ASSUME NEW T \in SUBSET Nat, 0 \in T, \A n \in T : n + 1 \in T
  PROVE  T = Nat
<1> SUFFICES ASSUME Nat \ T # {} PROVE FALSE
  OBVIOUS
<1>1. PICK n \in Nat \ T : \A k \in Nat \ T : n <= k
  BY LeastNatural
<1>2. n # 0 /\ n - 1 \in Nat /\ n - 1 \notin Nat \ T
  BY <1>1
<1>3. (n - 1) + 1 = n
  BY <1>1
<1> QED
  BY <1>1, <1>2, <1>3

\* A fold whose values are naturals.
LEMMA NaturalFold ==
  ASSUME NEW S, IsFiniteSet(S)
  PROVE  \A step \in [S \X Nat -> Nat] :
           \E f \in [SUBSET S -> Nat] : \A s \in SUBSET S : f[s] = FoldStep(f, 0, step, s)
<1> DEFINE N == Nat
<1>1. 0 \in N
  OBVIOUS
<1> HIDE DEF N
<1>2. \A base \in N, step \in [S \X N -> N] :
        \E f \in [SUBSET S -> N] : \A s \in SUBSET S : f[s] = FoldStep(f, base, step, s)
  BY FoldExists, Zenon
<1>3. \A step \in [S \X N -> N] :
        \E f \in [SUBSET S -> N] : \A s \in SUBSET S : f[s] = FoldStep(f, 0, step, s)
  BY <1>1, <1>2, Zenon
<1> QED
  BY <1>3, Zenon DEF N

\* The sum of the weights of the elements, a recursive function over subsets.
SumStep(g, w, s) == IF s = {} THEN 0 ELSE w[Pick(s)] + g[Others(s)]

IsSum(f, w, S) == \A s \in SUBSET S : f[s] = SumStep(f, w, s)

LEMMA SumExists ==
  ASSUME NEW S, IsFiniteSet(S), NEW w \in [S -> Nat]
  PROVE  \E g \in [SUBSET S -> Nat] : IsSum(g, w, S)
<1> DEFINE step == [x \in S \X Nat |-> w[x[1]] + x[2]]
<1>1. step \in [S \X Nat -> Nat]
  OBVIOUS
<1>2. \A st \in [S \X Nat -> Nat] :
        \E g \in [SUBSET S -> Nat] : \A s \in SUBSET S : g[s] = FoldStep(g, 0, st, s)
  BY NaturalFold, Zenon
<1>3. PICK g \in [SUBSET S -> Nat] : \A s \in SUBSET S : g[s] = FoldStep(g, 0, step, s)
  <2> HIDE DEF step
  <2> QED
    BY <1>1, <1>2, Zenon
<1>4. ASSUME NEW s \in SUBSET S PROVE g[s] = SumStep(g, w, s)
  <2>1. CASE s = {}
    BY <1>3, <2>1 DEF FoldStep, SumStep
  <2>2. CASE s # {}
    <3>1. Pick(s) \in S /\ Others(s) \in SUBSET S
      BY <2>2, PickFacts
    <3>2. g[Others(s)] \in Nat
      BY <1>3, <3>1
    <3>3. step[<<Pick(s), g[Others(s)]>>] = w[Pick(s)] + g[Others(s)]
      BY <3>1, <3>2
    <3> QED
      BY <1>3, <2>2, <3>3 DEF FoldStep, SumStep
  <2> QED
    BY <2>1, <2>2
<1> QED
  BY <1>3, <1>4 DEF IsSum

\* Induction on the removal of any one element.
LEMMA RemovalInduction ==
  ASSUME NEW S, IsFiniteSet(S), NEW T \in SUBSET (SUBSET S),
         \A s \in SUBSET S : (\A x \in s : s \ {x} \in T) => s \in T
  PROVE  T = SUBSET S
<1> SUFFICES ASSUME NEW bad \in SUBSET S, bad \notin T PROVE FALSE
  OBVIOUS
<1> DEFINE sizes == {Cardinality(s) : s \in (SUBSET S) \ T}
<1>1. \A s \in SUBSET S : IsFiniteSet(s) /\ Cardinality(s) \in Nat
  BY FS_Subset, FS_CardinalityType
<1>2. sizes \in SUBSET Nat /\ sizes # {}
  BY <1>1
<1>3. PICK n \in sizes : \A k \in sizes : n <= k
  <2> HIDE DEF sizes
  <2> QED
    BY <1>2, LeastNatural
<1>4. PICK s \in (SUBSET S) \ T : n = Cardinality(s)
  BY <1>3
<1>5. PICK x \in s : s \ {x} \notin T
  BY <1>4
<1>6. s \ {x} \in SUBSET S /\ Cardinality(s \ {x}) = n - 1 /\ n \in Nat
  BY <1>1, <1>4, <1>5, FS_RemoveElement
<1>7. n - 1 \in sizes
  BY <1>5, <1>6
<1> QED
  BY <1>3, <1>6, <1>7

\* The order in which the elements are taken makes no difference.
LEMMA SumAdds ==
  ASSUME NEW S, IsFiniteSet(S), NEW w \in [S -> Nat],
         NEW f, IsSum(f, w, S)
  PROVE  /\ f[{}] = 0
         /\ \A s \in SUBSET S :
              f[s] \in Nat /\ \A x \in s : f[s] = w[x] + f[s \ {x}]
<1> DEFINE Adds(s) == f[s] \in Nat /\ \A x \in s : f[s] = w[x] + f[s \ {x}]
           T == {s \in SUBSET S : Adds(s)}
<1>1. f[{}] = 0
  BY DEF IsSum, SumStep
<1>0. \A s \in SUBSET S : f[s] \in Nat
  <2> DEFINE U == {s \in SUBSET S : f[s] \in Nat}
  <2>1. {} \in U
    BY <1>1
  <2>2. ASSUME NEW s \in SUBSET S, s # {}, Others(s) \in U PROVE s \in U
    <3>1. Pick(s) \in S /\ f[Others(s)] \in Nat /\ w[Pick(s)] \in Nat
      BY <2>2, PickFacts
    <3> QED
      BY <2>2, <3>1 DEF IsSum, SumStep
  <2>3. U \in SUBSET (SUBSET S)
    OBVIOUS
  <2>4. U = SUBSET S
    <3> HIDE DEF U
    <3> QED
      BY <2>1, <2>2, <2>3, SubsetInduction
  <2> QED
    BY <2>4
<1>2. ASSUME NEW s \in SUBSET S, \A x \in s : s \ {x} \in T PROVE s \in T
  <2>1. CASE s = {}
    BY <1>1, <2>1
  <2>2. CASE s # {}
    <3> DEFINE p == Pick(s)
    <3>1. p \in s /\ f[s] = w[p] + f[s \ {p}]
      BY <2>2, PickFacts DEF IsSum, SumStep, Others
    <3> HIDE DEF p
    <3>2. \A x \in s : w[x] \in Nat /\ Adds(s \ {x})
      BY <1>2
    <3>3. f[s] \in Nat
      BY <1>0
    <3>4. ASSUME NEW x \in s PROVE f[s] = w[x] + f[s \ {x}]
      <4>1. CASE x = p
        BY <3>1, <4>1
      <4>2. CASE x # p
        <5>1. x \in s \ {p} /\ p \in s \ {x} /\ (s \ {p}) \ {x} = (s \ {x}) \ {p}
          BY <3>1, <4>2
        <5>2. f[s \ {p}] = w[x] + f[(s \ {p}) \ {x}]
          BY <3>1, <3>2, <5>1
        <5>3. f[s \ {x}] = w[p] + f[(s \ {p}) \ {x}]
          <6>1. f[s \ {x}] = w[p] + f[(s \ {x}) \ {p}]
            BY <3>1, <3>2, <5>1
          <6> QED
            BY <5>1, <6>1
        <5>4. w[x] \in Nat /\ w[p] \in Nat
          BY <3>1, <3>2
        <5>5. f[(s \ {p}) \ {x}] \in Nat
          <6>1. (s \ {p}) \ {x} \in SUBSET S
            OBVIOUS
          <6> QED
            BY <1>0, <6>1
        <5> QED
          BY <3>1, <5>2, <5>3, <5>4, <5>5
      <4> QED
        BY <4>1, <4>2
    <3> QED
      BY <3>3, <3>4
  <2> QED
    BY <2>1, <2>2
<1>3. T = SUBSET S
  <2>1. T \in SUBSET (SUBSET S)
    OBVIOUS
  <2> HIDE DEF T
  <2> QED
    BY <1>2, <2>1, RemovalInduction
<1> QED
  BY <1>1, <1>3

\* A sum over an interval grows by its last weight.
Accumulates(f, w, n) ==
  /\ f[1 .. 0] = 0
  /\ \A j \in 1 .. n : f[1 .. j] = f[1 .. (j - 1)] + w[j]
  /\ \A j \in 0 .. n : f[1 .. j] \in Nat

LEMMA IntervalSum ==
  ASSUME NEW S, IsFiniteSet(S), NEW w \in [S -> Nat],
         NEW f, IsSum(f, w, S)
  PROVE  \A n \in Nat : S = 1 .. n => Accumulates(f, w, n)
<1>1. /\ f[{}] = 0
      /\ \A s \in SUBSET S : f[s] \in Nat /\ \A x \in s : f[s] = w[x] + f[s \ {x}]
  BY SumAdds
<1> SUFFICES ASSUME NEW n \in Nat, S = 1 .. n PROVE Accumulates(f, w, n)
  OBVIOUS
<1>2. f[1 .. 0] = 0
  <2>1. 1 .. 0 = {}
    OBVIOUS
  <2> QED
    BY <1>1, <2>1
<1>3. ASSUME NEW j \in 0 .. n PROVE f[1 .. j] \in Nat
  <2>1. 1 .. j \in SUBSET S
    OBVIOUS
  <2> QED
    BY <1>1, <2>1
<1>4. ASSUME NEW j \in 1 .. n PROVE f[1 .. j] = f[1 .. (j - 1)] + w[j]
  <2>1. /\ 1 .. j \in SUBSET S /\ j \in 1 .. j /\ (1 .. j) \ {j} = 1 .. (j - 1)
        /\ j - 1 \in 0 .. n /\ j \in S
    OBVIOUS
  <2>2. f[1 .. j] = w[j] + f[1 .. (j - 1)]
    <3>1. f[1 .. j] = w[j] + f[(1 .. j) \ {j}]
      BY <1>1, <2>1
    <3> QED
      BY <2>1, <3>1
  <2>3. w[j] \in Nat /\ f[1 .. (j - 1)] \in Nat
    BY <1>3, <2>1
  <2> QED
    BY <2>2, <2>3
<1> QED
  BY <1>2, <1>3, <1>4 DEF Accumulates

\* P holds the sums of the first weights.
PrefixSums(P, w, n) ==
  P \in [0 .. n -> Nat] /\ P[0] = 0 /\ \A j \in 1 .. n : P[j] = P[j - 1] + w[j]

LEMMA PrefixSumsExist ==
  ASSUME NEW n \in Nat
  PROVE  \A w \in [1 .. n -> Nat] : \E P : PrefixSums(P, w, n)
<1>1. \A S : IsFiniteSet(S) =>
        \A w \in [S -> Nat] : \E g : \A m \in Nat : S = 1 .. m => Accumulates(g, w, m)
  <2> SUFFICES ASSUME NEW S, IsFiniteSet(S), NEW w \in [S -> Nat]
               PROVE  \E g : \A m \in Nat : S = 1 .. m => Accumulates(g, w, m)
    OBVIOUS
  <2>1. PICK g \in [SUBSET S -> Nat] : IsSum(g, w, S)
    BY SumExists, Zenon
  <2> QED
    BY <2>1, IntervalSum, Zenon
<1>2. IsFiniteSet(1 .. n)
  BY FS_Interval
<1>3. \A w \in [1 .. n -> Nat] : \E g : Accumulates(g, w, n)
  BY <1>1, <1>2, Zenon
<1> SUFFICES ASSUME NEW w \in [1 .. n -> Nat] PROVE \E P : PrefixSums(P, w, n)
  OBVIOUS
<1> DEFINE g == CHOOSE h : Accumulates(h, w, n)
<1>4. Accumulates(g, w, n)
  BY <1>3
<1> HIDE DEF g
<1> DEFINE P == [j \in 0 .. n |-> g[1 .. j]]
<1>5. P \in [0 .. n -> Nat] /\ P[0] = 0
  BY <1>4 DEF Accumulates
<1>6. ASSUME NEW j \in 1 .. n PROVE P[j] = P[j - 1] + w[j]
  <2>1. j \in 0 .. n /\ j - 1 \in 0 .. n
    OBVIOUS
  <2> QED
    BY <1>4, <2>1 DEF Accumulates
<1> HIDE DEF P
<1> QED
  BY <1>5, <1>6 DEF PrefixSums

\* What adds up like the first weights is a prefix sum.
LEMMA PrefixSumIsOnly ==
  ASSUME NEW n \in Nat, NEW w, NEW P, PrefixSums(P, w, n),
         NEW k \in 0 .. n, NEW F, F[0] = 0, \A j \in 1 .. k : F[j] = F[j - 1] + w[j]
  PROVE  F[k] = P[k]
<1> DEFINE T == {j \in Nat : j <= k => F[j] = P[j]}
<1>1. 0 \in T
  BY DEF PrefixSums
<1>2. ASSUME NEW j \in T PROVE j + 1 \in T
  <2> SUFFICES ASSUME j + 1 <= k PROVE F[j + 1] = P[j + 1]
    OBVIOUS
  <2>1. j + 1 \in 1 .. k /\ j + 1 \in 1 .. n /\ (j + 1) - 1 = j
    OBVIOUS
  <2> QED
    BY <2>1 DEF PrefixSums
<1>3. T = Nat
  <2>1. T \in SUBSET Nat
    OBVIOUS
  <2> HIDE DEF T
  <2> QED
    BY <1>1, <1>2, <2>1, NaturalInduction
<1> QED
  BY <1>3

\* Prefix sums grow by at least what each weight adds.
LEMMA PrefixSumsGrow ==
  ASSUME NEW n \in Nat, NEW w, \A j \in 1 .. n : w[j] \in Nat, NEW P, PrefixSums(P, w, n),
         NEW i \in 0 .. n
  PROVE  \A k \in 0 .. n : i <= k => P[i] <= P[k]
<1> DEFINE T == {k \in Nat : i <= k /\ k <= n => P[i] <= P[k]}
<1>1. 0 \in T
  BY DEF PrefixSums
<1>2. ASSUME NEW k \in T PROVE k + 1 \in T
  <2> SUFFICES ASSUME i <= k + 1, k + 1 <= n PROVE P[i] <= P[k + 1]
    OBVIOUS
  <2>1. /\ k + 1 \in 1 .. n /\ (k + 1) - 1 = k /\ k \in 0 .. n
        /\ P[i] \in Nat /\ P[k] \in Nat /\ P[k + 1] \in Nat
    BY DEF PrefixSums
  <2>2. P[k + 1] = P[k] + w[k + 1] /\ w[k + 1] \in Nat
    BY <2>1 DEF PrefixSums
  <2> QED
    BY <2>1, <2>2
<1>3. T = Nat
  <2>1. T \in SUBSET Nat
    OBVIOUS
  <2> HIDE DEF T
  <2> QED
    BY <1>1, <1>2, <2>1, NaturalInduction
<1> QED
  BY <1>3

-----------------------------------------------------------------------------
(* Congruences are kept as multiples of the modulus, so that a step is an  *)
(* identity of integers: what is congruent is shown to differ by a         *)
(* combination of multiples.                                               *)

\* x is a multiple of l.
Multiple(x, l) == \E k \in Int : x = l * k

\* The multiples are the numbers that leave no remainder.
LEMMA MultipleMod ==
  ASSUME NEW l \in Nat, l > 0, NEW x \in Int
  PROVE  Multiple(x, l) <=> x % l = 0
<1>1. ASSUME Multiple(x, l) PROVE x % l = 0
  <2>1. PICK k \in Int : x = l * k
    BY <1>1 DEF Multiple
  <2> QED
    BY <2>1, ModOfMultiple
<1>2. ASSUME x % l = 0 PROVE Multiple(x, l)
  <2>1. PICK k \in Int : \E r \in 0 .. l - 1 : x = l * k + r /\ x % l = r
    BY ModFacts, Zenon
  <2> QED
    BY <1>2, <2>1 DEF Multiple
<1> QED
  BY <1>1, <1>2

\* Multiples combine.
LEMMA Combination ==
  ASSUME NEW l \in Nat, NEW x \in Int, NEW y \in Int, Multiple(x, l), Multiple(y, l),
         NEW u \in Int, NEW v \in Int, NEW z, z = u * x + v * y
  PROVE  Multiple(z, l)
<1>1. PICK j \in Int : x = l * j
  BY DEF Multiple
<1>2. PICK k \in Int : y = l * k
  BY DEF Multiple
<1>3. u * x + v * y = l * (u * j + v * k) /\ u * j + v * k \in Int
  <2>1. u * x = l * (u * j)
    BY <1>1
  <2>2. v * y = l * (v * k)
    BY <1>2
  <2>3. l * (u * j + v * k) = l * (u * j) + l * (v * k)
    OBVIOUS
  <2> QED
    BY <2>1, <2>2, <2>3
<1> QED
  BY <1>3 DEF Multiple

LEMMA Scaled ==
  ASSUME NEW l \in Nat, NEW x \in Int, Multiple(x, l), NEW u \in Int
  PROVE  Multiple(u * x, l)
<1>1. PICK j \in Int : x = l * j
  BY DEF Multiple
<1>2. u * x = l * (u * j) /\ u * j \in Int
  BY <1>1
<1> QED
  BY <1>2 DEF Multiple

LEMMA MultipleTrans ==
  ASSUME NEW x \in Int, NEW y \in Int, NEW z \in Int, Multiple(x, y), Multiple(y, z)
  PROVE  Multiple(x, z)
<1>1. PICK i \in Int : x = y * i
  BY DEF Multiple
<1>2. PICK j \in Int : y = z * j
  BY DEF Multiple
<1>3. x = z * (j * i) /\ j * i \in Int
  <2>1. (z * j) * i = z * (j * i)
    OBVIOUS
  <2> QED
    BY <1>1, <1>2, <2>1
<1> QED
  BY <1>3 DEF Multiple

\* A number differs from its remainder by a multiple.
LEMMA RemainderFacts ==
  ASSUME NEW l \in Nat, l > 0, NEW x \in Int
  PROVE  x % l \in 0 .. l - 1 /\ x % l \in Int /\ Multiple(x - (x % l), l)
<1>1. PICK k \in Int : \E r \in 0 .. l - 1 : x = l * k + r /\ x % l = r
  BY ModFacts, Zenon
<1>2. x - (x % l) = l * k
  BY <1>1
<1> QED
  BY <1>1, <1>2 DEF Multiple

\* Numbers leave the same remainder when they differ by a multiple.
LEMMA SameRemainder ==
  ASSUME NEW l \in Nat, l > 0, NEW x \in Int, NEW y \in Int
  PROVE  Multiple(x - y, l) <=> x % l = y % l
<1>1. ASSUME Multiple(x - y, l) PROVE x % l = y % l
  <2>1. PICK k \in Int : x - y = l * k
    BY <1>1 DEF Multiple
  <2>2. x = y + l * k
    BY <2>1
  <2> QED
    BY <2>2, ModCongruent
<1>2. ASSUME x % l = y % l PROVE Multiple(x - y, l)
  <2> DEFINE dx == x - (x % l)
             dy == y - (y % l)
  <2>1. Multiple(dx, l) /\ Multiple(dy, l) /\ dx \in Int /\ dy \in Int
        /\ x - y = 1 * dx + (-1) * dy /\ 1 \in Int /\ -1 \in Int
    BY <1>2, RemainderFacts
  <2> HIDE DEF dx, dy
  <2> QED
    BY <2>1, Combination, Zenon
<1> QED
  BY <1>1, <1>2

\* A small number is a multiple only if it is zero.
LEMMA SmallMultiple ==
  ASSUME NEW l \in Nat, NEW x \in Int, -l < x, x < l, Multiple(x, l)
  PROVE  x = 0
<1>1. PICK k \in Int : x = l * k
  BY DEF Multiple
<1>2. CASE k >= 1
  <2>1. l * k >= l
    BY <1>2
  <2> QED
    BY <1>1, <2>1
<1>3. CASE k <= -1
  <2>1. l * k <= -l
    BY <1>3
  <2> QED
    BY <1>1, <2>1
<1>4. CASE k = 0
  BY <1>1, <1>4
<1> QED
  BY <1>2, <1>3, <1>4

-----------------------------------------------------------------------------
(* Congruence, as a relation.                                              *)

Congruent(x, y, l) == Multiple(x - y, l)

LEMMA CongruentRefl ==
  ASSUME NEW l \in Nat, NEW x \in Int
  PROVE  Congruent(x, x, l)
<1>1. x - x = l * 0 /\ 0 \in Int
  OBVIOUS
<1> QED
  BY <1>1 DEF Congruent, Multiple

LEMMA CongruentSym ==
  ASSUME NEW l \in Nat, NEW x \in Int, NEW y \in Int, Congruent(x, y, l)
  PROVE  Congruent(y, x, l)
<1>1. PICK k \in Int : x - y = l * k
  BY DEF Congruent, Multiple
<1>2. -k \in Int /\ l * (-k) = -(l * k)
  OBVIOUS
<1>3. y - x = l * (-k)
  BY <1>1, <1>2
<1> QED
  BY <1>2, <1>3 DEF Congruent, Multiple

LEMMA CongruentTrans ==
  ASSUME NEW l \in Nat, NEW x \in Int, NEW y \in Int, NEW z \in Int,
         Congruent(x, y, l), Congruent(y, z, l)
  PROVE  Congruent(x, z, l)
<1>1. PICK j \in Int : x - y = l * j
  BY DEF Congruent, Multiple
<1>2. PICK k \in Int : y - z = l * k
  BY DEF Congruent, Multiple
<1>3. x - z = l * (j + k) /\ j + k \in Int
  BY <1>1, <1>2
<1> QED
  BY <1>3 DEF Congruent, Multiple

LEMMA CongruentPlus ==
  ASSUME NEW l \in Nat, NEW a \in Int, NEW b \in Int, NEW c \in Int, NEW d \in Int,
         Congruent(a, b, l), Congruent(c, d, l)
  PROVE  Congruent(a + c, b + d, l)
<1>1. PICK j \in Int : a - b = l * j
  BY DEF Congruent, Multiple
<1>2. PICK k \in Int : c - d = l * k
  BY DEF Congruent, Multiple
<1>3. (a + c) - (b + d) = l * (j + k) /\ j + k \in Int
  BY <1>1, <1>2
<1> QED
  BY <1>3 DEF Congruent, Multiple

LEMMA CongruentTimes ==
  ASSUME NEW l \in Nat, NEW a \in Int, NEW b \in Int, NEW c \in Int, NEW d \in Int,
         Congruent(a, b, l), Congruent(c, d, l)
  PROVE  Congruent(a * c, b * d, l)
<1>1. PICK j \in Int : a - b = l * j
  BY DEF Congruent, Multiple
<1>2. PICK k \in Int : c - d = l * k
  BY DEF Congruent, Multiple
<1>3. (a * c) - (b * d) = l * (j * c + b * k)
  <2>1. a * c - b * c = (l * j) * c
    <3>1. (a - b) * c = a * c - b * c
      OBVIOUS
    <3> QED
      BY <1>1, <3>1
  <2>2. b * c - b * d = b * (l * k)
    <3>1. b * (c - d) = b * c - b * d
      OBVIOUS
    <3> QED
      BY <1>2, <3>1
  <2>3. (l * j) * c + b * (l * k) = l * (j * c + b * k)
    OBVIOUS
  <2> QED
    BY <2>1, <2>2, <2>3
<1>4. j * c + b * k \in Int
  OBVIOUS
<1> QED
  BY <1>3, <1>4 DEF Congruent, Multiple

LEMMA CongruentMultiple ==
  ASSUME NEW l \in Nat, NEW x \in Int, NEW y \in Int, Congruent(x, y, l)
  PROVE  Multiple(x, l) <=> Multiple(y, l)
<1>1. PICK k \in Int : x - y = l * k
  BY DEF Congruent, Multiple
<1>2. ASSUME Multiple(x, l) PROVE Multiple(y, l)
  <2>1. PICK j \in Int : x = l * j
    BY <1>2 DEF Multiple
  <2>2. y = l * (j - k) /\ j - k \in Int
    BY <1>1, <2>1
  <2> QED
    BY <2>2 DEF Multiple
<1>3. ASSUME Multiple(y, l) PROVE Multiple(x, l)
  <2>1. PICK j \in Int : y = l * j
    BY <1>3 DEF Multiple
  <2>2. x = l * (j + k) /\ j + k \in Int
    BY <1>1, <2>1
  <2> QED
    BY <2>2 DEF Multiple
<1> QED
  BY <1>2, <1>3

LEMMA CongruentRemainder ==
  ASSUME NEW l \in Nat, l > 0, NEW x \in Int
  PROVE  x % l \in 0 .. l - 1 /\ x % l \in Int /\ Congruent(x, x % l, l) /\ Congruent(x % l, x, l)
<1>1. x % l \in 0 .. l - 1 /\ x % l \in Int /\ Congruent(x, x % l, l)
  BY RemainderFacts DEF Congruent
<1> QED
  BY <1>1, CongruentSym

\* Two residues that are congruent are equal.
LEMMA CongruentEqual ==
  ASSUME NEW l \in Nat, NEW x \in 0 .. l - 1, NEW y \in 0 .. l - 1, Congruent(x, y, l)
  PROVE  x = y
<1> DEFINE d == x - y
<1>1. d \in Int /\ -l < d /\ d < l /\ Multiple(d, l)
  BY DEF Congruent
<1> HIDE DEF d
<1>2. d = 0
  BY <1>1, SmallMultiple
<1> QED
  BY <1>2 DEF d

-----------------------------------------------------------------------------
(* Products over finite sets, in any commutative monoid.                   *)

\* A binary operation on V that commutes, associates and has a unit.
CommutativeMonoid(V, op, unit) ==
  /\ op \in [V \X V -> V] /\ unit \in V
  /\ \A a \in V : op[<<unit, a>>] = a
  /\ \A a, b \in V : op[<<a, b>>] = op[<<b, a>>]
  /\ \A a, b, c \in V : op[<<a, op[<<b, c>>]>>] = op[<<op[<<a, b>>], c>>]

\* f[s] is the product of the w[x], x \in s, for every subset s of S.
IsProduct(f, w, op, unit, S) ==
  /\ f[{}] = unit
  /\ \A s \in SUBSET S : \A x \in s : f[s] = op[<<w[x], f[s \ {x}]>>]

\* There is a product, whichever element is taken first.
LEMMA ProductExists ==
  ASSUME NEW S, IsFiniteSet(S), NEW V, NEW op, NEW unit, CommutativeMonoid(V, op, unit),
         NEW w \in [S -> V]
  PROVE  \E f \in [SUBSET S -> V] : IsProduct(f, w, op, unit, S)
<1> DEFINE step == [z \in S \X V |-> op[<<w[z[1]], z[2]>>]]
<1>0. /\ op \in [V \X V -> V] /\ unit \in V
      /\ \A a, b \in V : op[<<a, b>>] \in V /\ op[<<a, b>>] = op[<<b, a>>]
      /\ \A a, b, c \in V : op[<<a, op[<<b, c>>]>>] = op[<<op[<<a, b>>], c>>]
  BY DEF CommutativeMonoid
<1>1. step \in [S \X V -> V] /\ \A x \in S, v \in V : step[<<x, v>>] = op[<<w[x], v>>]
  BY <1>0
<1>2. PICK f \in [SUBSET S -> V] : \A s \in SUBSET S : f[s] = FoldStep(f, unit, step, s)
  <2> HIDE DEF step
  <2>1. \A base \in V, st \in [S \X V -> V] :
          \E f \in [SUBSET S -> V] : \A s \in SUBSET S : f[s] = FoldStep(f, base, st, s)
    BY FoldExists, Zenon
  <2> QED
    BY <1>0, <1>1, <2>1, Zenon
<1>3. \A s \in SUBSET S : s # {} =>
        /\ Pick(s) \in s /\ Others(s) \in SUBSET S
        /\ f[s] = op[<<w[Pick(s)], f[Others(s)]>>]
  <2> HIDE DEF step
  <2> SUFFICES ASSUME NEW s \in SUBSET S, s # {}
               PROVE  /\ Pick(s) \in s /\ Others(s) \in SUBSET S
                      /\ f[s] = op[<<w[Pick(s)], f[Others(s)]>>]
    OBVIOUS
  <2>1. Pick(s) \in s /\ Pick(s) \in S /\ Others(s) \in SUBSET S
    BY PickFacts
  <2>2. f[Others(s)] \in V
    BY <2>1
  <2>3. f[s] = step[<<Pick(s), f[Others(s)]>>]
    BY <1>2 DEF FoldStep
  <2> QED
    BY <1>1, <2>1, <2>2, <2>3
<1> HIDE DEF step
<1> DEFINE Splits(s) == \A x \in s : f[s] = op[<<w[x], f[s \ {x}]>>]
           T == {s \in SUBSET S : Splits(s)}
<1>4. ASSUME NEW s \in SUBSET S, \A x \in s : s \ {x} \in T PROVE s \in T
  <2> SUFFICES ASSUME NEW x \in s PROVE f[s] = op[<<w[x], f[s \ {x}]>>]
    OBVIOUS
  <2> DEFINE p == Pick(s)
  <2>1. p \in s /\ f[s] = op[<<w[p], f[s \ {p}]>>]
    BY <1>3 DEF Others
  <2> HIDE DEF p
  <2>2. CASE x = p
    BY <2>1, <2>2
  <2>3. CASE x # p
    <3> DEFINE rest == (s \ {p}) \ {x}
    <3>1. x \in s \ {p} /\ p \in s \ {x} /\ (s \ {x}) \ {p} = rest
      BY <2>1, <2>3
    <3>2. f[s \ {p}] = op[<<w[x], f[rest]>>] /\ f[s \ {x}] = op[<<w[p], f[rest]>>]
      BY <1>4, <2>1, <3>1
    <3>3. w[x] \in V /\ w[p] \in V /\ f[rest] \in V
      BY <2>1
    <3> HIDE DEF rest
    <3>4. op[<<w[p], op[<<w[x], f[rest]>>]>>] = op[<<op[<<w[p], w[x]>>], f[rest]>>]
      BY <1>0, <3>3
    <3>5. op[<<w[x], op[<<w[p], f[rest]>>]>>] = op[<<op[<<w[x], w[p]>>], f[rest]>>]
      BY <1>0, <3>3
    <3>6. op[<<w[p], w[x]>>] = op[<<w[x], w[p]>>]
      BY <1>0, <3>3
    <3> QED
      BY <2>1, <3>2, <3>4, <3>5, <3>6
  <2> QED
    BY <2>2, <2>3
<1>5. T = SUBSET S
  <2>1. T \in SUBSET (SUBSET S)
    OBVIOUS
  <2> HIDE DEF T
  <2> QED
    BY <1>4, <2>1, RemovalInduction
<1>6. f[{}] = unit
  BY <1>2 DEF FoldStep
<1> QED
  BY <1>5, <1>6 DEF IsProduct

\* The powers of an element.
IsPowers(P, g, op, unit, n) ==
  P[0] = unit /\ \A k \in 1 .. n : P[k] = op[<<P[k - 1], g>>]

LEMMA PowersExist ==
  ASSUME NEW V, NEW op, NEW unit, CommutativeMonoid(V, op, unit), NEW g \in V, NEW n \in Nat
  PROVE  \E P \in [0 .. n -> V] : IsPowers(P, g, op, unit, n)
<1>0. op \in [V \X V -> V] /\ unit \in V
  BY DEF CommutativeMonoid
<1> DEFINE T == {m \in Nat : \E P \in [0 .. m -> V] : IsPowers(P, g, op, unit, m)}
<1>1. 0 \in T
  <2> DEFINE P == [k \in 0 .. 0 |-> unit]
  <2>1. P \in [0 .. 0 -> V] /\ IsPowers(P, g, op, unit, 0)
    BY <1>0 DEF IsPowers
  <2> QED
    BY <2>1
<1>2. ASSUME NEW m \in T PROVE m + 1 \in T
  <2>1. PICK P \in [0 .. m -> V] : IsPowers(P, g, op, unit, m)
    OBVIOUS
  <2> DEFINE Q == [k \in 0 .. m + 1 |-> IF k = m + 1 THEN op[<<P[m], g>>] ELSE P[k]]
  <2>2. m \in Nat /\ P[m] \in V
    BY <2>1
  <2>3. Q \in [0 .. m + 1 -> V]
    BY <1>0, <2>1, <2>2
  <2>4. Q[0] = unit
    BY <2>1, <2>2 DEF IsPowers
  <2>5. ASSUME NEW k \in 1 .. m + 1 PROVE Q[k] = op[<<Q[k - 1], g>>]
    <3>1. CASE k = m + 1
      <4>1. m + 1 \in 0 .. m + 1 /\ (m + 1) - 1 = m /\ m \in 0 .. m + 1 /\ m # m + 1
        BY <2>2
      <4>2. Q[m + 1] = op[<<P[m], g>>] /\ Q[m] = P[m]
        BY <4>1
      <4> QED
        BY <3>1, <4>1, <4>2
    <3>2. CASE k # m + 1
      <4>1. k \in 1 .. m /\ k - 1 \in 0 .. m /\ k - 1 # m + 1 /\ k \in 0 .. m + 1
        BY <2>2, <3>2
      <4> QED
        BY <2>1, <2>2, <4>1 DEF IsPowers
    <3> QED
      BY <3>1, <3>2
  <2> HIDE DEF Q
  <2>6. IsPowers(Q, g, op, unit, m + 1)
    BY <2>4, <2>5 DEF IsPowers
  <2> QED
    BY <2>2, <2>3, <2>6
<1>3. T = Nat
  <2>1. T \in SUBSET Nat
    OBVIOUS
  <2> HIDE DEF T
  <2> QED
    BY <1>1, <1>2, <2>1, NaturalInduction
<1> QED
  BY <1>3

\* Exponents add.
ExponentsAdd(P, op, n) ==
  \A i, j \in 0 .. n : i + j <= n => P[i + j] = op[<<P[i], P[j]>>]

LEMMA PowersAdd ==
  ASSUME NEW V, NEW op, NEW unit, CommutativeMonoid(V, op, unit), NEW g \in V, NEW n \in Nat,
         NEW P \in [0 .. n -> V], IsPowers(P, g, op, unit, n)
  PROVE  ExponentsAdd(P, op, n)
<1> SUFFICES ASSUME NEW i \in 0 .. n
             PROVE  \A j \in 0 .. n : i + j <= n => P[i + j] = op[<<P[i], P[j]>>]
  BY DEF ExponentsAdd
<1>0. /\ op \in [V \X V -> V] /\ unit \in V
      /\ \A a \in V : op[<<a, unit>>] = a
      /\ \A a, b, c \in V : op[<<a, op[<<b, c>>]>>] = op[<<op[<<a, b>>], c>>]
  BY DEF CommutativeMonoid
<1> DEFINE T == {j \in Nat : i + j <= n => P[i + j] = op[<<P[i], P[j]>>]}
<1>1. 0 \in T
  BY <1>0 DEF IsPowers
<1>2. ASSUME NEW j \in T PROVE j + 1 \in T
  <2> SUFFICES ASSUME i + (j + 1) <= n PROVE P[i + (j + 1)] = op[<<P[i], P[j + 1]>>]
    OBVIOUS
  <2>1. i + j \in 0 .. n /\ j \in 0 .. n /\ P[i + j] = op[<<P[i], P[j]>>]
    OBVIOUS
  <2>2. /\ (i + j) + 1 \in 1 .. n /\ ((i + j) + 1) - 1 = i + j
        /\ j + 1 \in 1 .. n /\ (j + 1) - 1 = j
    BY <2>1
  <2>3. P[(i + j) + 1] = op[<<P[i + j], g>>]
    BY <2>2 DEF IsPowers
  <2>4. P[j + 1] = op[<<P[j], g>>]
    BY <2>2 DEF IsPowers
  <2>5. P[i] \in V /\ P[j] \in V
    BY <2>1
  <2>6. op[<<P[i], op[<<P[j], g>>]>>] = op[<<op[<<P[i], P[j]>>], g>>]
    BY <1>0, <2>5
  <2>7. i + (j + 1) = (i + j) + 1
    BY <2>1
  <2> QED
    BY <2>1, <2>3, <2>4, <2>6, <2>7
<1>3. T = Nat
  <2>1. T \in SUBSET Nat
    OBVIOUS
  <2> HIDE DEF T
  <2> QED
    BY <1>1, <1>2, <2>1, NaturalInduction
<1>4. ASSUME NEW j \in 0 .. n, i + j <= n PROVE P[i + j] = op[<<P[i], P[j]>>]
  <2>1. j \in Nat
    OBVIOUS
  <2>2. j \in T
    BY <1>3, <2>1
  <2> QED
    BY <1>4, <2>2
<1> QED
  BY <1>4

-----------------------------------------------------------------------------
(* Repeated squaring computes the powers taken one at a time.              *)

\* Numbers reached by halving.
LEMMA HalvingInduction ==
  ASSUME NEW T \in SUBSET Nat, 0 \in T, \A e \in Nat : e # 0 /\ e \div 2 \in T => e \in T
  PROVE  T = Nat
<1> SUFFICES ASSUME Nat \ T # {} PROVE FALSE
  OBVIOUS
<1>1. PICK e \in Nat \ T : \A k \in Nat \ T : e <= k
  BY LeastNatural
<1>2. e # 0 /\ e \div 2 \in Nat /\ e \div 2 < e
  BY <1>1
<1>3. e \div 2 \in T
  BY <1>1, <1>2
<1> QED
  BY <1>1, <1>2, <1>3

\* The two ways to halve.
LEMMA HalfFacts ==
  ASSUME NEW e \in Nat, e # 0
  PROVE  /\ e \div 2 \in 0 .. e - 1
         /\ e % 2 = 1 => e = 2 * (e \div 2) + 1
         /\ e % 2 # 1 => e = 2 * (e \div 2)
  OBVIOUS

\* Reducing the factors first makes no difference.
SameMod(x, y, m) == x % m = y % m

LEMMA ModDot ==
  ASSUME NEW m \in Nat, m > 0, NEW a \in Int, NEW b \in Int, NEW c \in Int, NEW d \in Int
  PROVE  SameMod((a % m) * (b % m) + (c % m) * (d % m), a * b + c * d, m)
<1>1. PICK i \in Int : \E r \in 0 .. m - 1 : a = m * i + r /\ a % m = r
  BY ModFacts, Zenon
<1>2. PICK j \in Int : \E r \in 0 .. m - 1 : b = m * j + r /\ b % m = r
  BY ModFacts, Zenon
<1>3. PICK k \in Int : \E r \in 0 .. m - 1 : c = m * k + r /\ c % m = r
  BY ModFacts, Zenon
<1>4. PICK n \in Int : \E r \in 0 .. m - 1 : d = m * n + r /\ d % m = r
  BY ModFacts, Zenon
<1> DEFINE ra == a % m
           rb == b % m
           rc == c % m
           rd == d % m
           x == a * b + c * d
           y == ra * rb + rc * rd
           q == i * b + ra * j + k * d + rc * n
<1>5. /\ ra \in Int /\ rb \in Int /\ rc \in Int /\ rd \in Int
      /\ a = m * i + ra /\ b = m * j + rb /\ c = m * k + rc /\ d = m * n + rd
  BY <1>1, <1>2, <1>3, <1>4
<1> HIDE DEF ra, rb, rc, rd
<1>6. a * b = ra * rb + m * (i * b + ra * j)
  <2>1. a * b = m * (i * b) + ra * b
    BY <1>5
  <2>2. ra * b = m * (ra * j) + ra * rb
    BY <1>5
  <2> QED
    BY <1>5, <2>1, <2>2
<1>7. c * d = rc * rd + m * (k * d + rc * n)
  <2>1. c * d = m * (k * d) + rc * d
    BY <1>5
  <2>2. rc * d = m * (rc * n) + rc * rd
    BY <1>5
  <2> QED
    BY <1>5, <2>1, <2>2
<1>8. x \in Int /\ y \in Int /\ q \in Int /\ x = y + m * q
  BY <1>5, <1>6, <1>7
<1> HIDE DEF x, y, q
<1>9. x % m = y % m
  BY <1>8, ModCongruent, Zenon
<1> QED
  BY <1>9 DEF x, y, ra, rb, rc, rd, SameMod

LEMMA ModTimes ==
  ASSUME NEW m \in Nat, m > 0, NEW a \in Int, NEW b \in Int
  PROVE  SameMod((a % m) * (b % m), a * b, m) /\ SameMod((a % m) * b, a * b, m)
<1>1. PICK i \in Int : \E r \in 0 .. m - 1 : a = m * i + r /\ a % m = r
  BY ModFacts, Zenon
<1>2. PICK j \in Int : \E r \in 0 .. m - 1 : b = m * j + r /\ b % m = r
  BY ModFacts, Zenon
<1> DEFINE ra == a % m
           rb == b % m
           x == a * b
           y == ra * b
           z == ra * rb
           q == ra * j
           n == i * b
<1>3. ra \in Int /\ rb \in Int /\ a = m * i + ra /\ b = m * j + rb
  BY <1>1, <1>2
<1> HIDE DEF ra, rb
<1>4. x \in Int /\ y \in Int /\ z \in Int /\ q \in Int /\ n \in Int
  BY <1>3
<1>5. x = y + m * n
  BY <1>3
<1>6. y = z + m * q
  BY <1>3
<1> HIDE DEF x, y, z, q, n
<1>7. x % m = y % m /\ y % m = z % m
  BY <1>4, <1>5, <1>6, ModCongruent, Zenon
<1> QED
  BY <1>7 DEF x, y, z, ra, rb, SameMod

-----------------------------------------------------------------------------
(* pow_mod.                                                                *)

\* Multiplication of integers, as a function.
Times == [z \in Int \X Int |-> z[1] * z[2]]

LEMMA TimesFacts == CommutativeMonoid(Int, Times, 1) /\ \A a, b \in Int : Times[<<a, b>>] = a * b
<1>1. \A a, b \in Int : Times[<<a, b>>] = a * b /\ a * b \in Int
  BY DEF Times
<1>2. Times \in [Int \X Int -> Int]
  BY DEF Times
<1>3. \A a, b, c \in Int : a * (b * c) = (a * b) * c
  OBVIOUS
<1>4. \A a, b, c \in Int : Times[<<a, Times[<<b, c>>]>>] = Times[<<Times[<<a, b>>], c>>]
  <2> SUFFICES ASSUME NEW a \in Int, NEW b \in Int, NEW c \in Int
               PROVE  Times[<<a, Times[<<b, c>>]>>] = Times[<<Times[<<a, b>>], c>>]
    OBVIOUS
  <2>1. Times[<<a, b * c>>] = a * (b * c) /\ Times[<<a * b, c>>] = (a * b) * c
    BY <1>1
  <2> QED
    BY <1>1, <1>3, <2>1
<1>5. \A a, b \in Int : a * b = b * a /\ 1 * a = a
  OBVIOUS
<1> QED
  BY <1>1, <1>2, <1>4, <1>5 DEF CommutativeMonoid

\* Powers of a number.
LEMMA NumberPowersAdd ==
  ASSUME NEW g \in Int, NEW n \in Nat, NEW P \in [0 .. n -> Int],
         IsPowers(P, g, Times, 1, n), NEW i \in 0 .. n, NEW j \in 0 .. n, i + j <= n
  PROVE  P[i + j] = P[i] * P[j]
<1> DEFINE V == Int
<1>1. CommutativeMonoid(V, Times, 1) /\ g \in V /\ P \in [0 .. n -> V]
  BY TimesFacts
<1> HIDE DEF V
<1>2. ExponentsAdd(P, Times, n)
  BY <1>1, PowersAdd, Zenon
<1> QED
  BY <1>2, TimesFacts DEF ExponentsAdd

LEMMA NumberPowersExist ==
  ASSUME NEW g \in Int, NEW n \in Nat
  PROVE  \E P \in [0 .. n -> Int] : IsPowers(P, g, Times, 1, n)
<1> DEFINE V == Int
<1>1. CommutativeMonoid(V, Times, 1) /\ g \in V
  BY TimesFacts
<1> HIDE DEF V
<1>2. \E P \in [0 .. n -> V] : IsPowers(P, g, Times, 1, n)
  BY <1>1, PowersExist, Zenon
<1> QED
  BY <1>2 DEF V

-----------------------------------------------------------------------------
(* Primes, as small_prime of trace.cpp tests them.                         *)

\* A prime and a number it does not divide combine to one: the least
\* positive combination divides both.
LEMMA Bezout ==
  ASSUME NEW q \in Nat, SmallPrime(q), NEW m \in Nat, m % q # 0
  PROVE  \E x, y \in Int : m * x + q * y = 1
<1> DEFINE T == {d \in Nat : d > 0 /\ \E x, y \in Int : d = m * x + q * y}
<1>1. q > 1
  BY DEF SmallPrime
<1>2. q \in T
  <2>1. q = m * 0 + q * 1
    OBVIOUS
  <2> QED
    BY <1>1, <2>1
<1>3. PICK d \in T : \A e \in T : d <= e
  <2> HIDE DEF T
  <2>1. T # {}
    BY <1>2
  <2> QED
    BY <2>1, LeastNatural DEF T
<1>4. PICK x \in Int, y \in Int : d = m * x + q * y
  OBVIOUS
<1>5. d \in Nat /\ d > 0 /\ d <= q
  BY <1>2, <1>3
<1>6. ASSUME NEW c \in Nat, NEW a \in Int, NEW b \in Int, c = m * a + q * b
      PROVE  \E k \in Int : c = d * k
  <2>1. c \in Int
    OBVIOUS
  <2>2. PICK k \in Int : \E r \in 0 .. d - 1 : c = d * k + r /\ c % d = r
    BY <1>5, <2>1, ModFacts
  <2>3. PICK r \in 0 .. d - 1 : c = d * k + r
    BY <2>2
  <2>4. d * k = m * (x * k) + q * (y * k)
    BY <1>4
  <2>5. r = m * (a - x * k) + q * (b - y * k)
    BY <1>5, <1>6, <2>3, <2>4
  <2>6. r > 0 => r \in T
    <3>1. a - x * k \in Int /\ b - y * k \in Int /\ r \in Nat
      BY <1>5
    <3> QED
      BY <2>5, <3>1
  <2>7. r = 0
    BY <1>3, <1>5, <2>3, <2>6
  <2> QED
    BY <1>5, <2>3, <2>7
<1> HIDE DEF T
<1>7. PICK k \in Int : q = d * k
  <2>1. q = m * 0 + q * 1 /\ 0 \in Int /\ 1 \in Int
    OBVIOUS
  <2> QED
    BY <1>6, <2>1, Zenon
<1>8. PICK j \in Int : m = d * j
  <2>1. m = m * 1 + q * 0 /\ 0 \in Int /\ 1 \in Int
    OBVIOUS
  <2> QED
    BY <1>6, <2>1, Zenon
<1>9. q % d = 0
  BY <1>5, <1>7, ModOfMultiple
<1>10. d # q
  <2>1. m % d = 0
    BY <1>5, <1>8, ModOfMultiple
  <2> QED
    BY <2>1
<1>11. d = 1
  <2>1. d \notin 2 .. q - 1
    BY <1>9 DEF SmallPrime
  <2> QED
    BY <1>5, <1>10, <2>1
<1> QED
  BY <1>4, <1>11

\* No prime divides another.
LEMMA DistinctPrimes ==
  ASSUME NEW p \in Nat, SmallPrime(p), NEW q \in Nat, SmallPrime(q), p # q
  PROVE  p % q # 0
<1>1. CASE q < p
  <2>1. q \in 2 .. p - 1
    BY <1>1 DEF SmallPrime
  <2> QED
    BY <2>1 DEF SmallPrime
<1>2. CASE p < q
  <2>1. p \in 0 .. q - 1 /\ q > 0 /\ p # 0
    BY <1>2 DEF SmallPrime
  <2> QED
    BY <2>1, ModSmall
<1> QED
  BY <1>1, <1>2

\* A number that a prime does not divide has an inverse modulo it.
LEMMA PrimeInverse ==
  ASSUME NEW l \in Nat, SmallPrime(l), NEW x \in Int, ~Multiple(x, l)
  PROVE  \E y \in 1 .. l - 1 : Multiple(x * y - 1, l)
<1>1. l > 1
  BY DEF SmallPrime
<1> DEFINE r == x % l
<1>2. r \in Nat /\ r \in 0 .. l - 1 /\ Multiple(x - r, l) /\ x % l # 0
  BY <1>1, RemainderFacts, MultipleMod
<1>3. r % l # 0
  BY <1>1, <1>2, ModSmall
<1> HIDE DEF r
<1>4. PICK a \in Int, b \in Int : r * a + l * b = 1
  BY <1>2, <1>3, Bezout
<1> DEFINE y == a % l
<1>5. y \in 0 .. l - 1 /\ y \in Int /\ Multiple(a - y, l)
  BY <1>1, RemainderFacts
<1> HIDE DEF y
<1>6. Multiple(x * y - 1, l)
  <2> DEFINE m == l * (-b)
             d == x - r
             e == a - y
             s == a * d + (-x) * e
  <2>1. m \in Int /\ d \in Int /\ e \in Int /\ s \in Int /\ -x \in Int /\ 1 \in Int
        /\ s = a * d + (-x) * e
    BY <1>2, <1>5
  <2>2. Multiple(m, l) /\ Multiple(d, l) /\ Multiple(e, l)
    <3>1. -b \in Int
      OBVIOUS
    <3> QED
      BY <1>2, <1>5, <3>1 DEF Multiple
  <2>3. x * y - 1 = 1 * s + 1 * m
    <3>1. a * d = a * x - a * r
      BY <1>2
    <3>2. (-x) * e = x * y - x * a
      BY <1>5
    <3>3. m = r * a - 1
      BY <1>2, <1>4
    <3> QED
      BY <1>2, <1>5, <3>1, <3>2, <3>3
  <2> HIDE DEF m, d, e, s
  <2>4. Multiple(s, l)
    BY <2>1, <2>2, Combination, Zenon
  <2> QED
    BY <2>1, <2>2, <2>3, <2>4, Combination, Zenon
<1>7. y # 0
  <2> SUFFICES ASSUME y = 0 PROVE FALSE
    OBVIOUS
  <2>1. Multiple(-1, l)
    BY <1>6
  <2> QED
    BY <1>1, <2>1, SmallMultiple
<1> QED
  BY <1>5, <1>6, <1>7

\* A prime divides a product only if it divides a factor.
LEMMA PrimeSplits ==
  ASSUME NEW l \in Nat, SmallPrime(l), NEW x \in Int, NEW y \in Int, Multiple(x * y, l)
  PROVE  Multiple(x, l) \/ Multiple(y, l)
<1> SUFFICES ASSUME ~Multiple(x, l) PROVE Multiple(y, l)
  OBVIOUS
<1>1. PICK z \in 1 .. l - 1 : Multiple(x * z - 1, l)
  BY PrimeInverse
<1> DEFINE d == x * z - 1
           m == x * y
<1>2. d \in Int /\ m \in Int /\ z \in Int /\ -y \in Int /\ y = z * m + (-y) * d
  OBVIOUS
<1>3. Multiple(d, l) /\ Multiple(m, l)
  BY <1>1
<1> HIDE DEF d, m
<1> QED
  BY <1>2, <1>3, Combination, Zenon

\* The least divisor of a number is a prime.
LEMMA PrimeDivisor ==
  ASSUME NEW c \in Nat, c > 1
  PROVE  \E r \in 2 .. c : SmallPrime(r) /\ Multiple(c, r)
<1> DEFINE T == {r \in 2 .. c : Multiple(c, r)}
<1>1. c \in T /\ T \in SUBSET Nat
  <2>1. c = c * 1 /\ 1 \in Int
    OBVIOUS
  <2> QED
    BY <2>1 DEF Multiple
<1>2. PICK r \in T : \A y \in T : r <= y
  <2> HIDE DEF T
  <2> QED
    BY <1>1, LeastNatural
<1>3. r \in 2 .. c /\ Multiple(c, r) /\ r \in Int /\ r > 1
  OBVIOUS
<1>4. ASSUME NEW d \in 2 .. r - 1, r % d = 0 PROVE FALSE
  <2>1. d \in Nat /\ d > 0 /\ d \in Int /\ c \in Int
    OBVIOUS
  <2>2. Multiple(r, d)
    BY <1>3, <1>4, <2>1, MultipleMod
  <2>3. Multiple(c, d)
    BY <1>3, <2>1, <2>2, MultipleTrans
  <2>4. d \in T
    BY <1>3, <2>3
  <2> QED
    BY <1>2, <1>3, <2>4
<1>5. SmallPrime(r)
  BY <1>3, <1>4 DEF SmallPrime
<1> QED
  BY <1>3, <1>5

=============================================================================
