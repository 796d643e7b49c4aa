------------------------ MODULE TraceRefinementProofs ------------------------
(***************************************************************************)
(* The Chinese remainder merge of TraceConstraints is right for every      *)
(* modulus, every set of residues and every characteristic, and the        *)
(* residues that an Atkin level allows are those of the observed order,    *)
(* for every odd prime level.                                              *)
(***************************************************************************)
EXTENDS TraceRefinement, AtkinResidues, TraceConstraintsProofs

-----------------------------------------------------------------------------
(* The specification.                                                      *)

\* Every modulus that was merged divides the one that is left.
Divided ==
  /\ tc.modulus \in Nat /\ tc.modulus > 0
  /\ \A ell \in DOMAIN imposed :
       /\ ell \in Nat /\ ell > 0
       /\ \E d \in Nat : d > 0 /\ tc.modulus = ell * d

IInv == Divided /\ ExactlyImposed

LEMMA InitHolds == Init => IInv
<1> SUFFICES ASSUME Init PROVE IInv
  OBVIOUS
<1>1. tc.modulus = 1 /\ tc.residues = {0} /\ DOMAIN imposed = {}
  BY DEF Init, Unconstrained
<1>2. 0 .. 1 - 1 = {0}
  OBVIOUS
<1> QED
  BY <1>1, <1>2 DEF IInv, Divided, ExactlyImposed, Compatible

\* A refinement that is committed keeps the invariant.
LEMMA RefineHolds ==
  ASSUME IInv, NEW ell \in Moduli, Refinable(tc, ell),
         NEW allowed \in SUBSET Int,
         tc' = Refine(tc, ell, allowed), Impose(ell, allowed)
  PROVE  IInv'
<1> DEFINE m == tc.modulus
           A == {a % ell : a \in allowed}
<1>1. ell \in Nat /\ ell > 0 /\ ell >= 2
  BY ModuliAssumption DEF Refinable
<1>2. m \in Nat /\ m > 0
  BY DEF IInv, Divided
<1>3. Invertible(m, ell)
  BY DEF Refinable
<1>4. tc.residues \subseteq 0 .. m - 1
  BY DEF IInv, ExactlyImposed
<1>5. tc'.modulus = m * ell
  BY DEF Refine
<1>6. tc'.residues = {c \in 0 .. m * ell - 1 : c % m \in tc.residues /\ c % ell \in A}
  <2>1. tc'.residues = Merged(tc.residues, allowed, m, ell)
    BY DEF Refine, Merged
  <2>2. tc.residues \in SUBSET (0 .. m - 1) /\ allowed \in SUBSET Int
    BY <1>4
  <2> HIDE DEF m
  <2>3. tc'.residues = Both(tc.residues, allowed, m, ell)
    BY <1>1, <1>2, <1>3, <2>1, <2>2, MergeIsExact
  <2> QED
    BY <2>3 DEF Both
<1>7. ell \notin DOMAIN imposed
  <2> SUFFICES ASSUME ell \in DOMAIN imposed PROVE FALSE
    OBVIOUS
  <2>1. PICK d \in Nat : d > 0 /\ m = ell * d
    BY DEF IInv, Divided
  <2>2. (ell * d) % ell = 0 /\ (ell * 1) % ell = 0
    BY <1>1, ModOfMultiple
  <2>3. m % ell = 0 /\ ell % ell = 0
    <3>1. ell = ell * 1
      BY <1>1
    <3> QED
      BY <2>1, <2>2, <3>1
  <2> QED
    BY <1>1, <2>3 DEF Refinable, Coprime
<1>8. /\ DOMAIN imposed' = DOMAIN imposed \cup {ell}
      /\ imposed'[ell] = A
      /\ \A l \in DOMAIN imposed : imposed'[l] = imposed[l]
  BY <1>7 DEF Impose
<1>9. m * ell \in Nat /\ m * ell > 0
  BY <1>1, <1>2
<1>10. Divided'
  <2>1. m * ell = ell * m
    BY <1>1, <1>2
  <2>2. ASSUME NEW l \in DOMAIN imposed
        PROVE  l \in Nat /\ l > 0 /\ \E e \in Nat : e > 0 /\ m * ell = l * e
    <3>1. PICK d \in Nat : d > 0 /\ m = l * d
      BY DEF IInv, Divided
    <3>2. l \in Nat /\ l > 0
      BY DEF IInv, Divided
    <3>3. d * ell \in Nat /\ d * ell > 0
      BY <1>1, <3>1
    <3>4. m * ell = l * (d * ell)
      BY <1>1, <3>1, <3>2
    <3> QED
      BY <3>2, <3>3, <3>4
  <2> QED
    BY <1>1, <1>2, <1>5, <1>8, <1>9, <2>1, <2>2 DEF Divided
<1>11. ASSUME NEW c \in 0 .. m * ell - 1
       PROVE  (c % m \in tc.residues /\ c % ell \in A) <=> Compatible(c)'
  <2>1. c \in Int /\ c % m \in 0 .. m - 1
    BY <1>2, <1>9, ModRange
  <2>2. c % m \in tc.residues <=> Compatible(c % m)
    BY <2>1 DEF IInv, ExactlyImposed
  <2>3. ASSUME NEW l \in DOMAIN imposed
        PROVE  (c % m) % l = c % l
    <3>1. PICK d \in Nat : d > 0 /\ m = l * d
      BY DEF IInv, Divided
    <3>2. l \in Nat /\ l > 0
      BY DEF IInv, Divided
    <3>3. (c % (l * d)) % l = c % l
      BY <2>1, <3>1, <3>2, ModThrough
    <3> QED
      BY <3>1, <3>3
  <2>4. Compatible(c % m) <=> \A l \in DOMAIN imposed : c % l \in imposed[l]
    BY <2>3 DEF Compatible
  <2>5. Compatible(c)' <=> /\ \A l \in DOMAIN imposed : c % l \in imposed[l]
                          /\ c % ell \in A
    BY <1>8 DEF Compatible
  <2> QED
    BY <2>2, <2>4, <2>5
<1>12. ExactlyImposed'
  BY <1>5, <1>6, <1>11 DEF ExactlyImposed
<1> QED
  BY <1>10, <1>12 DEF IInv

LEMMA NextHolds == IInv /\ [Next]_vars => IInv'
<1> SUFFICES ASSUME IInv, [Next]_vars PROVE IInv'
  OBVIOUS
<1>1. ASSUME NEW ell \in Moduli, NEW allowed \in SUBSET (1 .. ell), DoRefine(ell, allowed)
      PROVE  IInv'
  BY <1>1, RefineHolds DEF DoRefine
<1>2. ASSUME NEW ell \in Moduli, NEW residue \in 1 .. ell, DoRefineExact(ell, residue)
      PROVE  IInv'
  <2>1. CASE CandidateCount(prime, Refine(tc, ell, {residue})) = 0
    BY <1>2, <2>1 DEF DoRefineExact, ExactRefinement, IInv, Divided, ExactlyImposed, Compatible
  <2>2. CASE CandidateCount(prime, Refine(tc, ell, {residue})) # 0
    <3>1. tc' = Refine(tc, ell, {residue}) /\ Impose(ell, {residue}) /\ Refinable(tc, ell)
      BY <1>2, <2>2 DEF DoRefineExact, ExactRefinement
    <3> QED
      BY <3>1, RefineHolds
  <2> QED
    BY <2>1, <2>2
<1>3. CASE UNCHANGED vars
  BY <1>3 DEF vars, IInv, Divided, ExactlyImposed, Compatible
<1> QED
  BY <1>1, <1>2, <1>3 DEF Next

\* The merged classes are exactly the residues that satisfy every refinement
\* so far, for all moduli and residues in any order (refine, refine_exact).
THEOREM Exact == Spec => []ExactlyImposed
<1>1. IInv => ExactlyImposed
  BY DEF IInv
<1> QED
  BY <1>1, InitHolds, NextHolds, PTL DEF Spec

-----------------------------------------------------------------------------
(* What refine_exact refuses.  A later refinement leaves no trace possible *)
(* that was not, so what was impossible stays impossible.                  *)

RefusalInv == IInv /\ prime \in Primes /\ RejectedMeansImpossible

\* A residue is refused when the count says that no trace has it.
LEMMA RefusedIsImpossible ==
  ASSUME IInv, prime \in Primes, NEW ell \in Moduli, NEW residue \in 1 .. ell,
         Refinable(tc, ell), CandidateCount(prime, Refine(tc, ell, {residue})) = 0
  PROVE  \A t \in Traces(prime) : Compatible(t) => t % ell # residue % ell
<1> SUFFICES ASSUME NEW t \in Traces(prime), Compatible(t), t % ell = residue % ell PROVE FALSE
  OBVIOUS
<1> DEFINE m == tc.modulus
           refined == Refine(tc, ell, {residue})
<1>1. ell \in Nat /\ ell > 0 /\ prime \in Nat /\ t \in Int /\ residue \in Int /\ t * t <= 4 * prime
  BY ModuliAssumption, PrimesAssumption DEF Refinable, Traces
<1>2. m \in Nat /\ m > 0 /\ WellFormed(tc)
  BY DEF IInv, Divided, ExactlyImposed, WellFormed
<1>3. t % m \in tc.residues
  <2>1. t % m \in 0 .. m - 1
    BY <1>1, <1>2, ModRange
  <2>2. ASSUME NEW l \in DOMAIN imposed PROVE (t % m) % l = t % l
    <3>1. PICK d \in Nat : d > 0 /\ m = l * d
      BY DEF IInv, Divided
    <3>2. l \in Nat /\ l > 0
      BY DEF IInv, Divided
    <3>3. (t % (l * d)) % l = t % l
      BY <1>1, <3>1, <3>2, ModThrough
    <3> QED
      BY <3>1, <3>3
  <2>3. Compatible(t % m)
    BY <2>2 DEF Compatible
  <2> QED
    BY <2>1, <2>3 DEF IInv, ExactlyImposed
<1>4. {residue} \in SUBSET Int /\ t % ell \in {a % ell : a \in {residue}}
  BY <1>1
<1>5. Invertible(tc.modulus, ell)
  BY DEF Refinable
<1>6. WellFormed(refined) /\ refined.modulus = m * ell /\ t % (m * ell) \in refined.residues
  BY <1>1, <1>2, <1>3, <1>4, <1>5, RefineFacts
<1> HIDE DEF refined, m
<1>7. t \in Candidates(prime, refined)
  BY <1>1, <1>6, HasseFacts DEF Candidates
<1>8. CandidateCount(prime, refined) = 0
  BY DEF refined
<1> QED
  BY <1>1, <1>6, <1>7, <1>8, CountFacts

\* A refinement that is committed restricts one modulus more.
LEMMA ImposeRestricts ==
  ASSUME IInv, NEW ell \in Moduli, Refinable(tc, ell), NEW allowed, Impose(ell, allowed), NEW t
  PROVE  Compatible(t)' => Compatible(t)
<1>1. ell \notin DOMAIN imposed
  <2> SUFFICES ASSUME ell \in DOMAIN imposed PROVE FALSE
    OBVIOUS
  <2>1. ell \in Nat /\ ell >= 2
    BY ModuliAssumption DEF Refinable
  <2>2. PICK d \in Nat : d > 0 /\ tc.modulus = ell * d
    BY DEF IInv, Divided
  <2>3. (ell * d) % ell = 0 /\ (ell * 1) % ell = 0
    BY <2>1, ModOfMultiple
  <2>4. tc.modulus % ell = 0 /\ ell % ell = 0
    BY <2>1, <2>2, <2>3
  <2> QED
    BY <2>1, <2>4 DEF Refinable, Coprime
<1> QED
  BY <1>1 DEF Impose, Compatible

LEMMA RefusalStep == RefusalInv /\ [Next]_vars => RefusalInv'
<1> SUFFICES ASSUME RefusalInv, [Next]_vars PROVE RefusalInv'
  OBVIOUS
<1> USE DEF RefusalInv
<1>1. IInv'
  BY NextHolds
<1>2. prime' = prime
  BY DEF Next, DoRefine, DoRefineExact, vars
<1>3. ASSUME NEW ell \in Moduli, Refinable(tc, ell), NEW allowed, Impose(ell, allowed),
             UNCHANGED <<prime, rejected>>
      PROVE  RejectedMeansImpossible'
  <2>1. \A t : Compatible(t)' => Compatible(t)
    BY <1>3, ImposeRestricts
  <2> QED
    BY <1>3, <2>1 DEF RejectedMeansImpossible, Traces
<1>4. ASSUME NEW ell \in Moduli, NEW residue \in 1 .. ell, DoRefineExact(ell, residue)
      PROVE  RejectedMeansImpossible'
  <2>1. CASE CandidateCount(prime, Refine(tc, ell, {residue})) = 0
    <3>1. rejected' = {<<ell, residue % ell>>} /\ UNCHANGED <<prime, imposed>>
          /\ Refinable(tc, ell)
      BY <1>4, <2>1 DEF DoRefineExact
    <3>2. \A t \in Traces(prime) : Compatible(t) => t % ell # residue % ell
      BY <2>1, <3>1, RefusedIsImpossible
    <3>3. \A pair \in rejected' : pair[1] = ell /\ pair[2] = residue % ell
      BY <3>1
    <3> QED
      BY <3>1, <3>2, <3>3 DEF RejectedMeansImpossible, Traces, Compatible
  <2>2. CASE CandidateCount(prime, Refine(tc, ell, {residue})) # 0
    <3>1. Refinable(tc, ell) /\ Impose(ell, {residue}) /\ UNCHANGED <<prime, rejected>>
      BY <1>4, <2>2 DEF DoRefineExact
    <3> QED
      BY <1>3, <3>1
  <2> QED
    BY <2>1, <2>2
<1>5. ASSUME NEW ell \in Moduli, NEW allowed \in SUBSET (1 .. ell), DoRefine(ell, allowed)
      PROVE  RejectedMeansImpossible'
  BY <1>3, <1>5 DEF DoRefine
<1>6. ASSUME UNCHANGED vars PROVE RejectedMeansImpossible'
  <2>1. prime' = prime /\ imposed' = imposed /\ rejected' = rejected
    BY <1>6 DEF vars
  <2> QED
    BY <2>1 DEF RejectedMeansImpossible, Traces, Compatible
<1>7. RejectedMeansImpossible'
  BY <1>4, <1>5, <1>6 DEF Next
<1> QED
  BY <1>1, <1>2, <1>7

\* refine_exact refuses a residue only if no trace in the Hasse interval that
\* satisfies everything imposed has it, for every characteristic and every
\* history of refinements: the count that decides it skips no trace.
THEOREM RefusesOnlyTheImpossible == Spec => []RejectedMeansImpossible
<1>1. Init => RefusalInv
  BY InitHolds DEF RefusalInv, Init, RejectedMeansImpossible
<1>2. RefusalInv => RejectedMeansImpossible
  BY DEF RefusalInv
<1> QED
  BY <1>1, <1>2, RefusalStep, PTL DEF Spec

-----------------------------------------------------------------------------
(* The collection.                                                         *)

\* The powers taken one at a time, as LeastScalarPower takes them.
LEMMA LeastScalarPowerUnfolds ==
  ASSUME NEW t
  PROVE  LeastScalarPower(t) =
           CHOOSE k \in 1 .. level + 1 :
             /\ IsScalar((CHOOSE f : LinearSteps(f, Frobenius(field, t, level), level + 1, level))[k])
             /\ \A i \in 1 .. k - 1 :
                  ~IsScalar((CHOOSE f : LinearSteps(f, Frobenius(field, t, level), level + 1, level))[i])
  BY Zenon DEF LeastScalarPower, LinearSteps

LEMMA ResidueFacts ==
  ASSUME OddPrime(level), field \in Int, NEW t \in Int
  PROVE  IsAtkinResidue(level, field, order, t)
           <=> Irreducible(t) /\ LeastScalarPower(t) = order
<1> DEFINE l == level
           p == field
           n == l + 1
<1>0. l \in Nat /\ l > 1 /\ SmallPrime(l) /\ n \in Nat /\ p \in Int
  BY OddPrimeHalf
<1>1. Irreducible(t) <=> NoRoot(p, t, l)
  BY DEF Irreducible, NoRoot
<1>2. HasRationalIsogeny(p, t, l) <=> ~NoRoot(p, t, l)
  <2> DEFINE symbol == LegendreSmall(Discriminant(p, t, l), l)
  <2>1. symbol \in {-1, 0, 1} /\ (symbol = -1 <=> NoRoot(p, t, l))
    BY <1>0, IrreducibleFacts
  <2>2. HasRationalIsogeny(p, t, l) <=> symbol >= 0
    BY DEF HasRationalIsogeny
  <2> HIDE DEF symbol
  <2> QED
    BY <2>1, <2>2
<1>3. ASSUME NoRoot(p, t, l)
      PROVE  ProjectiveFrobeniusOrder(l, p, t) = LeastScalarPower(t)
  <2>1. PICK P : MPowers(P, p, t, n)
    BY <1>0, QuadraticPowersExist, Zenon DEF MPowers
  <2>2. PICK k \in 1 .. n : LeastScalar(P, l, k) /\ Multiple(n, k)
    BY <1>0, <1>3, <2>1, LeastScalarExists
  <2>3. ProjectiveFrobeniusOrder(l, p, t) = k
    BY <1>0, <1>3, <2>1, <2>2, OrderFacts
  <2> DEFINE power == CHOOSE f : LinearSteps(f, Frobenius(p, t, l), n, l)
             Least(i) == IsScalar(power[i]) /\ \A j \in 1 .. i - 1 : ~IsScalar(power[j])
  <2>4. \A i \in 1 .. n : IsScalar(power[i]) <=> ScalarPower(P, l, i)
    <3>1. \A i \in 1 .. n : power[i] = MatrixOf(P[i], p, t, l)
      BY <1>0, <2>1, LinearFacts
    <3>2. \A i \in 0 .. n : IsScalar(MatrixOf(P[i], p, t, l)) <=> ScalarPower(P, l, i)
      BY <1>0, <2>1, ScalarPowerFacts
    <3> HIDE DEF power
    <3>3. \A i \in 1 .. n : i \in 0 .. n
      OBVIOUS
    <3> QED
      BY <3>1, <3>2, <3>3, Zenon
  <2>5. LeastScalarPower(t) = CHOOSE i \in 1 .. n : Least(i)
    BY LeastScalarPowerUnfolds, Zenon
  <2> HIDE DEF power
  <2>6. Least(k)
    <3>1. \A j \in 1 .. k - 1 : j \in 1 .. n
      BY <1>0, <2>2
    <3> QED
      BY <2>2, <2>4, <3>1 DEF LeastScalar
  <2>7. ASSUME NEW i \in 1 .. n, Least(i) PROVE i = k
    <3>1. i < k => ~IsScalar(power[i])
      BY <1>0, <2>6
    <3>2. k < i => ~IsScalar(power[k])
      BY <1>0, <2>2, <2>7
    <3> QED
      BY <1>0, <2>2, <2>6, <2>7, <3>1, <3>2
  <2> HIDE DEF Least
  <2>8. (CHOOSE i \in 1 .. n : Least(i)) = k
    BY <2>2, <2>6, <2>7, Zenon
  <2> QED
    BY <2>3, <2>5, <2>8, Zenon
<1> QED
  BY <1>1, <1>2, <1>3 DEF IsAtkinResidue

\* The residues collected are those the code's test lets through.
CollectionIsTested ==
  /\ OddPrime(level) /\ field \in Int /\ trace \in Nat
  /\ residues = {t \in 0 .. trace - 1 : IsAtkinResidue(level, field, order, t)}

LEMMA CollectInitHolds == CollectInit => CollectionIsTested
<1> SUFFICES ASSUME CollectInit PROVE CollectionIsTested
  OBVIOUS
<1>0. PICK ell \in Ells :
        \E p \in 1 .. ell - 1, n \in {m \in 2 .. ell + 1 : (ell + 1) % m = 0} : Called(ell, p, n)
  BY DEF CollectInit
<1>1. PICK p \in 1 .. ell - 1, n \in {m \in 2 .. ell + 1 : (ell + 1) % m = 0} :
        Called(ell, p, n)
  BY <1>0
<1>2. ell \in Nat /\ OddPrime(ell)
  BY EllsAssumption DEF OddPrime, SmallPrime
<1>3. 0 .. 0 - 1 = {}
  OBVIOUS
<1> QED
  BY <1>1, <1>2, <1>3 DEF Called, CollectionIsTested

LEMMA CollectHolds == CollectionIsTested /\ [Collect]_collection => CollectionIsTested'
<1> SUFFICES ASSUME CollectionIsTested, [Collect]_collection PROVE CollectionIsTested'
  OBVIOUS
<1>1. CASE Collect
  <2> DEFINE A(t) == IsAtkinResidue(level, field, order, t)
  <2>1. trace \in Nat /\ trace' = trace + 1 /\ level' = level /\ field' = field /\ order' = order
    BY <1>1 DEF Collect, CollectionIsTested
  <2>2. residues' = {t \in 0 .. trace - 1 : A(t)} \cup {t \in {trace} : A(t)}
    BY <1>1 DEF Collect, CollectionIsTested
  <2> HIDE DEF A
  <2>3. residues' = {t \in 0 .. trace' - 1 : A(t)}
    <3>1. \A t : t \in 0 .. trace' - 1 <=> t \in 0 .. trace - 1 \/ t = trace
      BY <2>1
    <3> QED
      BY <2>2, <3>1, Zenon
  <2>4. residues' = {t \in 0 .. trace' - 1 : IsAtkinResidue(level', field', order', t)}
    BY <2>1, <2>3 DEF A
  <2> QED
    BY <2>1, <2>4 DEF CollectionIsTested
<1>2. CASE UNCHANGED collection
  BY <1>2 DEF collection, CollectionIsTested
<1> QED
  BY <1>1, <1>2

LEMMA TestIsExact == CollectionIsTested => NoTraceMissed
<1> SUFFICES ASSUME CollectionIsTested PROVE NoTraceMissed
  OBVIOUS
<1>1. OddPrime(level) /\ field \in Int /\ trace \in Nat
      /\ residues = {t \in 0 .. trace - 1 : IsAtkinResidue(level, field, order, t)}
  BY DEF CollectionIsTested
<1>2. \A t \in 0 .. trace - 1 : IsAtkinResidue(level, field, order, t)
                                  <=> Irreducible(t) /\ LeastScalarPower(t) = order
  <2>1. \A t \in 0 .. trace - 1 : t \in Int
    OBVIOUS
  <2> QED
    BY <1>1, <2>1, ResidueFacts, Zenon
<1>3. residues = {t \in 0 .. trace - 1 : Irreducible(t) /\ LeastScalarPower(t) = order}
  BY <1>1, <1>2, Zenon
<1> QED
  BY <1>3, Zenon DEF NoTraceMissed

\* NoTraceMissed of every collection: at every odd prime level, for every
\* characteristic modulo it and every projective order, the residues that
\* atkin_trace_residues_from_projective_order returns are the right ones.
THEOREM AtkinResiduesAreExact ==
  CollectInit /\ [][Collect]_collection => []NoTraceMissed
  BY CollectInitHolds, CollectHolds, TestIsExact, PTL

============
