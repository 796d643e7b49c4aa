--------------------------- MODULE CurveSearchProofs ---------------------------
(***************************************************************************)
(* The safety of one curve's search, for every prime, every set of traces, *)
(* every schedule of levels and every cap: what is known of the trace is   *)
(* never wrong, the exceptions of the driver cannot be raised, and the     *)
(* orders that are searched are the curve's own.                           *)
(***************************************************************************)
EXTENDS CurveSearch, TraceConstraintsProofs

-----------------------------------------------------------------------------
(* Arithmetic modulo a prime.                                              *)

LEMMA ClassicalPrimes ==
  ASSUME NEW ell \in ClassicalLevels
  PROVE  ell \in Nat /\ SmallPrime(ell)
<1>1. ell = 5 \/ ell = 7
  BY LevelsAssumption
<1>2. SmallPrime(5)
  <2>1. 2 .. 5 - 1 = {2, 3, 4}
    OBVIOUS
  <2>2. 5 % 2 # 0 /\ 5 % 3 # 0 /\ 5 % 4 # 0
    OBVIOUS
  <2> QED
    BY <2>1, <2>2 DEF SmallPrime
<1>3. SmallPrime(7)
  <2>1. 2 .. 7 - 1 = {2, 3, 4, 5, 6}
    OBVIOUS
  <2>2. 7 % 2 # 0 /\ 7 % 3 # 0 /\ 7 % 4 # 0 /\ 7 % 5 # 0 /\ 7 % 6 # 0
    OBVIOUS
  <2> QED
    BY <2>1, <2>2 DEF SmallPrime
<1> QED
  BY <1>1, <1>2, <1>3

LEMMA ClassicalFinite == IsFiniteSet(ClassicalLevels)
<1>1. IsFiniteSet({5})
  BY FS_Singleton
<1>2. IsFiniteSet({5} \cup {7})
  BY <1>1, FS_AddElement
<1>3. {5} \cup {7} = {5, 7} /\ ClassicalLevels \subseteq {5, 7}
  BY LevelsAssumption
<1> QED
  BY <1>2, <1>3, FS_Subset

-----------------------------------------------------------------------------
(* What a set of constraints may say of a trace t.                         *)

\* Only t modulo the modulus is left, of a modulus the levels built.
Exactly(tc, t) ==
  /\ tc \in [modulus : Nat, residues : SUBSET Nat]
  /\ WellFormed(tc)
  /\ tc.residues = {t % tc.modulus}

\* t is among the traces left.
Knows(tc, t) == WellFormed(tc) /\ t % tc.modulus \in tc.residues

\* What fine allows, coarse allows.
Finer(fine, coarse) ==
  \A u \in Int : u % fine.modulus \in fine.residues => u % coarse.modulus \in coarse.residues

LEMMA TracesAreIntegers == \A t \in Traces : t \in Int /\ t \in Hasse(Prime)
<1>1. HasseRadius(Prime) \in Nat
  BY TracesAssumption, RadiusFacts
<1> QED
  BY <1>1, TracesAssumption DEF Hasse

LEMMA ExactIsKnown ==
  ASSUME NEW tc, NEW t \in Int, Exactly(tc, t)
  PROVE  Knows(tc, t)
BY DEF Exactly, Knows

\* The trace itself is a candidate, so a sound set is never counted empty.
LEMMA KnownIsLeft ==
  ASSUME NEW t \in Traces, NEW tc, Knows(tc, t)
  PROVE  t \in Candidates(Prime, tc) /\ CandidateCount(Prime, tc) # 0
<1>1. t \in Candidates(Prime, tc)
  BY TracesAreIntegers DEF Candidates, Knows
<1>2. CandidateCount(Prime, tc) = 0 <=> Candidates(Prime, tc) = {}
  BY TracesAssumption, CountFacts DEF Knows
<1> QED
  BY <1>1, <1>2

\* Residues of the level itself are their own remainders.
LEMMA OwnRemainders ==
  ASSUME NEW ell \in Nat, ell > 0
  PROVE  \A A \in SUBSET (0 .. ell - 1) : {a % ell : a \in A} = A
<1> TAKE A \in SUBSET (0 .. ell - 1)
<1>1. \A a \in A : a % ell = a
  BY ModSmall
<1> QED
  BY <1>1

\* Refining by residues that contain the trace's own stays sound.
LEMMA KnowsStep ==
  ASSUME NEW t \in Int, NEW tc, Knows(tc, t),
         NEW ell \in Nat, SmallPrime(ell), tc.modulus % ell # 0,
         NEW allowed \in SUBSET (0 .. ell - 1), t % ell \in allowed
  PROVE  LET refined == Refine(tc, ell, allowed)
         IN /\ Knows(refined, t)
            /\ refined.modulus = tc.modulus * ell
            /\ \A u \in Int : u % refined.modulus \in refined.residues
                                <=> u % tc.modulus \in tc.residues /\ u % ell \in allowed
<1> DEFINE refined == Refine(tc, ell, allowed)
<1>1. ell > 0 /\ WellFormed(tc) /\ tc.modulus \in Nat
  BY DEF SmallPrime, Knows, WellFormed
<1>2. Invertible(tc.modulus, ell)
  BY <1>1, PrimeInverts
<1>3. allowed \in SUBSET Int /\ {a % ell : a \in allowed} = allowed
  <2>1. allowed \in SUBSET Int
    OBVIOUS
  <2>2. {a % ell : a \in allowed} = allowed
    BY <1>1, OwnRemainders, Zenon
  <2> QED
    BY <2>1, <2>2
<1>4. /\ WellFormed(refined)
      /\ refined.modulus = tc.modulus * ell
      /\ \A u \in Int :
           u % (tc.modulus * ell) \in refined.residues
             <=> u % tc.modulus \in tc.residues /\ u % ell \in {a % ell : a \in allowed}
  BY <1>1, <1>2, <1>3, RefineFacts
<1> HIDE DEF refined
<1>5. \A u \in Int : u % refined.modulus \in refined.residues
                       <=> u % tc.modulus \in tc.residues /\ u % ell \in allowed
  BY <1>3, <1>4
<1>6. Knows(refined, t)
  BY <1>4, <1>5 DEF Knows
<1> QED
  BY <1>4, <1>5, <1>6 DEF refined

\* Refining an exact set by the trace's own residue stays exact, whenever the
\* modulus is invertible.
LEMMA RefinesExactly ==
  ASSUME NEW t \in Int, NEW tc, Exactly(tc, t),
         NEW ell \in Nat, ell > 0, Invertible(tc.modulus, ell)
  PROVE  LET refined == Refine(tc, ell, {t % ell})
         IN /\ Exactly(refined, t)
            /\ refined.modulus = tc.modulus * ell
<1> DEFINE refined == Refine(tc, ell, {t % ell})
           old == t % tc.modulus
           merged == Combined(old, (t % ell) % ell, tc.modulus, ell)
<1>1. WellFormed(tc) /\ tc.residues = {old}
  BY DEF Exactly
<1>2. t % ell \in 0 .. ell - 1
  BY ModRange
<1>3. {t % ell} \in SUBSET Int /\ {a % ell : a \in {t % ell}} = {t % ell}
  BY <1>2, OwnRemainders
<1>4. /\ WellFormed(refined)
      /\ refined.modulus = tc.modulus * ell
      /\ t % (tc.modulus * ell) \in refined.residues
           <=> old \in tc.residues /\ t % ell \in {a % ell : a \in {t % ell}}
  BY <1>1, <1>3, RefineFacts
<1>5. t % refined.modulus \in refined.residues
  BY <1>1, <1>3, <1>4
<1>6. refined = [modulus |-> tc.modulus * ell, residues |-> {merged}]
  <2> DEFINE small == t % ell
             combine(o, s) == Combined(o, s % ell, tc.modulus, ell)
  <2>1. refined = [modulus  |-> tc.modulus * ell,
                   residues |-> {combine(o, s) : o \in tc.residues, s \in {small}}]
    BY DEF Refine
  <2>2. merged = combine(old, small)
    OBVIOUS
  <2> HIDE DEF old, small, combine, refined, merged
  <2>3. {combine(o, s) : o \in {old}, s \in {small}} = {combine(old, small)}
    OBVIOUS
  <2> QED
    BY <1>1, <2>1, <2>2, <2>3
<1>7. refined \in [modulus : Nat, residues : SUBSET Nat]
  <2>1. tc.modulus * ell \in Nat /\ {merged} \in SUBSET Nat
    <3> HIDE DEF merged, refined
    <3>1. refined.modulus \in Nat /\ refined.residues \subseteq 0 .. refined.modulus - 1
      BY <1>4 DEF WellFormed
    <3> QED
      BY <1>6, <3>1
  <2> QED
    BY <1>6, <2>1
<1> HIDE DEF refined, merged, old
<1>8. refined.residues = {t % refined.modulus}
  BY <1>5, <1>6
<1> QED
  BY <1>4, <1>7, <1>8 DEF Exactly, refined

\* refine_exact with the residue of the trace never finds the set empty.
LEMMA ExactStep ==
  ASSUME NEW t \in Traces, NEW tc, Exactly(tc, t),
         NEW ell \in Nat, SmallPrime(ell), tc.modulus % ell # 0
  PROVE  LET refined == ExactRefinement(Prime, tc, ell, t % ell)
         IN /\ ~Impossible(tc, ell, t % ell)
            /\ Exactly(refined, t)
            /\ refined.modulus = tc.modulus * ell
            /\ \A u \in Int : u % refined.modulus \in refined.residues
                                <=> u % tc.modulus \in tc.residues /\ u % ell = t % ell
<1> DEFINE refined == Refine(tc, ell, {t % ell})
<1>1. ell > 0 /\ t \in Int /\ Knows(tc, t)
  BY TracesAreIntegers, ExactIsKnown DEF SmallPrime
<1>2. Invertible(tc.modulus, ell)
  BY PrimeInverts DEF Exactly, WellFormed
<1>3. Exactly(refined, t) /\ refined.modulus = tc.modulus * ell
  BY <1>1, <1>2, RefinesExactly
<1>4. {t % ell} \in SUBSET (0 .. ell - 1) /\ t % ell \in {t % ell}
  BY <1>1, ModRange
<1>5. \A u \in Int : u % refined.modulus \in refined.residues
                       <=> u % tc.modulus \in tc.residues /\ u % ell \in {t % ell}
  BY <1>1, <1>4, KnowsStep
<1>6. CandidateCount(Prime, refined) # 0
  BY <1>1, <1>3, ExactIsKnown, KnownIsLeft
<1>7. ExactRefinement(Prime, tc, ell, t % ell) = refined
  BY <1>6 DEF ExactRefinement
<1> HIDE DEF refined
<1>8. ~Impossible(tc, ell, t % ell)
  BY <1>6 DEF Impossible, refined
<1> QED
  BY <1>3, <1>5, <1>7, <1>8 DEF refined

\* The effective set is refined by refine_exact too.
LEMMA KnownStep ==
  ASSUME NEW t \in Traces, NEW tc, Knows(tc, t),
         NEW ell \in Nat, SmallPrime(ell), tc.modulus % ell # 0
  PROVE  LET refined == ExactRefinement(Prime, tc, ell, t % ell)
         IN /\ ~Impossible(tc, ell, t % ell)
            /\ Knows(refined, t)
            /\ refined.modulus = tc.modulus * ell
            /\ \A u \in Int : u % refined.modulus \in refined.residues
                                <=> u % tc.modulus \in tc.residues /\ u % ell = t % ell
<1> DEFINE refined == Refine(tc, ell, {t % ell})
<1>1. ell > 0 /\ t \in Int
  BY TracesAreIntegers DEF SmallPrime
<1>2. {t % ell} \in SUBSET (0 .. ell - 1) /\ t % ell \in {t % ell}
  BY <1>1, ModRange
<1>3. /\ Knows(refined, t)
      /\ refined.modulus = tc.modulus * ell
      /\ \A u \in Int : u % refined.modulus \in refined.residues
                          <=> u % tc.modulus \in tc.residues /\ u % ell \in {t % ell}
  BY <1>1, <1>2, KnowsStep
<1>4. CandidateCount(Prime, refined) # 0
  BY <1>3, KnownIsLeft
<1>5. ExactRefinement(Prime, tc, ell, t % ell) = refined
  BY <1>4 DEF ExactRefinement
<1> HIDE DEF refined
<1>6. ~Impossible(tc, ell, t % ell)
  BY <1>4 DEF Impossible, refined
<1> QED
  BY <1>3, <1>5, <1>6

\* The prior of a family is the residue of the trace.
LEMMA PriorsAreExact ==
  ASSUME NEW t \in Int, NEW prior \in Priors(t)
  PROVE  Exactly(prior, t)
<1>1. Exactly(Unconstrained, t)
  <2>1. t % 1 = 0
    OBVIOUS
  <2> QED
    BY <2>1 DEF Exactly, Unconstrained, WellFormed
<1>2. ASSUME NEW d \in {4, 11}, NEW residues, prior \in PriorResidues(t, d, residues)
      PROVE  Exactly(prior, t)
  <2>1. prior = Refine(Unconstrained, d, {t % d})
    BY <1>2 DEF PriorResidues
  <2>2. Invertible(1, d)
    <3>1. 1 \in 0 .. d - 1 /\ (1 % d) * 1 = 1 /\ 1 % d = 1
      OBVIOUS
    <3> QED
      BY <3>1 DEF Invertible, IsInverse
  <2>3. Invertible(Unconstrained.modulus, d) /\ d \in Nat /\ d > 0
    BY <2>2 DEF Unconstrained
  <2> QED
    BY <1>1, <2>1, <2>3, RefinesExactly
<1> QED
  BY <1>1, <1>2 DEF Priors

-----------------------------------------------------------------------------
(* The evidence of the Atkin levels.                                       *)

IsEvidence(atkin, t) ==
  /\ DOMAIN atkin \subseteq ClassicalLevels
  /\ \A ell \in DOMAIN atkin : /\ atkin[ell] \subseteq 0 .. ell - 1
                               /\ t % ell \in atkin[ell]

\* The discriminant depends on the trace modulo the level only.
LEMMA DiscriminantOfResidue ==
  ASSUME NEW t \in Int, NEW ell \in Nat, ell > 0
  PROVE  Discriminant(Prime, t % ell, ell) = Discriminant(Prime, t, ell)
<1>1. Prime \in Int
  BY TracesAssumption
<1>2. PICK k \in Int : \E r \in 0 .. ell - 1 : t = ell * k + r /\ t % ell = r
  BY ModFacts
<1>3. PICK r \in 0 .. ell - 1 : t = ell * k + r /\ t % ell = r
  BY <1>2
<1> DEFINE c == t * t - 4 * Prime
           d == r * r - 4 * Prime
           n == ell * (k * k) + 2 * (k * r)
<1>4. c \in Int /\ d \in Int /\ n \in Int
  BY <1>1, <1>3
<1>5. c = d + ell * n
  <2>1. t * t = ell * (ell * (k * k) + 2 * (k * r)) + r * r
    BY <1>3
  <2> QED
    BY <1>1, <1>3, <2>1
<1> HIDE DEF c, d, n
<1>6. c % ell = d % ell
  BY <1>4, <1>5, ModCongruent
<1> QED
  BY <1>3, <1>6 DEF Discriminant, c, d

\* The trace of a curve without a rational isogeny is among the residues its
\* factor degrees allow.
LEMMA AtkinTrue ==
  ASSUME NEW t \in Int, NEW ell \in ClassicalLevels, ~HasRationalIsogeny(Prime, t, ell)
  PROVE  LET residues == AtkinEvidence[ell][t % ell]
         IN residues \subseteq 0 .. ell - 1 /\ t % ell \in residues
<1> DEFINE r == t % ell
           order == ProjectiveFrobeniusOrder(ell, Prime, r)
<1>1. ell \in Nat /\ ell > 0 /\ r \in 0 .. ell - 1
  BY ClassicalPrimes, ModRange DEF SmallPrime
<1>2. ~HasRationalIsogeny(Prime, r, ell)
  BY <1>1, DiscriminantOfResidue DEF HasRationalIsogeny
<1> HIDE DEF r
<1>3. HasRationalIsogeny(Prime, r, ell) = FALSE
  BY <1>2 DEF HasRationalIsogeny
<1>4. r \in TraceResiduesFromClassification(ell, Prime, FALSE)
  BY <1>1, <1>3 DEF TraceResiduesFromClassification
<1>5. AtkinEvidence[ell][r] = AtkinTraceResidues(ell, Prime, order)
  BY <1>4 DEF AtkinEvidence
<1>6. r \in AtkinTraceResidues(ell, Prime, order)
  BY <1>1, <1>2 DEF AtkinTraceResidues, IsAtkinResidue
<1>7. AtkinTraceResidues(ell, Prime, order) \subseteq 0 .. ell - 1
  BY DEF AtkinTraceResidues
<1> QED
  BY <1>5, <1>6, <1>7 DEF r

-----------------------------------------------------------------------------
(* Rebuilding the effective set.                                           *)

\* What is rebuilt from exact and the evidence of some levels, the levels in
\* open still to come.
Rebuilding(tc, exact, t, open) ==
  /\ Knows(tc, t)
  /\ Finer(tc, exact)
  /\ \A ell \in open : tc.modulus % ell # 0

\* Merging level after level in any order keeps the trace and the exact facts,
\* and leaves the levels still to come invertible.
LEMMA RebuiltStepwise ==
  ASSUME NEW t \in Int, NEW exact, Knows(exact, t), NEW atkin, IsEvidence(atkin, t),
         NEW S \in SUBSET (DOMAIN atkin), \A ell \in S : exact.modulus % ell # 0,
         NEW f, f[{}] = exact,
         \A s \in SUBSET S : s # {} /\ Invertible(f[Others(s)].modulus, Pick(s)) =>
            f[s] = Refine(f[Others(s)], Pick(s), atkin[Pick(s)])
  PROVE  \A s \in SUBSET S : Rebuilding(f[s], exact, t, S \ s)
<1> DEFINE T == {s \in SUBSET S : Rebuilding(f[s], exact, t, S \ s)}
<1>1. IsFiniteSet(S) /\ \A ell \in S : ell \in Nat /\ SmallPrime(ell)
  <2>1. S \subseteq ClassicalLevels
    BY DEF IsEvidence
  <2> QED
    BY <2>1, ClassicalFinite, FS_Subset, ClassicalPrimes
<1>2. {} \in T
  BY DEF Rebuilding, Finer
<1>3. ASSUME NEW s \in SUBSET S, s # {}, Others(s) \in T PROVE s \in T
  <2> DEFINE ell == Pick(s)
             tc  == f[Others(s)]
             allowed == atkin[ell]
             next == Refine(tc, ell, allowed)
  <2>1. ell \in s /\ ell \in S \ Others(s) /\ ell \in DOMAIN atkin
    <3>1. Pick(s) \in s
      BY <1>1, <1>3, PickFacts
    <3> QED
      BY <3>1 DEF Others
  <2>2. Rebuilding(tc, exact, t, S \ Others(s))
    BY <1>3
  <2>3. ell \in Nat /\ SmallPrime(ell) /\ tc.modulus % ell # 0 /\ Knows(tc, t) /\ tc.modulus \in Nat
    BY <1>1, <2>1, <2>2 DEF Rebuilding, Knows, WellFormed
  <2>4. allowed \in SUBSET (0 .. ell - 1) /\ t % ell \in allowed
    BY <2>1 DEF IsEvidence
  <2>5. f[s] = next
    BY <1>3, <2>3, PrimeInverts
  <2>6. S \ s \subseteq (S \ Others(s)) \ {ell}
    BY <2>1 DEF Others
  <2> HIDE DEF ell, tc, allowed, T
  <2>7. /\ Knows(next, t)
        /\ next.modulus = tc.modulus * ell
        /\ \A u \in Int : u % next.modulus \in next.residues
                            <=> u % tc.modulus \in tc.residues /\ u % ell \in allowed
    BY <2>3, <2>4, KnowsStep
  <2> HIDE DEF next
  <2>8. Finer(next, exact)
    BY <2>2, <2>7 DEF Rebuilding, Finer
  <2>9. ASSUME NEW other \in S \ s PROVE next.modulus % other # 0
    <3>1. other \in Nat /\ SmallPrime(other) /\ other # ell /\ tc.modulus % other # 0
      BY <1>1, <2>2, <2>6 DEF Rebuilding
    <3>2. ell % other # 0
      BY <2>3, <3>1, DistinctPrimes
    <3> QED
      BY <2>3, <2>7, <3>1, <3>2, Euclid
  <2>10. Rebuilding(f[s], exact, t, S \ s)
    BY <2>5, <2>7, <2>8, <2>9 DEF Rebuilding
  <2> QED
    BY <2>10 DEF T
<1>4. T = SUBSET S
  <2>1. T \in SUBSET (SUBSET S)
    OBVIOUS
  <2> HIDE DEF T
  <2> QED
    BY <1>1, <1>2, <1>3, <2>1, SubsetInduction
<1> QED
  BY <1>4

\* The recursive function the fold of RebuiltEffective is.
Rebuilds(f, exact, atkin, S) ==
  f = [s \in SUBSET S |-> IF s = {} THEN exact
                          ELSE Refine(f[Others(s)], Pick(s), atkin[Pick(s)])]

Unowned(exact, atkin) == {ell \in DOMAIN atkin : exact.modulus % ell # 0}

LEMMA RebuiltUnfolds ==
  ASSUME NEW exact, NEW atkin
  PROVE  RebuiltEffective(exact, atkin)
           = (CHOOSE f : Rebuilds(f, exact, atkin, Unowned(exact, atkin)))[Unowned(exact, atkin)]
BY Zenon DEF RebuiltEffective, FoldSet, MapThenFoldSet, Rebuilds, Unowned, Pick, Others

\* rebuilt_effective_constraints is sound and allows what exact allows, no more.
LEMMA RebuiltFacts ==
  ASSUME NEW t \in Int, NEW exact, Exactly(exact, t), NEW atkin, IsEvidence(atkin, t)
  PROVE  LET rebuilt == RebuiltEffective(exact, atkin)
         IN Knows(rebuilt, t) /\ Finer(rebuilt, exact)
<1> DEFINE S == Unowned(exact, atkin)
           V == {tc \in [modulus : Nat, residues : SUBSET Nat] : WellFormed(tc)}
           step == [x \in S \X V |-> IF Invertible(x[2].modulus, x[1])
                                       THEN Refine(x[2], x[1], atkin[x[1]]) ELSE x[2]]
           built == CHOOSE f : Rebuilds(f, exact, atkin, S)
<1>1. Knows(exact, t) /\ exact \in V
  BY ExactIsKnown DEF Exactly
<1>2. S \in SUBSET (DOMAIN atkin) /\ \A ell \in S : exact.modulus % ell # 0
  BY DEF Unowned
<1>3. \A ell \in S : ell \in Nat /\ ell > 0 /\ atkin[ell] \in SUBSET Int
  <2>1. \A ell \in S : ell \in Nat /\ ell > 0 /\ atkin[ell] \subseteq 0 .. ell - 1
    BY <1>2, ClassicalPrimes DEF IsEvidence, SmallPrime
  <2> HIDE DEF S
  <2> QED
    BY <2>1
<1>4. step \in [S \X V -> V]
  <2>1. ASSUME NEW ell \in S, NEW tc \in V, Invertible(tc.modulus, ell)
        PROVE  Refine(tc, ell, atkin[ell]) \in V
    <3> DEFINE next == Refine(tc, ell, atkin[ell])
    <3>1. WellFormed(next)
      BY <1>3, <2>1, RefineFacts
    <3>2. next = [modulus |-> next.modulus, residues |-> next.residues]
      BY DEF Refine
    <3> HIDE DEF next
    <3>3. next \in [modulus : Nat, residues : SUBSET Nat]
      BY <3>1, <3>2 DEF WellFormed
    <3> QED
      BY <3>1, <3>3 DEF next
  <2> HIDE DEF S, V
  <2>2. ASSUME NEW x \in S \X V
        PROVE  (IF Invertible(x[2].modulus, x[1])
                  THEN Refine(x[2], x[1], atkin[x[1]]) ELSE x[2]) \in V
    <3>1. x[1] \in S /\ x[2] \in V
      OBVIOUS
    <3> QED
      BY <2>1, <3>1
  <2> QED
    BY <2>2
<1>5. IsFiniteSet(S)
  <2>1. S \subseteq ClassicalLevels
    BY <1>2 DEF IsEvidence
  <2> QED
    BY <2>1, ClassicalFinite, FS_Subset
<1>6. PICK g \in [SUBSET S -> V] : \A s \in SUBSET S : g[s] = FoldStep(g, exact, step, s)
  <2> HIDE DEF S, V, step
  <2>1. \A base \in V, fold \in [S \X V -> V] :
          \E g \in [SUBSET S -> V] : \A s \in SUBSET S : g[s] = FoldStep(g, base, fold, s)
    BY <1>5, FoldExists, Zenon
  <2> QED
    BY <1>1, <1>4, <2>1, Zenon
<1> HIDE DEF V
<1>7. g[{}] = exact
  BY <1>6 DEF FoldStep
<1>8. ASSUME NEW s \in SUBSET S, s # {}, Invertible(g[Others(s)].modulus, Pick(s))
      PROVE  g[s] = Refine(g[Others(s)], Pick(s), atkin[Pick(s)])
  <2>1. Pick(s) \in S /\ Others(s) \in SUBSET S
    BY <1>5, <1>8, PickFacts
  <2>2. <<Pick(s), g[Others(s)]>> \in S \X V
    BY <2>1
  <2>3. step[<<Pick(s), g[Others(s)]>>] = Refine(g[Others(s)], Pick(s), atkin[Pick(s)])
    BY <1>8, <2>2
  <2> QED
    BY <1>6, <1>8, <2>3 DEF FoldStep
<1> HIDE DEF step
<1>9. \A s \in SUBSET S : Rebuilding(g[s], exact, t, S \ s)
  <2> HIDE DEF S
  <2> QED
    BY <1>1, <1>2, <1>7, <1>8, RebuiltStepwise
<1>10. Rebuilds(g, exact, atkin, S)
  <2>1. ASSUME NEW s \in SUBSET S, s # {}
        PROVE  g[s] = Refine(g[Others(s)], Pick(s), atkin[Pick(s)])
    <3>1. Pick(s) \in S \ Others(s) /\ Others(s) \in SUBSET S
      BY <1>5, <2>1, PickFacts DEF Others
    <3>2. g[Others(s)].modulus % Pick(s) # 0 /\ g[Others(s)].modulus \in Nat
      BY <1>9, <3>1 DEF Rebuilding, Knows, WellFormed
    <3>3. Pick(s) \in Nat /\ SmallPrime(Pick(s))
      BY <1>2, <3>1, ClassicalPrimes DEF IsEvidence
    <3> QED
      BY <1>8, <2>1, <3>2, <3>3, PrimeInverts
  <2> HIDE DEF S
  <2>2. g = [s \in SUBSET S |-> g[s]]
    BY <1>6
  <2>3. ASSUME NEW s \in SUBSET S
        PROVE  g[s] = IF s = {} THEN exact
                      ELSE Refine(g[Others(s)], Pick(s), atkin[Pick(s)])
    BY <1>7, <2>1
  <2> QED
    BY <2>2, <2>3, Zenon DEF Rebuilds
<1>11. Rebuilds(built, exact, atkin, S)
  <2> HIDE DEF S
  <2> QED
    BY <1>10, Zenon
<1> HIDE DEF built
<1>12. built[{}] = exact
  BY <1>11 DEF Rebuilds
<1>13. \A s \in SUBSET S : s # {} => built[s] = Refine(built[Others(s)], Pick(s), atkin[Pick(s)])
  <2> HIDE DEF S
  <2> QED
    BY <1>11 DEF Rebuilds
<1>14. \A s \in SUBSET S : Rebuilding(built[s], exact, t, S \ s)
  <2> HIDE DEF S
  <2> QED
    BY <1>1, <1>2, <1>12, <1>13, RebuiltStepwise
<1>15. RebuiltEffective(exact, atkin) = built[S]
  BY RebuiltUnfolds DEF built
<1> HIDE DEF S
<1> QED
  BY <1>14, <1>15 DEF Rebuilding

-----------------------------------------------------------------------------
(* The result of a pass.                                                   *)

\* What a result says is true of the trace t, whatever has been inferred so
\* far; an enumeration holds t and nothing outside the Hasse interval.
Sound(result, t) ==
  /\ result = [exact |-> result.exact, effective |-> result.effective,
               atkin |-> result.atkin, levels |-> result.levels, traces |-> result.traces]
  /\ Exactly(result.exact, t)
  /\ Knows(result.effective, t)
  /\ Finer(result.effective, result.exact)
  /\ IsEvidence(result.atkin, t)
  /\ result.traces # NoTraces => t \in result.traces /\ result.traces \subseteq Hasse(Prime)

\* A result without an enumeration stays sound with the one that fits the cap,
\* which is the trace alone when the cap is one.
LEMMA CompletedFacts ==
  ASSUME NEW t \in Traces, NEW result, Sound(result, t), cap \in Nat \ {0}, FitsCap(result, cap)
  PROVE  /\ Sound(Completed(result), t)
         /\ cap = 1 => Completed(result).traces = {t}
<1> DEFINE tc == Completing(result, cap)
           traces == EnumerateCompleted(result, cap)
<1>1. t \in Int
  BY TracesAreIntegers
<1>2. Knows(tc, t)
  BY <1>1, ExactIsKnown DEF Completing, Sound
<1>3. CandidateCount(Prime, tc) \in Nat /\ CandidateCount(Prime, tc) <= cap
  BY <1>2, TracesAssumption, CountFacts DEF FitsCap, Knows
<1>4. traces = Candidates(Prime, tc)
  <2>1. ~(CandidateCount(Prime, tc) > cap)
    BY <1>3
  <2> QED
    BY <1>2, <2>1, TracesAssumption, EnumerateFacts DEF EnumerateCompleted, Knows
<1>5. t \in traces /\ traces \subseteq Hasse(Prime)
  BY <1>2, <1>4, KnownIsLeft DEF Candidates
<1>6. cap = 1 => traces = {t}
  <2>1. cap = 1 => \A u \in traces : u = t
    BY <1>2, <1>3, <1>4, <1>5, TracesAssumption, CountFacts DEF Knows
  <2> QED
    BY <1>5, <2>1
<1> HIDE DEF tc, traces
<1>7. Completed(result) = [exact |-> result.exact, effective |-> result.effective,
                           atkin |-> result.atkin, levels |-> result.levels,
                           traces |-> traces]
  BY DEF Completed, Sound, traces
<1> QED
  BY <1>5, <1>6, <1>7 DEF Sound

\* What Init chose for the curve.
CurveFacts ==
  /\ curve.trace \in Traces
  /\ Exactly(curve.prior, curve.trace)
  /\ \A i \in 1 .. Len(WeberLevels) :
       curve.shows[WeberLevels[i]] \in Evidence(WeberLevels[i], curve.trace)

LEMMA FreshIsSound ==
  ASSUME CurveFacts
  PROVE  Sound(FreshResult(curve.prior), curve.trace)
<1>1. curve.trace \in Int
  BY TracesAreIntegers DEF CurveFacts
<1>2. Knows(curve.prior, curve.trace)
  BY <1>1, ExactIsKnown DEF CurveFacts
<1> QED
  BY <1>2 DEF FreshResult, Sound, CurveFacts, Finer, IsEvidence

\* The levels still to come share no factor with what the pass has merged.
Unseen(result, from) ==
  \A i \in from .. Len(WeberLevels) :
    ~Skipped(WeberLevels[i]) => /\ result.exact.modulus % WeberLevels[i] # 0
                                /\ result.effective.modulus % WeberLevels[i] # 0

\* One level of the SEA pass, whatever it shows.
LEMMA LevelFacts ==
  ASSUME CurveFacts, Sound(sea, curve.trace), sea.traces = NoTraces,
         level \in Nat \ {0}, level <= Len(WeberLevels), Unseen(sea, level),
         ~Skipped(WeberLevels[level])
  PROVE  LET ell == WeberLevels[level]
             next == WithLevel(sea, ell)
         IN /\ Sound(next, curve.trace)
            /\ next.traces = NoTraces
            /\ Unseen(next, level + 1)
            /\ curve.shows[ell] = "exact" => /\ ~Impossible(sea.exact, ell, curve.trace % ell)
                                             /\ ~Impossible(sea.effective, ell, curve.trace % ell)
<1> DEFINE ell == WeberLevels[level]
           t == curve.trace
           next == WithLevel(sea, ell)
           shown == curve.shows[ell]
           residues == AtkinEvidence[ell][t % ell]
<1>1. level \in 1 .. Len(WeberLevels) /\ Len(WeberLevels) \in Nat
  BY LevelsAssumption
<1>2. ell \in Nat /\ SmallPrime(ell)
  BY <1>1, LevelsAssumption
<1>3. t \in Traces /\ t \in Int /\ shown \in Evidence(ell, t)
  BY <1>1, TracesAreIntegers DEF CurveFacts
<1>4. sea.exact.modulus % ell # 0 /\ sea.effective.modulus % ell # 0
  BY <1>1 DEF Unseen
<1>5. /\ Exactly(sea.exact, t) /\ Knows(sea.effective, t)
      /\ Finer(sea.effective, sea.exact) /\ IsEvidence(sea.atkin, t)
  BY DEF Sound
<1>6. sea.exact.modulus \in Nat /\ sea.effective.modulus \in Nat
  BY <1>5 DEF Exactly, Knows, WellFormed
\* A prime that did not divide a modulus divides it after a level only if it
\* is that level.
<1>7. ASSUME NEW m \in Nat, NEW i \in level + 1 .. Len(WeberLevels), m % WeberLevels[i] # 0
      PROVE  (m * ell) % WeberLevels[i] # 0
  <2> DEFINE other == WeberLevels[i]
  <2>1. i \in 1 .. Len(WeberLevels) /\ level < i
    BY <1>1
  <2>2. other \in Nat /\ SmallPrime(other) /\ ell < other
    BY <1>1, <2>1, LevelsAssumption
  <2>3. ell # other
    BY <1>2, <2>2
  <2> HIDE DEF ell, other
  <2>4. ell % other # 0
    BY <1>2, <2>2, <2>3, DistinctPrimes
  <2>5. m % other # 0
    BY <1>7 DEF other
  <2>6. (m * ell) % other # 0
    BY <1>2, <2>2, <2>4, <2>5, Euclid
  <2> QED
    BY <2>6 DEF other
<1>8. ASSUME NEW result, result.exact.modulus \in {sea.exact.modulus, sea.exact.modulus * ell},
             result.effective.modulus \in {sea.effective.modulus, sea.effective.modulus * ell}
      PROVE  Unseen(result, level + 1)
  <2> SUFFICES ASSUME NEW i \in level + 1 .. Len(WeberLevels), ~Skipped(WeberLevels[i])
               PROVE  /\ result.exact.modulus % WeberLevels[i] # 0
                      /\ result.effective.modulus % WeberLevels[i] # 0
    BY DEF Unseen
  <2>1. i \in level .. Len(WeberLevels)
    BY <1>1
  <2>2. sea.exact.modulus % WeberLevels[i] # 0 /\ sea.effective.modulus % WeberLevels[i] # 0
    BY <2>1 DEF Unseen
  <2>3. /\ (sea.exact.modulus * ell) % WeberLevels[i] # 0
        /\ (sea.effective.modulus * ell) % WeberLevels[i] # 0
    BY <1>6, <1>7, <2>2
  <2> QED
    BY <1>8, <2>2, <2>3
<1> HIDE DEF ell, t, next, residues, shown
<1>9. shown \in {"none", "exact", "atkin"}
  BY <1>3 DEF Evidence
<1>10. CASE shown = "none"
  <2>1. next = [sea EXCEPT !.levels = @ + 1]
    BY <1>10 DEF next, WithLevel, shown
  <2>2. next = [exact |-> sea.exact, effective |-> sea.effective, atkin |-> sea.atkin,
                levels |-> sea.levels + 1, traces |-> NoTraces]
    BY <2>1 DEF Sound
  <2>3. Sound(next, t)
    BY <1>5, <2>2 DEF Sound
  <2>4. Unseen(next, level + 1)
    BY <1>8, <2>2
  <2> QED
    BY <1>10, <2>2, <2>3, <2>4 DEF next, t, shown, ell
<1>11. CASE shown = "exact"
  <2> DEFINE exact == ExactRefinement(Prime, sea.exact, ell, t % ell)
             effective == ExactRefinement(Prime, sea.effective, ell, t % ell)
  <2>1. next = [sea EXCEPT !.exact = exact, !.effective = effective, !.levels = @ + 1]
    BY <1>11 DEF next, WithLevel, shown, t
  <2>2. /\ ~Impossible(sea.exact, ell, t % ell)
        /\ Exactly(exact, t)
        /\ exact.modulus = sea.exact.modulus * ell
        /\ \A u \in Int : u % exact.modulus \in exact.residues
                            <=> u % sea.exact.modulus \in sea.exact.residues /\ u % ell = t % ell
    BY <1>2, <1>3, <1>4, <1>5, ExactStep
  <2>3. /\ ~Impossible(sea.effective, ell, t % ell)
        /\ Knows(effective, t)
        /\ effective.modulus = sea.effective.modulus * ell
        /\ \A u \in Int : u % effective.modulus \in effective.residues
                            <=> u % sea.effective.modulus \in sea.effective.residues
                                /\ u % ell = t % ell
    BY <1>2, <1>3, <1>4, <1>5, KnownStep
  <2> HIDE DEF exact, effective
  <2>4. Finer(effective, exact)
    BY <1>5, <2>2, <2>3 DEF Finer
  <2>5. next = [exact |-> exact, effective |-> effective, atkin |-> sea.atkin,
                levels |-> sea.levels + 1, traces |-> NoTraces]
    BY <2>1 DEF Sound
  <2>6. Sound(next, t)
    BY <1>5, <2>2, <2>3, <2>4, <2>5 DEF Sound
  <2>7. Unseen(next, level + 1)
    BY <1>8, <2>2, <2>3, <2>5
  <2> QED
    BY <2>2, <2>3, <2>5, <2>6, <2>7 DEF next, t, ell
<1>12. CASE shown = "atkin"
  <2> DEFINE effective == Refine(sea.effective, ell, residues)
             atkin == [l \in DOMAIN sea.atkin \cup {ell} |->
                         IF l = ell THEN residues ELSE sea.atkin[l]]
  <2>1. next = [sea EXCEPT !.effective = effective, !.atkin = atkin, !.levels = @ + 1]
    BY <1>12 DEF next, WithLevel, shown, t, residues
  <2>2. ell \in ClassicalLevels /\ ~HasRationalIsogeny(Prime, t, ell)
    BY <1>3, <1>12 DEF Evidence
  <2>3. residues \in SUBSET (0 .. ell - 1) /\ t % ell \in residues
    BY <1>3, <2>2, AtkinTrue DEF residues
  <2>4. /\ Knows(effective, t)
        /\ effective.modulus = sea.effective.modulus * ell
        /\ \A u \in Int : u % effective.modulus \in effective.residues
                            <=> u % sea.effective.modulus \in sea.effective.residues
                                /\ u % ell \in residues
    BY <1>2, <1>3, <1>4, <1>5, <2>3, KnowsStep
  <2> HIDE DEF effective
  <2>5. Finer(effective, sea.exact)
    BY <1>5, <2>4 DEF Finer
  <2>6. IsEvidence(atkin, t)
    BY <1>5, <2>2, <2>3 DEF IsEvidence
  <2> HIDE DEF atkin
  <2>7. next = [exact |-> sea.exact, effective |-> effective, atkin |-> atkin,
                levels |-> sea.levels + 1, traces |-> NoTraces]
    BY <2>1 DEF Sound
  <2>8. Sound(next, t)
    BY <1>5, <2>4, <2>5, <2>6, <2>7 DEF Sound
  <2>9. Unseen(next, level + 1)
    BY <1>8, <2>4, <2>7
  <2> QED
    BY <1>12, <2>7, <2>8, <2>9 DEF next, t, shown, ell
<1> QED
  BY <1>9, <1>10, <1>11, <1>12

\* One level of the fallback: nothing it checks for can be the case.
LEMMA CommitFacts ==
  ASSUME CurveFacts, Sound(sea, curve.trace),
         level \in Nat \ {0}, level <= Len(SchoofLevels),
         sea.exact.modulus % SchoofLevels[level] # 0
  PROVE  LET ell == SchoofLevels[level]
             next == CommitSchoof(sea, ell)
         IN /\ Sound(next, curve.trace)
            /\ next.traces = NoTraces
            /\ ~Impossible(sea.exact, ell, curve.trace % ell)
            /\ ~Contradicts(next.exact, next.atkin)
<1> DEFINE ell == SchoofLevels[level]
           t == curve.trace
           exact == ExactRefinement(Prime, sea.exact, ell, t % ell)
           effective == RebuiltEffective(exact, sea.atkin)
           next == CommitSchoof(sea, ell)
<1>1. level \in 1 .. Len(SchoofLevels)
  BY LevelsAssumption
<1>2. ell \in Nat /\ SmallPrime(ell)
  BY <1>1, LevelsAssumption
<1>3. t \in Traces /\ t \in Int
  BY TracesAreIntegers DEF CurveFacts
<1>4. Exactly(sea.exact, t) /\ IsEvidence(sea.atkin, t)
  BY DEF Sound
<1>5. next = [sea EXCEPT !.exact = exact, !.effective = effective, !.traces = NoTraces]
  BY DEF CommitSchoof
<1>6. sea.exact.modulus % ell # 0
  OBVIOUS
<1> HIDE DEF ell, t, next
<1>7. ~Impossible(sea.exact, ell, t % ell) /\ Exactly(exact, t)
  BY <1>2, <1>3, <1>4, <1>6, ExactStep
<1> HIDE DEF exact
<1>8. Knows(effective, t) /\ Finer(effective, exact)
  BY <1>3, <1>4, <1>7, RebuiltFacts
<1> HIDE DEF effective
<1>9. next = [exact |-> exact, effective |-> effective, atkin |-> sea.atkin,
              levels |-> sea.levels, traces |-> NoTraces]
  BY <1>5 DEF Sound
<1>10. Sound(next, t)
  BY <1>4, <1>7, <1>8, <1>9 DEF Sound
<1>11. ASSUME NEW l \in DOMAIN sea.atkin, exact.modulus % l = 0, NEW r \in exact.residues
       PROVE  r % l \in sea.atkin[l]
  <2> DEFINE m == exact.modulus
  <2>1. l \in Nat /\ l > 0 /\ t % l \in sea.atkin[l]
    BY <1>4, ClassicalPrimes DEF IsEvidence, SmallPrime
  <2>2. m \in Nat /\ m > 0 /\ r = t % m
    BY <1>7 DEF Exactly, WellFormed
  <2>3. m % l = 0
    BY <1>11
  <2> HIDE DEF m
  <2>4. PICK d \in Int : \E z \in 0 .. l - 1 : m = l * d + z /\ m % l = z
    <3>1. m \in Int
      BY <2>2
    <3> QED
      BY <2>1, <3>1, ModFacts, Zenon
  <2>5. m = l * d
    BY <2>1, <2>3, <2>4
  <2>6. d \in Nat /\ d > 0
    <3>1. d <= 0 => l * d <= 0
      BY <2>1
    <3> QED
      BY <2>2, <2>5, <3>1
  <2>7. (t % (l * d)) % l = t % l
    BY <1>3, <2>1, <2>6, ModThrough
  <2> QED
    BY <2>1, <2>2, <2>5, <2>7
<1>12. ~Contradicts(exact, sea.atkin)
  BY <1>11 DEF Contradicts
<1> QED
  BY <1>7, <1>9, <1>10, <1>12 DEF ell, t, next

-----------------------------------------------------------------------------
(* The inductive invariant.                                                *)

\* What is known of the trace, and when an enumeration is still one of the
\* constraints and the cap in hand.
TraceInv ==
  /\ CurveFacts
  /\ Sound(sea, curve.trace)
  /\ cap \in Nat \ {0} /\ (stage = "unique" => cap = 1)
  /\ level \in Nat \ {0}
  /\ pc = "sea_level" => Unseen(sea, level) /\ sea.traces = NoTraces
  /\ pc = "schoof_level" /\ committed => sea.traces = NoTraces
  /\ stage = "unique" /\ pc \in {"sea_done", "schoof_done"} /\ sea.traces # NoTraces =>
       sea.traces = {curve.trace}
  /\ pc = "screen" => sea.traces # NoTraces

\* What has been reported, and the trace the certificates are searched with.
ReportInv ==
  /\ pc # "done" => status = "none"
  /\ NoInternalError
  /\ SoundReject
  /\ RightOrders

\* The counters of the report.
Tallied ==
  /\ search = [twist |-> search.twist, attempts |-> search.attempts,
               assemblies |-> search.assemblies, nodes |-> search.nodes,
               rejections |-> search.rejections, explored |-> search.explored]
  /\ search.attempts \in Nat /\ search.assemblies \in Nat

\* Every candidate so far was assembled on both sides.
CountInv ==
  /\ Tallied
  /\ pc # "done" => status = "none" /\ search.assemblies = 2 * search.attempts
  /\ Exhaustive

LEMMA TraceInit ==
  ASSUME Init
  PROVE  TraceInv /\ ReportInv
<1>1. PICK t \in Traces, lift \in BOOLEAN :
        \E prior \in Priors(t) :
          \E shows \in {f \in [LevelsOf(WeberLevels) -> {"none", "exact", "atkin"}] :
                          \A ell \in DOMAIN f : f[ell] \in Evidence(ell, t)} :
            /\ curve = [trace |-> t, lift |-> lift, prior |-> prior, shows |-> shows]
            /\ sea = FreshResult(prior)
  BY DEF Init
<1>2. PICK prior \in Priors(t) :
        \E shows \in {f \in [LevelsOf(WeberLevels) -> {"none", "exact", "atkin"}] :
                        \A ell \in DOMAIN f : f[ell] \in Evidence(ell, t)} :
          /\ curve = [trace |-> t, lift |-> lift, prior |-> prior, shows |-> shows]
          /\ sea = FreshResult(prior)
  BY <1>1
<1>3. PICK shows \in [LevelsOf(WeberLevels) -> {"none", "exact", "atkin"}] :
        /\ \A ell \in LevelsOf(WeberLevels) : shows[ell] \in Evidence(ell, t)
        /\ curve = [trace |-> t, lift |-> lift, prior |-> prior, shows |-> shows]
        /\ sea = FreshResult(prior)
  BY <1>2
<1>4. CurveFacts
  <2>1. Exactly(prior, t)
    BY TracesAreIntegers, PriorsAreExact
  <2>2. \A i \in 1 .. Len(WeberLevels) : WeberLevels[i] \in LevelsOf(WeberLevels)
    BY DEF LevelsOf
  <2> QED
    BY <1>3, <2>1, <2>2 DEF CurveFacts
<1>5. Sound(sea, curve.trace)
  BY <1>3, <1>4, FreshIsSound
<1>6. cap \in Nat \ {0}
  BY LimitsAssumption DEF Init
<1> QED
  BY <1>4, <1>5, <1>6 DEF Init, TraceInv, ReportInv, NoInternalError, InternalErrors,
     SoundReject, RightOrders

\* The SEA pass.
LEMMA SeaStep ==
  ASSUME TraceInv, ReportInv, StartSea \/ SkipLevel \/ SeaLevel \/ SeaExhausted
  PROVE  TraceInv' /\ ReportInv'
<1> DEFINE t == curve.trace
<1>1. t \in Traces /\ CurveFacts /\ Sound(sea, t) /\ cap \in Nat \ {0} /\ level \in Nat \ {0}
  BY DEF TraceInv, CurveFacts
<1>2. CurveFacts' /\ UNCHANGED <<curve, stage, cap, smooth, exact_trace>> /\ pc # "done"
  BY <1>1 DEF StartSea, SkipLevel, SeaLevel, SeaExhausted, CurveFacts
\* A pass whose result fits the cap is done with an enumeration for that cap.
<1>3. ASSUME NEW result, Sound(result, t), FitsCap(result, cap),
             sea' = Completed(result), pc' = "sea_done", status' = status,
             level' \in Nat \ {0}
      PROVE  TraceInv' /\ ReportInv'
  <2>1. Sound(Completed(result), t) /\ (cap = 1 => Completed(result).traces = {t})
    BY <1>1, <1>3, CompletedFacts
  <2>2. Sound(sea', t) /\ (cap = 1 => sea'.traces = {t}) /\ curve'.trace = t
    BY <1>2, <1>3, <2>1
  <2> HIDE DEF t
  <2>3. TraceInv'
    BY <1>2, <1>3, <2>2 DEF TraceInv
  <2>4. ReportInv'
    BY <1>2, <1>3 DEF ReportInv, TraceInv, NoInternalError, SoundReject, RightOrders
  <2> QED
    BY <2>3, <2>4
\* A pass that goes on has no enumeration yet.
<1>4. ASSUME Sound(sea', t), sea'.traces = NoTraces, Unseen(sea', level'),
             pc' \in {"sea_level", "sea_done"}, status' = status, level' \in Nat \ {0}
      PROVE  TraceInv' /\ ReportInv'
  <2>1. Sound(sea', curve'.trace)
    BY <1>2, <1>4
  <2>2. Unseen(sea, level)'
    BY <1>2, <1>4 DEF Unseen, Skipped
  <2> HIDE DEF t
  <2>3. TraceInv'
    BY <1>2, <1>4, <2>1, <2>2 DEF TraceInv
  <2>4. ReportInv'
    BY <1>2, <1>4 DEF ReportInv, TraceInv, NoInternalError, SoundReject, RightOrders
  <2> QED
    BY <2>3, <2>4
<1>5. CASE StartSea
  <2> DEFINE fresh == FreshResult(curve.prior)
  <2>1. Sound(fresh, t)
    BY <1>1, FreshIsSound
  <2>2. fresh.traces = NoTraces /\ Unseen(fresh, 1)
    BY DEF FreshResult, Unseen, Skipped
  <2>3. level' = 1 /\ status' = status
    BY <1>5 DEF StartSea
  <2>4. \/ FitsCap(fresh, cap) /\ sea' = Completed(fresh) /\ pc' = "sea_done"
        \/ sea' = fresh /\ pc' \in {"sea_level", "sea_done"}
    BY <1>5 DEF StartSea
  <2> HIDE DEF fresh, t
  <2> QED
    BY <1>3, <1>4, <2>1, <2>2, <2>3, <2>4
<1>6. CASE SkipLevel
  <2>1. sea.traces = NoTraces /\ Unseen(sea, level)
    BY <1>6 DEF SkipLevel, TraceInv
  <2>2. sea' = sea /\ level' = level + 1 /\ status' = status /\ pc' = "sea_level"
    BY <1>6 DEF SkipLevel
  <2>3. Unseen(sea, level + 1)
    BY <1>1, <2>1 DEF Unseen
  <2> HIDE DEF t
  <2> QED
    BY <1>1, <1>4, <2>1, <2>2, <2>3
<1>7. CASE SeaLevel
  <2> DEFINE ell == WeberLevels[level]
             next == WithLevel(sea, ell)
  <2>1. /\ sea.traces = NoTraces /\ Unseen(sea, level)
        /\ level <= Len(WeberLevels) /\ ~Skipped(ell)
    BY <1>7 DEF SeaLevel, TraceInv
  <2>2. /\ Sound(next, t)
        /\ next.traces = NoTraces
        /\ Unseen(next, level + 1)
        /\ curve.shows[ell] = "exact" => /\ ~Impossible(sea.exact, ell, t % ell)
                                         /\ ~Impossible(sea.effective, ell, t % ell)
    BY <1>1, <2>1, LevelFacts
  <2>3. CandidateCount(Prime, next.effective) # 0
    BY <1>1, <2>2, KnownIsLeft DEF Sound
  <2>4. level' = level + 1
    BY <1>7 DEF SeaLevel
  <2>5. /\ \/ FitsCap(next, cap) /\ sea' = Completed(next) /\ pc' = "sea_done"
           \/ sea' = next /\ pc' = "sea_level"
        /\ status' = status
    BY <1>7, <2>2, <2>3 DEF SeaLevel
  <2> HIDE DEF next, ell, t
  <2> QED
    BY <1>1, <1>3, <1>4, <2>2, <2>4, <2>5
<1>8. CASE SeaExhausted
  <2>1. sea.traces = NoTraces /\ Unseen(sea, level)
    BY <1>8 DEF SeaExhausted, TraceInv
  <2>2. /\ \/ FitsCap(sea, cap) /\ sea' = Completed(sea)
           \/ sea' = sea
        /\ pc' = "sea_done" /\ status' = status /\ level' = level
    BY <1>8 DEF SeaExhausted
  <2> HIDE DEF t
  <2> QED
    BY <1>1, <1>3, <1>4, <2>1, <2>2
<1> QED
  BY <1>5, <1>6, <1>7, <1>8

\* The fallback.
LEMMA SchoofStep ==
  ASSUME TraceInv, ReportInv, StartSchoof \/ SkipOwned \/ SchoofLevel \/ SchoofExhausted
  PROVE  TraceInv' /\ ReportInv'
<1> DEFINE t == curve.trace
<1>1. t \in Traces /\ CurveFacts /\ Sound(sea, t) /\ cap \in Nat \ {0} /\ level \in Nat \ {0}
  BY DEF TraceInv, CurveFacts
<1>2. CurveFacts' /\ UNCHANGED <<curve, stage, cap, smooth, exact_trace>> /\ pc # "done"
  BY <1>1 DEF StartSchoof, SkipOwned, SchoofLevel, SchoofExhausted, CurveFacts
<1>3. ASSUME NEW result, Sound(result, t), FitsCap(result, cap),
             sea' = Completed(result), pc' = "schoof_done", status' = status,
             level' \in Nat \ {0}
      PROVE  TraceInv' /\ ReportInv'
  <2>1. Sound(Completed(result), t) /\ (cap = 1 => Completed(result).traces = {t})
    BY <1>1, <1>3, CompletedFacts
  <2>2. Sound(sea', t) /\ (cap = 1 => sea'.traces = {t}) /\ curve'.trace = t
    BY <1>2, <1>3, <2>1
  <2> HIDE DEF t
  <2>3. TraceInv'
    BY <1>2, <1>3, <2>2 DEF TraceInv
  <2>4. ReportInv'
    BY <1>2, <1>3 DEF ReportInv, TraceInv, NoInternalError, SoundReject, RightOrders
  <2> QED
    BY <2>3, <2>4
\* Until a level is committed the enumeration of the earlier pass may be there.
<1>4. ASSUME Sound(sea', t), committed' \/ pc' = "schoof_done" => sea'.traces = NoTraces,
             pc' \in {"schoof_level", "schoof_done"}, status' = status, level' \in Nat \ {0}
      PROVE  TraceInv' /\ ReportInv'
  <2>1. Sound(sea', curve'.trace)
    BY <1>2, <1>4
  <2> HIDE DEF t
  <2>2. TraceInv'
    BY <1>2, <1>4, <2>1 DEF TraceInv
  <2>3. ReportInv'
    BY <1>2, <1>4 DEF ReportInv, TraceInv, NoInternalError, SoundReject, RightOrders
  <2> QED
    BY <2>2, <2>3
<1>5. CASE StartSchoof
  <2>1. /\ \/ FitsCap(sea, cap) /\ sea' = Completed(sea) /\ pc' = "schoof_done"
           \/ sea' = sea /\ pc' = "schoof_level"
        /\ level' = 1 /\ ~committed' /\ status' = status
    BY <1>5 DEF StartSchoof
  <2> HIDE DEF t
  <2> QED
    BY <1>1, <1>3, <1>4, <2>1
<1>6. CASE SkipOwned
  <2>1. committed => sea.traces = NoTraces
    BY <1>6 DEF SkipOwned, TraceInv
  <2>2. sea' = sea /\ committed' = committed /\ pc' = "schoof_level" /\ level' = level + 1
        /\ status' = status
    BY <1>6 DEF SkipOwned
  <2> HIDE DEF t
  <2> QED
    BY <1>1, <1>4, <2>1, <2>2
<1>7. CASE SchoofLevel
  <2> DEFINE ell == SchoofLevels[level]
             next == CommitSchoof(sea, ell)
  <2>1. level <= Len(SchoofLevels) /\ sea.exact.modulus % ell # 0
    BY <1>7 DEF SchoofLevel
  <2>2. /\ Sound(next, t)
        /\ next.traces = NoTraces
        /\ ~Impossible(sea.exact, ell, t % ell)
        /\ ~Contradicts(next.exact, next.atkin)
    BY <1>1, <2>1, CommitFacts
  <2>3. CandidateCount(Prime, next.effective) # 0
    BY <1>1, <2>2, KnownIsLeft DEF Sound
  <2>4. level' = level + 1
    BY <1>7 DEF SchoofLevel
  <2>5. /\ \/ FitsCap(next, cap) /\ sea' = Completed(next) /\ pc' = "schoof_done"
           \/ sea' = next /\ pc' = "schoof_level"
        /\ status' = status
    BY <1>7, <2>2, <2>3 DEF SchoofLevel
  <2> HIDE DEF next, ell, t
  <2> QED
    BY <1>1, <1>3, <1>4, <2>2, <2>4, <2>5
\* Whatever was enumerated for another cap is gone.
<1>8. CASE SchoofExhausted
  <2> DEFINE left == [sea EXCEPT !.traces = LeftTraces]
  <2>1. LeftTraces = NoTraces
    BY <1>8 DEF SchoofExhausted, TraceInv, LeftTraces
  <2>2. left = [exact |-> sea.exact, effective |-> sea.effective, atkin |-> sea.atkin,
                levels |-> sea.levels, traces |-> NoTraces]
    BY <1>1, <2>1 DEF Sound
  <2>3. Sound(left, t) /\ left.traces = NoTraces
    BY <1>1, <2>2 DEF Sound
  <2>4. /\ \/ FitsCap(left, cap) /\ sea' = Completed(left)
           \/ sea' = left
        /\ pc' = "schoof_done" /\ status' = status /\ level' = level
    BY <1>8 DEF SchoofExhausted
  <2> HIDE DEF left, t
  <2> QED
    BY <1>1, <1>3, <1>4, <2>3, <2>4
<1> QED
  BY <1>5, <1>6, <1>7, <1>8

\* A finite set with one element holds that element only.
LEMMA OnlyOne ==
  ASSUME NEW S, IsFiniteSet(S), NEW x \in S, Cardinality(S) = 1
  PROVE  S = {x}
<1>1. IsFiniteSet(S \ {x}) /\ Cardinality(S \ {x}) = 0
  BY FS_RemoveElement
<1>2. S \ {x} = {}
  BY <1>1, FS_EmptySet
<1> QED
  BY <1>2

\* The decisions between the passes.
LEMMA GateStep ==
  ASSUME TraceInv, ReportInv, EarlyPass \/ Screen \/ UniqueGate
  PROVE  TraceInv' /\ ReportInv'
<1> DEFINE t == curve.trace
<1>1. t \in Traces /\ CurveFacts /\ Sound(sea, t) /\ cap \in Nat \ {0} /\ level \in Nat \ {0}
  BY DEF TraceInv, CurveFacts
<1>2. CurveFacts' /\ UNCHANGED <<curve, level, sea>> /\ pc # "done" /\ status = "none"
  BY <1>1 DEF EarlyPass, Screen, UniqueGate, CurveFacts, ReportInv
<1>3. Sound(sea', curve'.trace)
  BY <1>1, <1>2
<1>4. sea.traces # NoTraces => t \in sea.traces /\ IsFiniteSet(sea.traces)
  <2>1. HasseRadius(Prime) \in Nat
    BY TracesAssumption, RadiusFacts
  <2>2. IsFiniteSet(Hasse(Prime))
    BY <2>1, FS_Interval DEF Hasse
  <2> QED
    BY <1>1, <2>2, FS_Subset DEF Sound
<1> HIDE DEF t
<1>5. CASE EarlyPass
  <2>1. sea.traces # {}
    BY <1>4, NoTracesAssumption
  <2>2. /\ \/ pc' = "done" /\ status' \in {"no_rational_weber_lift", "sea_level_limit"}
           \/ pc' = "screen" /\ sea.traces # NoTraces /\ status' = status
           \/ pc' = "start_schoof" /\ status' = status
        /\ UNCHANGED <<stage, cap, smooth, exact_trace>>
    BY <1>5, <2>1 DEF EarlyPass, Report
  <2>3. TraceInv'
    BY <1>2, <1>3, <2>2 DEF TraceInv
  <2>4. ReportInv'
    BY <1>2, <2>2 DEF ReportInv, NoInternalError, InternalErrors, SoundReject, RightOrders
  <2> QED
    BY <2>3, <2>4
<1>6. CASE Screen
  <2> DEFINE unique == Cardinality(sea.traces) = 1
             only == CHOOSE u \in sea.traces : TRUE
  <2>1. t \in sea.traces /\ IsFiniteSet(sea.traces)
    BY <1>4, <1>6 DEF Screen, TraceInv
  <2>2. unique => only = t
    <3>1. unique => sea.traces = {t}
      BY <2>1, OnlyOne
    <3> QED
      BY <3>1
  <2>3. ~Passes(sea.traces, smooth') => {t, -t} \cap smooth' = {}
    BY <2>1 DEF Passes, OrderClasses
  <2>4. \/ /\ ~Passes(sea.traces, smooth') /\ pc' = "done"
           /\ status' = "sound_smoothness_reject" /\ UNCHANGED <<stage, cap>>
        \/ /\ unique /\ pc' = "order" /\ exact_trace' = only
           /\ UNCHANGED <<stage, cap, status>>
        \/ /\ stage' = "unique" /\ cap' = 1
           /\ pc' \in {"start_schoof", "start_sea"} /\ UNCHANGED status
    BY <1>6 DEF Screen, Report
  <2> HIDE DEF unique, only
  <2>5. TraceInv'
    BY <1>2, <1>3, <2>4 DEF TraceInv
  <2>6. ReportInv'
    BY <1>2, <2>2, <2>3, <2>4
       DEF ReportInv, NoInternalError, InternalErrors, SoundReject, RightOrders, t
  <2> QED
    BY <2>5, <2>6
<1>7. CASE UniqueGate
  <2>1. sea.traces # NoTraces => sea.traces = {t}
    BY <1>7 DEF UniqueGate, TraceInv, t
  <2>2. sea.traces # NoTraces => Cardinality(sea.traces) = 1
    BY <2>1, FS_Singleton
  <2>3. /\ \/ pc' = "done" /\ status' = "sea_level_limit"
           \/ pc' = "order" /\ exact_trace' = t /\ status' = status
        /\ UNCHANGED <<stage, cap, smooth>>
    BY <1>7, <2>1, <2>2 DEF UniqueGate, Report
  <2>4. TraceInv'
    BY <1>2, <1>3, <2>3 DEF TraceInv
  <2>5. ReportInv'
    BY <1>2, <2>3 DEF ReportInv, NoInternalError, InternalErrors, SoundReject, RightOrders, t
  <2> QED
    BY <2>4, <2>5
<1> QED
  BY <1>5, <1>6, <1>7

\* The search for certificates keeps the trace it was given.
LEMMA OrderStep ==
  ASSUME TraceInv, ReportInv, StartOrder \/ Preferred \/ Node \/ OrderExhausted
  PROVE  TraceInv' /\ ReportInv'
<1>1. /\ UNCHANGED <<curve, stage, cap, level, committed, sea, smooth, exact_trace>>
      /\ pc \in {"order", "walk"}
  BY DEF StartOrder, Preferred, Node, OrderExhausted
<1>2. \/ pc' \in {"order", "walk"} /\ status' = status
      \/ /\ pc' = "done"
         /\ status' \in {"candidate_limit", "smooth_part_failed_enumeration",
                         "search_node_limit", "verified_certificate",
                         "no_certificate_candidate", "canonical_verifier_rejected",
                         "certificate_assembly_failed"}
  <2>1. CASE StartOrder
    BY <2>1 DEF StartOrder, Throw
  <2>2. ASSUME NEW visiting, Candidate(visiting), pc = "walk"
        PROVE  \/ pc' = "walk" /\ status' = status
               \/ pc' = "done" /\ status' \in {"candidate_limit", "verified_certificate"}
    BY <2>2 DEF Candidate, Visit, Throw, Report
  <2>3. CASE Preferred
    BY <2>2, <2>3 DEF Preferred
  <2>4. CASE Node
    <3>1. pc = "walk"
      BY <2>4 DEF Node
    <3>2. \/ pc' = "done" /\ status' = "search_node_limit"
          \/ UNCHANGED <<pc, status>>
          \/ Candidate([walk EXCEPT !.phase = "descent", !.nodes = @ + 1])
      BY <2>4 DEF Node, Throw
    <3> QED
      BY <2>2, <3>1, <3>2
  <2>5. CASE OrderExhausted
    BY <2>5 DEF OrderExhausted, Report, FinalStatus
  <2> QED
    BY <2>1, <2>3, <2>4, <2>5
<1>3. Sound(sea, curve.trace)' /\ CurveFacts'
  BY <1>1 DEF TraceInv, CurveFacts
<1>4. TraceInv'
  BY <1>1, <1>2, <1>3 DEF TraceInv
<1>5. ReportInv'
  BY <1>1, <1>2 DEF ReportInv, NoInternalError, InternalErrors, SoundReject, RightOrders
<1> QED
  BY <1>4, <1>5

\* The invariant holds always.
THEOREM TraceAlwaysKnown == Spec => [](TraceInv /\ ReportInv)
<1>1. Init => TraceInv /\ ReportInv
  BY TraceInit
<1>2. TraceInv /\ ReportInv /\ [Next]_vars => (TraceInv /\ ReportInv)'
  <2> SUFFICES ASSUME TraceInv, ReportInv, [Next]_vars PROVE (TraceInv /\ ReportInv)'
    OBVIOUS
  <2>1. CASE UNCHANGED vars
    <3>1. CurveFacts' /\ Sound(sea, curve.trace)' /\ (pc' = "sea_level" => Unseen(sea, level)')
      BY <2>1 DEF vars, TraceInv, CurveFacts, Unseen, Skipped
    <3> QED
      BY <2>1, <3>1 DEF vars, TraceInv, ReportInv, NoInternalError, SoundReject, RightOrders
  <2>2. CASE Next
    BY <2>2, SeaStep, SchoofStep, GateStep, OrderStep, Zenon DEF Next
  <2> QED
    BY <2>1, <2>2
<1> QED
  BY <1>1, <1>2, PTL DEF Spec

-----------------------------------------------------------------------------
(* The theorems.                                                           *)

\* TruthSurvives: the trace of the curve is never excluded, and the effective
\* set never allows what the exact set excludes (run_weber_sea_reference and
\* extend_weber_sea_with_schoof_fallback).
THEOREM TruthAlwaysSurvives == Spec => []TruthSurvives
<1>1. TraceInv => TruthSurvives
  <2> SUFFICES ASSUME TraceInv PROVE TruthSurvives
    OBVIOUS
  <2> DEFINE t == curve.trace
             wide == Left(sea.effective)
  <2>1. /\ t \in Int /\ t \in Hasse(Prime)
        /\ Knows(sea.effective, t) /\ Finer(sea.effective, sea.exact)
    BY TracesAreIntegers DEF TraceInv, CurveFacts, Sound
  <2>2. Prime \in Nat /\ Prime >= 2 /\ t * t <= 4 * Prime
    BY <2>1, TracesAssumption, HasseFacts DEF SmallPrime
  <2> HIDE DEF t
  <2>3. t \in -Prime .. Prime
    <3>1. ASSUME NEW n \in Nat, n * n <= 4 * Prime PROVE n <= Prime
      <4>1. n >= Prime + 1 => n * n >= (Prime + 1) * (Prime + 1)
        BY <2>2
      <4>2. (Prime + 1) * (Prime + 1) = 4 * Prime + (Prime - 1) * (Prime - 1)
        BY <2>2
      <4>3. (Prime - 1) * (Prime - 1) >= 1
        BY <2>2
      <4> QED
        BY <2>2, <3>1, <4>1, <4>2, <4>3
    <3>2. CASE t >= 0
      BY <2>1, <2>2, <3>1, <3>2
    <3>3. CASE t < 0
      <4>1. -t \in Nat /\ (-t) * (-t) = t * t
        BY <2>1, <3>3
      <4>2. -t <= Prime
        BY <2>2, <3>1, <4>1
      <4> QED
        BY <2>1, <2>2, <3>3, <4>2
    <3> QED
      BY <2>1, <3>2, <3>3
  <2>4. t \in wide
    BY <2>1, <2>2, <2>3 DEF Knows, Left
  <2>5. wide \subseteq Left(sea.exact)
    <3>1. \A u \in -Prime .. Prime : u \in Int
      BY <2>2
    <3> QED
      BY <2>1, <3>1 DEF Finer, Left
  <2> QED
    BY <2>4, <2>5 DEF TruthSurvives, t
<1> QED
  BY <1>1, TraceAlwaysKnown, PTL

\* NoInternalError: the consistency exceptions of the driver, of the fallback
\* and of the gate are unreachable (sea.cpp, process_search_curve).
THEOREM InternallyConsistent == Spec => []NoInternalError
<1>1. ReportInv => NoInternalError
  BY DEF ReportInv
<1> QED
  BY <1>1, TraceAlwaysKnown, PTL

\* SoundReject: the smoothness screen drops no curve whose own order or
\* twist order has a large smooth part (process_search_curve).
THEOREM RejectsSoundly == Spec => []SoundReject
<1>1. ReportInv => SoundReject
  BY DEF ReportInv
<1> QED
  BY <1>1, TraceAlwaysKnown, PTL

\* RightOrders: certificates are searched with the curve's own trace
\* (process_search_curve).
THEOREM SearchesOwnOrders == Spec => []RightOrders
<1>1. ReportInv => RightOrders
  BY DEF ReportInv
<1> QED
  BY <1>1, TraceAlwaysKnown, PTL

\* A visit that accepts nothing assembles on both sides.
LEMMA CandidateCounts ==
  ASSUME CountInv, pc = "walk", NEW visiting, Candidate(visiting)
  PROVE  CountInv'
<1>1. /\ Tallied /\ status = "none" /\ search.assemblies = 2 * search.attempts
  BY DEF CountInv
<1>2. CASE UNCHANGED search /\ pc' = "done" /\ status' = "candidate_limit"
  BY <1>1, <1>2 DEF CountInv, Tallied, Exhaustive
<1>3. CASE \E first \in Outcomes, second \in Outcomes : Visit(first, second, visiting)
  <2>1. PICK first \in Outcomes, second \in Outcomes : Visit(first, second, visiting)
    BY <1>3
  <2> DEFINE assembled  == Assembled(first, second)
             nodes      == IF "accepted" \in {first, second}
                             THEN search.nodes + visiting.nodes ELSE search.nodes
             rejections == search.rejections
                             + Cardinality({i \in 1 .. 2 : <<first, second>>[i] = "rejected"})
  <2>2. assembled \in {1, 2} /\ (first # "accepted" => assembled = 2)
    BY DEF Assembled
  <2>3. search' = [search EXCEPT !.attempts = @ + 1, !.assemblies = @ + assembled,
                                 !.nodes = nodes, !.rejections = rejections]
    BY <2>1 DEF Visit
  <2>4. \/ /\ pc' = "done" /\ status' = "verified_certificate"
        \/ /\ first # "accepted" /\ UNCHANGED <<pc, status>>
    BY <2>1 DEF Visit, Report
  <2> HIDE DEF assembled, nodes, rejections
  <2>5. search' = [twist |-> search.twist, attempts |-> search.attempts + 1,
                   assemblies |-> search.assemblies + assembled, nodes |-> nodes,
                   rejections |-> rejections, explored |-> search.explored]
    BY <1>1, <2>3 DEF Tallied
  <2>6. Tallied'
    BY <1>1, <2>2, <2>5 DEF Tallied
  <2>7. first # "accepted" => search'.assemblies = 2 * search'.attempts
    BY <1>1, <2>2, <2>5 DEF Tallied
  <2> QED
    BY <1>1, <2>4, <2>6, <2>7 DEF CountInv, Exhaustive
<1> QED
  BY <1>2, <1>3 DEF Candidate, Throw

\* Exhaustive: a curve whose trace is known is given up only after both orders
\* were enumerated to the end, every candidate on both Montgomery sides
\* (process_search_curve, enumerate_certificate_candidates).
THEOREM GivesUpLast == Spec => []Exhaustive
<1>1. Init => CountInv
  <2> SUFFICES ASSUME Init PROVE CountInv
    OBVIOUS
  <2>1. search = NotSearched /\ status = "none"
    BY DEF Init
  <2> QED
    BY <2>1 DEF CountInv, Tallied, Exhaustive, NotSearched
<1>2. CountInv /\ [Next]_vars => CountInv'
  <2> SUFFICES ASSUME CountInv, [Next]_vars PROVE CountInv'
    OBVIOUS
  <2>1. Tallied /\ (pc # "done" => status = "none" /\ search.assemblies = 2 * search.attempts)
    BY DEF CountInv
  \* Before the orders are tried nothing is counted.
  <2>2. ASSUME UNCHANGED search, pc # "done",
               status' \notin {"no_certificate_candidate", "certificate_assembly_failed",
                               "canonical_verifier_rejected"},
               pc' # "done" => status' = "none"
        PROVE  CountInv'
    BY <2>1, <2>2 DEF CountInv, Tallied, Exhaustive
  <2>3. CASE UNCHANGED vars
    BY <2>3 DEF vars, CountInv, Tallied, Exhaustive
  <2>4. CASE StartSea \/ SkipLevel \/ SeaLevel \/ SeaExhausted
    <3>1. /\ UNCHANGED search /\ pc # "done"
          /\ \/ status' = status
             \/ pc' = "done" /\ status' = "hasse_interval_eliminated"
      BY <2>4 DEF StartSea, SkipLevel, SeaLevel, SeaExhausted, Throw
    <3> QED
      BY <2>1, <2>2, <3>1
  <2>5. CASE StartSchoof \/ SkipOwned \/ SchoofLevel \/ SchoofExhausted
    <3>1. /\ UNCHANGED search /\ pc # "done"
          /\ \/ status' = status
             \/ pc' = "done" /\ status' \in {"hasse_interval_eliminated", "atkin_contradicted"}
      BY <2>5 DEF StartSchoof, SkipOwned, SchoofLevel, SchoofExhausted, Throw
    <3> QED
      BY <2>1, <2>2, <3>1
  <2>6. CASE EarlyPass \/ Screen \/ UniqueGate
    <3>1. /\ UNCHANGED search /\ pc # "done"
          /\ \/ status' = status /\ pc' # "done"
             \/ pc' = "done" /\ status' \in {"no_rational_weber_lift", "empty_complete_set",
                                             "sea_level_limit", "sound_smoothness_reject",
                                             "not_a_singleton"}
      BY <2>6 DEF EarlyPass, Screen, UniqueGate, Throw, Report
    <3> QED
      BY <2>1, <2>2, <3>1
  <2>7. CASE StartOrder
    <3>1. /\ UNCHANGED search /\ pc # "done"
          /\ \/ status' = status
             \/ pc' = "done" /\ status' \in {"candidate_limit", "smooth_part_failed_enumeration"}
      BY <2>7 DEF StartOrder, Throw
    <3> QED
      BY <2>1, <2>2, <3>1
  <2>8. CASE Preferred
    <3>1. pc = "walk" /\ Candidate([walk EXCEPT !.preferred = @ + 1])
      BY <2>8 DEF Preferred
    <3> QED
      BY <3>1, CandidateCounts
  <2>9. CASE Node
    <3> DEFINE descended == [walk EXCEPT !.phase = "descent", !.nodes = @ + 1]
    <3>1. /\ pc = "walk"
          /\ \/ UNCHANGED search /\ pc' = "done" /\ status' = "search_node_limit"
             \/ UNCHANGED <<search, pc, status>>
             \/ Candidate(descended)
      BY <2>9 DEF Node, Throw
    <3> HIDE DEF descended
    <3>2. CASE Candidate(descended)
      BY <3>1, <3>2, CandidateCounts
    <3> QED
      BY <2>1, <2>2, <3>1, <3>2
  <2>10. CASE OrderExhausted
    <3> DEFINE explored == search.explored \cup {search.twist}
    <3>1. /\ search' = [search EXCEPT !.explored = explored, !.twist = TRUE,
                                      !.nodes = @ + walk.nodes]
          /\ \/ explored = BOOLEAN /\ pc' = "done"
             \/ pc' = "order" /\ UNCHANGED status
          /\ pc = "walk"
      BY <2>10 DEF OrderExhausted, Report, AllOrders
    <3> HIDE DEF explored
    <3>2. /\ Tallied'
          /\ search'.explored = explored
          /\ search'.assemblies = search.assemblies /\ search'.attempts = search.attempts
      BY <2>1, <3>1 DEF Tallied
    <3> QED
      BY <2>1, <3>1, <3>2 DEF CountInv, Exhaustive
  <2> QED
    BY <2>3, <2>4, <2>5, <2>6, <2>7, <2>8, <2>9, <2>10, Zenon DEF Next
<1>3. CountInv => Exhaustive
  BY DEF CountInv
<1> QED
  BY <1>1, <1>2, <1>3, PTL DEF Spec

=============================================================================
