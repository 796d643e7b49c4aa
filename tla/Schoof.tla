------------------------------- MODULE Schoof -------------------------------
(***************************************************************************)
(* What schoof.cpp learns from the ell-torsion of a curve: the residue of  *)
(* its trace modulo ell (schoof_trace_mod_ell), the count of its points    *)
(* from such residues (schoof_count_reference), and the eigenvalue of      *)
(* Frobenius on the subgroup a kernel polynomial describes                 *)
(* (try_frobenius_eigenvalue_reference), found by a walk over the          *)
(* multiples or by baby and giant steps.                                   *)
(***************************************************************************)
EXTENDS TorsionPoints, TraceConstraints

CONSTANTS
  CountedCurves,   \* [curve, maxEll]: curves to count, p prime
  ProbedCurves,    \* [curve, ell]: curves whose kernels are probed
  WalkLimit        \* largest ell whose eigenvalue is searched by the walk

ASSUME CurvesAssumption ==
  /\ \A c \in CountedCurves : ~IsSingular(c.curve) /\ c.curve.p > 3
  /\ \A c \in ProbedCurves : ~IsSingular(c.curve) /\ c.curve.p # c.ell

MatchingMultiples(ring, left, frobenius, ell) ==
  {r \in 0 .. ell - 1 : SamePoint(ring, left, ScalarMultiply(ring, r, frobenius))}

\* The multiples of Frobenius that equal its square plus p times the identity.
ResiduesIn(ring, ell) ==
  MatchingMultiples(ring,
    PointAdd(ring, FrobeniusPoint(ring, ring.p * ring.p),
             ScalarMultiply(ring, ring.p % ell, Generic(ring))),
    FrobeniusPoint(ring, ring.p), ell)

SchoofResidues(curve, ell) == ResiduesIn(QuotientRing(curve, DivisionPolynomial(curve, ell)), ell)

-----------------------------------------------------------------------------
(* Eigenvalues. Zero stands for std::nullopt, DomainError for an exception *)
(* because some coordinate vanishes at some of the points only.            *)

NotInvertible == <<>>
DomainError   == -1

RECURSIVE EuclidInverse(_, _, _, _, _, _)
EuclidInverse(p, h, older, newer, olderCofactor, cofactor) ==
  IF newer = <<>>
  THEN IF Len(older) # 1 THEN NotInvertible
       ELSE PolyMod(p, ScalarMul(p, olderCofactor, FieldInverse(p, older[1])), h)
  ELSE LET division == DivMod(p, older, newer)
           product  == PolyMod(p, PolyMul(p, division[1], cofactor), h)
       IN EuclidInverse(p, h, newer, division[2], cofactor, PolySub(p, olderCofactor, product))

\* invert_mod
InvertModulo(p, f, h) == EuclidInverse(p, h, h, PolyMod(p, f, h), <<>>, <<1>>)

\* affine_x_keys: one inversion for the whole batch.
PrefixProducts(p, h, s) ==
  LET product[i \in 0 .. Len(s)] ==
        IF i = 0 THEN <<1>> ELSE PolyMod(p, PolyMul(p, product[i - 1], s[i]), h)
  IN Computed([i \in 1 .. Len(s) + 1 |-> product[i - 1]])

\* x / z^2, from the products before a point and the inverse of those after.
KeysOf(p, h, xs, prefix, suffix) ==
  Computed([i \in DOMAIN xs |->
    PolyMod(p, PolyMul(p, xs[i], PolyMul(p, suffix[i], prefix[i])), h)])

\* The inverse of the product of s up to each index.
Inverses(p, h, s, whole) ==
  LET inverse[i \in 1 .. Len(s)] ==
        IF i = Len(s) THEN whole ELSE PolyMod(p, PolyMul(p, inverse[i + 1], s[i + 1]), h)
  IN Computed([i \in DOMAIN s |-> inverse[i]])

KeysFrom(p, h, xs, zz, prefix, whole) ==
  IF whole = NotInvertible THEN NotInvertible
  ELSE KeysOf(p, h, xs, prefix, Inverses(p, h, zz, whole))

WithPrefix(p, h, xs, zz, prefix) ==
  KeysFrom(p, h, xs, zz, prefix, InvertModulo(p, Last(prefix), h))

AffineKeys(ring, points) ==
  LET zz == Computed([i \in DOMAIN points |-> ElementSquare(ring, points[i][3])])
      left(s) == Computed([i \in DOMAIN s |-> s[i][1]])
  IN IF \E i \in DOMAIN points : points[i][1][2] # <<>> \/ zz[i][2] # <<>>
     THEN NotInvertible
     ELSE WithPrefix(ring.p, ring.modulus, Computed([i \in DOMAIN points |-> points[i][1][1]]),
                     left(zz), PrefixProducts(ring.p, ring.modulus, left(zz)))

\* Multiples 1 to n of a point, each from the one before.
Multiples(ring, P, n) ==
  LET multiple[i \in 1 .. n] == IF i = 1 THEN P ELSE PointAdd(ring, multiple[i - 1], P)
  IN Computed([i \in 1 .. n |-> multiple[i]])

FirstOr(S, default) == IF S = {} THEN default ELSE Min(S)

Matches(ring, frobenius, multiples) ==
  {n \in DOMAIN multiples : SameX(ring, frobenius, multiples[n])}

\* The sign of the first multiple with the abscissa of Frobenius; where the
\* ordinates agree at some points only, neither sign is right and it goes on.
Signed(ring, ell, frobenius, multiples, n) ==
  IF SamePoint(ring, frobenius, multiples[n]) THEN n
  ELSE IF SamePoint(ring, frobenius, PointNeg(ring, multiples[n])) THEN ell - n ELSE 0

WalkOver(ring, ell, frobenius, multiples) ==
  LET signed == {<<n, Signed(ring, ell, frobenius, multiples, n)>> : n \in Matches(ring, frobenius, multiples)}
      known  == {s \in signed : s[2] # 0}
  IN IF known = {} THEN 0 ELSE (CHOOSE s \in known : \A r \in known : s[1] <= r[1])[2]

\* try_eigenvalue_x_linear
EigenvalueByWalk(ring, ell) ==
  WalkOver(ring, ell, FrobeniusPoint(ring, ring.p), Multiples(ring, Generic(ring), (ell - 1) \div 2))

\* The least width whose square reaches ell.
Width(ell) == CHOOSE w \in 1 .. ell : w * w >= ell /\ (w - 1) * (w - 1) < ell

GiantSteps(ell) == (ell - 1) \div Width(ell)

\* The first verified answer among base + baby and base - baby, the giant
\* steps in order; `open` numbers the residuals the last keys belong to.
FirstGood(ring, ell, frobenius, open, keys) ==
  LET width   == Width(ell)
      baby(i) == FirstOr({n \in 1 .. width - 1 : keys[n] = keys[width - 1 + i]}, 0)
      tries   == FlattenSeq([i \in DOMAIN open |->
                   IF baby(i) = 0 THEN <<>>
                   ELSE << (open[i] * width + baby(i)) % ell, (open[i] * width - baby(i)) % ell >>])
      good(n) == n # 0 /\ SamePoint(ring, frobenius, ScalarMultiply(ring, n, Generic(ring)))
      answers == SelectSeq(tries, good)
  IN IF keys = NotInvertible THEN DomainError ELSE IF answers = <<>> THEN 0 ELSE Head(answers)

\* A giant step that lands on infinity answers at once, the other residuals
\* are matched with the babies by their abscissas.
MatchResiduals(ring, ell, frobenius, babies, residual) ==
  LET landed == {s \in 0 .. GiantSteps(ell) : IsInfinity(residual[s + 1])}
      open   == SetToSortSeq(0 .. GiantSteps(ell) \ landed, <)
      direct == {s * Width(ell) : s \in landed} \cap (1 .. ell - 1)
  IN IF direct # {} THEN Min(direct)
     ELSE FirstGood(ring, ell, frobenius, open,
            AffineKeys(ring, babies \o [i \in DOMAIN open |-> residual[open[i] + 1]]))

Residuals(ring, frobenius, step, n) ==
  LET giant[s \in 0 .. n] == IF s = 0 THEN Infinity(ring) ELSE PointAdd(ring, giant[s - 1], step)
  IN Computed([i \in 1 .. n + 1 |-> PointAdd(ring, frobenius, PointNeg(ring, giant[i - 1]))])

StepsFrom(ring, ell, frobenius) ==
  MatchResiduals(ring, ell, frobenius, Multiples(ring, Generic(ring), Width(ell) - 1),
    Residuals(ring, frobenius, ScalarMultiply(ring, Width(ell), Generic(ring)), GiantSteps(ell)))

\* try_eigenvalue_mitm
EigenvalueBySteps(ring, ell) == StepsFrom(ring, ell, FrobeniusPoint(ring, ring.p))

\* projective_x_satisfies
XSatisfies(ring, f, P) ==
  LET zz == ElementSquare(ring, P[3])
      n  == Degree(f)
      power[i \in 0 .. n] == IF i = 0 THEN ConstantElement(ring, 1) ELSE ElementMul(ring, power[i - 1], zz)
      value[i \in 0 .. n] ==
        IF i = 0 THEN ConstantElement(ring, Last(f))
        ELSE ElementAdd(ring, ElementMul(ring, value[i - 1], P[1]),
                        ElementScale(ring, power[i], Coefficient(f, n - i)))
  IN ~IsInfinity(P) /\ value[n] = ElementZero

\* Roots taken from different subgroups would still divide psi_ell.
ClosedSubgroup(ring, kernel, ell) ==
  LET multiple == Multiples(ring, Generic(ring), (ell - 1) \div 2)
  IN \A n \in 2 .. (ell - 1) \div 2 : XSatisfies(ring, kernel, multiple[n])

\* What try_frobenius_eigenvalue_impl insists on.
IsKernelInput(curve, kernel, ell) ==
  /\ ~IsSingular(curve) /\ ell # curve.p
  /\ Degree(kernel) = (ell - 1) \div 2 /\ Last(kernel) = 1
  /\ Degree(PolyGcd(curve.p, kernel, Derivative(curve.p, kernel))) = 0

Settled(ring, ell, answer) == IF answer = DomainError THEN EigenvalueByWalk(ring, ell) ELSE answer

EigenvalueOn(ring, ell) ==
  Settled(ring, ell, IF ell <= WalkLimit THEN DomainError ELSE EigenvalueBySteps(ring, ell))

EigenvalueIfClosed_AnyRoots(ring, kernel, ell) == EigenvalueOn(ring, ell)

EigenvalueIfClosed(ring, kernel, ell) ==
  IF ClosedSubgroup(ring, kernel, ell) THEN EigenvalueOn(ring, ell) ELSE 0

Eigenvalue(curve, kernel, ell) == EigenvalueIfClosed(QuotientRing(curve, kernel), kernel, ell)

-----------------------------------------------------------------------------
(* One call: a count, level after level, or the kernels of one degree      *)
(* probed one after the other.                                             *)

VARIABLES
  job,           \* the curve and what is asked of it
  status,        \* how far the count is, or "probing"
  constraints,   \* what the levels so far say of the trace
  remaining,     \* levels, or kernels, still to come
  lines          \* <<kernel, eigenvalue>> of the kernels accepted

torsion == <<job, status, constraints, remaining, lines>>

NoTorsion ==
  /\ job = <<>> /\ status = "none" /\ constraints = Unconstrained
  /\ remaining = {} /\ lines = {}

OddPrimeLevel(n) == n % 2 = 1 /\ \A d \in 2 .. n - 1 : n % d # 0

CountInit ==
  /\ job \in CountedCurves /\ status = "counting"
  /\ constraints = Unconstrained /\ lines = {}
  /\ remaining = {n \in 3 .. job.maxEll : OddPrimeLevel(n) /\ n # job.curve.p}

\* schoof_count_reference, one level: it stops at the first level that leaves
\* one trace, and fails when a residue is not unique or the levels run out.
CountOf(ell, residues, merged) ==
  IF Cardinality(residues) # 1
  THEN status' = "no_unique_residue" /\ UNCHANGED <<constraints, remaining>>
  ELSE /\ constraints' = merged
       /\ remaining' = remaining \ {ell}
       /\ status' = IF CandidateCount(job.curve.p, merged) = 1 THEN "counted"
                    ELSE IF remaining = {ell} THEN "undetermined" ELSE status

WithResidues(ell, residues) == CountOf(ell, residues, Refine(constraints, ell, residues))

CountLevel ==
  /\ status = "counting" /\ remaining # {}
  /\ WithResidues(Min(remaining), SchoofResidues(job.curve, Min(remaining)))
  /\ UNCHANGED <<job, lines>>

\* Every divisor of psi_ell of the right degree a caller could offer.
Kernels(curve, ell) ==
  {k \in {Append(c, 1) : c \in [1 .. (ell - 1) \div 2 -> 0 .. curve.p - 1]} :
     /\ PolyMod(curve.p, DivisionPolynomial(curve, ell), k) = <<>>
     /\ IsKernelInput(curve, k, ell)}

ProbeInit ==
  /\ job \in ProbedCurves /\ status = "probing"
  /\ constraints = Unconstrained /\ lines = {}
  /\ remaining = Kernels(job.curve, job.ell)

Accept(kernel, value) ==
  /\ lines' = lines \cup (IF value = 0 THEN {} ELSE {<<kernel, value>>})
  /\ remaining' = remaining \ {kernel}

ProbeNext(kernel) == Accept(kernel, Eigenvalue(job.curve, kernel, job.ell))

ProbeKernel ==
  /\ status = "probing" /\ remaining # {}
  /\ ProbeNext(CHOOSE k \in remaining : TRUE)
  /\ UNCHANGED <<job, status, constraints>>

AskTorsion == CountLevel \/ ProbeKernel

-----------------------------------------------------------------------------
(* Properties, against the trace by counting points.                       *)

\* The number of ordinates above x is one more than the character of rhs(x).
TrueTrace(curve) ==
  LET p == curve.p
      squares  == {(y * y) % p : y \in 1 .. p - 1}
      value(x) == (x * x * x + curve.a * x + curve.b) % p
  IN MapThenSumSet(LAMBDA x : IF value(x) = 0 THEN 0 ELSE IF value(x) \in squares THEN -1 ELSE 1,
                   0 .. p - 1)

\* Of a count: every level has one residue, the true one, and a finished
\* count is the number of points.
ResiduesAreTheTraces ==
  job \in CountedCurves =>
    LET t == TrueTrace(job.curve)
    IN /\ status # "no_unique_residue"
       /\ constraints.residues = {t % constraints.modulus}
       /\ status = "counted" => Enumerate(job.curve.p, constraints, 1) = {t}

\* Of the probed kernels: each accepted one has an eigenvalue of Frobenius, and
\* there are as many as the discriminant modulo ell says.
EigenlinesExact ==
  job \in ProbedCurves =>
    LET curve == job.curve
        ell   == job.ell
        t     == TrueTrace(curve)
        discriminant == (t * t - 4 * curve.p) % ell
        square == \E y \in 1 .. ell - 1 : (y * y) % ell = discriminant
        number == IF discriminant = 0 THEN {1, ell + 1} ELSE IF square THEN {2} ELSE {0}
        walked(k) == EigenvalueByWalk(QuotientRing(curve, k), ell)
    IN /\ \A line \in lines :
            /\ (line[2] * line[2] - t * line[2] + curve.p) % ell = 0
            /\ line[2] = walked(line[1])
       /\ remaining = {} => Cardinality(lines) \in number

\* TorsionTellsTheTrace: although sums of points meet zero divisors when two
\* points agree at some torsion points only (supersingular, scalar and
\* non-semisimple Frobenius), a level of schoof_trace_mod_ell has exactly the
\* true residue; and of all divisors of the division polynomial with the degree
\* of a kernel exactly the Frobenius-stable subgroups are accepted, a mixture of
\* roots of several subgroups never, with the same eigenvalue by the walk and
\* by baby and giant steps (try_frobenius_eigenvalue_reference).
TorsionTellsTheTrace == ResiduesAreTheTraces /\ EigenlinesExact

=============================================================================
