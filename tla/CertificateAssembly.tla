------------------------- MODULE CertificateAssembly -------------------------
(***************************************************************************)
(* From a candidate order and a j-invariant to a certificate: every        *)
(* Montgomery coefficient of the curve, and for each a number of tries at  *)
(* a point (assemble_montgomery_certificate_from_j).  The pseudo-random    *)
(* abscissa of a try is any residue.                                       *)
(***************************************************************************)
EXTENDS MontgomeryOrder, MontgomeryCurves

CONSTANTS
  Primes,    \* field characteristics
  Attempts   \* attempts_per_coefficient

ASSUME PrimesAssumption == \A p \in Primes : p > 3 /\ IsPrime(p)
ASSUME AttemptsAssumption == Attempts \in Nat \ {0}

-----------------------------------------------------------------------------
(* montgomery_coefficients_from_j.                                         *)

PowMod(p, a, e) == FoldLeft(LAMBDA r, i : (r * a) % p, 1, [i \in 1 .. e |-> i])

\* One round of Tonelli and Shanks: [root, t, c, m].
RECURSIVE Tonelli(_, _)
Tonelli(p, s) ==
  IF s.t = 1 THEN s.root
  ELSE LET i == Min({k \in 1 .. s.m : PowMod(p, s.t, 2 ^ k) = 1})
           b == PowMod(p, s.c, 2 ^ (s.m - i - 1))
       IN Tonelli(p, [root |-> (s.root * b) % p, c |-> (b * b) % p,
                      t |-> (s.t * b * b) % p, m |-> i])

\* sqrt_mod_prime of a square.
SqrtModPrime(p, a) ==
  IF a = 0 THEN 0
  ELSE IF p % 4 = 3 THEN PowMod(p, a, (p + 1) \div 4)
  ELSE LET s == Valuation(p - 1, 2)
           q == (p - 1) \div 2 ^ s
           n == Min({k \in 2 .. p - 1 : Legendre(p, k) = -1})
       IN Tonelli(p, [root |-> PowMod(p, a, (q + 1) \div 2), t |-> PowMod(p, a, q),
                      c |-> PowMod(p, n, q), m |-> s])

\* Roots of the cubic in u = A^2.
SquaredCoefficients(p, j) ==
  LET c1 == ((6912 - j) * Inv(p, 256 % p)) % p
      c0 == ((4 * j - 6912) * Inv(p, 256 % p)) % p
  IN {u \in 0 .. p - 1 : (u * u * u - 9 * u * u + c1 * u + c0) % p = 0}

SquareRoots(p, j) ==
  {SqrtModPrime(p, u) : u \in {v \in SquaredCoefficients(p, j) \ {4 % p} : Legendre(p, v) # -1}}

CoefficientsFromJ_OneSign(p, j) == SetToSortSeq(SquareRoots(p, j), <)

\* Both signs of every square root, sorted.
CoefficientsFromJ(p, j) ==
  LET both == SquareRoots(p, j) \cup {(p - a) % p : a \in SquareRoots(p, j)}
  IN SetToSortSeq({A \in both : (A * A - 4) % p # 0}, <)

-----------------------------------------------------------------------------

Nonsingular(p) == {A \in 0 .. p - 1 : (A * A - 4) % p # 0}

\* What the enumeration hands over for a curve or twist with this coefficient.
Candidates(p, A, sign) ==
  {[order |-> GroupOrder(p, A, sign), target |-> d] :
     d \in {e \in 2 .. GroupOrder(p, A, sign) :
              Divides(e, GroupOrder(p, A, sign)) /\ InWindow(e, Bounds(p))}}

JInvariant(p, A) ==
  (256 * (A * A - 3) * Square((A * A - 3) % p, p) * Inv(p, (A * A - 4) % p)) % p

\* j-invariants of Montgomery curves with a candidate of theirs, once.
Works ==
  UNION {UNION {{[prime |-> p, j |-> JInvariant(p, A), order |-> c.order, target |-> c.target] :
                   c \in Candidates(p, A, 1) \cup Candidates(p, A, -1)} :
                A \in Nonsingular(p)} :
         p \in Primes}

Sides == {"curve", "twist", "either"}
NoX == -1
NoCertificate == [prime |-> 0]

VARIABLES
  work, side,
  coefficients, index, \* of the j-invariant; the one being tried
  attempt, x,          \* tries made on it; the last abscissa
  certificate

assembly == <<work, side, coefficients, index, attempt, x, certificate>>

AssembleInit ==
  /\ work \in Works
  /\ side \in Sides
  /\ coefficients = CoefficientsFromJ(work.prime, work.j)
  /\ index = 1 /\ attempt = 0 /\ x = NoX
  /\ certificate = NoCertificate

NoAssembly ==
  /\ work = [prime |-> 0]
  /\ side = "either"
  /\ coefficients = <<>>
  /\ index = 1 /\ attempt = 0 /\ x = NoX
  /\ certificate = NoCertificate

ModelCoefficient == coefficients[index]

WantedSide_Ignored(residue) == residue # 0

WantedSide(residue) ==
  /\ residue # 0
  /\ side = "curve" => residue = 1
  /\ side = "twist" => residue = -1

\* What a try at this abscissa yields.
Assembled(abscissa) ==
  LET p      == work.prime
      primes == PrimesOf(work.target)
      point  == Project(p, ModelCoefficient, work.order, work.target, primes, Point(abscissa, 1))
      made   == [prime |-> p, coefficient |-> ModelCoefficient, order |-> work.target,
                 x |-> (point.x * Inv(p, point.z)) % p, large |-> LargePrimes(primes, Bounds(p))]
  IN IF /\ WantedSide(Legendre(p, Rhs(p, ModelCoefficient, abscissa)))
        /\ point # NoPoint
        /\ HasExactOrder(p, ModelCoefficient, point, work.target, primes)
        /\ Valid(made)
     THEN made ELSE NoCertificate

Try ==
  /\ certificate = NoCertificate /\ index <= Len(coefficients) /\ attempt < Attempts
  /\ x' \in 0 .. work.prime - 1
  /\ certificate' = Assembled(x')
  /\ attempt' = attempt + 1
  /\ UNCHANGED <<work, side, coefficients, index>>

NextCoefficient ==
  /\ certificate = NoCertificate /\ index <= Len(coefficients) /\ attempt = Attempts
  /\ index' = index + 1 /\ attempt' = 0 /\ x' = NoX
  /\ UNCHANGED <<work, side, coefficients, certificate>>

Assemble == Try \/ NextCoefficient

-----------------------------------------------------------------------------
(* Properties.                                                             *)

TrueOrders ==
  [p \in Primes |-> [A \in Nonsingular(p) |-> [a \in 0 .. p - 1 |-> PointOrder(p, A, a)]]]

TrueOrder(a) == TrueOrders[work.prime][ModelCoefficient][a]

\* WitnessExactly: the point of a certificate has the candidate's order, on the
\* side that was asked for, whatever projections led to it; and a try fails
\* only on the wrong side or when no multiple of its point has the target order,
\* in groups that are cyclic and in groups that are not (the claim of
\* project_to_candidate_order).
WitnessExactly ==
  /\ certificate # NoCertificate =>
       /\ TrueOrder(certificate.x) = work.target
       /\ side = "curve" => Legendre(work.prime, Rhs(work.prime, ModelCoefficient, certificate.x)) = 1
       /\ side = "twist" => Legendre(work.prime, Rhs(work.prime, ModelCoefficient, certificate.x)) = -1
  /\ (x # NoX /\ certificate = NoCertificate) =>
       \/ ~WantedSide(Legendre(work.prime, Rhs(work.prime, ModelCoefficient, x)))
       \/ ~Divides(work.target, TrueOrder(x))
       \/ ~Divides(TrueOrder(x), work.order)

\* CoefficientsComplete: the models tried are all those with this j-invariant,
\* so the check that recomputes j and throws never does.
CoefficientsComplete ==
  work.prime # 0 =>
    {coefficients[i] : i \in 1 .. Len(coefficients)} =
      {A \in Nonsingular(work.prime) : JInvariant(work.prime, A) = work.j}

=============================================================================
