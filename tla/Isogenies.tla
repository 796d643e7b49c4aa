------------------------------ MODULE Isogenies ------------------------------
(***************************************************************************)
(* Isogenies of odd prime degree ell from one curve: a neighbour read off  *)
(* a modular polynomial (modpoly.cpp, weber.cpp), its normalized equation, *)
(* the kernel reconstructed from the two equations alone (BMSS,            *)
(* isogeny.cpp), and the equation Velu gives for a kernel (elkies.cpp).    *)
(* A modular polynomial is the set of its terms <<i, j, c>>, c x^i y^j.    *)
(***************************************************************************)
EXTENDS TorsionPoints

\* The elements of the field that pass a test, increasing.
Increasing(p, test(_)) == SelectSeq([i \in 1 .. p |-> i - 1], test)

\* linear_roots, whose work PolyFactors takes apart.
LinearRoots(p, f) == Increasing(p, LAMBDA x : EvaluateAt(p, f, x) = 0)

-----------------------------------------------------------------------------
(* Modular polynomials at a point of the field.                            *)

TermSum(p, terms, value(_)) ==
  FoldSet(LAMBDA t, sum : (sum + (t[3] % p) * (value(t) % p)) % p, 0, terms)

\* evaluate_x: the polynomial in the second variable.
EvaluateX(p, terms, x) ==
  LET top == FoldSet(LAMBDA t, n : GreaterOf(t[2], n), 0, terms)
  IN Poly(p, [j \in 1 .. top + 1 |->
       TermSum(p, {t \in terms : t[2] = j - 1}, LAMBDA t : FieldPower(p, x, t[1]))])

\* evaluate_with_derivatives; specialize_x_with_derivative gives the same
\* numbers from polynomials in y.
XDerivative(p, terms, x, y) ==
  TermSum(p, {t \in terms : t[1] # 0},
    LAMBDA t : ((t[1] * FieldPower(p, x, t[1] - 1)) % p) * FieldPower(p, y, t[2]))
YDerivative(p, terms, x, y) ==
  TermSum(p, {t \in terms : t[2] # 0},
    LAMBDA t : ((t[2] * FieldPower(p, x, t[1])) % p) * FieldPower(p, y, t[2] - 1))

-----------------------------------------------------------------------------
(* Invariants. A Weber lift f of j satisfies (f^24 - 16)^3 = j f^24.       *)

JInvariant(curve) ==
  LET p     == curve.p
      cubic == (4 * ((curve.a * curve.a * curve.a) % p)) % p
      delta == (cubic + 27 * curve.b * curve.b) % p
  IN FieldDivide(p, (1728 * cubic) % p, delta)

WeberPower(p, f) == FieldPower(p, f, 24)

\* j_from_weber_f of a nonzero lift.
JFromWeber(p, f) ==
  LET power == WeberPower(p, f)
      d     == (power - 16) % p
  IN FieldDivide(p, (((d * d) % p) * d) % p, power)

JDerivativeFromWeber(p, f) ==
  LET d == (WeberPower(p, f) - 16) % p
  IN FieldDivide(p, (24 * (3 * d * d - JFromWeber(p, f))) % p, f)

\* weber_f_lifts: the roots of (x^24 - 16)^3 - j x^24.
WeberLifts(p, j) ==
  LET relation(x) == LET power == WeberPower(p, x)
                     IN (FieldPower(p, (power - 16) % p, 3) - j * power) % p
  IN Increasing(p, LAMBDA x : relation(x) = 0)

-----------------------------------------------------------------------------
(* The normalized equation of a neighbour. "exceptional" is the domain     *)
(* error callers skip, "invalid" every other exception.                    *)

Nothing(kind) == [kind |-> kind]
Found(curve)  == [kind |-> "curve", curve |-> curve]

\* codomain_from_neighbor_derivative
CodomainFromDerivative(curve, ell, j, derivative) ==
  LET p      == curve.p
      mu     == FieldDivide(p, derivative, j)
      kappa  == FieldDivide(p, derivative, (1728 - j) % p)
      product == (mu * kappa) % p
      a      == FieldDivide(p, FieldPower(p, ell % p, 4) * product, 48 % p)
      b      == FieldDivide(p, FieldPower(p, ell % p, 6) * ((mu * product) % p), 864 % p)
      target == [p |-> p, a |-> a, b |-> b]
  IN IF j = 0 \/ j = 1728 % p \/ derivative = 0 THEN Nothing("exceptional")
     ELSE IF IsSingular(target) \/ JInvariant(target) # j THEN Nothing("invalid")
     ELSE Found(target)

\* d j / d tau of the source, up to the factor both sides share.
JDerivative(curve) ==
  FieldDivide(curve.p, (18 * curve.b * JInvariant(curve)) % curve.p, curve.a)

ExceptionalSource(curve) ==
  curve.a = 0 \/ curve.b = 0 \/ JInvariant(curve) \in {0, 1728 % curve.p}

\* normalized_codomain_from_weber_evaluation
WeberCodomain(curve, ell, terms, f, g) ==
  LET p  == curve.p
      dx == XDerivative(p, terms, f, g)
      dy == YDerivative(p, terms, f, g)
      df == JDerivativeFromWeber(p, f)
      dg == JDerivativeFromWeber(p, g)
      derivative == (-FieldDivide(p, (((dx * dg) % p) * JDerivative(curve)) % p,
                                  (((ell * dy) % p) * df) % p)) % p
  IN IF ExceptionalSource(curve) \/ f = 0 \/ g = 0 THEN Nothing("exceptional")
     ELSE IF JFromWeber(p, f) # JInvariant(curve) THEN Nothing("exceptional")
     ELSE IF EvaluateAt(p, EvaluateX(p, terms, f), g) # 0 THEN Nothing("invalid")
     ELSE IF 0 \in {dx, dy, df, dg} THEN Nothing("exceptional")
     ELSE CodomainFromDerivative(curve, ell, JFromWeber(p, g), derivative)

-----------------------------------------------------------------------------
(* Power series of the isogeny: s with                                     *)
(* (1 + a z^4 + b z^6) s'^2 = 1 + a' s^4 + b' s^6, coefficient by          *)
(* coefficient; a sequence holds the coefficient of z^d at index d + 1.    *)

Convolution(p, s, t, d) ==
  MapThenSumSet(LAMBDA i : (s[i + 1] * t[d - i + 1]) % p,
                GreaterOf(0, d + 1 - Len(t)) .. LesserOf(d, Len(s) - 1)) % p

SolveIsogenySeries(source, target, precision) ==
  LET p == source.p
      known[d \in 0 .. precision - 2] ==
        IF d = 0
        THEN [s |-> <<0, 1>>, square |-> <<0>>, fourth |-> <<0>>, sixth |-> <<0>>, derivative |-> <<1>>]
        ELSE LET w      == known[d - 1]
                 square == Append(w.square, Convolution(p, w.s, w.s, d))
                 fourth == Append(w.fourth, Convolution(p, square, square, d))
                 sixth  == Append(w.sixth, Convolution(p, fourth, square, d))
                 middle == MapThenSumSet(LAMBDA i : (((i + 1) * w.s[i + 2]) % p)
                                                      * (((d - i + 1) * w.s[d - i + 2]) % p), 1 .. d - 1)
                 left   == middle + (IF d >= 4 THEN source.a * w.derivative[d - 3] ELSE 0)
                                  + (IF d >= 6 THEN source.b * w.derivative[d - 5] ELSE 0)
                 right  == target.a * fourth[d + 1] + target.b * sixth[d + 1]
                 factor == (2 * (d + 1)) % p
                 next   == FieldDivide(p, (right - left) % p, factor)
             IN [ s |-> Append(w.s, next), square |-> square, fourth |-> fourth, sixth |-> sixth,
                  derivative |-> Append(w.derivative, (middle + factor * next) % p) ]
  IN known[precision - 2].s

\* reciprocal_series; the constant coefficient is not zero.
ReciprocalSeries(p, s) ==
  LET inverse == FieldInverse(p, s[1])
      known[d \in 0 .. Len(s) - 1] ==
        IF d = 0 THEN <<inverse>>
        ELSE LET r   == known[d - 1]
                 sum == MapThenSumSet(LAMBDA i : (s[i + 1] * r[d - i + 1]) % p, 1 .. d)
             IN Append(r, (-inverse * (sum % p)) % p)
  IN known[Len(s) - 1]

RECURSIVE PadeFrom(_, _, _, _, _, _)
PadeFrom(p, degree, older, newer, olderCofactor, cofactor) ==
  LET division == DivMod(p, older, newer)
  IN IF Degree(newer) <= degree THEN <<newer, cofactor>>
     ELSE PadeFrom(p, degree, newer, division[2], cofactor,
                   PolySub(p, olderCofactor, PolyMul(p, division[1], cofactor)))

\* The quotient of the pair has the series s, term by term.
HasSeries(p, s, numerator, denominator) ==
  LET product(d) == MapThenSumSet(LAMBDA i : (Coefficient(denominator, i) * s[d - i + 1]) % p,
                                  0 .. LesserOf(d, GreaterOf(0, Degree(denominator)))) % p
  IN \A d \in 0 .. Len(s) - 1 : product(d) = Coefficient(numerator, d)

VerifiedPade(p, s, numerator, denominator) ==
  IF HasSeries(p, s, numerator, denominator) THEN <<numerator, denominator>> ELSE <<>>

ScaledPade(p, s, denominatorDegree, pair, lead) ==
  IF lead = 0 \/ Degree(pair[2]) > denominatorDegree THEN <<>>
  ELSE VerifiedPade(p, s, ScalarMul(p, pair[1], FieldInverse(p, lead)),
                          ScalarMul(p, pair[2], FieldInverse(p, lead)))

NormalizedPade(p, s, denominatorDegree, pair) ==
  ScaledPade(p, s, denominatorDegree, pair, Coefficient(pair[2], 0))

\* pade_reconstruct: <<numerator, denominator>>, or <<>> when the series is
\* not that of a quotient of the degrees. Terms beyond the needed ones check it.
PadeReconstruct(p, s, numeratorDegree, denominatorDegree) ==
  LET required == numeratorDegree + denominatorDegree + 1
  IN NormalizedPade(p, s, denominatorDegree,
       PadeFrom(p, numeratorDegree, Append(Zeros(required), 1),
                Trim(SubSeq(s, 1, required)), <<>>, <<1>>))

\* square_root_reversed_denominator, before the square is compared.
ReversedRoot(p, denominator, kernelDegree) ==
  LET root[d \in 0 .. kernelDegree] ==
        IF d = 0 THEN <<1>>
        ELSE LET r == root[d - 1]
                 known == MapThenSumSet(LAMBDA i : r[i + 1] * r[d - i + 1], 1 .. d - 1)
             IN Append(r, FieldDivide(p, (Coefficient(denominator, d) - known) % p, 2))
  IN root[kernelDegree]

Wronskian(p, f, g) == PolySub(p, PolyMul(p, Derivative(p, f), g), PolyMul(p, f, Derivative(p, g)))

\* f^3 + a f g^2 + b g^3
Homogeneous(p, a, b, f, g, squared) ==
  LET cubic(h, c) == ScalarMul(p, PolyMul(p, h, squared), c)
  IN PolyAdd(p, PolyMul(p, f, PolyMul(p, f, f)), PolyAdd(p, cubic(f, a), cubic(g, b)))

\* rational_isogeny_equation_holds
EquationHolds(source, target, f, g) ==
  LET w == Wronskian(source.p, f, g)
  IN PolyMul(source.p, CurveRhs(source), PolyMul(source.p, w, w))
       = PolyMul(source.p, g, Homogeneous(source.p, target.a, target.b, f, g, PolyMul(source.p, g, g)))

\* validate_rational_isogeny_impl: what is wrong with a map, if anything.
MapFault(source, target, ell, map) ==
  LET p == source.p
      coprime(f, g) == Degree(PolyGcd(p, f, g)) = 0
      deg == GreaterOf(Degree(map.numerator), Degree(map.denominator))
  IN IF Degree(map.kernel) # (ell - 1) \div 2 \/ Last(map.kernel) # 1 THEN "internal"
     ELSE IF \/ ~coprime(map.kernel, Derivative(p, map.kernel))
             \/ ~coprime(map.numerator, map.denominator) THEN "incompatible"
     ELSE IF deg # ell \/ PolyMul(p, map.kernel, map.kernel) # map.denominator THEN "internal"
     ELSE IF EquationHolds(source, target, map.numerator, map.denominator) THEN "none"
     ELSE "incompatible"

-----------------------------------------------------------------------------
(* Kernels.                                                                *)

\* velu_codomain_reference, from the power sums of the kernel's roots.
VeluCodomain(curve, kernel) ==
  LET p  == curve.p
      d  == Degree(kernel)
      e1 == -Coefficient(kernel, d - 1)
      e2 == IF d >= 2 THEN Coefficient(kernel, d - 2) ELSE 0
      e3 == IF d >= 3 THEN -Coefficient(kernel, d - 3) ELSE 0
      s2 == (e1 * e1 - 2 * e2) % p
      s3 == (e1 * s2 - e2 * e1 + 3 * e3) % p
      t  == (6 * s2 + 2 * d * curve.a) % p
      w  == (10 * s3 + 6 * curve.a * e1 + 4 * d * curve.b) % p
  IN [p |-> p, a |-> (curve.a - 5 * t) % p, b |-> (curve.b - 7 * w) % p]

BmssPrecision(ell) == 4 * ell + 4

\* The check against psi_ell and Velu is made for the levels up to 31, which
\* every modelled one is.
CheckedMap(source, target, ell, map, fault) ==
  IF fault # "none" THEN Nothing(fault)
  ELSE IF \/ PolyMod(source.p, DivisionPolynomial(source, ell), map.kernel) # <<>>
          \/ VeluCodomain(source, map.kernel) # target
  THEN Nothing("internal")
  ELSE map

FaultChecked(source, target, ell, map) ==
  CheckedMap(source, target, ell, map, MapFault(source, target, ell, map))

\* The kernel polynomial is the reversed root of the denominator.
MapOf(source, target, ell, pade, root) ==
  IF PolyMul(source.p, root, root) # pade[2] THEN Nothing("incompatible")
  ELSE FaultChecked(source, target, ell,
         [ kind |-> "isogeny", kernel |-> Reverse(root),
           numerator |-> Reverse(pade[1]), denominator |-> Reverse(pade[2]) ])

RootedMap(source, target, ell, pade) ==
  IF pade = <<>> THEN Nothing("incompatible")
  ELSE IF Degree(pade[1]) # ell \/ Degree(pade[2]) # ell - 1 THEN Nothing("incompatible")
  ELSE MapOf(source, target, ell, pade, ReversedRoot(source.p, pade[2], (ell - 1) \div 2))

\* With t(z^2) z the series and u the reciprocal of t^2: u is the map in 1 / x.
MapFromOdd(source, target, ell, t) ==
  RootedMap(source, target, ell,
    PadeReconstruct(source.p,
      ReciprocalSeries(source.p, Computed([d \in 1 .. Len(t) |-> Convolution(source.p, t, t, d - 1)])),
      ell, ell - 1))

MapFromSeries(source, target, ell, s) ==
  IF \/ s[6] # FieldDivide(source.p, (target.a - source.a) % source.p, 10)
     \/ s[8] # FieldDivide(source.p, (target.b - source.b) % source.p, 14)
     \/ \E i \in DOMAIN s : i % 2 = 1 /\ s[i] # 0
  THEN Nothing("internal")
  ELSE MapFromOdd(source, target, ell, Computed([i \in 1 .. Len(s) \div 2 |-> s[2 * i]]))

\* bmss_isogeny_reference: the isogeny with the equations of both ends. Its
\* divisions by the series' indices need a large enough characteristic.
Bmss(source, target, ell) ==
  MapFromSeries(source, target, ell, SolveIsogenySeries(source, target, BmssPrecision(ell)))

=============================================================================
