---------------------------- MODULE TorsionPoints ----------------------------
(***************************************************************************)
(* The points of order ell of y^2 = x^3 + a x + b, all at once (schoof.cpp *)
(* and curve.cpp): division polynomials, and Jacobian points whose         *)
(* coordinates u + v y live over the quotient F_p[x]/(h), h the division   *)
(* polynomial or a factor of it. The quotient has zero divisors, so a      *)
(* coordinate may vanish at some of the points only. A curve is            *)
(* [p, a, b], an element <<u, v>>, a point <<X, Y, Z>>; a ring is a record *)
(* with its products and the sum of two points as fields.                  *)
(***************************************************************************)
EXTENDS PolyQuotient

CurveRhs(curve) == Poly(curve.p, <<curve.b, curve.a, 0, 1>>)

IsSingular(curve) == (4 * curve.a * curve.a * curve.a + 27 * curve.b * curve.b) % curve.p = 0

-----------------------------------------------------------------------------
(* Division polynomials; those of even index are v y.                      *)

RawAdd(p, x, y) == <<PolyAdd(p, x[1], y[1]), PolyAdd(p, x[2], y[2])>>
RawNeg(p, x)    == <<PolyNeg(p, x[1]), PolyNeg(p, x[2])>>
RawMul(curve, x, y) ==
  LET times(f, g) == PolyMul(curve.p, f, g)
  IN << PolyAdd(curve.p, times(x[1], y[1]), times(CurveRhs(curve), times(x[2], y[2]))),
        PolyAdd(curve.p, times(x[1], y[2]), times(x[2], y[1])) >>

Elements == Polynomials \X Polynomials

\* The ring of coordinates of the curve, its product and square as functions.
RawRing(curve) ==
  [ p |-> curve.p, a |-> curve.a, b |-> curve.b, rhs |-> CurveRhs(curve),
    times  |-> [x \in Elements, y \in Elements |-> RawMul(curve, x, y)] ]

\* psi_0 to psi_n, at the indices 1 to n + 1: each recurrence uses earlier ones.
RECURSIVE DivisionPolynomials(_, _)
DivisionPolynomials(raw, n) ==
  LET p == raw.p
      a == raw.a
      b == raw.b
      earlier == DivisionPolynomials(raw, n - 1)
      psi(i)  == earlier[i + 1]
      m       == n \div 2
      square(x) == raw.times[x, x]
      cube(x) == raw.times[square(x), x]
      odd     == RawAdd(p, raw.times[psi(m + 2), cube(psi(m))],
                           RawNeg(p, raw.times[psi(m - 1), cube(psi(m + 1))]))
      bracket == RawAdd(p, raw.times[psi(m + 2), square(psi(m - 1))],
                           RawNeg(p, raw.times[psi(m - 2), square(psi(m + 1))]))
      even    == <<<<>>, ScalarMul(p, DivMod(p, raw.times[psi(m), bracket][1], raw.rhs)[1],
                                      FieldInverse(p, 2))>>
      psi3    == Poly(p, <<-a * a, 12 * b, 6 * a, 0, 3>>)
      psi4    == Poly(p, <<4 * (-a * a * a - 8 * b * b), -16 * a * b, -20 * a * a,
                           80 * b, 20 * a, 0, 4>>)
  IN IF n = 4
     THEN << <<<<>>, <<>>>>, <<<<1>>, <<>>>>, <<<<>>, Constant(p, 2)>>,
             <<psi3, <<>>>>, <<<<>>, psi4>> >>
     ELSE Append(earlier, IF n % 2 = 1 THEN odd ELSE even)

DivisionPolynomial(curve, ell) ==
  MonicOf(curve.p, DivisionPolynomials(RawRing(curve), GreaterOf(ell, 4))[ell + 1][1])

-----------------------------------------------------------------------------
(* Elements of the quotient.                                               *)

Element(ring, u, v) == <<PolyMod(ring.p, u, ring.modulus), PolyMod(ring.p, v, ring.modulus)>>
ConstantElement(ring, c) == Element(ring, Constant(ring.p, c), <<>>)
ElementZero == << <<>>, <<>> >>

ElementAdd(ring, x, y) == RawAdd(ring.p, x, y)
ElementNeg(ring, x)    == RawNeg(ring.p, x)
ElementSub(ring, x, y) == RawAdd(ring.p, x, RawNeg(ring.p, y))
ElementScale(ring, x, c) == <<ScalarMul(ring.p, x[1], c), ScalarMul(ring.p, x[2], c)>>

ProductIn(p, context, rhs, x, y) ==
  LET times(f, g) == MulMod(context, f, g)
  IN << PolyAdd(p, times(x[1], y[1]), times(rhs, times(x[2], y[2]))),
        PolyAdd(p, times(x[1], y[2]), times(x[2], y[1])) >>

SquareIn(p, context, rhs, x) ==
  << PolyAdd(p, SquareMod(context, x[1]), MulMod(context, rhs, SquareMod(context, x[2]))),
     ScalarMul(p, MulMod(context, x[1], x[2]), 2) >>

\* The prepared modulus, the reduced curve and the products.
ElementRing(curve, context, rhs) ==
  [ p |-> curve.p, a |-> curve.a, modulus |-> context.modulus, context |-> context, rhs |-> rhs,
    times  |-> [x \in Elements, y \in Elements |-> ProductIn(curve.p, context, rhs, x, y)],
    square |-> [x \in Elements |-> SquareIn(curve.p, context, rhs, x)] ]

ElementMul(ring, x, y) == ring.times[x, y]
ElementSquare(ring, x) == ring.square[x]

RECURSIVE ElementPowBinary(_, _, _)
ElementPowBinary(ring, x, e) ==
  IF e = 0 THEN ConstantElement(ring, 1)
  ELSE LET rest == ElementPowBinary(ring, ElementSquare(ring, x), e \div 2)
       IN IF e % 2 = 1 THEN ElementMul(ring, x, rest) ELSE rest

\* Powers in the polynomial subring take the windowed path.
ElementPow(ring, x, e) ==
  IF x[2] = <<>> THEN Element(ring, Pow(ring.context, x[1], e), <<>>)
  ELSE ElementPowBinary(ring, x, e)

-----------------------------------------------------------------------------
(* Jacobian points.                                                        *)

InfinityOf(ring) == <<ConstantElement(ring, 0), ConstantElement(ring, 1), ConstantElement(ring, 0)>>
GenericOf(ring) ==
  <<Element(ring, PolyX, <<>>), Element(ring, <<>>, <<1>>), ConstantElement(ring, 1)>>
Infinity(ring) == ring.infinity
Generic(ring)  == ring.generic
IsInfinity(P) == P[3] = ElementZero

PointDouble(ring, P) ==
  LET xx == ElementSquare(ring, P[1])
      yy == ElementSquare(ring, P[2])
      zz == ElementSquare(ring, P[3])
      yyyy == ElementSquare(ring, yy)
      s == ElementScale(ring, ElementSub(ring, ElementSub(ring,
             ElementSquare(ring, ElementAdd(ring, P[1], yy)), xx), yyyy), 2)
      m == ElementAdd(ring, ElementScale(ring, xx, 3),
                      ElementScale(ring, ElementSquare(ring, zz), ring.a))
      t == ElementSub(ring, ElementSquare(ring, m), ElementScale(ring, s, 2))
  IN IF IsInfinity(P) \/ P[2] = ElementZero THEN Infinity(ring)
     ELSE << t,
             ElementSub(ring, ElementMul(ring, m, ElementSub(ring, s, t)),
                        ElementScale(ring, yyyy, 8)),
             ElementSub(ring, ElementSub(ring,
               ElementSquare(ring, ElementAdd(ring, P[2], P[3])), yy), zz) >>

\* Only equality at every point of the quotient selects the doubling or
\* infinity; where the points agree at some of them the sum is <<0, 0, 0>>.
PointSum(ring, P, Q) ==
  LET z1z1 == ElementSquare(ring, P[3])
      z2z2 == ElementSquare(ring, Q[3])
      u1 == ElementMul(ring, P[1], z2z2)
      u2 == ElementMul(ring, Q[1], z1z1)
      s1 == ElementMul(ring, ElementMul(ring, P[2], Q[3]), z2z2)
      s2 == ElementMul(ring, ElementMul(ring, Q[2], P[3]), z1z1)
      h == ElementSub(ring, u2, u1)
      i == ElementSquare(ring, ElementScale(ring, h, 2))
      j == ElementMul(ring, h, i)
      r == ElementScale(ring, ElementSub(ring, s2, s1), 2)
      v == ElementMul(ring, u1, i)
      x3 == ElementSub(ring, ElementSub(ring, ElementSquare(ring, r), j), ElementScale(ring, v, 2))
  IN IF IsInfinity(P) THEN Q
     ELSE IF IsInfinity(Q) THEN P
     ELSE IF u1 = u2 /\ s1 = s2 THEN ring.double[P]
     ELSE IF u1 = u2 /\ s1 = ElementNeg(ring, s2) THEN Infinity(ring)
     ELSE << x3,
             ElementSub(ring, ElementMul(ring, r, ElementSub(ring, v, x3)),
                        ElementScale(ring, ElementMul(ring, s1, j), 2)),
             ElementMul(ring, ElementSub(ring, ElementSub(ring,
               ElementSquare(ring, ElementAdd(ring, P[3], Q[3])), z1z1), z2z2), h) >>

Points == Elements \X Elements \X Elements

WithNames(ring) == ring @@ [infinity |-> InfinityOf(ring), generic |-> GenericOf(ring)]

WithDouble(ring) == ring @@ [double |-> [P \in Points |-> PointDouble(ring, P)]]

WithSum(ring) == ring @@ [plus |-> [P \in Points, Q \in Points |-> PointSum(ring, P, Q)]]

\* QuotientRing, with the points over it.
QuotientRing(curve, h) ==
  WithSum(WithDouble(WithNames(
    ElementRing(curve, PolyModContext(curve.p, h), PolyMod(curve.p, CurveRhs(curve), h)))))

PointAdd(ring, P, Q) == ring.plus[P, Q]

PointNeg(ring, P) == <<P[1], ElementNeg(ring, P[2]), P[3]>>

\* Doubling the addend, adding it where n has a bit.
RECURSIVE MultiplyFrom(_, _, _, _)
MultiplyFrom(ring, n, addend, result) ==
  IF n = 0 THEN result
  ELSE MultiplyFrom(ring, n \div 2, ring.double[addend],
                    IF n % 2 = 1 THEN PointAdd(ring, result, addend) ELSE result)

ScalarMultiply(ring, n, P) == MultiplyFrom(ring, n, P, Infinity(ring))

SameX(ring, P, Q) ==
  IF IsInfinity(P) \/ IsInfinity(Q) THEN IsInfinity(P) /\ IsInfinity(Q)
  ELSE ElementMul(ring, P[1], ElementSquare(ring, Q[3]))
         = ElementMul(ring, Q[1], ElementSquare(ring, P[3]))

SamePoint(ring, P, Q) ==
  LET y(R, S) == ElementMul(ring, ElementMul(ring, R[2], ElementSquare(ring, S[3])), S[3])
  IN SameX(ring, P, Q) /\ (IsInfinity(P) \/ y(P, Q) = y(Q, P))

\* Frobenius iterated: x^q and y^q = y rhs^((q - 1) / 2) for q = p or p^2.
FrobeniusPoint(ring, q) ==
  << ElementPow(ring, Element(ring, PolyX, <<>>), q),
     ElementMul(ring, Element(ring, <<>>, <<1>>),
                ElementPow(ring, Element(ring, ring.rhs, <<>>), (q - 1) \div 2)),
     ConstantElement(ring, 1) >>

=============================================================================
