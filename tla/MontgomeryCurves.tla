-------------------------- MODULE MontgomeryCurves --------------------------
(***************************************************************************)
(* The group a Montgomery coefficient and an abscissa stand for, by the    *)
(* chord-and-tangent definition over a prime field: the reference the      *)
(* x-only code is checked against.                                         *)
(***************************************************************************)
EXTENDS Integers, FiniteSetsExt

Rhs(p, A, x) == (x * x * x + A * x * x + x) % p

Inv(p, a) == CHOOSE b \in 1 .. p - 1 : (a * b) % p = 1

Zero == "zero"

\* Chord and tangent on By^2 = x^3 + Ax^2 + x.
Plus(p, A, B, P, Q) ==
  IF P = Zero THEN Q ELSE IF Q = Zero THEN P
  ELSE IF P[1] = Q[1] /\ (P[2] + Q[2]) % p = 0 THEN Zero
  ELSE LET slope == IF P = Q
                    THEN ((3 * P[1] * P[1] + 2 * A * P[1] + 1) * Inv(p, (2 * B * P[2]) % p)) % p
                    ELSE ((Q[2] - P[2]) * Inv(p, (Q[1] - P[1]) % p)) % p
           x     == (B * slope * slope - A - P[1] - Q[1]) % p
       IN <<x, (slope * (P[1] - x) - P[2]) % p>>

\* The order of the points above x, on the curve or on its twist according to
\* whether Rhs is a square: with B = Rhs the ordinate is one.
PointOrder(p, A, x) ==
  LET B == Rhs(p, A, x)
      multiple[k \in 1 .. 2 * p + 2] ==
        IF k = 1 THEN <<x, 1>> ELSE Plus(p, A, B, multiple[k - 1], <<x, 1>>)
  IN IF B = 0 THEN 2 ELSE Min({k \in 1 .. 2 * p + 2 : multiple[k] = Zero})

\* Field::legendre
Legendre(p, a) ==
  IF a % p = 0 THEN 0 ELSE IF \E y \in 1 .. p - 1 : (y * y - a) % p = 0 THEN 1 ELSE -1

\* Points on the curve (sign = 1) or on the twist (sign = -1).
GroupOrder(p, A, sign) ==
  1 + MapThenSumSet(LAMBDA x : 1 + sign * Legendre(p, Rhs(p, A, x)), 0 .. p - 1)

=============================================================================
