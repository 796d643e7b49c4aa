--------------------------- MODULE FrobeniusOrder ---------------------------
(***************************************************************************)
(* What the class of a curve modulo a small prime ell says of its trace    *)
(* (trace.cpp): the companion matrix of x^2 - t x + p over F_ell stands    *)
(* for Frobenius, its order in PGL_2 for the degree of the factors of the  *)
(* classical modular polynomial.                                           *)
(***************************************************************************)
EXTENDS Integers

SmallPrime(n) == n > 1 /\ \A d \in 2 .. n - 1 : n % d # 0

\* pow_mod by repeated squaring; the products are 128 bits wide in the code.
PowMod(base, exponent, m) ==
  LET pow[e \in 0 .. exponent] ==
        IF e = 0 THEN 1 % m
        ELSE LET half == pow[e \div 2]
                 square == (half * half) % m
             IN IF e % 2 = 1 THEN (square * base) % m ELSE square
  IN pow[exponent]

\* Euler's criterion; ell is an odd prime.
LegendreSmall(value, ell) ==
  LET symbol == PowMod(value % ell, (ell - 1) \div 2, ell)
  IN IF value % ell = 0 THEN 0 ELSE IF symbol = 1 THEN 1 ELSE -1

Discriminant(p, trace, ell) == (trace * trace - 4 * p) % ell

\* Exact residues come from rational isogenies, Atkin residues from their absence.
HasRationalIsogeny(p, trace, ell) == LegendreSmall(Discriminant(p, trace, ell), ell) >= 0

TraceResiduesFromClassification(ell, p, rational) ==
  {trace \in 0 .. ell - 1 : HasRationalIsogeny(p, trace, ell) = rational}

-----------------------------------------------------------------------------
(* Matrices <<a, b, c, d>> over F_ell.                                     *)

MatrixMul(x, y, m) ==
  << (x[1] * y[1] + x[2] * y[3]) % m, (x[1] * y[2] + x[2] * y[4]) % m,
     (x[3] * y[1] + x[4] * y[3]) % m, (x[3] * y[2] + x[4] * y[4]) % m >>

MatrixPow(base, exponent, m) ==
  LET pow[e \in 0 .. exponent] ==
        IF e = 0 THEN <<1, 0, 0, 1>>
        ELSE LET square == MatrixMul(pow[e \div 2], pow[e \div 2], m)
             IN IF e % 2 = 1 THEN MatrixMul(square, base, m) ELSE square
  IN pow[exponent]

IsScalar(x) == x[2] = 0 /\ x[3] = 0 /\ x[1] = x[4]

Frobenius(p, trace, ell) == <<0, (-p) % ell, 1, trace % ell>>

\* A multiple of the order, by the splitting of the characteristic polynomial.
OrderBound(ell, p, trace) ==
  LET character == LegendreSmall(Discriminant(p, trace, ell), ell)
  IN IF character < 0 THEN ell + 1 ELSE IF character > 0 THEN ell - 1 ELSE ell

DistinctPrimeDivisors(n) == {q \in 2 .. n : SmallPrime(q) /\ n % q = 0}

Trimmed_Once(order, divisor, frobenius, ell) ==
  IF order % divisor = 0 /\ IsScalar(MatrixPow(frobenius, order \div divisor, ell))
  THEN order \div divisor ELSE order

\* Divide a prime out of the bound as long as a smaller power is scalar.
Trimmed(order, divisor, frobenius, ell) ==
  LET trim[n \in 1 .. order] ==
        IF n % divisor = 0 /\ IsScalar(MatrixPow(frobenius, n \div divisor, ell))
        THEN trim[n \div divisor] ELSE n
  IN trim[order]

\* The prime divisors of the bound in ascending order.
ProjectiveFrobeniusOrder(ell, p, trace) ==
  LET bound == OrderBound(ell, p, trace)
      reduced[q \in 1 .. bound] ==
        IF q = 1 THEN bound
        ELSE IF q \in DistinctPrimeDivisors(bound)
        THEN Trimmed(reduced[q - 1], q, Frobenius(p, trace, ell), ell)
        ELSE reduced[q - 1]
  IN reduced[bound]

IsAtkinResidue(ell, p, order, trace) ==
  /\ ~HasRationalIsogeny(p, trace, ell)
  /\ ProjectiveFrobeniusOrder(ell, p, trace) = order

AtkinTraceResidues(ell, p, order) ==
  {trace \in 0 .. ell - 1 : IsAtkinResidue(ell, p, order, trace)}

=============================================================================
