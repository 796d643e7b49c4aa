-------------------------- MODULE CertificateBounds --------------------------
(***************************************************************************)
(* The numeric side conditions of a certificate over F_p and the greedy    *)
(* choice of a point order (certificate.cpp and the vendored cert_bounds   *)
(* and build_m2 it calls).                                                 *)
(***************************************************************************)
EXTENDS Integers, SequencesExt, FiniteSetsExt

\* mpz_sqrt
Isqrt(n) == CHOOSE r \in 0 .. n : r * r <= n /\ n < (r + 1) * (r + 1)

\* mpz_pow_ui, and the loops that multiply a prime in.
Power(base, exponent) ==
  LET power[e \in Nat] == IF e = 0 THEN 1 ELSE power[e - 1] * base
  IN power[exponent]

BitLength(n) == CHOOSE b \in 1 .. n : Power(2, b - 1) <= n /\ n < Power(2, b)

\* canonical_certificate_bounds
Bounds(p) ==
  LET root == Isqrt(p) IN
  [n2    |-> Power(BitLength(p), 2),
   n4    |-> Power(BitLength(p), 4),
   lower |-> root + 1 + Isqrt(4 * root),
   hasse |-> p + 1 + Isqrt(4 * p)]

HasseLower(p) == 2 * (p + 1) - Bounds(p).hasse

Divides(d, n) == n % d = 0
IsPrime(n) == n > 1 /\ \A d \in 2 .. Isqrt(n) : ~Divides(d, n)

\* The elements of a set of numbers in their order.
Ascending(S) ==
  [i \in 1 .. Cardinality(S) |-> CHOOSE q \in S : Cardinality({r \in S : r < q}) = i - 1]

\* factor_known_smooth: distinct primes, increasing, and their exponents.
PrimesOf(n) == Ascending({q \in 2 .. n : Divides(q, n) /\ IsPrime(q)})

Valuation(n, q) ==
  CHOOSE e \in 0 .. n : Divides(Power(q, e), n) /\ ~Divides(Power(q, e + 1), n)

Factorization(n) ==
  LET primes == PrimesOf(n)
  IN [primes |-> primes, exponents |-> [i \in 1 .. Len(primes) |-> Valuation(n, primes[i])]]

\* The primes a certificate lists.
LargePrimes(primes, bounds) == SelectSeq(primes, LAMBDA q : q > bounds.n2 /\ q < bounds.n4)

-----------------------------------------------------------------------------
(* prepare_certificate_candidate and build_m2.                             *)

\* A prime multiplied in with its exponent, until the product exceeds the bound.
MultipliedUp(d, q, exponent, lower) ==
  LET product[e \in Nat] ==
        IF e = 0 THEN d
        ELSE IF product[e - 1] > lower THEN product[e - 1] ELSE product[e - 1] * q
  IN product[exponent]

\* The factors from the largest down, until the product first exceeds the bound.
FirstAbove(f, bounds, odd_only) ==
  LET k == Len(f.primes)
      product[j \in 1 .. k + 1] ==
        IF j = k + 1 THEN 1
        ELSE IF f.primes[j] > bounds.n4 \/ (odd_only /\ f.primes[j] = 2) THEN product[j + 1]
        ELSE MultipliedUp(product[j + 1], f.primes[j], f.exponents[j], bounds.lower)
  IN product[1]

\* L < D < L * r, with r the least prime of D.
InWindow(d, bounds) ==
  d > bounds.lower /\ \A r \in 2 .. d \div bounds.lower : ~Divides(r, d)

NoOrder == 0

\* build_m2 and the checks of its answer.
PreferredOrder(f, bounds, odd_only) ==
  LET d == FirstAbove(f, bounds, odd_only)
  IN IF InWindow(d, bounds) THEN d ELSE NoOrder

\* Reasons for which no candidate is even tried.
PrepareFailure(p, order, smooth) ==
  LET bounds == Bounds(p) IN
  IF order < HasseLower(p) \/ order > bounds.hasse THEN "invalid_order"
  ELSE IF smooth <= 0 \/ smooth > order THEN "invalid_smooth_part"
  ELSE IF ~Divides(smooth, order) THEN "smooth_part_not_divisor"
  ELSE IF smooth <= bounds.lower THEN "insufficient_smooth_part"
  ELSE "none"

=============================================================================
