--------------------------- MODULE MontgomeryOrder ---------------------------
(***************************************************************************)
(* x-only arithmetic on By^2 = x^3 + Ax^2 + x over Z/p and the exact-order *)
(* tests built on it (certificate.cpp).  A point is a pair X : Z.  p need  *)
(* not be prime: a certificate is what proves that it is.                  *)
(***************************************************************************)
EXTENDS CertificateBounds

Point(x, z) == [x |-> x, z |-> z]

Coprime(a, p) == \A d \in 2 .. p : ~(Divides(d, a) /\ Divides(d, p))

Square(a, p) == (a * a) % p

\* xdbl
Double(p, A, P) ==
  LET xz == (P.x * P.z) % p
  IN Point(Square((P.x * P.x - P.z * P.z) % p, p),
           (4 * xz * ((P.x * P.x + A * xz + P.z * P.z) % p)) % p)

\* xadd, given the difference of the two points.
Add(p, P, Q, difference) ==
  LET a == ((P.x - P.z) * (Q.x + Q.z)) % p
      b == ((P.x + P.z) * (Q.x - Q.z)) % p
  IN Point((difference.z * Square((a + b) % p, p)) % p,
           (difference.x * Square((a - b) % p, p)) % p)

\* The bits of a scalar below the leading one, most significant first.
LowerBits(k) == [i \in 1 .. BitLength(k) - 1 |-> (k \div 2 ^ (BitLength(k) - 1 - i)) % 2]

\* montgomery_ladder: the pair is kept at kP and (k + 1)P.
Ladder(p, A, k, P) ==
  IF k = 0 THEN Point(1, 0)
  ELSE FoldLeft(
         LAMBDA r, bit :
           LET sum == Add(p, r.lower, r.upper, P)
           IN IF bit = 0 THEN [lower |-> Double(p, A, r.lower), upper |-> sum]
              ELSE [lower |-> sum, upper |-> Double(p, A, r.upper)],
         [lower |-> P, upper |-> Double(p, A, P)],
         LowerBits(k)).lower

IsGenuineInfinity(P, p) == P.z = 0 /\ Coprime(P.x, p)

HasUnitZ_NonZero(P, p) == P.z # 0

HasUnitZ(P, p) == Coprime(P.z, p)

-----------------------------------------------------------------------------
(* montgomery_has_exact_order.                                             *)

ProductOf(s) == FoldLeft(LAMBDA a, b : a * b, 1, s)

\* check_order_tree: the point times all the primes but one, for each prime.
RECURSIVE CheckOrderTree(_, _, _, _)
CheckOrderTree(p, A, P, primes) ==
  IF Len(primes) <= 1 THEN Len(primes) = 0 \/ HasUnitZ(P, p)
  ELSE LET middle == Len(primes) \div 2
           left   == SubSeq(primes, 1, middle)
           right  == SubSeq(primes, middle + 1, Len(primes))
       IN /\ CheckOrderTree(p, A, Ladder(p, A, ProductOf(left), P), right)
          /\ CheckOrderTree(p, A, Ladder(p, A, ProductOf(right), P), left)

\* validate_distinct_factors
ValidFactors(order, primes) ==
  /\ order > 1 /\ primes # <<>>
  /\ \A i \in 1 .. Len(primes) :
       /\ IsPrime(primes[i]) /\ Divides(primes[i], order)
       /\ i > 1 => primes[i - 1] < primes[i]

IsAnnihilated(p, A, P, order) == IsGenuineInfinity(Ladder(p, A, order, P), p)

HasExactOrder(p, A, P, order, primes) ==
  /\ ValidFactors(order, primes)
  /\ IsAnnihilated(p, A, P, order)
  /\ CheckOrderTree(p, A, Ladder(p, A, order \div ProductOf(primes), P), primes)

-----------------------------------------------------------------------------
(* project_to_candidate_order.                                             *)

NoPoint == [x |-> 0, z |-> 0]

\* Order exponent of the q-component of a point, by repeated multiplication;
\* one more than the limit when it does not vanish.
ComponentExponent(p, A, q, limit, component) ==
  LET powers == FoldLeft(LAMBDA s, i : Append(s, Ladder(p, A, q, s[Len(s)])),
                         <<component>>, [i \in 1 .. limit |-> i])
      gone   == {i \in 1 .. limit + 1 : IsGenuineInfinity(powers[i], p)}
  IN IF gone = {} THEN limit + 1 ELSE Min(gone) - 1

\* The part of the group order made of the primes of the target.
Retained(order, primes) ==
  ProductOf([i \in 1 .. Len(primes) |-> primes[i] ^ Valuation(order, primes[i])])

\* What is left in excess of the target, or 0 if some component falls short.
Excess(p, A, order, target, primes, P) ==
  LET retained == Retained(order, primes)
      limit == [i \in 1 .. Len(primes) |-> Valuation(order, primes[i])]
      goal  == [i \in 1 .. Len(primes) |-> Valuation(target, primes[i])]
      found == [i \in 1 .. Len(primes) |->
                  ComponentExponent(p, A, primes[i], limit[i],
                    Ladder(p, A, retained \div primes[i] ^ limit[i], P))]
  IN IF \E i \in 1 .. Len(primes) : found[i] > limit[i] \/ found[i] < goal[i] THEN 0
     ELSE ProductOf([i \in 1 .. Len(primes) |-> primes[i] ^ (found[i] - goal[i])])

\* Both ladders must end in a proper point.
Project(p, A, order, target, primes, P) ==
  LET cleared == Ladder(p, A, order \div Retained(order, primes), P)
      excess  == Excess(p, A, order, target, primes, cleared)
      result  == Ladder(p, A, excess, cleared)
  IN IF HasUnitZ(cleared, p) /\ excess # 0 /\ HasUnitZ(result, p) THEN result ELSE NoPoint

-----------------------------------------------------------------------------
(* validate_montgomery_certificate.                                        *)

\* A certificate: prime, coefficient, x, order and its large primes.
Valid(certificate) ==
  LET p      == certificate.prime
      A      == certificate.coefficient
      bounds == Bounds(p)
      primes == PrimesOf(certificate.order)
  IN /\ p > 3 /\ p % 2 = 1
     /\ A \in 0 .. p - 1 /\ certificate.x \in 0 .. p - 1
     /\ certificate.order <= bounds.hasse
     /\ InWindow(certificate.order, bounds)
     /\ Coprime(A * A - 4, p)
     /\ \A i \in 1 .. Len(primes) : primes[i] <= bounds.n4
     /\ certificate.large = LargePrimes(primes, bounds)
     /\ HasExactOrder(p, A, Point(certificate.x, 1), certificate.order, primes)

=============================================================================
