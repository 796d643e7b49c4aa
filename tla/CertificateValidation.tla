------------------------ MODULE CertificateValidation ------------------------
(***************************************************************************)
(* The native validator on every claimed certificate over a small modulus, *)
(* prime or not (validate_montgomery_certificate).                         *)
(***************************************************************************)
EXTENDS MontgomeryOrder, MontgomeryCurves

CONSTANT Moduli   \* odd, above three

ASSUME ModuliAssumption == \A p \in Moduli : p > 3 /\ p % 2 = 1

VARIABLES claim, verdict

validation == <<claim, verdict>>

ValidateInit ==
  /\ \E p \in Moduli : \E A, x \in 0 .. p - 1, order \in 1 .. Bounds(p).hasse + 1 :
       \E large \in {<<>>, LargePrimes(PrimesOf(order), Bounds(p))} :
         claim = [prime |-> p, coefficient |-> A, x |-> x, order |-> order,
                  large |-> large]
  /\ verdict = "pending"

Validate ==
  /\ verdict = "pending"
  /\ verdict' = IF Valid(claim) THEN "accepted" ELSE "rejected"
  /\ UNCHANGED claim

NoValidation == claim = [prime |-> 0] /\ verdict = "none"

-----------------------------------------------------------------------------
(* Properties.                                                             *)

\* The orders of all points over the prime moduli, once.
ClaimedOrders ==
  [p \in {q \in Moduli : IsPrime(q)} |->
     [A \in 0 .. p - 1 |-> [x \in 0 .. p - 1 |-> PointOrder(p, A, x)]]]

\* AcceptedExactly: an accepted certificate is a proof: its modulus is prime,
\* although the arithmetic runs modulo a number that may well be composite and a
\* zero must be told from a zero divisor at every gcd (has_unit_z,
\* is_genuine_infinity); and over a prime the x-only ladder, whose formulas
\* degenerate at infinity and at (0, 0), accepts exactly the points of the
\* claimed order (validate_montgomery_certificate).
AcceptedExactly ==
  /\ verdict = "accepted" => IsPrime(claim.prime)
  /\ (verdict \in {"accepted", "rejected"} /\ IsPrime(claim.prime)) =>
       LET p      == claim.prime
           bounds == Bounds(p)
       IN verdict = "accepted" <=>
            /\ InWindow(claim.order, bounds)
            /\ (claim.coefficient * claim.coefficient - 4) % p # 0
            /\ claim.large = LargePrimes(PrimesOf(claim.order), bounds)
            /\ ClaimedOrders[p][claim.coefficient][claim.x] = claim.order

=============================================================================
