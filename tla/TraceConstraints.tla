-------------------------- MODULE TraceConstraints --------------------------
(***************************************************************************)
(* Residue classes for the trace of Frobenius (class TraceConstraints,     *)
(* trace.cpp): a set of constraints is a modulus and the residues it still *)
(* allows, merged by the Chinese remainder theorem.  Every trace in the    *)
(* Hasse interval congruent to an allowed residue is a candidate.  The     *)
(* code's residues are a sorted vector without repetitions: a set here.    *)
(***************************************************************************)
EXTENDS Integers, FiniteSets, FiniteSetsExt

CONSTANT NoTraces   \* std::nullopt of enumerate()

\* No enumeration is not an empty one.
ASSUME NoTracesAssumption == NoTraces # {}

HasseRadius_TwiceRoot(p) == 2 * (CHOOSE h \in 0 .. p : h * h <= p /\ p < (h + 1) * (h + 1))

\* hasse_radius_: floor(sqrt(4 p))
HasseRadius(p) == CHOOSE h \in 0 .. 4 * p : h * h <= 4 * p /\ 4 * p < (h + 1) * (h + 1)

Hasse(p) == -HasseRadius(p) .. HasseRadius(p)

Unconstrained == [modulus |-> 1, residues |-> {0}]

-----------------------------------------------------------------------------
(* refine: the merge.                                                      *)

Coprime(m, n) == \A d \in 2 .. n : m % d # 0 \/ n % d # 0

\* mpz_invert
IsInverse(i, m, ell) == (m * i) % ell = 1
Invertible(m, ell) == \E i \in 0 .. ell - 1 : IsInverse(i, m % ell, ell)
InverseMod(m, ell) == CHOOSE i \in 0 .. ell - 1 : IsInverse(i, m, ell)

\* What refine insists on before it touches the object.
Refinable(tc, ell) ==
  /\ ell >= 2
  /\ Coprime(tc.modulus, ell)
  /\ Invertible(tc.modulus, ell)

Combined_NoInverse(old, small, m, ell) ==
  (old + m * ((small - old) % ell)) % (m * ell)

\* The residue modulo m * ell that is old modulo m and small modulo ell.
Combined(old, small, m, ell) ==
  LET delta == (small - old) % ell
      step  == (delta * InverseMod(m % ell, ell)) % ell
  IN (old + m * step) % (m * ell)

Refine(tc, ell, allowed) ==
  [modulus  |-> tc.modulus * ell,
   residues |-> {Combined(old, small % ell, tc.modulus, ell) :
                   old \in tc.residues, small \in allowed}]

-----------------------------------------------------------------------------
(* The candidates that are left.                                           *)

\* first_congruent_at_least: the least trace >= lower in the residue class.
FirstAtLeast(lower, residue, m) == residue + (-((residue - lower) \div m)) * m

\* The traces of one residue class, by stepping from the first one.
OfClass(h, residue, m) ==
  LET first == FirstAtLeast(-h, residue, m)
  IN IF first > h THEN {} ELSE {first + k * m : k \in 0 .. (h - first) \div m}

\* candidate_count: counted class by class without enumerating.
ClassCount(h, residue, m) ==
  LET first == FirstAtLeast(-h, residue, m)
  IN IF first > h THEN 0 ELSE (h - first) \div m + 1

CandidateCount(p, tc) ==
  MapThenSumSet(LAMBDA r : ClassCount(HasseRadius(p), r, tc.modulus), tc.residues)

\* enumerate(cap)
Enumerate(p, tc, cap) ==
  IF CandidateCount(p, tc) > cap THEN NoTraces
  ELSE UNION {OfClass(HasseRadius(p), r, tc.modulus) : r \in tc.residues}

\* refine_exact commits its refinement only if a candidate is left.
ExactRefinement(p, tc, ell, residue) ==
  LET updated == Refine(tc, ell, {residue})
  IN IF CandidateCount(p, updated) = 0 THEN tc ELSE updated

=============================================================================
