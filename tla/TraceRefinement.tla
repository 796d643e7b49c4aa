--------------------------- MODULE TraceRefinement ---------------------------
(***************************************************************************)
(* The life of one TraceConstraints object: refine and refine_exact in any *)
(* order, with any coprime moduli and any allowed residues, also empty and *)
(* contradictory ones.                                                     *)
(***************************************************************************)
EXTENDS TraceConstraints

CONSTANTS Primes,   \* characteristics p, odd and greater than 3
          Moduli    \* moduli offered to refine

ASSUME PrimesAssumption == \A p \in Primes : p \in Nat /\ p > 3 /\ p % 2 = 1
ASSUME ModuliAssumption == Moduli \subseteq Nat

VARIABLES
  prime, tc,
  imposed,   \* the residues each merged modulus was restricted to
  rejected   \* the latest exact residue refine_exact refused

vars == <<prime, tc, imposed, rejected>>

Init ==
  /\ prime \in Primes
  /\ tc = Unconstrained
  /\ imposed = [ell \in {} |-> {}]
  /\ rejected = {}

Impose(ell, allowed) ==
  imposed' = [m \in DOMAIN imposed \cup {ell} |->
                IF m = ell THEN {a % ell : a \in allowed} ELSE imposed[m]]

\* The classes may become empty: refine allows that.
DoRefine(ell, allowed) ==
  /\ Refinable(tc, ell)
  /\ tc' = Refine(tc, ell, allowed)
  /\ Impose(ell, allowed)
  /\ UNCHANGED <<prime, rejected>>

\* The exception of refine_exact leaves the object as it was.
DoRefineExact(ell, residue) ==
  /\ Refinable(tc, ell)
  /\ tc' = ExactRefinement(prime, tc, ell, residue)
  /\ IF CandidateCount(prime, Refine(tc, ell, {residue})) = 0
       THEN rejected' = {<<ell, residue % ell>>} /\ UNCHANGED imposed
       ELSE Impose(ell, {residue}) /\ UNCHANGED rejected
  /\ UNCHANGED prime

\* Callers pass canonical residues; one that is not is reduced.
Next ==
  \E ell \in Moduli :
    \/ \E allowed \in SUBSET (1 .. ell) : DoRefine(ell, allowed)
    \/ \E residue \in 1 .. ell : DoRefineExact(ell, residue)

Spec == Init /\ [][Next]_vars

-----------------------------------------------------------------------------
(* Properties.                                                             *)

\* The Hasse interval and what satisfies everything imposed, by definition.
Traces(p) == {t \in -p .. p : t * t <= 4 * p}

Compatible(r) == \A ell \in DOMAIN imposed : r % ell \in imposed[ell]

\* ExactlyImposed: however the refinements are ordered, the merged classes
\* are exactly the residues that satisfy each of them, so the true trace is
\* kept as long as every step allows it, and nothing else slips in (refine).
ExactlyImposed ==
  tc.residues = {r \in 0 .. tc.modulus - 1 : Compatible(r)}

\* RejectedMeansImpossible: refine_exact refuses a residue only if no trace
\* that is still possible has it, and refusing changed nothing.
RejectedMeansImpossible ==
  \A pair \in rejected :
    \A t \in Traces(prime) : Compatible(t) => t % pair[1] # pair[2]

=============================================================================
