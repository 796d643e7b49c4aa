---------------------------- MODULE AtkinResidues ----------------------------
(***************************************************************************)
(* atkin_trace_residues_from_projective_order (trace.cpp), one residue per *)
(* step, over every small prime level, characteristic modulo the level and *)
(* projective order.                                                       *)
(***************************************************************************)
EXTENDS FrobeniusOrder

CONSTANT Ells   \* odd primes

ASSUME EllsAssumption == \A ell \in Ells : ell \in Nat /\ ell % 2 = 1 /\ SmallPrime(ell)

VARIABLES level, field, order, trace, residues

collection == <<level, field, order, trace, residues>>

Called(ell, p, n) ==
  level = ell /\ field = p /\ order = n /\ trace = 0 /\ residues = {}

CollectInit ==
  \E ell \in Ells :
    \E p \in 1 .. ell - 1, n \in {m \in 2 .. ell + 1 : (ell + 1) % m = 0} :
      Called(ell, p, n)

Collect ==
  /\ trace < level
  /\ residues' = residues \cup
       {t \in {trace} : IsAtkinResidue(level, field, order, t)}
  /\ trace' = trace + 1
  /\ UNCHANGED <<level, field, order>>

-----------------------------------------------------------------------------
(* A property, against powers taken one at a time.                         *)

LeastScalarPower(t) ==
  LET power[k \in 1 .. level + 1] ==
        IF k = 1 THEN Frobenius(field, t, level)
        ELSE MatrixMul(power[k - 1], Frobenius(field, t, level), level)
  IN CHOOSE k \in 1 .. level + 1 :
       IsScalar(power[k]) /\ \A i \in 1 .. k - 1 : ~IsScalar(power[i])

Irreducible(t) == \A x \in 0 .. level - 1 : (x * x - t * x + field) % level # 0

\* NoTraceMissed: the residues collected so far are exactly those whose
\* characteristic polynomial is irreducible and whose Frobenius has the
\* observed order in PGL_2; a trace that is missing here would be lost to the
\* search (projective_frobenius_order, its bound and its trimming).
NoTraceMissed ==
  residues = {t \in 0 .. trace - 1 : Irreducible(t) /\ LeastScalarPower(t) = order}

=============================================================================
