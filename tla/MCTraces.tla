------------------------------ MODULE MCTraces ------------------------------
(***************************************************************************)
(* What the program learns of a trace, one use of it in a behaviour: the   *)
(* life of a TraceConstraints object, the collection of the residues an    *)
(* Atkin level allows, a count or a probe of the torsion, or the Elkies    *)
(* levels of one curve.                                                    *)
(***************************************************************************)
EXTENDS TraceRefinement, AtkinResidues, ElkiesLevel

VARIABLE call

everything == <<call, vars, collection, torsion, elkies>>

-----------------------------------------------------------------------------
(* The instances.                                                          *)

Curve(q, a, b) == [p |-> q, a |-> a, b |-> b]

\* Every curve over F_7, and some over F_11.
MCCounted ==
  {c \in {[curve |-> Curve(7, a, b), maxEll |-> 5] : a \in 0 .. 6, b \in 0 .. 6}
           \cup {[curve |-> Curve(11, a, b), maxEll |-> 5] : a \in {0, 1}, b \in 0 .. 3} :
     ~IsSingular(c.curve)}

\* The 5-torsion of the last one is rational: six subgroups, scalar Frobenius.
MCProbed ==
  {c \in {[curve |-> Curve(q, a, b), ell |-> 3] : q \in {7, 11}, a \in 0 .. 3, b \in 0 .. 6}
           \cup {[curve |-> Curve(q, a, b), ell |-> 5] : q \in {11, 19}, a \in 0 .. 2, b \in 0 .. 2} :
     ~IsSingular(c.curve)}
  \cup {[curve |-> Curve(31, 0, 11), ell |-> 5]}

\* A curve with invariant j, not 0 or 1728.
WithInvariant(q, j) ==
  LET k == FieldDivide(q, j, (1728 - j) % q) IN Curve(q, (3 * k) % q, (2 * k) % q)

\* The Weber modular polynomials of levels 5 and 7, as <<i, j, coefficient>>.
MCModularPolynomials ==
  [ell \in {5, 7} |->
     IF ell = 5 THEN {<<6, 0, 1>>, <<0, 6, 1>>, <<5, 5, -1>>, <<1, 1, 4>>}
     ELSE {<<8, 0, 1>>, <<0, 8, 1>>, <<7, 7, -1>>, <<4, 4, 7>>, <<1, 1, -8>>}]

\* Curves with compatible, incompatible and exceptional neighbours, with two
\* levels, and with scalar Frobenius on the 5-torsion (p = 179, six kernels).
MCLevels ==
  {[curve |-> WithInvariant(r[1], r[2]), levels |-> r[3], orbitReuse |-> o, conjugateReuse |-> c]
     : o \in BOOLEAN, c \in BOOLEAN,
       r \in {<<47, 26, <<5>>>>, <<59, 15, <<5>>>>, <<61, 9, <<5>>>>, <<67, 9, <<7, 5>>>>,
              <<71, 56, <<5, 7>>>>, <<179, 68, <<5>>>>}}
  \cup {[curve |-> WithInvariant(73, 56), levels |-> <<7, 5>>, orbitReuse |-> TRUE, conjugateReuse |-> c]
     : c \in BOOLEAN}

-----------------------------------------------------------------------------

Idle == Init /\ Called(CHOOSE ell \in Ells : TRUE, 0, 0)

MCInit ==
  \/ call = "refine"  /\ Idle /\ NoTorsion /\ NoElkies
  \/ call = "collect" /\ CollectInit /\ Init /\ prime = (CHOOSE q \in Primes : TRUE)
                      /\ NoTorsion /\ NoElkies
  \/ call = "torsion" /\ Idle /\ prime = (CHOOSE q \in Primes : TRUE)
                      /\ (CountInit \/ ProbeInit) /\ NoElkies
  \/ call = "elkies"  /\ Idle /\ prime = (CHOOSE q \in Primes : TRUE)
                      /\ NoTorsion /\ ElkiesInit

MCNext ==
  \/ call = "refine"  /\ Next       /\ UNCHANGED <<call, collection, torsion, elkies>>
  \/ call = "collect" /\ Collect    /\ UNCHANGED <<call, vars, torsion, elkies>>
  \/ call = "torsion" /\ AskTorsion /\ UNCHANGED <<call, vars, collection, elkies>>
  \/ call = "elkies"  /\ RunLevels  /\ UNCHANGED <<call, vars, collection, torsion>>

MCSpec == MCInit /\ [][MCNext]_everything

=============================================================================
