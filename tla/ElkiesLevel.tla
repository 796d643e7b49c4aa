----------------------------- MODULE ElkiesLevel -----------------------------
(***************************************************************************)
(* Elkies levels of one curve (elkies.cpp), as the level schedule asks for *)
(* them: the roots of the Weber modular polynomial above every source      *)
(* lift, found by parallel workers, one orbit of lifts at a time; the      *)
(* kernels and eigenvalues behind the pairs of lifts; and the lifts left   *)
(* for the next level. Beside it the kernels from the factors of the       *)
(* division polynomial (elkies_kernels_division_reference).                *)
(***************************************************************************)
EXTENDS Isogenies, Schoof, PolyComponents

CONSTANTS
  ModularPolynomials,   \* ell -> terms of the Weber modular polynomial
  LevelRequests,        \* [curve, levels, orbitReuse, conjugateReuse]
  RootWorkers           \* root jobs a level may start

ASSUME LevelsAssumption ==
  /\ RootWorkers \in Nat \ {0}
  /\ \A r \in LevelRequests : \A ell \in ToSet(r.levels) :
       /\ ell \in DOMAIN ModularPolynomials /\ ~IsSingular(r.curve)
       /\ 2 * (BmssPrecision(ell) - 1) < r.curve.p

VARIABLES
  request,      \* the curve, the flags and the levels still to run
  stage,        \* "schedule", "roots", "pairs" or "failed"
  lifts,        \* source lifts of the level
  orbits,       \* root orbits: sequences of indices of lifts
  claimed,      \* next_root_orbit
  working,      \* worker -> its orbit, 0 for none, -1 once returned, -2 once thrown
  neighbours,   \* neighbor_sets
  pairs,        \* <<index of a lift, neighbour>> still to process
  cache,        \* codomains seen, each with the index of its kernel or 0
  kernels,      \* [kernel, codomain, eigenvalue, trace]
  compatible    \* compatible_source_lifts of the level

elkies == <<request, stage, lifts, orbits, claimed, working, neighbours, pairs, cache,
            kernels, compatible>>

Eq == request.curve
Ell == Head(request.levels)
Phi == ModularPolynomials[Ell]

NoElkies ==
  /\ request = <<>> /\ stage = "none" /\ lifts = <<>> /\ orbits = <<>> /\ claimed = 0
  /\ working = <<>> /\ neighbours = <<>> /\ pairs = <<>> /\ cache = {} /\ kernels = <<>>
  /\ compatible = <<>>

ElkiesInit ==
  /\ request \in LevelRequests /\ stage = "schedule"
  /\ lifts = WeberLifts(request.curve.p, JInvariant(request.curve))
  /\ orbits = <<>> /\ claimed = 0 /\ working = <<>> /\ neighbours = <<>> /\ pairs = <<>>
  /\ cache = {} /\ kernels = <<>> /\ compatible = <<>>

-----------------------------------------------------------------------------
(* Eigenvalues and traces.                                                 *)

TraceResidue(p, ell, eigenvalue) ==
  (eigenvalue + (p % ell) * InverseMod(eigenvalue, ell)) % ell

ConjugateEigenvalue_Inverse(p, ell, eigenvalue) == InverseMod(eigenvalue, ell)

\* conjugate_frobenius_eigenvalue: the determinant gives the other one.
ConjugateEigenvalue(p, ell, eigenvalue) ==
  ((p % ell) * InverseMod(eigenvalue, ell)) % ell

Consistent(results) == \A i \in DOMAIN results : results[i].trace = results[1].trace

-----------------------------------------------------------------------------
(* The reference path.                                                     *)

\* The prime factors of a component, split by the first element that does.
SplitPart(q, f, exponent, c) == PolyGcd(q, f, PolySub(q, PolyPowMod(q, c, exponent, f), <<1>>))

\* A proper factor, by the first monic quadratic or linear element with one.
ProperPart(q, f, degree) ==
  LET candidates == {Append(c, 1) : c \in [1 .. 2 -> 0 .. q - 1]}
      c == CHOOSE c \in candidates :
             Degree(SplitPart(q, f, (q ^ degree - 1) \div 2, c)) \in 1 .. Degree(f) - 1
  IN SplitPart(q, f, (q ^ degree - 1) \div 2, c)

RECURSIVE EqualDegreeFactors(_, _, _), FactorsWithPart(_, _, _, _)
EqualDegreeFactors(q, f, degree) ==
  IF Degree(f) = degree THEN {f} ELSE FactorsWithPart(q, f, degree, ProperPart(q, f, degree))

FactorsWithPart(q, f, degree, part) ==
  EqualDegreeFactors(q, part, degree) \cup EqualDegreeFactors(q, ExactQuotient(q, f, part), degree)

\* factor_polynomial of psi_ell; factors too large for a kernel stay together.
FactorsOfComponents(q, components, largest) ==
  UNION {IF c.degree > largest THEN {c.poly} ELSE EqualDegreeFactors(q, c.poly, c.degree)
           : c \in ToSet(components)}

TorsionFactors(curve, ell) ==
  FactorsOfComponents(curve.p, FactorComponents(curve.p, DivisionPolynomial(curve, ell)),
                      (ell - 1) \div 2)

\* assemble_kernel_divisors: the products of factors of the wanted degree.
RECURSIVE KernelDivisors(_, _, _)
KernelDivisors(q, factors, degree) ==
  IF degree = 0 THEN {<<1>>}
  ELSE UNION {{PolyMul(q, f, g) : g \in KernelDivisors(q, factors \ {f}, degree - Degree(f))}
                : f \in {f \in factors : Degree(f) <= degree}}

LinesOf(curve, ell, kernel, value) ==
  IF value = 0 THEN {}
  ELSE {[ kernel |-> kernel, codomain |-> VeluCodomain(curve, kernel), eigenvalue |-> value,
          trace |-> TraceResidue(curve.p, ell, value) ]}

DivisionKernels(curve, ell) ==
  UNION {LinesOf(curve, ell, k, Eigenvalue(curve, k, ell))
           : k \in KernelDivisors(curve.p, TorsionFactors(curve, ell), (ell - 1) \div 2)}

-----------------------------------------------------------------------------
(* The roots above the source lifts.                                       *)

\* has_weber_root_covariance, for the terms with a nonzero coefficient.
Covariant(ell, terms) ==
  \A t \in terms : (t[1] + ell * t[2]) % 24 = (ell + 1) % 24

SingleOrbits(n) == [i \in 1 .. n |-> <<i>>]

\* make_weber_root_orbits: lifts with one 24th power, in order of appearance.
RootOrbits(p, ell, terms, sources, reuse) ==
  LET power(i)  == WeberPower(p, sources[i])
      orbit(i)  == SelectSeq([k \in DOMAIN sources |-> k], LAMBDA k : power(k) = power(i))
      first(i)  == orbit(i)[1] = i
      leaders   == SelectSeq([k \in DOMAIN sources |-> k], first)
  IN IF reuse /\ Covariant(ell, terms) THEN [j \in DOMAIN leaders |-> orbit(leaders[j])]
     ELSE SingleOrbits(Len(sources))

\* The roots above zeta f from those above f.
MappedRoots(p, ell, roots, zeta) ==
  LET scale == FieldPower(p, zeta, ell)
  IN Increasing(p, LAMBDA x : \E i \in DOMAIN roots : x = (scale * roots[i]) % p)

RootsAbove(p, terms, f) == LinearRoots(p, EvaluateX(p, terms, f))

\* As many workers as bounded_worker_count allows.
BeginLevel ==
  /\ stage = "schedule" /\ request.levels # <<>> /\ lifts # <<>>
  /\ orbits' = RootOrbits(Eq.p, Ell, Phi, lifts, request.orbitReuse)
  /\ working' = [w \in 1 .. LesserOf(RootWorkers, Len(orbits')) |-> 0]
  /\ claimed' = 0 /\ neighbours' = [i \in DOMAIN lifts |-> <<>>]
  /\ cache' = {} /\ kernels' = <<>> /\ compatible' = <<>>
  /\ stage' = "roots"
  /\ UNCHANGED <<request, lifts, pairs>>

\* fetch_add on next_root_orbit.
ClaimOrbit(w) ==
  /\ stage = "roots" /\ working[w] = 0
  /\ claimed' = claimed + 1
  /\ working' = [working EXCEPT ![w] = IF claimed < Len(orbits) THEN claimed + 1 ELSE -1]
  /\ UNCHANGED <<request, stage, lifts, orbits, neighbours, pairs, cache, kernels, compatible>>

\* The representative's roots, then those of the other members; a ratio that is
\* no 24th root of unity is an exception, which ends the worker.  Splitting the
\* roots may run out of its attempts: that is a matter of PolyFactors.
FindRoots(w) ==
  /\ stage = "roots" /\ working[w] > 0
  /\ LET orbit   == orbits[working[w]]
         leader  == lifts[orbit[1]]
         roots   == RootsAbove(Eq.p, Phi, leader)
         zeta(i) == FieldDivide(Eq.p, lifts[i], leader)
     IN /\ neighbours' = [i \in DOMAIN neighbours |->
             IF i = orbit[1] THEN roots
             ELSE IF i \in ToSet(orbit) THEN MappedRoots(Eq.p, Ell, roots, zeta(i))
             ELSE neighbours[i]]
        /\ working' = [working EXCEPT ![w] =
             IF \A i \in ToSet(orbit) \ {orbit[1]} : FieldPower(Eq.p, zeta(i), 24) = 1
             THEN 0 ELSE -2]
  /\ UNCHANGED <<request, stage, lifts, orbits, claimed, pairs, cache, kernels, compatible>>

\* Every future is awaited before the pairs are processed, and hands on the
\* exception of its worker.
JoinWorkers ==
  /\ stage = "roots" /\ \A w \in DOMAIN working : working[w] < 0
  /\ pairs' = FlattenSeq([i \in DOMAIN lifts |-> [k \in DOMAIN neighbours[i] |-> <<i, neighbours[i][k]>>]])
  /\ stage' = IF \A w \in DOMAIN working : working[w] = -1 THEN "pairs" ELSE "failed"
  /\ UNCHANGED <<request, lifts, orbits, claimed, working, neighbours, cache, kernels, compatible>>

-----------------------------------------------------------------------------
(* process_weber_neighbors, one pair per step.                             *)

Remembered(f) == IF Contains(compatible, f) THEN compatible ELSE Append(compatible, f)

Codomain(pair) == WeberCodomain(Eq, Ell, Phi, lifts[pair[1]], pair[2])

Take(nextStage, nextCache, nextKernels, nextCompatible) ==
  /\ stage' = nextStage /\ cache' = nextCache
  /\ kernels' = nextKernels /\ compatible' = nextCompatible
  /\ pairs' = Tail(pairs)
  /\ UNCHANGED <<request, lifts, orbits, claimed, working, neighbours>>

\* The second and later kernels take the conjugate of the first eigenvalue,
\* a third one only where the two agree; 0 for no eigenvalue, -1 for a throw.
NextEigenvalue(kernel) ==
  LET anchor == kernels[1].eigenvalue
      other  == ConjugateEigenvalue(Eq.p, Ell, anchor)
  IN IF ~request.conjugateReuse \/ kernels = <<>>
     THEN EigenvalueOn(QuotientRing(Eq, kernel), Ell)
     ELSE IF anchor # other /\ Len(kernels) >= 2 THEN -1 ELSE other

NoCurve == stage = "pairs" /\ pairs # <<>> /\ Codomain(Head(pairs)).kind # "curve"

SkipExceptional ==
  /\ NoCurve
  /\ Take(IF Codomain(Head(pairs)).kind = "exceptional" THEN stage ELSE "failed",
          cache, kernels, compatible)

ReuseCodomain ==
  /\ stage = "pairs" /\ pairs # <<>> /\ ~NoCurve
  /\ \E seen \in cache :
       /\ seen.codomain = Codomain(Head(pairs)).curve
       /\ Take(stage, cache, kernels,
               IF seen.kernel = 0 THEN compatible ELSE Remembered(lifts[Head(pairs)[1]]))

Known(codomain, k) == cache \cup {[codomain |-> codomain, kernel |-> k]}

SameKernel(codomain, same) ==
  Take(IF \A i \in same : JInvariant(kernels[i].codomain) = JInvariant(codomain)
       THEN stage ELSE "failed",
       Known(codomain, Min(same)), kernels, Remembered(lifts[Head(pairs)[1]]))

NewKernel(codomain, kernel, value) ==
  IF value \in {0, -1}
  THEN Take(IF value = 0 THEN stage ELSE "failed", Known(codomain, 0), kernels, compatible)
  ELSE Take(stage, Known(codomain, Len(kernels) + 1),
            Append(kernels, [ kernel |-> kernel, codomain |-> codomain, eigenvalue |-> value,
                              trace |-> TraceResidue(Eq.p, Ell, value) ]),
            Remembered(lifts[Head(pairs)[1]]))

WithKernel(codomain, kernel, same) ==
  IF same # {} THEN SameKernel(codomain, same)
  ELSE NewKernel(codomain, kernel, NextEigenvalue(kernel))

WithMap(codomain, map) ==
  IF map.kind # "isogeny"
  THEN Take(IF map.kind = "incompatible" THEN stage ELSE "failed", Known(codomain, 0), kernels, compatible)
  ELSE WithKernel(codomain, map.kernel, {i \in DOMAIN kernels : kernels[i].kernel = map.kernel})

Reconstruct ==
  /\ stage = "pairs" /\ pairs # <<>> /\ ~NoCurve
  /\ \E codomain \in {Codomain(Head(pairs)).curve} :
       /\ \A seen \in cache : seen.codomain # codomain
       /\ WithMap(codomain, Bmss(Eq, codomain, Ell))

\* The schedule keeps the level's lifts when it was exact, and goes on.
EndLevel ==
  /\ stage = "pairs" /\ pairs = <<>>
  /\ stage' = IF ~Consistent(kernels) \/ (kernels # <<>> /\ compatible = <<>>)
              THEN "failed" ELSE "schedule"
  /\ lifts' = IF kernels = <<>> THEN lifts ELSE compatible
  /\ request' = [request EXCEPT !.levels = Tail(@)]
  /\ UNCHANGED <<orbits, claimed, working, neighbours, pairs, cache, kernels, compatible>>

RunLevels ==
  \/ BeginLevel \/ JoinWorkers \/ SkipExceptional \/ ReuseCodomain \/ Reconstruct \/ EndLevel
  \/ \E w \in DOMAIN working : ClaimOrbit(w) \/ FindRoots(w)

-----------------------------------------------------------------------------
(* Properties.                                                             *)

\* The level by its direct path: every lift's own roots, every pair's own
\* reconstruction.
DirectRoots == [i \in DOMAIN lifts |-> RootsAbove(Eq.p, Phi, lifts[i])]

DirectCodomains(i) ==
  {c.curve : c \in {c \in {WeberCodomain(Eq, Ell, Phi, lifts[i], g) : g \in ToSet(DirectRoots[i])} :
                      c.kind = "curve"}}

\* Once the workers are joined every lift has exactly its roots.
RootsComplete == stage = "pairs" => neighbours = DirectRoots

KernelsExact(good) ==
  /\ ToSet(kernels) \subseteq DivisionKernels(Eq, Ell)
  /\ \A k \in ToSet(kernels) : k.trace = TrueTrace(Eq) % Ell
  /\ {k.kernel : k \in ToSet(kernels)} = {Bmss(Eq, c, Ell).kernel : c \in good}
  /\ compatible = SelectSeq(lifts, LAMBDA f : \E i \in DOMAIN lifts :
                     lifts[i] = f /\ DirectCodomains(i) \cap good # {})

\* LevelIsTheTruth: the lifts have exactly the roots of the modular polynomial
\* above them, whichever worker took which orbit, found or mapped from another
\* lift of the orbit; a level never fails; and when it ends its kernels are
\* Frobenius-stable subgroups of the reference path with their eigenvalue, their
\* codomain and the true trace, also where the eigenvalue is only the conjugate
\* of the first, and the lifts kept for the next level and the kernels are those
\* every pair's own reconstruction gives, whatever the cache and the orbits
\* saved (process_weber_neighbors).
LevelIsTheTruth ==
  /\ RootsComplete
  /\ stage # "failed"
  /\ (stage = "pairs" /\ pairs = <<>>) =>
       KernelsExact({c \in UNION {DirectCodomains(i) : i \in DOMAIN lifts} :
                       Bmss(Eq, c, Ell).kind = "isogeny"})

=============================================================================
