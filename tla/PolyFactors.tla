----------------------------- MODULE PolyFactors -----------------------------
(***************************************************************************)
(* Roots in F_p (linear_roots, poly.cpp) and complete factorizations       *)
(* (factor.cpp), one splitting attempt per step. Both take a product of    *)
(* distinct irreducible factors of one degree apart by a power of an       *)
(* element drawn from a hash: here the element is any residue the hash may *)
(* give, and the attempts may run out.                                     *)
(***************************************************************************)
EXTENDS PolyComponents

CONSTANTS
  Targets,        \* [kind, p, target]: polynomials to take apart, p odd prime
  SplitAttempts   \* attempts at one polynomial before the code gives up

ASSUME SplitAttemptsAssumption == SplitAttempts \in Nat \ {0}

VARIABLES
  task,       \* what is asked: roots or factors, and of which polynomial
  pending,    \* [poly, degree, multiplicity] still to split, first one next
  found,      \* roots, or factors as [poly, multiplicity], as they appear
  attempts,   \* failed attempts at the first pending polynomial
  phase

splitting == <<task, pending, found, attempts, phase>>

Char == task.p

\* What linear_roots and factor_polynomial set out to split.
Components(t) ==
  IF t.kind = "roots"
  THEN IF Split(t.p, t.target) = <<1>> THEN <<>>
       ELSE <<[poly |-> Split(t.p, t.target), degree |-> 1, multiplicity |-> 1]>>
  ELSE FactorComponents(t.p, MonicOf(t.p, t.target))

NoSplitting ==
  /\ task = [kind |-> "none", p |-> 3, target |-> <<1>>]
  /\ pending = <<>> /\ found = <<>> /\ attempts = 0 /\ phase = "done"

SplittingInit ==
  /\ task \in Targets
  /\ pending = Components(task)
  /\ found = <<>> /\ attempts = 0 /\ phase = "splitting"

-----------------------------------------------------------------------------
(* The recursive splitters, depth first, the divisor before the cofactor.  *)

Current == Head(pending).poly
Whole  == Degree(Current) = Head(pending).degree

\* A root, or an irreducible factor.
TakeWhole ==
  /\ phase = "splitting" /\ pending # <<>> /\ Whole
  /\ found' = Append(found,
       IF task.kind = "roots" THEN FieldDivide(Char, (-Coefficient(Current, 0)) % Char, Last(Current))
       ELSE [poly |-> Current, multiplicity |-> Head(pending).multiplicity])
  /\ pending' = Tail(pending) /\ attempts' = 0
  /\ UNCHANGED <<task, phase>>

\* split_linear_factors tries all three values of the character of x + offset.
RootCandidates(offset) ==
  LET character == PolyPowMod(Char, <<offset, 1>>, (Char - 1) \div 2, Current)
  IN << PolyGcd(Char, Current, character),
        PolyGcd(Char, Current, PolySub(Char, character, <<1>>)),
        PolyGcd(Char, Current, PolyAdd(Char, character, <<1>>)) >>

\* equal_degree_factorization tries the value one, with any candidate.
FactorCandidates(candidate) ==
  LET character == PolyPowMod(Char, candidate, (Char ^ Head(pending).degree - 1) \div 2, Current)
  IN <<PolyGcd(Char, Current, PolySub(Char, character, <<1>>))>>

Proper(candidates) ==
  SelectSeq(candidates, LAMBDA c : Degree(c) > 0 /\ Degree(c) < Degree(Current))

Attempt(candidates) ==
  /\ IF Proper(candidates) = <<>>
       THEN /\ attempts' = attempts + 1
            /\ phase' = IF attempts + 1 = SplitAttempts THEN "gave_up" ELSE phase
            /\ UNCHANGED pending
       ELSE LET divisor == Head(Proper(candidates))
                piece(f) == [Head(pending) EXCEPT !.poly = MonicOf(Char, f)]
                division == DivMod(Char, Current, divisor)
            IN /\ pending' = <<piece(divisor), piece(division[1])>> \o Tail(pending)
               /\ attempts' = 0
               /\ phase' = IF division[2] = <<>> THEN phase ELSE "non_factor"
  /\ UNCHANGED <<task, found>>

Splittable(kind) == task.kind = kind /\ phase = "splitting" /\ pending # <<>> /\ ~Whole

SplitRoots == Splittable("roots") /\ \E offset \in 0 .. Char - 1 : Attempt(RootCandidates(offset))

SplitFactors ==
  /\ Splittable("factors")
  /\ \E c \in [1 .. Degree(Current) -> 0 .. Char - 1] : Attempt(FactorCandidates(Trim(c)))

\* is_irreducible, as the validation of a result applies it.
IsIrreducible(f) ==
  LET half == Degree(f) \div 2
      x    == PolyMod(Char, PolyX, f)
      power[i \in 0 .. Degree(f)] == IF i = 0 THEN x ELSE PolyPowMod(Char, power[i - 1], Char, f)
  IN /\ Degree(f) > 0
     /\ \A i \in 1 .. half : PolyGcd(Char, f, PolySub(Char, power[i], x)) = <<1>>
     /\ power[Degree(f)] = x

RECURSIVE PolyProduct(_, _)
PolyProduct(q, polys) ==
  IF polys = <<>> THEN <<1>> ELSE PolyMul(q, Head(polys), PolyProduct(q, Tail(polys)))

Repeated(result) ==
  FlattenSeq([i \in DOMAIN result |-> [j \in 1 .. result[i].multiplicity |-> result[i].poly]])

RootsValid(roots) ==
  /\ \A i \in DOMAIN roots : EvaluateAt(Char, task.target, roots[i]) = 0
  /\ PolyProduct(Char, [i \in DOMAIN roots |-> <<(-roots[i]) % Char, 1>>]) = Split(Char, task.target)

FactorsValid(factors) ==
  /\ \A i \in DOMAIN factors : Last(factors[i].poly) = 1 /\ IsIrreducible(factors[i].poly)
  /\ \A i, j \in DOMAIN factors : i # j => factors[i].poly # factors[j].poly
  /\ PolyProduct(Char, Repeated(factors)) = MonicOf(Char, task.target)

\* Sorting, and the checks that make a wrong result an exception.
Deliver ==
  /\ phase = "splitting" /\ pending = <<>>
  /\ IF task.kind = "roots"
       THEN /\ found' = SetToSortSeq(ToSet(found), <)
            /\ phase' = IF RootsValid(found') THEN "done" ELSE "invalid"
       ELSE /\ phase' = IF FactorsValid(found) THEN "done" ELSE "invalid"
            /\ UNCHANGED found
  /\ UNCHANGED <<task, pending, attempts>>

TakeApart == TakeWhole \/ SplitRoots \/ SplitFactors \/ Deliver

-----------------------------------------------------------------------------
(* Properties, against the definitions.                                    *)

RootsOf(f) == {x \in 0 .. Char - 1 : EvaluateAt(Char, f, x) = 0}

\* Monic polynomials of the degree.
Monics(degree) == {Append(s, 1) : s \in [1 .. degree -> 0 .. Char - 1]}

Prime(f) ==
  \A d \in 1 .. Degree(f) \div 2 : \A g \in Monics(d) : PolyMod(Char, f, g) # <<>>

\* NothingLost: while a polynomial is taken apart, what was found and what is
\* pending always make up all of it, whatever elements the hash draws and in
\* whatever order the pieces appear; a finished call returns exactly the roots,
\* with their number as rational_root_count gives it, or exactly the prime
\* factors with their multiplicities; and no call ends in the exceptions for a
\* wrong result, only by running out of attempts.
NothingLost ==
  /\ phase \notin {"non_factor", "invalid"}
  /\ task.kind = "roots" =>
       /\ RootsOf(task.target) = ToSet(found) \cup UNION {RootsOf(pending[i].poly) : i \in DOMAIN pending}
       /\ phase = "done" =>
            /\ pending = <<>>
            /\ Len(found) = RationalRootCount(Char, task.target)
            /\ ToSet(found) = RootsOf(task.target)
  /\ task.kind = "factors" =>
       /\ MonicOf(Char, task.target) = PolyProduct(Char, Repeated(found) \o Repeated(pending))
       /\ phase = "done" => pending = <<>> /\ \A i \in DOMAIN found : Prime(found[i].poly)

=============================================================================
