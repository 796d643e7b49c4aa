---------------------------- MODULE PolyComponents ----------------------------
(***************************************************************************)
(* What root finding (poly.cpp) and factorization (factor.cpp) compute     *)
(* before anything is split at random: the product of the linear factors,  *)
(* or the square-free and distinct-degree components.                      *)
(***************************************************************************)
EXTENDS PolyQuotient

Split(q, f) == PolyGcd(q, f, PolySub(q, PolyPowMod(q, PolyX, q, f), PolyX))

\* rational_root_count
RationalRootCount(q, f) == Degree(Split(q, f))

\* A division that leaves a remainder throws: <<>> stands for no polynomial, and
\* what is made of it is no factorisation.
ExactPart(q, result) == IF result[2] = <<>> THEN MonicOf(q, result[1]) ELSE <<>>

ExactQuotient(q, a, b) == ExactPart(q, DivMod(q, a, b))

PrimeCharacteristicRoot(q, f) ==
  MonicOf(q, Trim([i \in 1 .. Degree(f) \div q + 1 |-> Coefficient(f, (i - 1) * q)]))

SquareFreeLoop_Once(q, remaining, repeated, multiplicity, scale) ==
  [ parts |-> <<[poly |-> remaining, multiplicity |-> scale]>>, rest |-> repeated ]

Part(component, multiplicity) ==
  IF component = <<1>> THEN <<>> ELSE <<[poly |-> component, multiplicity |-> multiplicity]>>

\* The factors of each multiplicity the characteristic does not divide, and
\* what is left over.
RECURSIVE SquareFreeLoop(_, _, _, _, _), SquareFreeRound(_, _, _, _, _, _)
SquareFreeLoop(q, remaining, repeated, multiplicity, scale) ==
  IF remaining = <<1>> THEN [parts |-> <<>>, rest |-> repeated]
  ELSE SquareFreeRound(q, remaining, repeated, PolyGcd(q, remaining, repeated), multiplicity, scale)

SquareFreeRound(q, remaining, repeated, shared, multiplicity, scale) ==
  [SquareFreeLoop(q, shared, ExactQuotient(q, repeated, shared), multiplicity + 1, scale)
     EXCEPT !.parts = Part(ExactQuotient(q, remaining, shared), scale * multiplicity) \o @]

\* A derivative of zero, or a leftover, is a power of the characteristic.
RECURSIVE SquareFreeDecompose(_, _, _), WithPrimeCharacteristicRoot(_, _, _)
SquareFreeDecompose(q, f, scale) ==
  LET repeated == PolyGcd(q, f, Derivative(q, f))
  IN IF Degree(f) <= 0 THEN <<>>
     ELSE IF Derivative(q, f) = <<>>
     THEN SquareFreeDecompose(q, PrimeCharacteristicRoot(q, f), scale * q)
     ELSE WithPrimeCharacteristicRoot(q,
            SquareFreeLoop(q, ExactQuotient(q, f, repeated), repeated, 1, scale), scale)

WithPrimeCharacteristicRoot(q, loop, scale) ==
  loop.parts \o (IF loop.rest = <<1>> THEN <<>>
                 ELSE SquareFreeDecompose(q, PrimeCharacteristicRoot(q, loop.rest), scale * q))

\* Components [poly, degree]: everything left is irreducible once its degree
\* is less than twice the degree tried.
RECURSIVE DistinctDegree(_, _, _, _), DegreeRound(_, _, _, _)
DistinctDegree(q, remaining, frobenius, degree) ==
  IF remaining = <<1>> THEN <<>>
  ELSE IF Degree(remaining) < 2 * degree
  THEN <<[poly |-> remaining, degree |-> Degree(remaining)]>>
  ELSE DegreeRound(q, remaining, PolyPowMod(q, frobenius, q, remaining), degree)

DegreeRound(q, remaining, next, degree) ==
  LET component == PolyGcd(q, remaining, PolySub(q, next, PolyX))
      rest      == ExactQuotient(q, remaining, component)
  IN IF component = <<1>> THEN DistinctDegree(q, remaining, next, degree + 1)
     ELSE <<[poly |-> component, degree |-> degree]>>
            \o DistinctDegree(q, rest, PolyMod(q, next, rest), degree + 1)

WithMultiplicity(components, multiplicity) ==
  [j \in DOMAIN components |->
     [ poly |-> components[j].poly, degree |-> components[j].degree, multiplicity |-> multiplicity ]]

FactorComponents(q, f) ==
  FoldLeft(LAMBDA components, part :
             components \o WithMultiplicity(DistinctDegree(q, part.poly, PolyX, 1), part.multiplicity),
           <<>>, SquareFreeDecompose(q, f, 1))

=============================================================================
