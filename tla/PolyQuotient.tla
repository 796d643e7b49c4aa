----------------------------- MODULE PolyQuotient -----------------------------
(***************************************************************************)
(* Arithmetic in one quotient F_p[x]/(modulus): PolyModContext (poly.cpp)  *)
(* with its prepared reciprocal and its windowed powers. A context is the  *)
(* record of the ring, its products fields of it like its modulus.         *)
(***************************************************************************)
EXTENDS PolyArithmetic

CONSTANTS
  ReciprocalThreshold,   \* least degree that prepares a reciprocal; 0 for never
  MaximumWindowBits      \* widest window a power may use

ASSUME PreparationAssumption ==
  ReciprocalThreshold \in Nat /\ MaximumWindowBits \in Nat \ {0}

-----------------------------------------------------------------------------
(* Reduction.                                                              *)

\* reduce_product_coefficients: high terms are cancelled from above on
\* integers nobody normalizes until they become the pivot, or at the end.
ReduceProduct(p, s, modulus) ==
  LET degree == Degree(modulus)
      reduced[top \in degree .. Len(s)] ==
        IF top = Len(s) THEN s
        ELSE LET above  == reduced[top + 1]
                 factor == FieldDivide(p, above[top + 1] % p, Last(modulus))
             IN AddShifted(above, [i \in 1 .. degree |-> modulus[i] * factor], top - degree, -1)
      result == IF Len(s) <= degree THEN s \o Zeros(degree - Len(s)) ELSE reduced[degree]
  IN Computed([i \in 1 .. degree |-> result[i] % p])

\* The inverse of the reversed modulus as a power series.
Reciprocal(p, modulus) ==
  LET degree == Degree(modulus)
      series[n \in 0 .. degree - 1] ==
        IF n = 0 THEN <<1>>
        ELSE LET known == series[n - 1]
                 sum[i \in 0 .. n] ==
                   IF i = 0 THEN 0 ELSE sum[i - 1] + modulus[degree - i + 1] * known[n - i + 1]
             IN Append(known, (-sum[n]) % p)
  IN series[degree - 1]

\* The members PolyModContext::PolyModContext prepares.
Prepared(p, modulus) ==
  [ p |-> p, modulus |-> modulus,
    reciprocal |->
      IF \/ ReciprocalThreshold = 0 \/ Degree(modulus) <= 0 \/ Last(modulus) # 1
         \/ Degree(modulus) < ReciprocalThreshold
      THEN <<>> ELSE Reciprocal(p, modulus) ]

NormalizedTo(p, s, size) == Computed([i \in 1 .. size |-> s[i] % p])

\* The quotient of a product, its high part reversed times the reciprocal.
QuotientOf(context, s, size) ==
  Reverse(NormalizedTo(context.p, CoefficientProduct(context.p,
    NormalizedTo(context.p, Reverse(s), size), SubSeq(context.reciprocal, 1, size)), size))

RemainderOf(p, s, product, degree) == Computed([i \in 1 .. degree |-> (s[i] - product[i]) % p])

\* PolyModContext::reduce_coefficients: with the reciprocal when the product
\* is short enough for it.
ReduceCoefficients(context, s) ==
  LET degree == Degree(context.modulus)
      size   == Len(s) - degree
  IN IF size \notin 1 .. degree - 1
     THEN ReduceProduct(context.p, s, context.modulus)
     ELSE RemainderOf(context.p, s,
            CoefficientProduct(context.p, QuotientOf(context, s, size), context.modulus), degree)

ReducedOperand(p, a, modulus) ==
  IF Len(a) >= Len(modulus) THEN PolyMod(p, a, modulus) ELSE a

-----------------------------------------------------------------------------
(* Products in the quotient; without a reciprocal they are mulmod and      *)
(* squaremod, which also know a constant modulus.                          *)

Reduced(context, s) ==
  Trim(IF context.reciprocal = <<>> THEN ReduceProduct(context.p, s, context.modulus)
       ELSE ReduceCoefficients(context, s))

ProductOfReduced(context, a, b) ==
  IF a = <<>> \/ b = <<>> THEN <<>> ELSE Reduced(context, CoefficientProduct(context.p, a, b))

SquareOfReduced(context, a) ==
  IF a = <<>> THEN <<>> ELSE Reduced(context, CoefficientSquare(context.p, a))

Polynomials == Seq(Nat)

WithProducts(context) ==
  [ p |-> context.p, modulus |-> context.modulus,
    times  |-> [a \in Polynomials, b \in Polynomials |->
                  ProductOfReduced(context, ReducedOperand(context.p, a, context.modulus),
                                            ReducedOperand(context.p, b, context.modulus))],
    square |-> [a \in Polynomials |->
                  SquareOfReduced(context, ReducedOperand(context.p, a, context.modulus))] ]

PolyModContext(p, modulus) == WithProducts(Prepared(p, modulus))

MulMod(context, a, b) == context.times[a, b]
SquareMod(context, a)      == context.square[a]

-----------------------------------------------------------------------------
(* Powers: the exponent is cut into odd windows of at most `width` bits,   *)
(* and the width with the fewest operations is used.                       *)

Bit(e, i) == (e \div 2 ^ i) % 2

\* The windows of e from the bit below `cursor` down.
RECURSIVE Windows(_, _, _, _)
Windows(e, width, cursor, zeros) ==
  IF cursor = 0 THEN [windows |-> <<>>, trailing |-> zeros]
  ELSE IF Bit(e, cursor - 1) = 0 THEN Windows(e, width, cursor - 1, zeros + 1)
  ELSE LET lowLimit == GreaterOf(0, cursor - width)
           low  == CHOOSE i \in lowLimit .. cursor - 1 :
                     Bit(e, i) = 1 /\ \A j \in lowLimit .. i - 1 : Bit(e, j) = 0
           rest == Windows(e, width, low, 0)
           window == [ squarings |-> zeros + cursor - low,
                       odd |-> (e % 2 ^ cursor) \div 2 ^ low ]
       IN [rest EXCEPT !.windows = <<window>> \o @]

\* The table of odd powers costs a square and a product for each but the first.
PlanOf(cut, largest) ==
  [ first |-> Head(cut.windows).odd, steps |-> Tail(cut.windows), trailing |-> cut.trailing,
    largest |-> largest,
    operations |-> cut.trailing + (IF largest > 1 THEN 1 + (largest - 1) \div 2 ELSE 0)
                     + FoldLeft(LAMBDA n, w : n + w.squarings + 1, 0, Tail(cut.windows)) ]

PlanOfWindows(cut) ==
  PlanOf(cut, FoldLeft(LAMBDA m, w : GreaterOf(m, w.odd), 0, cut.windows))

PowmodPlanForWidth(e, width) == PlanOfWindows(Windows(e, width, BitWidth(e), 0))

CheaperPlan(best, plan) == IF plan.operations < best.operations THEN plan ELSE best

\* Ties keep the smaller table.
MakePowmodPlan(e) ==
  FoldLeft(LAMBDA best, width : CheaperPlan(best, PowmodPlanForWidth(e, width)),
           PowmodPlanForWidth(e, 1), [i \in 1 .. MaximumWindowBits - 1 |-> i + 1])

RECURSIVE Squared(_, _, _)
Squared(context, a, times) ==
  IF times = 0 THEN a ELSE Squared(context, SquareMod(context, a), times - 1)

ApplyPowmodPlan(base, plan, context) ==
  LET square == SquareMod(context, base)
      odd[i \in 1 .. (plan.largest + 1) \div 2] ==
        IF i = 1 THEN base ELSE MulMod(context, odd[i - 1], square)
      power(w) == odd[(w + 1) \div 2]
  IN Squared(context,
       FoldLeft(LAMBDA result, step :
                  MulMod(context, Squared(context, result, step.squarings), power(step.odd)),
                power(plan.first), plan.steps),
       plan.trailing)

\* PolyModContext::pow; the zeroth power is one, whatever the modulus.
Pow(context, a, e) ==
  IF e = 0 THEN <<1>>
  ELSE ApplyPowmodPlan(PolyMod(context.p, a, context.modulus), MakePowmodPlan(e), context)

PolyPowMod(p, a, e, modulus) == Pow(PolyModContext(p, modulus), a, e)

=============================================================================
