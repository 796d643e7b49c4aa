--------------------------- MODULE PolyArithmetic ---------------------------
(***************************************************************************)
(* Polynomials over F_p (poly.cpp): the Poly value type and the products   *)
(* behind it, schoolbook for short operands, Karatsuba for balanced ones   *)
(* and Kronecker substitution for long ones. A polynomial is the sequence  *)
(* of its coefficients, the constant one first, without trailing zeros;    *)
(* a raw product is a sequence of integers that no one has reduced.        *)
(***************************************************************************)
EXTENDS Integers, SequencesExt

CONSTANTS
  KaratsubaThreshold,   \* longest operand multiplied by the schoolbook
  KroneckerThreshold,   \* shortest operand that is packed; 0 for never
  LimbBits              \* width of a machine word

ASSUME ThresholdsAssumption ==
  /\ KaratsubaThreshold \in Nat \ {0} /\ KroneckerThreshold \in Nat
  /\ LimbBits \in Nat \ {0}

LesserOf(a, b)  == IF a < b THEN a ELSE b
GreaterOf(a, b) == IF a > b THEN a ELSE b

\* A sequence computed once: concatenation makes TLC evaluate the elements.
Computed(s) == s \o <<>>

Zeros(n) == Computed([i \in 1 .. n |-> 0])

\* Field::inverse; the code throws on zero.
FieldInverse(p, a) == CHOOSE b \in 1 .. p - 1 : (a * b) % p = 1
FieldDivide(p, a, b) == (a * FieldInverse(p, b)) % p

RECURSIVE FieldPower(_, _, _)
FieldPower(p, a, e) ==
  IF e = 0 THEN 1 % p
  ELSE LET half == FieldPower(p, a, e \div 2)
       IN (((half * half) % p) * (IF e % 2 = 1 THEN a ELSE 1)) % p

-----------------------------------------------------------------------------
(* Raw products.                                                           *)

SchoolbookProduct(a, b) ==
  LET coefficient(k) ==
        LET sum[i \in 0 .. Len(a)] ==
              IF i = 0 THEN 0
              ELSE sum[i - 1] + (IF k + 1 - i \in DOMAIN b THEN a[i] * b[k + 1 - i] ELSE 0)
        IN sum[Len(a)]
  IN IF a = <<>> \/ b = <<>> THEN <<>>
     ELSE Computed([k \in 1 .. Len(a) + Len(b) - 1 |-> coefficient(k)])

\* The cross terms once, doubled, and the squares on the diagonal.
SchoolbookSquare(a) ==
  LET cross(k) ==
        LET sum[i \in 0 .. Len(a)] ==
              IF i = 0 THEN 0
              ELSE sum[i - 1] + (IF k + 1 - i \in i + 1 .. Len(a) THEN a[i] * a[k + 1 - i] ELSE 0)
        IN sum[Len(a)]
      diagonal(k) == IF k % 2 = 1 THEN a[(k + 1) \div 2] * a[(k + 1) \div 2] ELSE 0
  IN IF a = <<>> THEN <<>>
     ELSE Computed([k \in 1 .. 2 * Len(a) - 1 |-> 2 * cross(k) + diagonal(k)])

SliceSum(low, high) ==
  Computed([i \in 1 .. GreaterOf(Len(low), Len(high)) |->
     (IF i \in DOMAIN low THEN low[i] ELSE 0) + (IF i \in DOMAIN high THEN high[i] ELSE 0)])

\* The code throws when the value sticks out of the output.
AddShifted(output, value, shift, sign) ==
  Computed([i \in DOMAIN output |->
     output[i] + (IF i - shift \in DOMAIN value THEN sign * value[i - shift] ELSE 0)])

Recombined(size, split, low, middle, high) ==
  LET withLow    == AddShifted(Zeros(size), low, 0, 1)
      withMiddle == AddShifted(AddShifted(AddShifted(withLow, middle, split, 1),
                                          low, split, -1), high, split, -1)
  IN AddShifted(withMiddle, high, 2 * split, 1)

RECURSIVE KaratsubaProduct(_, _)
KaratsubaProduct(a, b) ==
  LET smaller == LesserOf(Len(a), Len(b))
      larger  == GreaterOf(Len(a), Len(b))
      split   == larger \div 2
      low(s)  == SubSeq(s, 1, LesserOf(split, Len(s)))
      high(s) == SubSeq(s, LesserOf(split, Len(s)) + 1, Len(s))
  IN IF a = <<>> \/ b = <<>> THEN <<>>
     ELSE IF smaller <= KaratsubaThreshold \/ larger \div smaller >= 2
     THEN SchoolbookProduct(a, b)
     ELSE Recombined(Len(a) + Len(b) - 1, split,
            KaratsubaProduct(low(a), low(b)),
            KaratsubaProduct(SliceSum(low(a), high(a)), SliceSum(low(b), high(b))),
            KaratsubaProduct(high(a), high(b)))

RECURSIVE KaratsubaSquare(_)
KaratsubaSquare(a) ==
  LET split == Len(a) \div 2
      low   == SubSeq(a, 1, split)
      high  == SubSeq(a, split + 1, Len(a))
  IN IF a = <<>> THEN <<>>
     ELSE IF Len(a) <= KaratsubaThreshold THEN SchoolbookSquare(a)
     ELSE Recombined(2 * Len(a) - 1, split, KaratsubaSquare(low),
            KaratsubaSquare(SliceSum(low, high)), KaratsubaSquare(high))

-----------------------------------------------------------------------------
(* Kronecker substitution: coefficients as digits of one integer. The      *)
(* integer is the sequence of its limbs, and its product the schoolbook    *)
(* product with the carries run through (GMP).                             *)

BitWidth(n) == CHOOSE b \in 0 .. 31 : n < 2 ^ b /\ (b = 0 \/ n >= 2 ^ (b - 1))

\* ceiling_log2 of a positive value.
CeilingLog2(n) == BitWidth(n - 1)

KroneckerDigitLimbs_OneTerm(p, summands) ==
  (2 * BitWidth(p) + LimbBits - 1) \div LimbBits

KroneckerDigitLimbs(p, summands) ==
  LET digitBits == 2 * BitWidth(p) + CeilingLog2(summands)
  IN (digitBits + LimbBits - 1) \div LimbBits

KroneckerPack(a, limbs) ==
  Computed([i \in 1 .. Len(a) * limbs |->
     (a[(i - 1) \div limbs + 1] \div (2 ^ (LimbBits * ((i - 1) % limbs)))) % 2 ^ LimbBits])

Carried(s) ==
  LET carry[i \in 0 .. Len(s)] ==
        IF i = 0 THEN 0 ELSE (s[i] + carry[i - 1]) \div 2 ^ LimbBits
  IN Computed([i \in DOMAIN s |-> (s[i] + carry[i - 1]) % 2 ^ LimbBits])

LimbProduct(a, b) == Carried(SchoolbookProduct(a, b) \o <<0>>)

KroneckerUnpack(packed, limbs, count) ==
  LET digit(k) ==
        LET value[j \in 0 .. limbs] ==
              IF j = 0 THEN 0
              ELSE value[j - 1] + (IF k * limbs + j \in DOMAIN packed
                                   THEN packed[k * limbs + j] * 2 ^ (LimbBits * (j - 1)) ELSE 0)
        IN value[limbs]
  IN Computed([k \in 1 .. count |-> digit(k - 1)])

KroneckerProduct(p, a, b) ==
  LET limbs == KroneckerDigitLimbs(p, LesserOf(Len(a), Len(b)))
  IN IF a = <<>> \/ b = <<>> THEN <<>>
     ELSE KroneckerUnpack(LimbProduct(KroneckerPack(a, limbs), KroneckerPack(b, limbs)),
                          limbs, Len(a) + Len(b) - 1)

CoefficientProduct(p, a, b) ==
  LET smaller == LesserOf(Len(a), Len(b))
      larger  == GreaterOf(Len(a), Len(b))
  IN IF /\ a # <<>> /\ b # <<>> /\ KroneckerThreshold # 0
        /\ smaller >= KroneckerThreshold /\ larger \div smaller < 2
     THEN KroneckerProduct(p, a, b)
     ELSE KaratsubaProduct(a, b)

CoefficientSquare(p, a) ==
  IF KroneckerThreshold # 0 /\ Len(a) >= KroneckerThreshold
  THEN KroneckerProduct(p, a, a)
  ELSE KaratsubaSquare(a)

-----------------------------------------------------------------------------
(* The value type.                                                         *)

RECURSIVE Trim(_)
Trim(s) == IF s # <<>> /\ Last(s) = 0 THEN Trim(Front(s)) ELSE s

\* Poly::Poly normalizes and trims.
Poly(p, s) == Trim(Computed([i \in DOMAIN s |-> s[i] % p]))

Constant(p, c) == Poly(p, <<c>>)
PolyX == <<0, 1>>
Degree(a) == Len(a) - 1
Coefficient(a, i) == IF i + 1 \in DOMAIN a THEN a[i + 1] ELSE 0

EvaluateAt(p, a, x) ==
  LET horner[i \in 1 .. Len(a) + 1] ==
        IF i = Len(a) + 1 THEN 0 ELSE (horner[i + 1] * x + a[i]) % p
  IN horner[1]

Derivative(p, a) ==
  IF Len(a) <= 1 THEN <<>> ELSE Trim(Computed([i \in 1 .. Len(a) - 1 |-> (a[i + 1] * i) % p]))

PolyAdd(p, a, b) == Poly(p, SliceSum(a, b))
PolyNeg(p, a) == Computed([i \in DOMAIN a |-> (-a[i]) % p])
PolySub(p, a, b) == PolyAdd(p, a, PolyNeg(p, b))
PolyMul(p, a, b) ==
  IF a = <<>> \/ b = <<>> THEN <<>> ELSE Poly(p, CoefficientProduct(p, a, b))
ScalarMul(p, a, c) == Poly(p, [i \in DOMAIN a |-> a[i] * c])
MonicOf(p, a) == IF a = <<>> THEN a ELSE ScalarMul(p, a, FieldInverse(p, Last(a)))

\* Division with remainder by a nonzero polynomial, one quotient coefficient
\* after the other.
RECURSIVE DivideFrom(_, _, _, _)
DivideFrom(p, remainder, quotient, denominator) ==
  IF Len(remainder) < Len(denominator) THEN <<Trim(quotient), remainder>>
  ELSE LET shift  == Len(remainder) - Len(denominator)
           factor == FieldDivide(p, Last(remainder), Last(denominator))
       IN DivideFrom(p,
            Poly(p, AddShifted(remainder, ScalarMul(p, denominator, factor), shift, -1)),
            ReplaceAt(quotient, shift + 1, factor), denominator)

DivMod(p, a, b) ==
  DivideFrom(p, a, Zeros(GreaterOf(0, Len(a) - Len(b) + 1)), b)

PolyMod(p, a, b) == DivMod(p, a, b)[2]

RECURSIVE PolyGcd(_, _, _)
PolyGcd(p, a, b) == IF b = <<>> THEN MonicOf(p, a) ELSE PolyGcd(p, b, PolyMod(p, a, b))

=============================================================================
