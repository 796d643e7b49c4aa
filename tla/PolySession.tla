----------------------------- MODULE PolySession -----------------------------
(***************************************************************************)
(* The life of one element of a quotient ring under the operations a       *)
(* caller of PolyModContext (poly.cpp) applies to it, beside the same      *)
(* element by the definition of the ring.                                  *)
(***************************************************************************)
EXTENDS PolyQuotient

CONSTANTS
  Quotients,   \* [p, modulus]: the rings of the sessions, modulus not constant
  Exponents    \* powers a session takes

VARIABLES
  quotient,    \* the ring, [p, modulus]
  element,     \* the element as the code holds it
  ideal        \* the same element by the definition of the ring

session == <<quotient, element, ideal>>

NoSession == quotient = <<>> /\ element = <<>> /\ ideal = <<>>

SessionInit ==
  /\ quotient \in Quotients
  /\ element = PolyX /\ ideal = PolyX

\* The remainders, and some operands a caller has not reduced.
Operands(context) ==
  {Trim(a) : a \in [1 .. Degree(context.modulus) -> {0, context.p - 1}]}
    \cup {Append(context.modulus, c) : c \in 1 .. context.p - 1}

\* The definition: one coefficient at a time, reducing by the modulus
\* whenever the degree reaches it.
TimesX(context, a) ==
  LET p == context.p
      shifted == <<0>> \o a
      lead    == FieldDivide(p, Last(shifted), Last(context.modulus))
  IN IF a = <<>> THEN <<>>
     ELSE IF Len(shifted) < Len(context.modulus) THEN shifted
     ELSE Trim([i \in DOMAIN shifted |-> (shifted[i] - lead * context.modulus[i]) % p])

IdealProduct(context, a, b) ==
  LET horner[i \in 1 .. Len(a) + 1] ==
        IF i = Len(a) + 1 THEN <<>>
        ELSE PolyAdd(context.p, TimesX(context, horner[i + 1]), ScalarMul(context.p, b, a[i]))
  IN horner[1]

RECURSIVE IdealPower(_, _, _)
IdealPower(context, a, e) ==
  IF e = 0 THEN <<1>>
  ELSE LET half   == IdealPower(context, a, e \div 2)
           square == IdealProduct(context, half, half)
       IN IF e % 2 = 1 THEN IdealProduct(context, a, square) ELSE square

\* What the caller prepared.
Context == PolyModContext(quotient.p, quotient.modulus)

MultiplyBy(a) ==
  /\ element' = MulMod(Context, element, a)
  /\ ideal' = IdealProduct(quotient, a, ideal)
  /\ UNCHANGED quotient

SquareIt ==
  /\ element' = SquareMod(Context, element)
  /\ ideal' = IdealProduct(quotient, ideal, ideal)
  /\ UNCHANGED quotient

RaiseTo(e) ==
  /\ element' = Pow(Context, element, e)
  /\ ideal' = IdealPower(quotient, ideal, e)
  /\ UNCHANGED quotient

Operate ==
  \/ \E a \in Operands(quotient) : MultiplyBy(a)
  \/ SquareIt
  \/ \E e \in Exponents : RaiseTo(e)

\* FastPathsExact: whatever product, reduction and power algorithm the sizes
\* of the operands select (thresholds of poly.cpp), a session holds exactly the
\* element of the quotient ring that the operations define.
FastPathsExact == element = ideal

=============================================================================
