----------------------- MODULE TraceConstraintsProofs -----------------------
(***************************************************************************)
(* Facts about the operators of TraceConstraints and of FrobeniusOrder,    *)
(* for every modulus, every finite set of residues, every characteristic   *)
(* and every small prime: the merge by the Chinese remainder theorem loses *)
(* and admits nothing, the count of the candidates is zero exactly when    *)
(* none is left, and the enumeration is complete; the Legendre symbol      *)
(* tells the irreducible characteristic polynomials, and what is left of   *)
(* the bound l + 1 when its prime factors are divided out is the order of  *)
(* their Frobenius up to scalars.                                          *)
(***************************************************************************)
EXTENDS TraceConstraints, FrobeniusOrder, DataLemmas

-----------------------------------------------------------------------------
(* The merge of two residues.                                              *)

\* Multiplying by the inverse and then by the modulus changes nothing.
LEMMA InverseCancels ==
  ASSUME NEW m \in Nat, NEW l \in Nat, l > 0, NEW i \in Int, NEW delta \in Int,
         IsInverse(i, m % l, l)
  PROVE  (m * ((delta * i) % l)) % l = delta % l
<1>1. PICK a \in Int : \E m1 \in 0 .. l - 1 : m = l * a + m1 /\ m % l = m1
  BY ModFacts
<1>2. PICK m1 \in 0 .. l - 1 : m = l * a + m1 /\ m % l = m1
  BY <1>1
<1>3. m1 * i \in Int /\ (m1 * i) % l = 1
  BY <1>2 DEF IsInverse
<1>4. PICK b \in Int : \E one \in 0 .. l - 1 : m1 * i = l * b + one /\ (m1 * i) % l = one
  BY <1>3, ModFacts
<1>5. m1 * i = l * b + 1
  BY <1>3, <1>4
<1>6. delta * i \in Int
  OBVIOUS
<1>7. PICK e \in Int : \E s \in 0 .. l - 1 : delta * i = l * e + s /\ (delta * i) % l = s
  BY <1>6, ModFacts
<1>8. PICK s \in 0 .. l - 1 : delta * i = l * e + s /\ (delta * i) % l = s
  BY <1>7
<1>9. m1 * s = delta + l * (delta * b - m1 * e)
  <2>1. m1 * s = m1 * (delta * i - l * e)
    BY <1>8
  <2>2. m1 * (delta * i - l * e) = delta * (m1 * i) - l * (m1 * e)
    BY <1>2
  <2>3. delta * (m1 * i) = delta * (l * b + 1)
    BY <1>5
  <2> QED
    BY <1>2, <2>1, <2>2, <2>3
<1>10. m * s = delta + l * (a * s + delta * b - m1 * e)
  <2>1. m * s = (l * a + m1) * s
    BY <1>2
  <2>2. (l * a + m1) * s = l * (a * s) + m1 * s
    BY <1>2, <1>8
  <2> QED
    BY <1>2, <1>8, <1>9, <2>1, <2>2
<1>11. (m * s) % l = delta % l
  <2> DEFINE n == a * s + delta * b - m1 * e
             y == m * s
  <2>1. n \in Int /\ y \in Int
    BY <1>2, <1>8
  <2>2. y = delta + l * n
    BY <1>10
  <2> HIDE DEF n, y
  <2>3. y % l = delta % l
    BY <2>1, <2>2, ModCongruent
  <2> QED
    BY <2>3 DEF y
<1> QED
  BY <1>8, <1>11

\* What the inverse found by mpz_invert is.
LEMMA InverseFacts ==
  ASSUME NEW m, NEW l \in Nat, \E i \in 0 .. l - 1 : IsInverse(i, m, l)
  PROVE  InverseMod(m, l) \in 0 .. l - 1 /\ IsInverse(InverseMod(m, l), m, l)
BY DEF InverseMod

\* The merged residue is canonical and has both remainders.
LEMMA CombinedFacts ==
  ASSUME NEW m \in Nat, m > 0, NEW l \in Nat, l > 0, Invertible(m, l)
  PROVE  \A old \in 0 .. m - 1, small \in 0 .. l - 1 :
           /\ Combined(old, small, m, l) \in 0 .. m * l - 1
           /\ Combined(old, small, m, l) % m = old
           /\ Combined(old, small, m, l) % l = small
<1> TAKE old \in 0 .. m - 1, small \in 0 .. l - 1
<1> DEFINE inv   == InverseMod(m % l, l)
           delta == (small - old) % l
           step  == (delta * inv) % l
           x     == old + m * step
<1>1. inv \in 0 .. l - 1 /\ IsInverse(inv, m % l, l)
  BY InverseFacts DEF Invertible
<1>2. delta \in 0 .. l - 1 /\ delta \in Int
  <2>1. small - old \in Int
    OBVIOUS
  <2>2. delta \in 0 .. l - 1
    BY <2>1, ModRange
  <2> QED
    BY <2>2
<1> HIDE DEF inv, delta
<1>3. step \in 0 .. l - 1
  <2>1. delta * inv \in Int
    BY <1>1, <1>2
  <2> QED
    BY <2>1, ModRange
<1>4. (m * step) % l = delta % l
  <2>1. inv \in Int /\ IsInverse(inv, m % l, l)
    BY <1>1
  <2> QED
    BY <1>2, <2>1, InverseCancels
<1> HIDE DEF step
<1>5. x \in 0 .. m * l - 1 /\ m * l \in Nat /\ m * l > 0
  <2>1. m * step \in Int /\ m * step >= 0 /\ m * step <= m * (l - 1)
    BY <1>3
  <2>2. m * (l - 1) = m * l - m /\ m * l \in Nat /\ m * l > 0
    OBVIOUS
  <2> QED
    BY <2>1, <2>2
<1>6. Combined(old, small, m, l) = x % (m * l)
  BY DEF Combined, inv, delta, step
<1>7. x % (m * l) = x
  <2> HIDE DEF x
  <2> QED
    BY <1>5, ModSmall
<1>8. x % m = old
  BY <1>3, ModUnique
<1>9. x % l = small
  <2>1. PICK q \in Int : \E r \in 0 .. l - 1 : small - old = l * q + r /\ (small - old) % l = r
    <3>1. small - old \in Int
      OBVIOUS
    <3> QED
      BY <3>1, ModFacts
  <2>2. small - old = l * q + delta
    BY <2>1 DEF delta
  <2>3. PICK k \in Int : \E r \in 0 .. l - 1 : m * step = l * k + r /\ (m * step) % l = r
    <3>1. m * step \in Int
      BY <1>3
    <3> QED
      BY <3>1, ModFacts
  <2>4. delta % l = delta
    BY <1>2, ModSmall
  <2>5. m * step = l * k + delta
    BY <1>4, <2>3, <2>4
  <2>6. x = l * (k - q) + small /\ k - q \in Int /\ x \in Int
    BY <1>2, <1>3, <2>2, <2>5
  <2> QED
    BY <2>6, ModUnique
<1> QED
  BY <1>5, <1>6, <1>7, <1>8, <1>9

\* Only zero among the small differences is a multiple of l once m times it is.
LEMMA CoprimeCancels ==
  ASSUME NEW m \in Nat, NEW l \in Nat, l > 0,
         Invertible(m, l),
         NEW d \in Int, -l < d, d < l, NEW w \in Int, m * d = l * w
  PROVE  d = 0
<1>1. PICK i \in 0 .. l - 1 : IsInverse(i, m % l, l)
  BY DEF Invertible
<1>2. PICK a \in Int : \E m1 \in 0 .. l - 1 : m = l * a + m1 /\ m % l = m1
  <2>1. m \in Int
    OBVIOUS
  <2> QED
    BY <2>1, ModFacts
<1>3. PICK m1 \in 0 .. l - 1 : m = l * a + m1 /\ m % l = m1
  BY <1>2
<1>4. m1 * i \in Int /\ (m1 * i) % l = 1
  BY <1>1, <1>3 DEF IsInverse
<1>5. PICK b \in Int : \E one \in 0 .. l - 1 : m1 * i = l * b + one /\ (m1 * i) % l = one
  BY <1>4, ModFacts
<1>6. m1 * i = l * b + 1
  BY <1>4, <1>5
<1>7. d * m1 = l * (w - a * d)
  <2>1. m * d = l * (a * d) + d * m1
    BY <1>3
  <2> QED
    BY <1>3, <2>1
<1>8. d = l * (i * (w - a * d) - d * b)
  <2>1. d * (m1 * i) = d * (l * b + 1)
    BY <1>6
  <2>2. d * (m1 * i) = i * (d * m1)
    BY <1>1, <1>3
  <2>3. i * (d * m1) = i * (l * (w - a * d))
    BY <1>7
  <2>4. d + l * (d * b) = l * (i * (w - a * d))
    BY <1>1, <2>1, <2>2, <2>3
  <2> QED
    BY <1>1, <2>4
<1> DEFINE n == i * (w - a * d) - d * b
<1>9. n \in Int /\ d = l * n
  BY <1>1, <1>8
<1> HIDE DEF n
<1>10. n = 0
  BY <1>9
<1> QED
  BY <1>9, <1>10

\* A number below m * l is the merge of its two remainders.
LEMMA CombinedIsOnly ==
  ASSUME NEW m \in Nat, m > 0, NEW l \in Nat, l > 0,
         Invertible(m, l),
         NEW c \in 0 .. m * l - 1
  PROVE  Combined(c % m, c % l, m, l) = c
<1> DEFINE x == Combined(c % m, c % l, m, l)
<1>1. c \in Int /\ c % m \in 0 .. m - 1 /\ c % l \in 0 .. l - 1
  <2>1. m * l \in Int /\ c \in Int
    OBVIOUS
  <2> QED
    BY <2>1, ModRange
<1>2. x \in 0 .. m * l - 1 /\ x % m = c % m /\ x % l = c % l
  <2> DEFINE old == c % m
             small == c % l
  <2>1. old \in 0 .. m - 1 /\ small \in 0 .. l - 1
    BY <1>1
  <2> HIDE DEF old, small
  <2>2. /\ Combined(old, small, m, l) \in 0 .. m * l - 1
        /\ Combined(old, small, m, l) % m = old
        /\ Combined(old, small, m, l) % l = small
    BY <2>1, CombinedFacts
  <2> QED
    BY <2>2 DEF old, small
<1> HIDE DEF x
<1>3. x \in Int /\ m * l \in Int
  BY <1>2
<1>4. PICK k \in Int : \E r \in 0 .. m - 1 : c = m * k + r /\ c % m = r
  BY <1>1, ModFacts
<1>5. PICK j \in Int : \E r \in 0 .. m - 1 : x = m * j + r /\ x % m = r
  BY <1>3, ModFacts
<1>6. PICK r \in 0 .. m - 1 : c = m * k + r /\ x = m * j + r
  BY <1>2, <1>4, <1>5
<1>7. PICK u \in Int : \E s \in 0 .. l - 1 : c = l * u + s /\ c % l = s
  BY <1>1, ModFacts
<1>8. PICK v \in Int : \E s \in 0 .. l - 1 : x = l * v + s /\ x % l = s
  BY <1>3, ModFacts
<1>9. PICK s \in 0 .. l - 1 : c = l * u + s /\ x = l * v + s
  BY <1>2, <1>7, <1>8
<1>10. k \in 0 .. l - 1
  <2>1. ~(k >= l)
    <3>1. k >= l => m * k >= m * l
      OBVIOUS
    <3> QED
      BY <1>6, <3>1
  <2>2. ~(k <= -1)
    <3>1. k <= -1 => m * k <= -m
      OBVIOUS
    <3> QED
      BY <1>6, <3>1
  <2> QED
    BY <2>1, <2>2
<1>11. j \in 0 .. l - 1
  <2>1. ~(j >= l)
    <3>1. j >= l => m * j >= m * l
      OBVIOUS
    <3> QED
      BY <1>2, <1>6, <3>1
  <2>2. ~(j <= -1)
    <3>1. j <= -1 => m * j <= -m
      OBVIOUS
    <3> QED
      BY <1>2, <1>6, <3>1
  <2> QED
    BY <2>1, <2>2
<1>12. m * (k - j) = l * (u - v)
  BY <1>6, <1>9
<1>13. k - j = 0
  <2>1. k - j \in Int /\ u - v \in Int /\ -l < k - j /\ k - j < l
    BY <1>10, <1>11
  <2> QED
    BY <2>1, <1>12, CoprimeCancels
<1> QED
  BY <1>6, <1>13 DEF x

\* refine: the new classes are the residues with both properties.
Merged(R, A, m, l) == {Combined(old, small % l, m, l) : old \in R, small \in A}
Both(R, A, m, l) == {c \in 0 .. m * l - 1 : c % m \in R /\ c % l \in {a % l : a \in A}}

LEMMA MergeIsExact ==
  ASSUME NEW m \in Nat, m > 0, NEW l \in Nat, l > 0, Invertible(m, l)
  PROVE  \A R \in SUBSET (0 .. m - 1), A \in SUBSET Int : Merged(R, A, m, l) = Both(R, A, m, l)
<1> TAKE R \in SUBSET (0 .. m - 1), A \in SUBSET Int
<1>1. ASSUME NEW old \in R, NEW small \in A
      PROVE  /\ Combined(old, small % l, m, l) \in 0 .. m * l - 1
             /\ Combined(old, small % l, m, l) % m = old
             /\ Combined(old, small % l, m, l) % l = small % l
  <2> DEFINE s == small % l
  <2>1. old \in 0 .. m - 1 /\ s \in 0 .. l - 1
    BY ModRange
  <2> HIDE DEF s
  <2>2. /\ Combined(old, s, m, l) \in 0 .. m * l - 1
        /\ Combined(old, s, m, l) % m = old
        /\ Combined(old, s, m, l) % l = s
    BY <2>1, CombinedFacts
  <2> QED
    BY <2>2 DEF s
<1>2. ASSUME NEW c \in 0 .. m * l - 1, c % m \in R, NEW a \in A, c % l = a % l
      PROVE  c \in {Combined(old, small % l, m, l) : old \in R, small \in A}
  <2>1. Combined(c % m, a % l, m, l) = c
    BY <1>2, CombinedIsOnly
  <2> QED
    BY <1>2, <2>1
<1>3. Merged(R, A, m, l) \subseteq Both(R, A, m, l)
  BY <1>1 DEF Merged, Both
<1>4. Both(R, A, m, l) \subseteq Merged(R, A, m, l)
  <2> SUFFICES ASSUME NEW c \in Both(R, A, m, l) PROVE c \in Merged(R, A, m, l)
    OBVIOUS
  <2>1. PICK a \in A : c \in 0 .. m * l - 1 /\ c % m \in R /\ c % l = a % l
    BY DEF Both
  <2> QED
    BY <1>2, <2>1 DEF Merged
<1> QED
  BY <1>3, <1>4

-----------------------------------------------------------------------------
(* The Hasse interval and its residue classes.                             *)

\* The radius is the integer square root of 4 p.
LEMMA RadiusFacts ==
  ASSUME NEW p \in Nat
  PROVE  /\ HasseRadius(p) \in Nat
         /\ HasseRadius(p) * HasseRadius(p) <= 4 * p
         /\ 4 * p < (HasseRadius(p) + 1) * (HasseRadius(p) + 1)
<1> DEFINE T == {k \in Nat : 4 * p < (k + 1) * (k + 1)}
<1>1. 4 * p \in T
  <2>1. 4 * p \in Nat
    OBVIOUS
  <2>2. \A n \in Nat : n < (n + 1) * (n + 1)
    OBVIOUS
  <2> QED
    BY <2>1, <2>2
<1>2. PICK h \in T : \A k \in T : h <= k
  <2> HIDE DEF T
  <2>1. T # {}
    BY <1>1
  <2> QED
    BY <2>1, LeastNatural DEF T
<1>3. h \in 0 .. 4 * p /\ 4 * p < (h + 1) * (h + 1)
  BY <1>1, <1>2
<1>4. h * h <= 4 * p
  <2>1. CASE h = 0
    BY <2>1
  <2>2. CASE h # 0
    <3>1. h - 1 \in Nat /\ h - 1 \notin T /\ (h - 1) + 1 = h
      BY <1>2, <2>2
    <3>2. ~(4 * p < ((h - 1) + 1) * ((h - 1) + 1))
      BY <3>1
    <3> QED
      BY <1>3, <3>1, <3>2
  <2> QED
    BY <2>1, <2>2
<1> DEFINE radius == HasseRadius(p)
<1>5. radius \in 0 .. 4 * p /\ radius * radius <= 4 * p /\ 4 * p < (radius + 1) * (radius + 1)
  BY <1>3, <1>4 DEF HasseRadius
<1> QED
  BY <1>5

\* Hasse's bound in the form |t| <= floor(sqrt(4 p)) is the bound on the square.
LEMMA HasseFacts ==
  ASSUME NEW p \in Nat
  PROVE  \A t \in Int : t \in Hasse(p) <=> t * t <= 4 * p
<1> TAKE t \in Int
<1> DEFINE h == HasseRadius(p)
<1>1. h \in Nat /\ h * h <= 4 * p /\ 4 * p < (h + 1) * (h + 1)
  BY RadiusFacts
<1>2. t \in Hasse(p) <=> -h <= t /\ t <= h
  BY <1>1 DEF Hasse
<1> HIDE DEF h
<1>3. ASSUME NEW n \in Nat PROVE n <= h <=> n * n <= 4 * p
  <2>1. n <= h => n * n <= h * h
    BY <1>1
  <2>2. n >= h + 1 => n * n >= (h + 1) * (h + 1)
    BY <1>1
  <2> QED
    BY <1>1, <2>1, <2>2
<1>4. CASE t >= 0
  <2>1. t \in Nat
    BY <1>4
  <2>2. t <= h <=> t * t <= 4 * p
    BY <1>3, <2>1
  <2> QED
    BY <1>1, <1>2, <1>4, <2>2
<1>5. CASE t < 0
  <2>1. -t \in Nat /\ (-t) * (-t) = t * t
    BY <1>5
  <2>2. -t <= h <=> (-t) * (-t) <= 4 * p
    BY <1>3, <2>1
  <2> QED
    BY <1>1, <1>2, <1>5, <2>1, <2>2
<1> QED
  BY <1>4, <1>5

\* first_congruent_at_least finds the first trace of the class.
LEMMA FirstFacts ==
  ASSUME NEW h \in Nat, NEW m \in Nat, m > 0, NEW r \in 0 .. m - 1
  PROVE  \E s \in 0 .. m - 1, k \in Int :
           FirstAtLeast(-h, r, m) = -h + s /\ FirstAtLeast(-h, r, m) = m * k + r
<1> DEFINE d == r - (-h)
           q == d \div m
           s == d % m
<1>1. d \in Int
  OBVIOUS
<1>2. q \in Int /\ s \in 0 .. m - 1 /\ d = m * q + s
  <2> HIDE DEF d
  <2> QED
    BY <1>1
<1>3. FirstAtLeast(-h, r, m) = r + (-q) * m
  BY DEF FirstAtLeast
<1> HIDE DEF q, s
<1>4. -q \in Int /\ r + (-q) * m = m * (-q) + r /\ r + (-q) * m = -h + s
  BY <1>2
<1>5. FirstAtLeast(-h, r, m) = -h + s /\ FirstAtLeast(-h, r, m) = m * (-q) + r
  BY <1>3, <1>4
<1> HIDE DEF d
<1> QED
  BY <1>2, <1>4, <1>5

\* Stepping from the first trace by the modulus gives the class.
LEMMA ClassFacts ==
  ASSUME NEW h \in Nat, NEW m \in Nat, m > 0, NEW r \in 0 .. m - 1
  PROVE  /\ OfClass(h, r, m) = {t \in -h .. h : t % m = r}
         /\ ClassCount(h, r, m) \in Nat
         /\ ClassCount(h, r, m) = 0 <=> OfClass(h, r, m) = {}
         /\ ClassCount(h, r, m) <= 1 =>
              \A t, u \in OfClass(h, r, m) : t = u
<1> DEFINE first == FirstAtLeast(-h, r, m)
           last == (h - first) \div m
<1>1. PICK s \in 0 .. m - 1, k \in Int : first = -h + s /\ first = m * k + r
  BY FirstFacts
<1> HIDE DEF first
<1>2. first \in Int /\ h - first \in Int
  BY <1>1
<1>3. last \in Int /\ m * last <= h - first /\ h - first < m * (last + 1)
  <2> DEFINE d == h - first
             q == d \div m
             e == d % m
  <2>1. d \in Int
    BY <1>2
  <2>2. q \in Int /\ e \in 0 .. m - 1 /\ d = m * q + e
    <3> HIDE DEF d
    <3> QED
      BY <2>1
  <2>3. m * (q + 1) = m * q + m
    <3> HIDE DEF q
    <3> QED
      BY <2>2
  <2> HIDE DEF q, e
  <2>4. m * q <= d /\ d < m * (q + 1)
    BY <2>1, <2>2, <2>3
  <2> QED
    BY <2>2, <2>4 DEF q
<1>4. OfClass(h, r, m) = IF first > h THEN {} ELSE {first + j * m : j \in 0 .. last}
  BY DEF OfClass, first
<1>5. ClassCount(h, r, m) = IF first > h THEN 0 ELSE last + 1
  BY DEF ClassCount, first
<1> HIDE DEF last
<1>6. first <= h => last >= 0
  <2>1. last <= -1 => m * (last + 1) <= 0
    BY <1>3
  <2> QED
    BY <1>2, <1>3, <2>1
\* Every trace of the class is a number of steps away.
<1>7. ASSUME NEW t \in -h .. h, t % m = r
      PROVE  first <= h /\ \E j \in 0 .. last : t = first + j * m
  <2>1. PICK n \in Int : \E x \in 0 .. m - 1 : t = m * n + x /\ t % m = x
    <3>1. t \in Int
      OBVIOUS
    <3> QED
      BY <3>1, ModFacts
  <2>2. t = m * n + r
    BY <1>7, <2>1
  <2>3. t - first = m * (n - k)
    BY <1>1, <2>2
  <2>4. n - k >= 0
    <3>1. n - k <= -1 => m * (n - k) <= -m
      OBVIOUS
    <3>2. t - first > -m
      BY <1>1
    <3> QED
      BY <2>3, <3>1, <3>2
  <2>5. n - k <= last
    <3>1. n - k >= last + 1 => m * (n - k) >= m * (last + 1)
      BY <1>3
    <3>2. m * (n - k) <= h - first
      BY <1>2, <2>3
    <3>3. m * (n - k) \in Int /\ m * (last + 1) \in Int
      BY <1>3
    <3> QED
      BY <1>2, <1>3, <3>1, <3>2, <3>3
  <2>6. n - k \in 0 .. last /\ t = first + (n - k) * m
    BY <1>2, <1>3, <2>3, <2>4, <2>5
  <2>7. first <= h
    <3>1. m * (n - k) >= 0
      BY <2>4
    <3> QED
      BY <1>2, <2>3, <3>1
  <2> QED
    BY <2>6, <2>7
<1>8. ASSUME first <= h, NEW j \in 0 .. last
      PROVE  first + j * m \in -h .. h /\ (first + j * m) % m = r
  <2> DEFINE t == first + j * m
  <2>1. t \in Int /\ j * m >= 0 /\ j * m <= m * last
    BY <1>2, <1>3
  <2>2. t \in -h .. h
    BY <1>1, <1>2, <1>3, <2>1
  <2>3. t = m * (k + j) + r /\ k + j \in Int
    BY <1>1, <1>3
  <2> HIDE DEF t
  <2>4. t % m = r
    BY <2>1, <2>3, ModUnique
  <2> QED
    BY <2>2, <2>4 DEF t
<1>9. OfClass(h, r, m) = {t \in -h .. h : t % m = r}
  BY <1>2, <1>4, <1>7, <1>8
<1>10. ClassCount(h, r, m) \in Nat /\ (ClassCount(h, r, m) = 0 <=> OfClass(h, r, m) = {})
  <2>1. first <= h => first + 0 * m \in OfClass(h, r, m)
    BY <1>2, <1>3, <1>4, <1>6
  <2> QED
    BY <1>2, <1>3, <1>4, <1>5, <1>6, <2>1
<1>11. ASSUME ClassCount(h, r, m) <= 1, NEW t \in OfClass(h, r, m), NEW u \in OfClass(h, r, m)
       PROVE  t = u
  <2>1. first <= h /\ last <= 0
    BY <1>2, <1>3, <1>4, <1>5, <1>11
  <2>2. 0 .. last \subseteq {0}
    BY <1>3, <2>1
  <2> QED
    BY <1>2, <1>4, <2>1, <2>2
<1> QED
  BY <1>9, <1>10, <1>11

-----------------------------------------------------------------------------
(* Counting and enumerating the candidates.                                *)

\* A set of constraints an object of the class can hold.
WellFormed(tc) ==
  /\ tc.modulus \in Nat /\ tc.modulus > 0
  /\ tc.residues \subseteq 0 .. tc.modulus - 1

\* The candidates, by definition.
Candidates(p, tc) == {t \in Hasse(p) : t % tc.modulus \in tc.residues}

\* The recursive function candidate_count adds the classes up with.
Counts(f, h, m, R) ==
  f = [s \in SUBSET R |-> IF s = {} THEN 0 ELSE ClassCount(h, Pick(s), m) + f[Others(s)]]

LEMMA CountUnfolds ==
  ASSUME NEW p, NEW tc
  PROVE  CandidateCount(p, tc)
           = (CHOOSE f : Counts(f, HasseRadius(p), tc.modulus, tc.residues))[tc.residues]
  BY Zenon DEF CandidateCount, MapThenSumSet, MapThenFoldSet, Counts, Pick, Others

\* The sum is that of naturals: no term is larger, no two are, and it is zero
\* when all of them are.
LEMMA SumFacts ==
  ASSUME NEW h \in Nat, NEW m \in Nat, m > 0, NEW R \in SUBSET (0 .. m - 1)
  PROVE  LET sum == (CHOOSE f : Counts(f, h, m, R))[R]
             count(r) == ClassCount(h, r, m)
         IN /\ sum \in Nat
            /\ \A r \in R : count(r) <= sum
            /\ \A r, q \in R : r # q => count(r) + count(q) <= sum
            /\ (\A r \in R : count(r) = 0) => sum = 0
<1> DEFINE count(r) == ClassCount(h, r, m)
           w == [r \in R |-> count(r)]
           f == CHOOSE g : Counts(g, h, m, R)
<1>1. IsFiniteSet(R)
  <2>1. IsFiniteSet(0 .. m - 1)
    BY FS_Interval
  <2> QED
    BY <2>1, FS_Subset
<1>2. \A r \in R : count(r) \in Nat
  BY ClassFacts
<1>3. Counts(f, h, m, R)
  <2>1. w \in [R -> Nat]
    <3> HIDE DEF count
    <3> QED
      BY <1>2
  <2>2. PICK g \in [SUBSET R -> Nat] : IsSum(g, w, R)
    <3> HIDE DEF w
    <3> QED
      BY <1>1, <2>1, SumExists, Zenon
  <2>3. ASSUME NEW s \in SUBSET R
        PROVE  g[s] = IF s = {} THEN 0 ELSE ClassCount(h, Pick(s), m) + g[Others(s)]
    <3>1. CASE s = {}
      BY <2>2, <3>1 DEF IsSum, SumStep
    <3>2. CASE s # {}
      <4>1. Pick(s) \in R
        BY <1>1, <3>2, PickFacts
      <4> QED
        BY <2>2, <3>2, <4>1 DEF IsSum, SumStep
    <3> QED
      BY <3>1, <3>2
  <2>4. Counts(g, h, m, R)
    BY <2>2, <2>3 DEF Counts
  <2> QED
    BY <2>4
<1> HIDE DEF f, count
<1>4. \A s \in SUBSET R : f[s] = IF s = {} THEN 0 ELSE count(Pick(s)) + f[Others(s)]
  BY <1>3 DEF Counts, count
<1> DEFINE Sums(s) == /\ f[s] \in Nat
                      /\ \A r \in s : count(r) <= f[s]
                      /\ \A r, q \in s : r # q => count(r) + count(q) <= f[s]
                      /\ (\A r \in s : count(r) = 0) => f[s] = 0
           T == {s \in SUBSET R : Sums(s)}
<1>5. {} \in T
  BY <1>4
<1>6. ASSUME NEW s \in SUBSET R, s # {}, Others(s) \in T PROVE s \in T
  <2> DEFINE x == Pick(s)
             o == Others(s)
  <2>1. x \in s /\ s = o \cup {x} /\ count(x) \in Nat
    <3>1. Pick(s) \in s
      BY <1>1, <1>6, PickFacts
    <3> HIDE DEF T
    <3> QED
      BY <1>2, <3>1 DEF Others
  <2>2. f[s] = count(x) + f[o] /\ Sums(o)
    BY <1>4, <1>6
  <2>3. \A r \in o : count(r) \in Nat /\ count(r) <= f[o]
    BY <1>2, <2>1, <2>2
  <2>4. f[s] \in Nat /\ \A r \in s : count(r) <= f[s]
    <3> HIDE DEF x, o
    <3> QED
      BY <2>1, <2>2, <2>3
  <2>5. \A r, q \in s : r # q => count(r) + count(q) <= f[s]
    <3> HIDE DEF x, o
    <3> QED
      BY <2>1, <2>2, <2>3
  <2>6. (\A r \in s : count(r) = 0) => f[s] = 0
    <3> HIDE DEF x, o
    <3> QED
      BY <2>1, <2>2
  <2> QED
    BY <2>4, <2>5, <2>6
<1>7. T = SUBSET R
  <2>1. T \in SUBSET (SUBSET R)
    OBVIOUS
  <2> HIDE DEF T
  <2> QED
    BY <1>1, <1>5, <1>6, <2>1, SubsetInduction
<1>8. Sums(R)
  BY <1>7
<1> QED
  BY <1>8 DEF f, count

\* candidate_count is zero when no trace is left, and only then; at most one
\* trace is left when it is at most one.
LEMMA CountFacts ==
  ASSUME NEW p \in Nat, NEW tc, WellFormed(tc)
  PROVE  /\ CandidateCount(p, tc) \in Nat
         /\ CandidateCount(p, tc) = 0 <=> Candidates(p, tc) = {}
         /\ CandidateCount(p, tc) <= 1 => \A t, u \in Candidates(p, tc) : t = u
<1> DEFINE h == HasseRadius(p)
           m == tc.modulus
           R == tc.residues
           sum == CandidateCount(p, tc)
           count(r) == ClassCount(h, r, m)
<1>1. h \in Nat /\ m \in Nat /\ m > 0 /\ R \in SUBSET (0 .. m - 1)
  BY RadiusFacts DEF WellFormed
<1>2. sum = (CHOOSE f : Counts(f, h, m, R))[R]
  BY CountUnfolds
<1>3. Candidates(p, tc) = {t \in -h .. h : t % m \in R}
  BY DEF Candidates, Hasse
<1> HIDE DEF h, m, R, sum
<1>4. /\ sum \in Nat
      /\ \A r \in R : count(r) <= sum
      /\ \A r, q \in R : r # q => count(r) + count(q) <= sum
      /\ (\A r \in R : count(r) = 0) => sum = 0
  BY <1>1, <1>2, SumFacts
<1>5. \A r \in R : /\ OfClass(h, r, m) = {t \in -h .. h : t % m = r}
                   /\ count(r) \in Nat
                   /\ count(r) = 0 <=> OfClass(h, r, m) = {}
                   /\ count(r) <= 1 => \A t, u \in OfClass(h, r, m) : t = u
  BY <1>1, ClassFacts
<1> HIDE DEF count
<1>6. sum = 0 <=> Candidates(p, tc) = {}
  <2>1. ASSUME sum = 0, NEW t \in Candidates(p, tc) PROVE FALSE
    <3>1. t % m \in R /\ t \in OfClass(h, t % m, m)
      BY <1>3, <1>5, <2>1
    <3>2. count(t % m) # 0
      BY <1>5, <3>1
    <3> QED
      BY <1>4, <1>5, <2>1, <3>1, <3>2
  <2>2. ASSUME Candidates(p, tc) = {}, NEW r \in R PROVE count(r) = 0
    <3>1. OfClass(h, r, m) = {}
      BY <1>3, <1>5, <2>2
    <3> QED
      BY <1>5, <3>1
  <2> QED
    BY <1>4, <2>1, <2>2
<1>7. ASSUME sum <= 1, NEW t \in Candidates(p, tc), NEW u \in Candidates(p, tc) PROVE t = u
  <2> DEFINE r == t % m
             q == u % m
  <2>1. r \in R /\ q \in R /\ t \in OfClass(h, r, m) /\ u \in OfClass(h, q, m)
    BY <1>3, <1>5, <1>7
  <2> HIDE DEF r, q
  <2>2. count(r) \in Nat /\ count(q) \in Nat /\ count(r) # 0 /\ count(q) # 0
    BY <1>5, <2>1
  <2>3. r = q
    BY <1>4, <1>7, <2>1, <2>2
  <2>4. count(r) <= 1
    BY <1>4, <1>7, <2>1, <2>2
  <2> QED
    BY <1>5, <2>1, <2>3, <2>4
<1> QED
  BY <1>4, <1>6, <1>7 DEF sum

\* enumerate within its cap is complete.
LEMMA EnumerateFacts ==
  ASSUME NEW p \in Nat, NEW tc, WellFormed(tc), NEW cap, ~(CandidateCount(p, tc) > cap)
  PROVE  Enumerate(p, tc, cap) = Candidates(p, tc)
<1> DEFINE h == HasseRadius(p)
           m == tc.modulus
<1>1. h \in Nat /\ m \in Nat /\ m > 0 /\ tc.residues \subseteq 0 .. m - 1
  BY RadiusFacts DEF WellFormed
<1>2. \A r \in tc.residues : OfClass(h, r, m) = {t \in -h .. h : t % m = r}
  BY <1>1, ClassFacts
<1>3. Enumerate(p, tc, cap) = UNION {OfClass(h, r, m) : r \in tc.residues}
  BY DEF Enumerate
<1>4. Candidates(p, tc) = {t \in -h .. h : t % m \in tc.residues}
  BY DEF Candidates, Hasse
<1> HIDE DEF h, m
<1> QED
  BY <1>2, <1>3, <1>4

\* A refinement adds its own condition on the trace, and no other.
LEMMA RefineFacts ==
  ASSUME NEW tc, WellFormed(tc), NEW ell \in Nat, ell > 0, Invertible(tc.modulus, ell)
  PROVE  \A allowed \in SUBSET Int :
           /\ WellFormed(Refine(tc, ell, allowed))
           /\ Refine(tc, ell, allowed).modulus = tc.modulus * ell
           /\ \A t \in Int :
                t % (tc.modulus * ell) \in Refine(tc, ell, allowed).residues
                  <=> t % tc.modulus \in tc.residues /\ t % ell \in {a % ell : a \in allowed}
<1> TAKE allowed \in SUBSET Int
<1> DEFINE m == tc.modulus
           R == tc.residues
           refined == Refine(tc, ell, allowed)
<1>1. m \in Nat /\ m > 0 /\ R \in SUBSET (0 .. m - 1)
  BY DEF WellFormed
<1>2. refined.modulus = m * ell /\ refined.residues = Merged(R, allowed, m, ell)
  BY DEF Refine, Merged
<1>3. Invertible(m, ell)
  OBVIOUS
<1> HIDE DEF m, R, refined
<1>4. refined.residues = Both(R, allowed, m, ell)
  BY <1>1, <1>2, <1>3, MergeIsExact
<1>5. m * ell \in Nat /\ m * ell > 0 /\ m * ell = ell * m
  BY <1>1
<1>6. WellFormed(refined)
  BY <1>2, <1>4, <1>5 DEF WellFormed, Both
<1>7. ASSUME NEW t \in Int
      PROVE  t % (m * ell) \in refined.residues
               <=> t % m \in R /\ t % ell \in {a % ell : a \in allowed}
  <2>1. t % (m * ell) \in 0 .. m * ell - 1
    BY <1>5, ModRange
  <2>2. (t % (m * ell)) % m = t % m
    BY <1>1, ModThrough
  <2>3. (t % (ell * m)) % ell = t % ell
    BY <1>1, ModThrough
  <2>4. (t % (m * ell)) % ell = t % ell
    BY <1>5, <2>3
  <2> QED
    BY <1>4, <2>1, <2>2, <2>4 DEF Both
<1> QED
  BY <1>2, <1>6, <1>7 DEF m, R, refined

-----------------------------------------------------------------------------
(* Arithmetic modulo a prime.                                              *)

\* mpz_invert succeeds modulo a prime that does not divide the modulus.
LEMMA PrimeInverts ==
  ASSUME NEW q \in Nat, SmallPrime(q), NEW m \in Nat, m % q # 0
  PROVE  Invertible(m, q)
<1>1. q > 1 /\ q > 0
  BY DEF SmallPrime
<1>2. PICK x \in Int, y \in Int : m * x + q * y = 1
  BY Bezout
<1>3. m \in Int
  OBVIOUS
<1>4. PICK a \in Int : \E r \in 0 .. q - 1 : m = q * a + r /\ m % q = r
  BY <1>1, <1>3, ModFacts, Zenon
<1>5. PICK r \in 0 .. q - 1 : m = q * a + r /\ m % q = r
  BY <1>4
<1>6. PICK b \in Int : \E i \in 0 .. q - 1 : x = q * b + i /\ x % q = i
  BY <1>1, ModFacts, Zenon
<1>7. PICK i \in 0 .. q - 1 : x = q * b + i
  BY <1>6
<1> DEFINE n == -y - a * x - r * b
           product == r * i
<1>8. n \in Int /\ product \in Int /\ 1 \in 0 .. q - 1
  BY <1>1, <1>5, <1>7
<1>9. product = q * n + 1
  <2>1. m * x = q * (a * x) + r * x
    BY <1>5
  <2>2. r * x = q * (r * b) + r * i
    BY <1>5, <1>7
  <2> QED
    BY <1>2, <1>5, <1>7, <2>1, <2>2
<1> HIDE DEF n, product
<1>10. product % q = 1
  BY <1>1, <1>8, <1>9, ModUnique, Zenon
<1> QED
  BY <1>5, <1>7, <1>10 DEF Invertible, IsInverse, product

\* A prime that divides neither factor does not divide the product.
LEMMA Euclid ==
  ASSUME NEW q \in Nat, SmallPrime(q), NEW a \in Nat, a % q # 0, NEW b \in Nat, b % q # 0
  PROVE  (a * b) % q # 0
<1> SUFFICES ASSUME (a * b) % q = 0 PROVE FALSE
  OBVIOUS
<1>1. q > 1
  BY DEF SmallPrime
<1>2. PICK x \in Int, y \in Int : a * x + q * y = 1
  BY Bezout
<1>3. PICK w \in Int : \E r \in 0 .. q - 1 : a * b = q * w + r /\ (a * b) % q = r
  <2> DEFINE c == a * b
  <2>1. c \in Int
    OBVIOUS
  <2> HIDE DEF c
  <2>2. \E w \in Int : \E r \in 0 .. q - 1 : c = q * w + r /\ c % q = r
    BY <1>1, <2>1, ModFacts
  <2> QED
    BY <2>2 DEF c
<1>4. a * b = q * w
  BY <1>3
<1>5. b = q * (w * x + b * y)
  <2>1. b = b * (a * x + q * y)
    BY <1>2
  <2>2. b * (a * x + q * y) = (a * b) * x + q * (b * y)
    OBVIOUS
  <2> QED
    BY <1>4, <2>1, <2>2
<1> DEFINE n == w * x + b * y
<1>6. n \in Int /\ b = q * n
  BY <1>5
<1> HIDE DEF n
<1>7. b % q = 0
  BY <1>1, <1>6, ModOfMultiple
<1> QED
  BY <1>7

\* One squaring, and the factor of an odd exponent.
Squared(half, e, base, m) ==
  LET square == (half * half) % m
  IN IF e % 2 = 1 THEN (square * base) % m ELSE square

PowSteps(f, base, exponent, m) ==
  f = [e \in 0 .. exponent |->
         IF e = 0 THEN 1 % m ELSE Squared(f[e \div 2], e, base, m)]

LEMMA PowModUnfolds ==
  ASSUME NEW base, NEW exponent, NEW m
  PROVE  PowMod(base, exponent, m) = (CHOOSE f : PowSteps(f, base, exponent, m))[exponent]
  BY Zenon DEF PowMod, PowSteps, Squared

\* What squaring makes of a power, and a further factor.
LEMMA PowModSteps ==
  ASSUME NEW m \in Nat, m > 0, NEW base \in Int, NEW n \in Nat,
         NEW P \in [0 .. n -> Int], IsPowers(P, base, Times, 1, n),
         NEW e \in 1 .. n
  PROVE  P[e] % m = Squared(P[e \div 2] % m, e, base, m)
<1> DEFINE h == e \div 2
<1>1. /\ h \in 0 .. n /\ h + h \in 0 .. n /\ e \in Nat /\ h + h <= n
      /\ e % 2 = 1 => e = (h + h) + 1
      /\ e % 2 # 1 => e = h + h
  BY HalfFacts
<1> HIDE DEF h
<1>2. P[h + h] = P[h] * P[h]
  BY <1>1, NumberPowersAdd
<1>3. P[h] \in Int /\ P[h + h] \in Int /\ P[h + h] = P[h] * P[h]
  BY <1>1, <1>2
<1>4. ((P[h] % m) * (P[h] % m)) % m = P[h + h] % m
  <2>1. ((P[h] % m) * (P[h] % m)) % m = (P[h] * P[h]) % m
    BY <1>3, ModTimes, Zenon DEF SameMod
  <2> QED
    BY <1>3, <2>1, Zenon
<1>5. CASE e % 2 = 1
  <2>1. e = (h + h) + 1 /\ e - 1 = h + h
    BY <1>1, <1>5
  <2>2. P[e] = Times[<<P[h + h], base>>]
    BY <2>1 DEF IsPowers
  <2>3. P[e] = P[h + h] * base
    BY <1>3, <2>2, TimesFacts
  <2>4. ((P[h + h] % m) * base) % m = (P[h + h] * base) % m
    BY <1>3, ModTimes, Zenon DEF SameMod
  <2>5. Squared(P[h] % m, e, base, m) = ((P[h + h] % m) * base) % m
    BY <1>4, <1>5, Zenon DEF Squared
  <2> QED
    BY <2>3, <2>4, <2>5, Zenon DEF h
<1>6. CASE e % 2 # 1
  <2>1. Squared(P[h] % m, e, base, m) = P[h + h] % m
    BY <1>4, <1>6, Zenon DEF Squared
  <2> QED
    BY <1>1, <1>6, <2>1 DEF h
<1> QED
  BY <1>5, <1>6

\* pow_mod is the power modulo m.
LEMMA PowModFacts ==
  ASSUME NEW m \in Nat, m > 0, NEW base \in Int, NEW n \in Nat,
         NEW P \in [0 .. n -> Int], IsPowers(P, base, Times, 1, n)
  PROVE  PowMod(base, n, m) = P[n] % m
<1> DEFINE rep == [e \in 0 .. n |-> P[e] % m]
           f == CHOOSE g : PowSteps(g, base, n, m)
           T == {e \in Nat : e <= n => f[e] = P[e] % m}
<1>1. \A e \in 0 .. n : e # 0 =>
        e \div 2 \in 0 .. n /\ P[e] % m = Squared(P[e \div 2] % m, e, base, m)
  <2> SUFFICES ASSUME NEW e \in 0 .. n, e # 0
               PROVE  e \div 2 \in 0 .. n /\ P[e] % m = Squared(P[e \div 2] % m, e, base, m)
    OBVIOUS
  <2>1. e \in 1 .. n /\ e \div 2 \in 0 .. n
    BY HalfFacts
  <2> QED
    BY <2>1, PowModSteps
<1>2. P[0] = 1
  BY DEF IsPowers
<1>3. PowSteps(rep, base, n, m)
  <2>1. ASSUME NEW e \in 0 .. n
        PROVE  P[e] % m = IF e = 0 THEN 1 % m ELSE Squared(rep[e \div 2], e, base, m)
    <3>1. CASE e = 0
      BY <1>2, <3>1
    <3>2. CASE e # 0
      <4>1. rep[e \div 2] = P[e \div 2] % m
        BY <1>1, <3>2
      <4> QED
        BY <1>1, <3>2, <4>1, Zenon
    <3> QED
      BY <3>1, <3>2
  <2> QED
    BY <2>1, Zenon DEF PowSteps
<1>4. PowSteps(f, base, n, m)
  BY <1>3, Zenon
<1> HIDE DEF f
<1>5. \A e \in 0 .. n : f[e] = IF e = 0 THEN 1 % m ELSE Squared(f[e \div 2], e, base, m)
  BY <1>4, Zenon DEF PowSteps
<1>6. 0 \in T
  BY <1>2, <1>5
<1>7. ASSUME NEW e \in Nat, e # 0, e \div 2 \in T PROVE e \in T
  <2> SUFFICES ASSUME e <= n PROVE f[e] = P[e] % m
    OBVIOUS
  <2>1. e \in 0 .. n /\ e \div 2 \in 0 .. n
    BY <1>1, <1>7
  <2>2. f[e \div 2] = P[e \div 2] % m
    BY <1>7, <2>1
  <2> QED
    BY <1>1, <1>5, <1>7, <2>1, <2>2, Zenon
<1>8. T = Nat
  <2>1. T \in SUBSET Nat
    OBVIOUS
  <2> HIDE DEF T
  <2> QED
    BY <1>6, <1>7, <2>1, HalvingInduction
<1>9. f[n] = P[n] % m
  BY <1>8
<1> QED
  BY <1>9, PowModUnfolds DEF f

-----------------------------------------------------------------------------
(* matrix_pow.  The powers of the companion matrix M of x^2 - t x + p are  *)
(* the matrices of the numbers a + b M, which are multiplied as pairs.     *)

\* The number a + b M, as <<a, b>>.
Quadratics == Int \X Int

\* The product of two of them: M^2 is t M - p.
QuadraticTimes(p, t) ==
  [z \in Quadratics \X Quadratics |->
     <<z[1][1] * z[2][1] - p * (z[1][2] * z[2][2]),
       z[1][1] * z[2][2] + z[1][2] * z[2][1] + t * (z[1][2] * z[2][2])>>]

Product(op, p, t, a, b, c, d) ==
  op[<<<<a, b>>, <<c, d>>>>] = <<a * c - p * (b * d), a * d + b * c + t * (b * d)>>

IsQuadraticTimes(op, p, t) == \A a, b, c, d \in Int : Product(op, p, t, a, b, c, d)

LEMMA QuadraticApplies ==
  ASSUME NEW p \in Int, NEW t \in Int
  PROVE  /\ QuadraticTimes(p, t) \in [Quadratics \X Quadratics -> Quadratics]
         /\ IsQuadraticTimes(QuadraticTimes(p, t), p, t)
<1>1. IsQuadraticTimes(QuadraticTimes(p, t), p, t)
  <2> SUFFICES ASSUME NEW a \in Int, NEW b \in Int, NEW c \in Int, NEW d \in Int
               PROVE  Product(QuadraticTimes(p, t), p, t, a, b, c, d)
    BY DEF IsQuadraticTimes
  <2>1. <<<<a, b>>, <<c, d>>>> \in Quadratics \X Quadratics
    BY DEF Quadratics
  <2> QED
    BY <2>1 DEF QuadraticTimes, Product
<1>2. ASSUME NEW x \in Quadratics, NEW y \in Quadratics
      PROVE  /\ x[1] * y[1] - p * (x[2] * y[2]) \in Int
             /\ x[1] * y[2] + x[2] * y[1] + t * (x[2] * y[2]) \in Int
  <2>1. x[1] \in Int /\ x[2] \in Int /\ y[1] \in Int /\ y[2] \in Int
    BY DEF Quadratics
  <2> QED
    BY <2>1
<1>3. QuadraticTimes(p, t) \in [Quadratics \X Quadratics -> Quadratics]
  BY <1>2 DEF QuadraticTimes, Quadratics
<1> QED
  BY <1>1, <1>3

\* The product is associative: an identity in each of the two places.
LEMMA QuadraticAssociates ==
  ASSUME NEW p \in Int, NEW t \in Int, NEW a \in Int, NEW b \in Int,
         NEW c \in Int, NEW d \in Int, NEW e \in Int, NEW f \in Int
  PROVE  /\ a * (c * e - p * (d * f)) - p * (b * (c * f + d * e + t * (d * f)))
            = (a * c - p * (b * d)) * e - p * ((a * d + b * c + t * (b * d)) * f)
         /\ a * (c * f + d * e + t * (d * f)) + b * (c * e - p * (d * f))
              + t * (b * (c * f + d * e + t * (d * f)))
            = (a * c - p * (b * d)) * f + (a * d + b * c + t * (b * d)) * e
              + t * ((a * d + b * c + t * (b * d)) * f)
OBVIOUS

LEMMA QuadraticMonoid ==
  ASSUME NEW p \in Int, NEW t \in Int
  PROVE  CommutativeMonoid(Quadratics, QuadraticTimes(p, t), <<1, 0>>)
<1> DEFINE op == QuadraticTimes(p, t)
<1>1. op \in [Quadratics \X Quadratics -> Quadratics] /\ IsQuadraticTimes(op, p, t)
  BY QuadraticApplies
<1> HIDE DEF op
<1>2. \A a, b, c, d \in Int : Product(op, p, t, a, b, c, d)
  BY <1>1 DEF IsQuadraticTimes
<1>3. \A x \in Quadratics : \E a, b \in Int : x = <<a, b>>
  BY DEF Quadratics
<1>4. ASSUME NEW x \in Quadratics PROVE op[<<<<1, 0>>, x>>] = x
  <2>1. PICK a \in Int, b \in Int : x = <<a, b>>
    BY <1>3
  <2>0. 1 \in Int /\ 0 \in Int
    OBVIOUS
  <2>2. op[<<<<1, 0>>, <<a, b>>>>] = <<1 * a - p * (0 * b), 1 * b + 0 * a + t * (0 * b)>>
    <3>1. Product(op, p, t, 1, 0, a, b)
      BY <1>2, <2>0, Zenon
    <3> QED
      BY <3>1 DEF Product
  <2>3. 1 * a - p * (0 * b) = a /\ 1 * b + 0 * a + t * (0 * b) = b
    OBVIOUS
  <2> QED
    BY <2>1, <2>2, <2>3
<1>5. ASSUME NEW x \in Quadratics, NEW y \in Quadratics PROVE op[<<x, y>>] = op[<<y, x>>]
  <2>1. PICK a \in Int, b \in Int : x = <<a, b>>
    BY <1>3
  <2>2. PICK c \in Int, d \in Int : y = <<c, d>>
    BY <1>3
  <2>3. /\ op[<<x, y>>] = <<a * c - p * (b * d), a * d + b * c + t * (b * d)>>
        /\ op[<<y, x>>] = <<c * a - p * (d * b), c * b + d * a + t * (d * b)>>
    <3>1. Product(op, p, t, a, b, c, d) /\ Product(op, p, t, c, d, a, b)
      BY <1>2, Zenon
    <3> QED
      BY <2>1, <2>2, <3>1 DEF Product
  <2>4. a * c = c * a /\ b * d = d * b /\ a * d + b * c = c * b + d * a
    OBVIOUS
  <2> QED
    BY <2>3, <2>4
<1>6. ASSUME NEW x \in Quadratics, NEW y \in Quadratics, NEW z \in Quadratics
      PROVE  op[<<x, op[<<y, z>>]>>] = op[<<op[<<x, y>>], z>>]
  <2>1. PICK a \in Int, b \in Int : x = <<a, b>>
    BY <1>3
  <2>2. PICK c \in Int, d \in Int : y = <<c, d>>
    BY <1>3
  <2>3. PICK e \in Int, f \in Int : z = <<e, f>>
    BY <1>3
  <2> DEFINE g == c * e - p * (d * f)
             h == c * f + d * e + t * (d * f)
             j == a * c - p * (b * d)
             k == a * d + b * c + t * (b * d)
  <2>4. g \in Int /\ h \in Int /\ j \in Int /\ k \in Int
    OBVIOUS
  <2>5. op[<<y, z>>] = <<g, h>> /\ op[<<x, y>>] = <<j, k>>
    <3>1. Product(op, p, t, a, b, c, d) /\ Product(op, p, t, c, d, e, f)
      BY <1>2, Zenon
    <3> QED
      BY <2>1, <2>2, <2>3, <3>1 DEF Product
  <2>6. a * g - p * (b * h) = j * e - p * (k * f) /\ a * h + b * g + t * (b * h) = j * f + k * e + t * (k * f)
    BY QuadraticAssociates
  <2> HIDE DEF g, h, j, k
  <2>7. /\ op[<<x, <<g, h>>>>] = <<a * g - p * (b * h), a * h + b * g + t * (b * h)>>
        /\ op[<<<<j, k>>, z>>] = <<j * e - p * (k * f), j * f + k * e + t * (k * f)>>
    <3>1. Product(op, p, t, a, b, g, h) /\ Product(op, p, t, j, k, e, f)
      BY <1>2, <2>4, Zenon
    <3> QED
      BY <2>1, <2>3, <3>1 DEF Product
  <2> QED
    BY <2>5, <2>6, <2>7
<1>7. <<1, 0>> \in Quadratics
  BY DEF Quadratics
<1> QED
  BY <1>1, <1>4, <1>5, <1>6, <1>7 DEF CommutativeMonoid, op

\* The matrix of a + b M.
MatrixOf(x, p, t, l) ==
  <<x[1] % l, (-(p * x[2])) % l, x[2] % l, (x[1] + t * x[2]) % l>>

\* Matrices multiply as the numbers do.
LEMMA MatrixOfProduct ==
  ASSUME NEW p \in Int, NEW t \in Int, NEW l \in Nat, l > 0,
         NEW x \in Quadratics, NEW y \in Quadratics
  PROVE  MatrixMul(MatrixOf(x, p, t, l), MatrixOf(y, p, t, l), l)
           = MatrixOf(QuadraticTimes(p, t)[<<x, y>>], p, t, l)
<1>1. PICK a \in Int, b \in Int : x = <<a, b>>
  BY DEF Quadratics
<1>2. PICK c \in Int, d \in Int : y = <<c, d>>
  BY DEF Quadratics
<1> DEFINE g == a * c - p * (b * d)
           h == a * d + b * c + t * (b * d)
           mb == -(p * b)
           md == -(p * d)
           sb == a + t * b
           sd == c + t * d
           mh == -(p * h)
           sh == g + t * h
<1>3. QuadraticTimes(p, t)[<<x, y>>] = <<g, h>>
  <2>1. Product(QuadraticTimes(p, t), p, t, a, b, c, d)
    BY QuadraticApplies, Zenon DEF IsQuadraticTimes
  <2> QED
    BY <1>1, <1>2, <2>1 DEF Product
<1>4. /\ g \in Int /\ h \in Int /\ mb \in Int /\ md \in Int /\ sb \in Int /\ sd \in Int
      /\ mh \in Int /\ sh \in Int
  OBVIOUS
<1>5. a * c + mb * d = g
  OBVIOUS
<1>6. a * md + mb * sd = mh
  OBVIOUS
<1>7. b * c + sb * d = h
  OBVIOUS
<1>8. b * md + sb * sd = sh
  OBVIOUS
<1>9. MatrixOf(x, p, t, l) = <<a % l, mb % l, b % l, sb % l>>
  BY <1>1 DEF MatrixOf
<1>10. MatrixOf(y, p, t, l) = <<c % l, md % l, d % l, sd % l>>
  BY <1>2 DEF MatrixOf
<1>11. MatrixOf(<<g, h>>, p, t, l) = <<g % l, mh % l, h % l, sh % l>>
  BY DEF MatrixOf
<1> HIDE DEF g, h, mb, md, sb, sd, mh, sh
<1>12. /\ SameMod((a % l) * (c % l) + (mb % l) * (d % l), a * c + mb * d, l)
       /\ SameMod((a % l) * (md % l) + (mb % l) * (sd % l), a * md + mb * sd, l)
       /\ SameMod((b % l) * (c % l) + (sb % l) * (d % l), b * c + sb * d, l)
       /\ SameMod((b % l) * (md % l) + (sb % l) * (sd % l), b * md + sb * sd, l)
  BY <1>4, ModDot, Zenon
<1>13. /\ ((a % l) * (c % l) + (mb % l) * (d % l)) % l = g % l
       /\ ((a % l) * (md % l) + (mb % l) * (sd % l)) % l = mh % l
       /\ ((b % l) * (c % l) + (sb % l) * (d % l)) % l = h % l
       /\ ((b % l) * (md % l) + (sb % l) * (sd % l)) % l = sh % l
  BY <1>5, <1>6, <1>7, <1>8, <1>12, Zenon DEF SameMod
<1>14. MatrixMul(<<a % l, mb % l, b % l, sb % l>>, <<c % l, md % l, d % l, sd % l>>, l)
         = <<g % l, mh % l, h % l, sh % l>>
  <2> DEFINE u == <<a % l, mb % l, b % l, sb % l>>
             v == <<c % l, md % l, d % l, sd % l>>
  <2>1. /\ u[1] = a % l /\ u[2] = mb % l /\ u[3] = b % l /\ u[4] = sb % l
        /\ v[1] = c % l /\ v[2] = md % l /\ v[3] = d % l /\ v[4] = sd % l
    OBVIOUS
  <2> HIDE DEF u, v
  <2>2. MatrixMul(u, v, l) = <<g % l, mh % l, h % l, sh % l>>
    BY <1>13, <2>1, Zenon DEF MatrixMul
  <2> QED
    BY <2>2 DEF u, v
<1> QED
  BY <1>3, <1>9, <1>10, <1>11, <1>14

\* The companion matrix is that of M, the unit matrix that of 1.
LEMMA MatrixOfUnits ==
  ASSUME NEW p \in Int, NEW t \in Int, NEW l \in Nat, l > 1
  PROVE  /\ MatrixOf(<<1, 0>>, p, t, l) = <<1, 0, 0, 1>>
         /\ MatrixOf(<<0, 1>>, p, t, l) = Frobenius(p, t, l)
<1>1. 0 % l = 0 /\ 1 % l = 1
  BY ModSmall
<1>2. -(p * 0) = 0 /\ 1 + t * 0 = 1 /\ p * 1 = p /\ 0 + t * 1 = t
  OBVIOUS
<1> QED
  BY <1>1, <1>2 DEF MatrixOf, Frobenius

\* A matrix a + b M is scalar when b is zero.
LEMMA ScalarFacts ==
  ASSUME NEW p \in Int, NEW t \in Int, NEW l \in Nat, l > 0, NEW x \in Quadratics
  PROVE  IsScalar(MatrixOf(x, p, t, l)) <=> Multiple(x[2], l)
<1>1. x[1] \in Int /\ x[2] \in Int
  BY DEF Quadratics
<1> DEFINE b == x[2]
           mb == -(p * b)
           s == x[1] + t * b
<1>2. b \in Int /\ mb \in Int /\ s \in Int
  BY <1>1
<1>3. IsScalar(MatrixOf(x, p, t, l)) <=> mb % l = 0 /\ b % l = 0 /\ x[1] % l = s % l
  BY DEF IsScalar, MatrixOf
<1>4. Multiple(b, l) <=> b % l = 0
  BY <1>2, MultipleMod
<1>5. ASSUME Multiple(b, l) PROVE mb % l = 0 /\ x[1] % l = s % l
  <2>1. mb = (-p) * b /\ -p \in Int
    BY <1>2
  <2>2. Multiple(mb, l)
    <3>1. Multiple((-p) * b, l)
      BY <1>2, <1>5, <2>1, Scaled, Zenon
    <3> QED
      BY <2>1, <3>1, Zenon
  <2> DEFINE d == s - x[1]
  <2>3. d = t * b /\ d \in Int
    BY <1>1, <1>2
  <2>4. Multiple(d, l)
    <3>1. Multiple(t * b, l)
      BY <1>2, <1>5, Scaled, Zenon
    <3> QED
      BY <2>3, <3>1, Zenon
  <2>5. s % l = x[1] % l
    BY <1>1, <1>2, <2>4, SameRemainder
  <2> QED
    BY <1>2, <2>2, <2>5, MultipleMod
<1> QED
  BY <1>3, <1>4, <1>5

-----------------------------------------------------------------------------
(* The powers of M, as pairs; their matrices by squaring, and by one       *)
(* factor at a time.                                                       *)

LEMMA QuadraticPowersExist ==
  ASSUME NEW p \in Int, NEW t \in Int, NEW n \in Nat
  PROVE  \E P \in [0 .. n -> Quadratics] : IsPowers(P, <<0, 1>>, QuadraticTimes(p, t), <<1, 0>>, n)
<1>1. <<0, 1>> \in Quadratics
  BY DEF Quadratics
<1> QED
  BY <1>1, QuadraticMonoid, PowersExist, Zenon

\* Squaring, and the factor of an odd exponent.
MatrixSquared(half, e, base, m) ==
  LET square == MatrixMul(half, half, m)
  IN IF e % 2 = 1 THEN MatrixMul(square, base, m) ELSE square

MatrixSteps(f, base, exponent, m) ==
  f = [e \in 0 .. exponent |->
         IF e = 0 THEN <<1, 0, 0, 1>> ELSE MatrixSquared(f[e \div 2], e, base, m)]

LEMMA MatrixPowUnfolds ==
  ASSUME NEW base, NEW exponent, NEW m
  PROVE  MatrixPow(base, exponent, m) = (CHOOSE f : MatrixSteps(f, base, exponent, m))[exponent]
  BY Zenon DEF MatrixPow, MatrixSteps, MatrixSquared

\* The powers of M, and what the matrices of two of them multiply to.
MPowers(P, p, t, n) ==
  /\ P \in [0 .. n -> Quadratics]
  /\ IsPowers(P, <<0, 1>>, QuadraticTimes(p, t), <<1, 0>>, n)

\* The matrix of one power follows from that of the power before it.
Follows(P, p, t, l, e) ==
  MatrixOf(P[e], p, t, l) = MatrixMul(MatrixOf(P[e - 1], p, t, l), Frobenius(p, t, l), l)

LEMMA MatrixStep ==
  ASSUME NEW l \in Nat, l > 1, NEW p \in Int, NEW t \in Int, NEW n \in Nat,
         NEW P, MPowers(P, p, t, n), NEW e \in 1 .. n
  PROVE  /\ e - 1 \in 0 .. n /\ P[e] = QuadraticTimes(p, t)[<<P[e - 1], <<0, 1>>>>]
         /\ Follows(P, p, t, l, e)
<1>1. e - 1 \in 0 .. n /\ P[e] = QuadraticTimes(p, t)[<<P[e - 1], <<0, 1>>>>]
  BY DEF MPowers, IsPowers
<1>2. <<0, 1>> \in Quadratics
  BY DEF Quadratics
<1>3. P[e - 1] \in Quadratics
  BY <1>1 DEF MPowers
<1>4. MatrixMul(MatrixOf(P[e - 1], p, t, l), MatrixOf(<<0, 1>>, p, t, l), l)
        = MatrixOf(QuadraticTimes(p, t)[<<P[e - 1], <<0, 1>>>>], p, t, l)
  BY <1>2, <1>3, MatrixOfProduct
<1> QED
  BY <1>1, <1>4, MatrixOfUnits DEF Follows

LEMMA MPowersAdd ==
  ASSUME NEW p \in Int, NEW t \in Int, NEW n \in Nat, NEW P, MPowers(P, p, t, n)
  PROVE  ExponentsAdd(P, QuadraticTimes(p, t), n)
<1>1. <<0, 1>> \in Quadratics
  BY DEF Quadratics
<1> QED
  BY <1>1, QuadraticMonoid, PowersAdd, Zenon DEF MPowers

LEMMA MatrixPowSteps ==
  ASSUME NEW l \in Nat, l > 1, NEW p \in Int, NEW t \in Int, NEW n \in Nat,
         NEW P, MPowers(P, p, t, n), NEW e \in 1 .. n
  PROVE  /\ e \div 2 \in 0 .. n
         /\ MatrixOf(P[e], p, t, l)
              = MatrixSquared(MatrixOf(P[e \div 2], p, t, l), e, Frobenius(p, t, l), l)
<1> DEFINE h == e \div 2
           F == Frobenius(p, t, l)
           A(i) == MatrixOf(P[i], p, t, l)
<1>1. /\ h \in 0 .. n /\ h + h \in 0 .. n /\ e \in Nat /\ h + h <= n
      /\ e % 2 = 1 => e = (h + h) + 1
      /\ e % 2 # 1 => e = h + h
  BY HalfFacts
<1> HIDE DEF h
<1>2. P[h + h] = QuadraticTimes(p, t)[<<P[h], P[h]>>]
  BY <1>1, MPowersAdd DEF ExponentsAdd
<1>3. MatrixMul(A(h), A(h), l) = A(h + h)
  <2>1. P[h] \in Quadratics
    BY <1>1 DEF MPowers
  <2> QED
    BY <1>2, <2>1, MatrixOfProduct
<1>4. CASE e % 2 = 1
  <2>1. e = (h + h) + 1 /\ e - 1 = h + h
    BY <1>1, <1>4
  <2>2. A(e) = MatrixMul(A(h + h), F, l)
    <3>1. Follows(P, p, t, l, e)
      BY MatrixStep, Zenon
    <3> QED
      BY <2>1, <3>1 DEF Follows
  <2>3. MatrixSquared(A(h), e, F, l) = MatrixMul(A(h + h), F, l)
    BY <1>3, <1>4, Zenon DEF MatrixSquared
  <2> QED
    BY <1>1, <2>2, <2>3, Zenon DEF h
<1>5. CASE e % 2 # 1
  <2>1. MatrixSquared(A(h), e, F, l) = A(h + h)
    BY <1>3, <1>5, Zenon DEF MatrixSquared
  <2> QED
    BY <1>1, <1>5, <2>1, Zenon DEF h
<1> QED
  BY <1>4, <1>5

\* matrix_pow of Frobenius is the matrix of the power of M.
LEMMA MatrixPowFacts ==
  ASSUME NEW l \in Nat, l > 1, NEW p \in Int, NEW t \in Int, NEW n \in Nat,
         NEW P, MPowers(P, p, t, n), NEW k \in 0 .. n
  PROVE  MatrixPow(Frobenius(p, t, l), k, l) = MatrixOf(P[k], p, t, l)
<1> DEFINE A(i) == MatrixOf(P[i], p, t, l)
           F == Frobenius(p, t, l)
           rep == [e \in 0 .. k |-> A(e)]
           f == CHOOSE g : MatrixSteps(g, F, k, l)
           T == {e \in Nat : e <= k => f[e] = A(e)}
<1>1. \A e \in 0 .. k : e # 0 =>
        e \div 2 \in 0 .. k /\ A(e) = MatrixSquared(A(e \div 2), e, F, l)
  <2> SUFFICES ASSUME NEW e \in 0 .. k, e # 0
               PROVE  e \div 2 \in 0 .. k /\ A(e) = MatrixSquared(A(e \div 2), e, F, l)
    OBVIOUS
  <2>1. e \in 1 .. n /\ e \div 2 \in 0 .. k
    BY HalfFacts
  <2> QED
    BY <2>1, MatrixPowSteps
<1>2. A(0) = <<1, 0, 0, 1>>
  <2>1. P[0] = <<1, 0>>
    BY DEF MPowers, IsPowers
  <2> QED
    BY <2>1, MatrixOfUnits
<1> HIDE DEF A, F
<1>3. MatrixSteps(rep, F, k, l)
  <2>1. ASSUME NEW e \in 0 .. k
        PROVE  A(e) = IF e = 0 THEN <<1, 0, 0, 1>> ELSE MatrixSquared(rep[e \div 2], e, F, l)
    <3>1. CASE e = 0
      BY <1>2, <3>1
    <3>2. CASE e # 0
      <4>1. rep[e \div 2] = A(e \div 2)
        BY <1>1, <3>2
      <4> QED
        BY <1>1, <3>2, <4>1, Zenon
    <3> QED
      BY <3>1, <3>2
  <2> QED
    BY <2>1, Zenon DEF MatrixSteps
<1>4. MatrixSteps(f, F, k, l)
  BY <1>3, Zenon
<1> HIDE DEF f
<1>5. \A e \in 0 .. k : f[e] = IF e = 0 THEN <<1, 0, 0, 1>> ELSE MatrixSquared(f[e \div 2], e, F, l)
  BY <1>4, Zenon DEF MatrixSteps
<1>6. 0 \in T
  BY <1>2, <1>5
<1>7. ASSUME NEW e \in Nat, e # 0, e \div 2 \in T PROVE e \in T
  <2> SUFFICES ASSUME e <= k PROVE f[e] = A(e)
    OBVIOUS
  <2>1. e \in 0 .. k /\ e \div 2 \in 0 .. k
    BY <1>1, <1>7
  <2>2. f[e \div 2] = A(e \div 2)
    BY <1>7, <2>1
  <2> QED
    BY <1>1, <1>5, <1>7, <2>1, <2>2, Zenon
<1>8. T = Nat
  <2>1. T \in SUBSET Nat
    OBVIOUS
  <2> HIDE DEF T
  <2> QED
    BY <1>6, <1>7, <2>1, HalvingInduction
<1>9. f[k] = A(k)
  BY <1>8
<1> QED
  BY <1>9, MatrixPowUnfolds DEF f, A, F

\* Powers taken one at a time.
LinearSteps(f, base, n, m) ==
  f = [k \in 1 .. n |-> IF k = 1 THEN base ELSE MatrixMul(f[k - 1], base, m)]

LEMMA LinearFacts ==
  ASSUME NEW l \in Nat, l > 1, NEW p \in Int, NEW t \in Int, NEW n \in Nat,
         NEW P, MPowers(P, p, t, n)
  PROVE  \A k \in 1 .. n :
           (CHOOSE f : LinearSteps(f, Frobenius(p, t, l), n, l))[k] = MatrixOf(P[k], p, t, l)
<1> DEFINE A(i) == MatrixOf(P[i], p, t, l)
           F == Frobenius(p, t, l)
           rep == [e \in 1 .. n |-> A(e)]
           f == CHOOSE g : LinearSteps(g, F, n, l)
           T == {e \in Nat : e \in 1 .. n => f[e] = A(e)}
<1>1. \A e \in 1 .. n : A(e) = MatrixMul(A(e - 1), F, l)
  <2>1. \A e \in 1 .. n : Follows(P, p, t, l, e)
    BY MatrixStep, Zenon
  <2> QED
    BY <2>1, Zenon DEF Follows
<1>2. n >= 1 => A(1) = F
  <2> SUFFICES ASSUME n >= 1 PROVE A(1) = F
    OBVIOUS
  <2>1. P[0] = <<1, 0>> /\ 1 \in 1 .. n /\ 1 - 1 = 0 /\ <<0, 1>> \in Quadratics
    BY DEF MPowers, IsPowers, Quadratics
  <2>2. P[1] = QuadraticTimes(p, t)[<<P[0], <<0, 1>>>>]
    BY <2>1, MatrixStep
  <2>3. P[1] = <<0, 1>>
    <3> DEFINE op == QuadraticTimes(p, t)
    <3>1. CommutativeMonoid(Quadratics, op, <<1, 0>>)
      BY QuadraticMonoid
    <3>2. P[1] = op[<<<<1, 0>>, <<0, 1>>>>]
      BY <2>1, <2>2
    <3> HIDE DEF op
    <3> QED
      BY <2>1, <3>1, <3>2 DEF CommutativeMonoid
  <2> QED
    BY <2>3, MatrixOfUnits
<1> HIDE DEF A, F
<1>3. LinearSteps(rep, F, n, l)
  <2>1. ASSUME NEW e \in 1 .. n
        PROVE  A(e) = IF e = 1 THEN F ELSE MatrixMul(rep[e - 1], F, l)
    <3>1. CASE e = 1
      BY <1>2, <3>1
    <3>2. CASE e # 1
      <4>1. rep[e - 1] = A(e - 1)
        BY <3>2
      <4> QED
        BY <1>1, <3>2, <4>1, Zenon
    <3> QED
      BY <3>1, <3>2
  <2> QED
    BY <2>1, Zenon DEF LinearSteps
<1>4. LinearSteps(f, F, n, l)
  BY <1>3, Zenon
<1> HIDE DEF f
<1>5. \A e \in 1 .. n : f[e] = IF e = 1 THEN F ELSE MatrixMul(f[e - 1], F, l)
  BY <1>4, Zenon DEF LinearSteps
<1>6. 0 \in T
  OBVIOUS
<1>7. ASSUME NEW e \in T PROVE e + 1 \in T
  <2> SUFFICES ASSUME e + 1 \in 1 .. n PROVE f[e + 1] = A(e + 1)
    OBVIOUS
  <2>1. CASE e = 0
    BY <1>2, <1>5, <2>1
  <2>2. CASE e # 0
    <3>1. e \in 1 .. n /\ (e + 1) - 1 = e /\ e + 1 # 1
      BY <1>7, <2>2
    <3>2. f[e] = A(e)
      BY <1>7, <3>1
    <3>3. f[e + 1] = MatrixMul(f[(e + 1) - 1], F, l)
      BY <1>5, <3>1, Zenon
    <3>4. A(e + 1) = MatrixMul(A((e + 1) - 1), F, l)
      BY <1>1, Zenon
    <3> QED
      BY <3>1, <3>2, <3>3, <3>4, Zenon
  <2> QED
    BY <2>1, <2>2
<1>8. T = Nat
  <2>1. T \in SUBSET Nat
    OBVIOUS
  <2> HIDE DEF T
  <2> QED
    BY <1>6, <1>7, <2>1, NaturalInduction
<1>9. \A k \in 1 .. n : f[k] = A(k)
  BY <1>8
<1> QED
  BY <1>9 DEF f, A, F

\* A factor the prime does not divide cancels.
LEMMA CongruentCancel ==
  ASSUME NEW l \in Nat, SmallPrime(l), NEW c \in Int, NEW x \in Int, NEW y \in Int,
         ~Multiple(c, l), Congruent(c * x, c * y, l)
  PROVE  Congruent(x, y, l)
<1> DEFINE d == x - y
<1>1. d \in Int /\ c * d = c * x - c * y
  OBVIOUS
<1>2. Multiple(c * d, l)
  BY <1>1 DEF Congruent
<1> HIDE DEF d
<1>3. Multiple(d, l)
  BY <1>1, <1>2, PrimeSplits, Zenon
<1> QED
  BY <1>3 DEF Congruent, d

-----------------------------------------------------------------------------
(* Euler's criterion.  The residues 1 .. l - 1 are paired so that each     *)
(* pair multiplies to v.                                                   *)

\* Every residue has a partner, and only one.
LEMMA PartnerExists ==
  ASSUME NEW l \in Nat, SmallPrime(l), NEW v \in Int, ~Multiple(v, l), NEW x \in 1 .. l - 1
  PROVE  \E y \in 1 .. l - 1 : Congruent(x * y, v, l)
<1>1. l > 1
  BY DEF SmallPrime
<1>2. ~Multiple(x, l)
  BY SmallMultiple
<1>3. PICK z \in 1 .. l - 1 : Multiple(x * z - 1, l)
  BY <1>2, PrimeInverse
<1> DEFINE w == v * z
           y == w % l
           e == x * z
<1>4. /\ w \in Int /\ e \in Int /\ z \in Int /\ 1 \in Int /\ Congruent(e, 1, l)
      /\ x * w = v * e /\ v * 1 = v
  BY <1>3 DEF Congruent
<1> HIDE DEF e
<1>5. y \in 0 .. l - 1 /\ y \in Int /\ Congruent(y, w, l)
  BY <1>1, <1>4, CongruentRemainder
<1> HIDE DEF y, w
<1>6. x * y \in Int /\ x * w \in Int /\ v * e \in Int /\ x \in Int
  BY <1>4, <1>5
<1>7. Congruent(x, x, l) /\ Congruent(v, v, l)
  BY CongruentRefl
<1>8. Congruent(x * y, x * w, l)
  BY <1>4, <1>5, <1>6, <1>7, CongruentTimes, Zenon
<1>9. Congruent(v * e, v * 1, l)
  BY <1>4, <1>6, <1>7, CongruentTimes, Zenon
<1>10. Congruent(x * w, v, l)
  BY <1>4, <1>9, Zenon
<1>11. Congruent(x * y, v, l)
  BY <1>6, <1>8, <1>10, CongruentTrans, Zenon
<1>12. y # 0
  <2> SUFFICES ASSUME y = 0 PROVE FALSE
    OBVIOUS
  <2>1. Congruent(0, v, l)
    BY <1>11
  <2>2. 0 = l * 0 /\ 0 \in Int
    OBVIOUS
  <2>3. Multiple(0, l)
    BY <2>2 DEF Multiple
  <2> QED
    BY <2>1, <2>2, <2>3, CongruentMultiple
<1> QED
  BY <1>5, <1>11, <1>12

LEMMA PartnerIsOnly ==
  ASSUME NEW l \in Nat, SmallPrime(l), NEW v \in Int, NEW x \in 1 .. l - 1,
         NEW y \in 1 .. l - 1, NEW z \in 1 .. l - 1,
         Congruent(x * y, v, l), Congruent(x * z, v, l)
  PROVE  y = z
<1>1. ~Multiple(x, l)
  BY SmallMultiple
<1>2. x * y \in Int /\ x * z \in Int /\ x \in Int /\ y \in Int /\ z \in Int
  OBVIOUS
<1>3. Congruent(v, x * z, l)
  BY <1>2, CongruentSym
<1>4. Congruent(x * y, x * z, l)
  BY <1>2, <1>3, CongruentTrans, Zenon
<1>5. Congruent(y, z, l)
  BY <1>1, <1>2, <1>4, CongruentCancel, Zenon
<1>6. y \in 0 .. l - 1 /\ z \in 0 .. l - 1
  OBVIOUS
<1> QED
  BY <1>5, <1>6, CongruentEqual

\* S consists of pairs.
Paired(S, v, l) == \A x \in S : \E y \in S : x # y /\ Congruent(x * y, v, l)

\* f[s] is the product of s, for every set s of residues.
UnitProduct(f, l) ==
  /\ f \in [SUBSET (1 .. l - 1) -> Int]
  /\ f[{}] = 1
  /\ \A s \in SUBSET (1 .. l - 1) : \A x \in s : f[s] = x * f[s \ {x}]

LEMMA UnitProductExists ==
  ASSUME NEW l \in Nat
  PROVE  \E f : UnitProduct(f, l)
<1> DEFINE U == 1 .. l - 1
           V == Int
           w == [x \in U |-> x]
<1>1. IsFiniteSet(U) /\ w \in [U -> V] /\ CommutativeMonoid(V, Times, 1)
  BY FS_Interval, TimesFacts
<1>2. \A x \in U : w[x] = x
  OBVIOUS
<1> HIDE DEF w, V
<1>3. PICK f \in [SUBSET U -> V] : IsProduct(f, w, Times, 1, U)
  BY <1>1, ProductExists, Zenon
<1>4. ASSUME NEW s \in SUBSET U, NEW x \in s PROVE f[s] = x * f[s \ {x}]
  <2>1. s \ {x} \in SUBSET U /\ x \in Int /\ x \in U
    OBVIOUS
  <2>2. f[s \ {x}] \in Int
    BY <1>3, <2>1 DEF V
  <2>3. f[s] = Times[<<x, f[s \ {x}]>>]
    BY <1>2, <1>3, <2>1 DEF IsProduct
  <2> QED
    BY <2>1, <2>2, <2>3, TimesFacts
<1>5. f[{}] = 1 /\ f \in [SUBSET U -> Int]
  BY <1>3 DEF IsProduct, V
<1>6. UnitProduct(f, l)
  BY <1>4, <1>5 DEF UnitProduct
<1> QED
  BY <1>6

\* Taking one pair away.
LEMMA PairRemoved ==
  ASSUME NEW l \in Nat, SmallPrime(l), NEW v \in Int, NEW S \in SUBSET (1 .. l - 1),
         Paired(S, v, l), NEW x \in S, NEW y \in S, x # y, Congruent(x * y, v, l)
  PROVE  Paired((S \ {x}) \ {y}, v, l)
<1> SUFFICES ASSUME NEW z \in (S \ {x}) \ {y}
             PROVE  \E w \in (S \ {x}) \ {y} : z # w /\ Congruent(z * w, v, l)
  BY DEF Paired
<1>1. PICK w \in S : z # w /\ Congruent(z * w, v, l)
  BY DEF Paired
<1>2. z * w = w * z /\ x * y = y * x
  OBVIOUS
<1>3. Congruent(w * z, v, l) /\ Congruent(y * x, v, l)
  BY <1>1, <1>2
<1>4. /\ x \in 1 .. l - 1 /\ y \in 1 .. l - 1 /\ z \in 1 .. l - 1 /\ w \in 1 .. l - 1
      /\ z # x /\ z # y
  OBVIOUS
<1>5. w # x
  <2> SUFFICES ASSUME w = x PROVE FALSE
    OBVIOUS
  <2>1. Congruent(x * z, v, l)
    BY <1>3
  <2> QED
    BY <1>4, <2>1, PartnerIsOnly, Zenon
<1>6. w # y
  <2> SUFFICES ASSUME w = y PROVE FALSE
    OBVIOUS
  <2>1. Congruent(y * z, v, l)
    BY <1>3
  <2> QED
    BY <1>3, <1>4, <2>1, PartnerIsOnly, Zenon
<1> QED
  BY <1>1, <1>5, <1>6

\* A set of pairs multiplies to the power of v.
PairsMultiply(f, P, v, l, m) ==
  \A S \in SUBSET (1 .. l - 1) :
    Paired(S, v, l) /\ Cardinality(S) \in {2 * m, 2 * m + 1} => Congruent(f[S], P[m], l)

LEMMA PairedProduct ==
  ASSUME NEW l \in Nat, SmallPrime(l), NEW v \in Int, NEW n \in Nat, NEW P \in [0 .. n -> Int],
         IsPowers(P, v, Times, 1, n), NEW f, UnitProduct(f, l), NEW m \in 0 .. n
  PROVE  PairsMultiply(f, P, v, l, m)
<1> DEFINE T == {k \in Nat : k <= n => PairsMultiply(f, P, v, l, k)}
<1>0. \A S \in SUBSET (1 .. l - 1) : IsFiniteSet(S) /\ Cardinality(S) \in Nat
  <2>1. IsFiniteSet(1 .. l - 1)
    BY FS_Interval
  <2> QED
    BY <2>1, FS_Subset, FS_CardinalityType, Zenon
<1>1. 0 \in T
  <2> SUFFICES ASSUME NEW S \in SUBSET (1 .. l - 1), Paired(S, v, l),
                      Cardinality(S) \in {2 * 0, 2 * 0 + 1}
               PROVE  Congruent(f[S], P[0], l)
    BY DEF PairsMultiply
  <2>1. IsFiniteSet(S) /\ Cardinality(S) \in {0, 1}
    BY <1>0
  <2>2. S = {}
    <3> SUFFICES ASSUME Cardinality(S) = 1 PROVE FALSE
      BY <2>1, FS_EmptySet
    <3>1. PICK x : S = {x}
      BY <2>1, FS_Singleton
    <3> QED
      BY <3>1 DEF Paired
  <2>3. f[S] = 1 /\ P[0] = 1
    BY <2>2 DEF UnitProduct, IsPowers
  <2> QED
    BY <2>3, CongruentRefl
<1>2. ASSUME NEW k \in T PROVE k + 1 \in T
  <2> SUFFICES ASSUME k + 1 <= n, NEW S \in SUBSET (1 .. l - 1), Paired(S, v, l),
                      Cardinality(S) \in {2 * (k + 1), 2 * (k + 1) + 1}
               PROVE  Congruent(f[S], P[k + 1], l)
    BY DEF PairsMultiply
  <2>0. k \in 0 .. n /\ k + 1 \in 1 .. n /\ (k + 1) - 1 = k /\ PairsMultiply(f, P, v, l, k)
    OBVIOUS
  <2>1. IsFiniteSet(S) /\ Cardinality(S) \in Nat /\ Cardinality(S) # 0 /\ S # {}
    <3>1. IsFiniteSet(S) /\ Cardinality(S) \in Nat
      BY <1>0, Zenon
    <3>2. Cardinality(S) # 0
      BY <2>0
    <3> QED
      BY <3>1, <3>2, FS_EmptySet
  <2>2. PICK x \in S : TRUE
    BY <2>1
  <2>3. PICK y \in S : x # y /\ Congruent(x * y, v, l)
    BY DEF Paired
  <2> DEFINE A == S \ {x}
             B == A \ {y}
  <2>4. /\ IsFiniteSet(A) /\ Cardinality(A) = Cardinality(S) - 1
        /\ IsFiniteSet(B) /\ Cardinality(B) = Cardinality(S) - 2
    <3>1. IsFiniteSet(A) /\ Cardinality(A) = Cardinality(S) - 1
      BY <2>1, FS_RemoveElement
    <3>2. y \in A
      BY <2>3
    <3>3. IsFiniteSet(B) /\ Cardinality(B) = Cardinality(A) - 1
      BY <3>1, <3>2, FS_RemoveElement
    <3> HIDE DEF A, B
    <3> QED
      BY <2>1, <3>1, <3>3
  <2>5. B \in SUBSET (1 .. l - 1) /\ A \in SUBSET (1 .. l - 1) /\ Paired(B, v, l) /\ y \in A
    BY <2>3, PairRemoved
  <2>6. Cardinality(B) \in {2 * k, 2 * k + 1}
    BY <2>0, <2>1, <2>4
  <2>7. f[S] = x * f[A] /\ f[A] = y * f[B] /\ f[B] \in Int /\ f[A] \in Int
    BY <2>5 DEF UnitProduct
  <2> HIDE DEF A, B
  <2>8. Congruent(f[B], P[k], l)
    BY <2>0, <2>5, <2>6 DEF PairsMultiply
  <2>9. P[k + 1] = Times[<<P[k], v>>]
    BY <2>0 DEF IsPowers
  <2> DEFINE b == f[B]
             c == P[k]
             xy == x * y
  <2>10. b \in Int /\ c \in Int /\ xy \in Int /\ x \in Int /\ y \in Int
    BY <2>0, <2>7
  <2>11. P[k + 1] = v * c
    BY <2>9, <2>10, TimesFacts
  <2>12. f[S] = xy * b
    <3>1. f[S] = x * (y * b)
      BY <2>7
    <3> HIDE DEF b
    <3>2. x * (y * b) = (x * y) * b
      BY <2>10
    <3> QED
      BY <3>1, <3>2
  <2>13. Congruent(xy, v, l)
    BY <2>3
  <2> HIDE DEF b, c, xy
  <2>14. Congruent(xy * b, v * c, l)
    <3>1. Congruent(b, c, l)
      BY <2>8 DEF b, c
    <3>2. l \in Nat /\ v \in Int
      OBVIOUS
    <3> QED
      BY <2>10, <2>13, <3>1, <3>2, CongruentTimes, Zenon
  <2> QED
    BY <2>11, <2>12, <2>14
<1>3. T = Nat
  <2>1. T \in SUBSET Nat
    OBVIOUS
  <2> HIDE DEF T
  <2> QED
    BY <1>1, <1>2, <2>1, NaturalInduction
<1> QED
  BY <1>3

\* There are l - 1 residues.
LEMMA UnitCount ==
  ASSUME NEW l \in Nat, NEW h \in Nat, l = 2 * h + 1
  PROVE  IsFiniteSet(1 .. l - 1) /\ Cardinality(1 .. l - 1) = 2 * h
<1>1. IsFiniteSet(1 .. l - 1)
      /\ Cardinality(1 .. l - 1) = IF 1 > l - 1 THEN 0 ELSE (l - 1) - 1 + 1
  BY FS_Interval
<1> QED
  BY <1>1

\* Without a square root of v all residues pair.
LEMMA NonSquareProduct ==
  ASSUME NEW l \in Nat, SmallPrime(l), NEW h \in Nat, l = 2 * h + 1,
         NEW v \in Int, ~Multiple(v, l), \A s \in 1 .. l - 1 : ~Congruent(s * s, v, l),
         NEW P \in [0 .. h -> Int], IsPowers(P, v, Times, 1, h), NEW f, UnitProduct(f, l)
  PROVE  Congruent(f[1 .. l - 1], P[h], l)
<1> DEFINE U == 1 .. l - 1
<1>1. ASSUME NEW x \in U PROVE \E y \in U : x # y /\ Congruent(x * y, v, l)
  <2>1. PICK y \in U : Congruent(x * y, v, l)
    BY PartnerExists
  <2> QED
    BY <2>1
<1>2. Paired(U, v, l)
  BY <1>1 DEF Paired
<1>3. Cardinality(U) = 2 * h
  BY UnitCount
<1>4. PairsMultiply(f, P, v, l, h)
  <2>1. h \in 0 .. h
    OBVIOUS
  <2> QED
    BY <2>1, PairedProduct, Zenon
<1> QED
  BY <1>2, <1>3, <1>4 DEF PairsMultiply

\* The two square roots.
LEMMA SquareRoots ==
  ASSUME NEW l \in Nat, SmallPrime(l), NEW s \in 1 .. l - 1, NEW z \in 1 .. l - 1,
         Congruent(z * z, s * s, l)
  PROVE  z = s \/ z = l - s
<1> DEFINE d == z - s
           e == z + s
<1>1. d \in Int /\ e \in Int /\ d * e = z * z - s * s
  OBVIOUS
<1>2. Multiple(d * e, l)
  BY <1>1 DEF Congruent
<1>3. /\ -l < d /\ d < l /\ 0 < e /\ e < 2 * l
      /\ d = 0 => z = s
      /\ e = l => z = l - s
  OBVIOUS
<1> HIDE DEF d, e
<1>4. CASE Multiple(d, l)
  BY <1>1, <1>3, <1>4, SmallMultiple
<1>5. CASE Multiple(e, l)
  <2>1. PICK k \in Int : e = l * k
    BY <1>5 DEF Multiple
  <2>2. k <= 0 => l * k <= 0
    OBVIOUS
  <2>3. k >= 2 => l * k >= 2 * l
    OBVIOUS
  <2>4. k = 1
    BY <1>3, <2>1, <2>2, <2>3
  <2> QED
    BY <1>3, <2>1, <2>4
<1> QED
  BY <1>1, <1>2, <1>4, <1>5, PrimeSplits

LEMMA OtherRoot ==
  ASSUME NEW l \in Nat, NEW v \in Int, NEW s \in Int, Congruent(s * s, v, l)
  PROVE  /\ Congruent((l - s) * (l - s), v, l)
         /\ Congruent(s * (l - s), -v, l)
<1>1. PICK k \in Int : s * s - v = l * k
  BY DEF Congruent, Multiple
<1>2. (l - s) * (l - s) - v = l * (l - 2 * s + k) /\ l - 2 * s + k \in Int
  <2>1. (l - s) * (l - s) = l * (l - 2 * s) + s * s
    OBVIOUS
  <2>2. l * (l - 2 * s + k) = l * (l - 2 * s) + l * k
    OBVIOUS
  <2> QED
    BY <1>1, <2>1, <2>2
<1>3. s * (l - s) - (-v) = l * (s - k) /\ s - k \in Int
  <2>1. s * (l - s) = l * s - s * s
    OBVIOUS
  <2>2. l * (s - k) = l * s - l * k
    OBVIOUS
  <2> QED
    BY <1>1, <2>1, <2>2
<1> QED
  BY <1>2, <1>3 DEF Congruent, Multiple

\* With a square root s the residues other than s and -s pair.
LEMMA SquareProduct ==
  ASSUME NEW l \in Nat, SmallPrime(l), NEW h \in Nat, l = 2 * h + 1,
         NEW v \in Int, ~Multiple(v, l), NEW s \in 1 .. l - 1, Congruent(s * s, v, l),
         NEW P \in [0 .. h -> Int], IsPowers(P, v, Times, 1, h), NEW f, UnitProduct(f, l)
  PROVE  Congruent(f[1 .. l - 1], -P[h], l)
<1> DEFINE U == 1 .. l - 1
           r == l - s
           A == U \ {s}
           S == A \ {r}
<1>1. /\ r \in U /\ r # s /\ s \in U /\ r \in Int /\ s \in Int /\ h >= 1
      /\ h - 1 \in 0 .. h /\ h \in 1 .. h
  BY DEF SmallPrime
<1>2. Congruent(r * r, v, l) /\ Congruent(s * r, -v, l)
  BY <1>1, OtherRoot
<1>3. Paired(S, v, l)
  <2> SUFFICES ASSUME NEW z \in S PROVE \E y \in S : z # y /\ Congruent(z * y, v, l)
    BY DEF Paired
  <2>0. z \in U /\ z # s /\ z # r
    OBVIOUS
  <2>1. PICK y \in U : Congruent(z * y, v, l)
    BY <2>0, PartnerExists
  <2>2. z * y = y * z
    BY <2>0
  <2> HIDE DEF r
  <2>3. y # s
    <3> SUFFICES ASSUME y = s PROVE FALSE
      OBVIOUS
    <3>1. Congruent(s * z, v, l)
      BY <2>1, <2>2
    <3> QED
      BY <1>1, <2>0, <3>1, PartnerIsOnly, Zenon
  <2>4. y # r
    <3> SUFFICES ASSUME y = r PROVE FALSE
      OBVIOUS
    <3>1. Congruent(r * z, v, l)
      BY <2>1, <2>2
    <3> QED
      BY <1>1, <1>2, <2>0, <3>1, PartnerIsOnly, Zenon
  <2>5. z # y
    <3> SUFFICES ASSUME z = y PROVE FALSE
      OBVIOUS
    <3>1. Congruent(z * z, v, l) /\ z * z \in Int /\ s * s \in Int
      BY <2>0, <2>1
    <3>2. Congruent(v, s * s, l)
      BY <3>1, CongruentSym
    <3>3. Congruent(z * z, s * s, l)
      BY <3>1, <3>2, CongruentTrans, Zenon
    <3>4. z = s \/ z = l - s
      BY <2>0, <3>3, SquareRoots, Zenon
    <3> QED
      BY <2>0, <3>4 DEF r
  <2> QED
    BY <2>1, <2>3, <2>4, <2>5
<1>4. Cardinality(S) = 2 * (h - 1)
  <2>1. IsFiniteSet(U)
    BY UnitCount
  <2>2. Cardinality(U) = 2 * h
    BY UnitCount
  <2>3. IsFiniteSet(A) /\ Cardinality(A) = Cardinality(U) - 1 /\ r \in A
    BY <1>1, <2>1, FS_RemoveElement
  <2> HIDE DEF A
  <2>4. Cardinality(S) = Cardinality(A) - 1
    BY <2>3, FS_RemoveElement
  <2> QED
    BY <2>2, <2>3, <2>4
<1>5. PairsMultiply(f, P, v, l, h - 1)
  BY <1>1, PairedProduct, Zenon
<1>6. S \in SUBSET U /\ A \in SUBSET U /\ U \in SUBSET U /\ r \in A
  BY <1>1
<1>7. f[U] = s * f[A] /\ f[A] = r * f[S] /\ f[S] \in Int
  BY <1>1, <1>6 DEF UnitProduct
<1>8. Congruent(f[S], P[h - 1], l)
  <2>1. S \in SUBSET (1 .. l - 1) /\ Cardinality(S) \in {2 * (h - 1), 2 * (h - 1) + 1}
    BY <1>4, <1>6
  <2> HIDE DEF S
  <2> QED
    BY <1>3, <1>5, <2>1, Zenon DEF PairsMultiply
<1>9. P[h] = Times[<<P[h - 1], v>>]
  BY <1>1 DEF IsPowers
<1> DEFINE b == f[S]
           c == P[h - 1]
           sr == s * r
           w == -v
<1>10. b \in Int /\ c \in Int /\ sr \in Int /\ w \in Int
  BY <1>1, <1>7
<1>11. -P[h] = w * c
  <2>1. P[h] = c * v
    BY <1>9, <1>10, TimesFacts
  <2> QED
    BY <1>10, <2>1
<1>12. f[U] = sr * b
  BY <1>1, <1>7, <1>10
<1>13. Congruent(sr, w, l) /\ Congruent(b, c, l)
  BY <1>2, <1>8
<1> HIDE DEF b, c, sr, w
<1>14. Congruent(sr * b, w * c, l)
  BY <1>10, <1>13, CongruentTimes, Zenon
<1> QED
  BY <1>11, <1>12, <1>14

IsSquare(v, l) == \E s \in 1 .. l - 1 : Congruent(s * s, v, l)

\* Euler: a power of v is 1 or -1, by whether v has a square root.
LEMMA Euler ==
  ASSUME NEW l \in Nat, SmallPrime(l), NEW h \in Nat, l = 2 * h + 1,
         NEW v \in Int, ~Multiple(v, l),
         NEW P \in [0 .. h -> Int], IsPowers(P, v, Times, 1, h)
  PROVE  /\ IsSquare(v, l) => Congruent(P[h], 1, l)
         /\ ~IsSquare(v, l) => Congruent(P[h], -1, l)
<1>1. PICK f : UnitProduct(f, l)
  BY UnitProductExists
<1> DEFINE g == f[1 .. l - 1]
           b == P[h]
           nb == -b
<1>2. g \in Int /\ b \in Int /\ nb \in Int /\ 1 \in Int /\ -1 \in Int
  <2>1. 1 .. l - 1 \in SUBSET (1 .. l - 1) /\ h \in 0 .. h
    OBVIOUS
  <2> QED
    BY <1>1, <2>1 DEF UnitProduct
<1>3. Congruent(g, -1, l)
  <2> DEFINE One == [k \in 0 .. h |-> 1]
  <2>1. One \in [0 .. h -> Int] /\ One[h] = 1
    OBVIOUS
  <2>2. Times[<<1, 1>>] = 1
    BY DEF Times
  <2>3. IsPowers(One, 1, Times, 1, h)
    <3>1. One[0] = 1 /\ \A k \in 1 .. h : One[k - 1] = 1 /\ One[k] = 1
      OBVIOUS
    <3> HIDE DEF One
    <3> QED
      BY <2>2, <3>1 DEF IsPowers
  <2>4. l > 1
    BY DEF SmallPrime
  <2>5. ~Multiple(1, l)
    BY <2>4, SmallMultiple
  <2>6. 1 \in 1 .. l - 1 /\ 1 * 1 = 1 /\ 1 \in Int
    BY <2>4
  <2>7. Congruent(1 * 1, 1, l)
    BY <2>6, CongruentRefl
  <2> HIDE DEF One
  <2>8. Congruent(g, -One[h], l)
    BY <1>1, <2>1, <2>3, <2>5, <2>6, <2>7, SquareProduct, Zenon
  <2> QED
    BY <2>1, <2>8
<1>4. Congruent(-1, g, l)
  BY <1>2, <1>3, CongruentSym
<1>5. ASSUME IsSquare(v, l) PROVE Congruent(b, 1, l)
  <2>1. PICK s \in 1 .. l - 1 : Congruent(s * s, v, l)
    BY <1>5 DEF IsSquare
  <2>2. Congruent(g, nb, l)
    BY <1>1, <2>1, SquareProduct, Zenon
  <2> HIDE DEF g, b, nb
  <2>3. Congruent(-1, nb, l)
    BY <1>2, <1>4, <2>2, CongruentTrans, Zenon
  <2>4. -1 - nb = b - 1
    BY <1>2 DEF nb
  <2> QED
    BY <2>3, <2>4 DEF Congruent
<1>6. ASSUME ~IsSquare(v, l) PROVE Congruent(b, -1, l)
  <2>1. \A s \in 1 .. l - 1 : ~Congruent(s * s, v, l)
    BY <1>6 DEF IsSquare
  <2>2. Congruent(g, b, l)
    BY <1>1, <2>1, NonSquareProduct, Zenon
  <2> HIDE DEF g, b, nb
  <2>3. Congruent(b, g, l)
    BY <1>2, <2>2, CongruentSym
  <2> QED
    BY <1>2, <1>3, <2>3, CongruentTrans, Zenon
<1> QED
  BY <1>5, <1>6

-----------------------------------------------------------------------------
(* legendre_small, and the discriminant.                                   *)

OddPrime(l) == l \in Nat /\ SmallPrime(l) /\ l % 2 = 1

LEMMA OddPrimeHalf ==
  ASSUME NEW l, OddPrime(l)
  PROVE  /\ l \in Nat /\ l > 2 /\ (l - 1) \div 2 \in Nat
         /\ l = 2 * ((l - 1) \div 2) + 1 /\ SmallPrime(l)
BY DEF OddPrime, SmallPrime

LEMMA SquareOfRemainder ==
  ASSUME NEW l \in Nat, l > 0, NEW v \in Int, NEW w \in Int, Congruent(v, w, l)
  PROVE  IsSquare(v, l) <=> IsSquare(w, l)
<1>0. Congruent(w, v, l)
  BY CongruentSym
<1>1. ASSUME NEW s \in 1 .. l - 1
      PROVE  Congruent(s * s, v, l) <=> Congruent(s * s, w, l)
  <2>1. s * s \in Int
    OBVIOUS
  <2> QED
    BY <1>0, <2>1, CongruentTrans, Zenon
<1> QED
  BY <1>1 DEF IsSquare

\* The symbol says whether there is a square root.
LEMMA LegendreFacts ==
  ASSUME NEW l, OddPrime(l), NEW v \in Int
  PROVE  /\ Multiple(v, l) => LegendreSmall(v, l) = 0
         /\ ~Multiple(v, l) /\ IsSquare(v, l) => LegendreSmall(v, l) = 1
         /\ ~Multiple(v, l) /\ ~IsSquare(v, l) => LegendreSmall(v, l) = -1
<1> DEFINE h == (l - 1) \div 2
           r == v % l
<1>1. l \in Nat /\ l > 2 /\ l > 0 /\ h \in Nat /\ l = 2 * h + 1 /\ SmallPrime(l)
  BY OddPrimeHalf
<1>2. r \in Int /\ r \in 0 .. l - 1 /\ Congruent(v, r, l) /\ (Multiple(v, l) <=> r = 0)
  BY <1>1, CongruentRemainder, MultipleMod
<1>3. LegendreSmall(v, l) = IF r = 0 THEN 0 ELSE IF PowMod(r, h, l) = 1 THEN 1 ELSE -1
  BY Zenon DEF LegendreSmall
<1> HIDE DEF h, r
<1>4. PICK P \in [0 .. h -> Int] : IsPowers(P, r, Times, 1, h)
  BY <1>1, <1>2, NumberPowersExist, Zenon
<1>5. PowMod(r, h, l) = P[h] % l
  BY <1>1, <1>2, <1>4, PowModFacts
<1>6. P[h] \in Int /\ 1 \in Int /\ -1 \in Int
  BY <1>1, <1>4
<1>7. ~Multiple(v, l) <=> ~Multiple(r, l)
  BY <1>1, <1>2, CongruentMultiple
<1>8. IsSquare(v, l) <=> IsSquare(r, l)
  BY <1>1, <1>2, SquareOfRemainder, Zenon
<1>9. ASSUME ~Multiple(v, l), IsSquare(v, l) PROVE PowMod(r, h, l) = 1
  <2>1. Congruent(P[h], 1, l)
    BY <1>1, <1>2, <1>4, <1>7, <1>8, <1>9, Euler, Zenon
  <2>2. P[h] % l = 1 % l
    BY <1>1, <1>6, <2>1, SameRemainder DEF Congruent
  <2>3. 1 % l = 1
    BY <1>1, ModSmall
  <2> QED
    BY <1>5, <2>2, <2>3
<1>10. ASSUME ~Multiple(v, l), ~IsSquare(v, l) PROVE PowMod(r, h, l) # 1
  <2> SUFFICES ASSUME PowMod(r, h, l) = 1 PROVE FALSE
    OBVIOUS
  <2>1. Congruent(P[h], -1, l)
    BY <1>1, <1>2, <1>4, <1>7, <1>8, <1>10, Euler, Zenon
  <2>2. P[h] % l = 1
    BY <1>5
  <2>3. Congruent(P[h], 1, l)
    <3>1. Congruent(P[h], P[h] % l, l)
      BY <1>1, <1>6, CongruentRemainder
    <3> QED
      BY <2>2, <3>1
  <2>4. Congruent(-1, P[h], l)
    BY <1>1, <1>6, <2>1, CongruentSym
  <2>5. Congruent(-1, 1, l)
    BY <1>1, <1>6, <2>3, <2>4, CongruentTrans, Zenon
  <2>6. -1 - 1 = -2
    OBVIOUS
  <2>7. Multiple(-2, l)
    BY <2>5, <2>6 DEF Congruent
  <2> QED
    BY <1>1, <2>7, SmallMultiple
<1> QED
  BY <1>2, <1>3, <1>9, <1>10

\* Four times the value of the polynomial, by completing the square.
LEMMA CompleteSquare ==
  ASSUME NEW x \in Int, NEW t \in Int, NEW p \in Int
  PROVE  4 * (x * x - t * x + p) = (2 * x - t) * (2 * x - t) - (t * t - 4 * p)
<1>1. (2 * x - t) * (2 * x - t) = 4 * (x * x) - 4 * (t * x) + t * t
  OBVIOUS
<1> QED
  BY <1>1

\* x^2 - t x + p has no root modulo l: it is irreducible.
NoRoot(p, t, l) == \A x \in 0 .. l - 1 : (x * x - t * x + p) % l # 0

\* The characteristic polynomial has no root if and only if its discriminant
\* is not a square.
LEMMA IrreducibleFacts ==
  ASSUME NEW l, OddPrime(l), NEW p \in Int, NEW t \in Int
  PROVE  LegendreSmall(Discriminant(p, t, l), l) \in {-1, 0, 1}
         /\ (LegendreSmall(Discriminant(p, t, l), l) = -1 <=> NoRoot(p, t, l))
<1> DEFINE dd == t * t - 4 * p
           D == dd % l
           h == (l - 1) \div 2
<1>0. l \in Nat /\ l > 2 /\ l > 0 /\ h \in Nat /\ l = 2 * h + 1 /\ SmallPrime(l)
  BY OddPrimeHalf
<1>1. dd \in Int /\ D = Discriminant(p, t, l)
  BY DEF Discriminant
<1> HIDE DEF dd
<1>2. D \in Int /\ Congruent(dd, D, l) /\ Congruent(D, dd, l)
  BY <1>0, <1>1, CongruentRemainder
<1> HIDE DEF D
<1>3. LegendreSmall(D, l) \in {-1, 0, 1}
      /\ (LegendreSmall(D, l) = -1 <=> ~Multiple(D, l) /\ ~IsSquare(D, l))
  BY <1>2, LegendreFacts
<1>4. (Multiple(D, l) <=> Multiple(dd, l)) /\ (IsSquare(D, l) <=> IsSquare(dd, l))
  BY <1>0, <1>1, <1>2, CongruentMultiple, SquareOfRemainder, Zenon
<1> HIDE DEF h
<1>5. ~Multiple(4, l)
  <2>1. ~Multiple(2, l)
    BY <1>0, SmallMultiple
  <2>2. 2 * 2 = 4 /\ 2 \in Int
    OBVIOUS
  <2> QED
    BY <1>0, <2>1, <2>2, PrimeSplits
<1>6. ASSUME NEW x \in 0 .. l - 1, (x * x - t * x + p) % l = 0
      PROVE  Multiple(dd, l) \/ IsSquare(dd, l)
  <2> DEFINE y == x * x - t * x + p
             z == 2 * x - t
             s == z % l
  <2>1. y \in Int /\ z \in Int /\ 4 * y = z * z - dd
    BY CompleteSquare DEF dd
  <2>2. Multiple(y, l)
    BY <1>0, <1>6, <2>1, MultipleMod
  <2> HIDE DEF y, z
  <2>3. Multiple(4 * y, l)
    BY <1>0, <2>1, <2>2, Scaled
  <2>4. Congruent(z * z, dd, l) /\ z * z \in Int
    BY <2>1, <2>3 DEF Congruent
  <2>5. s \in 0 .. l - 1 /\ s \in Int /\ Congruent(s, z, l)
    BY <1>0, <2>1, CongruentRemainder
  <2> HIDE DEF s
  <2>6. Congruent(s * s, z * z, l) /\ s * s \in Int
    <3>1. Congruent(s * s, z * z, l)
      BY <1>0, <2>1, <2>5, CongruentTimes, Zenon
    <3>2. s * s \in Int
      BY <2>5
    <3> QED
      BY <3>1, <3>2
  <2>7. Congruent(s * s, dd, l)
    BY <1>0, <1>1, <2>4, <2>6, CongruentTrans, Zenon
  <2>8. CASE s = 0
    <3>1. Congruent(0, dd, l)
      BY <2>7, <2>8
    <3>2. 0 = l * 0 /\ 0 \in Int
      BY <1>0
    <3>3. Multiple(0, l)
      BY <3>2 DEF Multiple
    <3> QED
      BY <1>0, <1>1, <3>1, <3>2, <3>3, CongruentMultiple
  <2>9. CASE s # 0
    BY <2>5, <2>7, <2>9 DEF IsSquare
  <2> QED
    BY <2>8, <2>9
<1>7. ASSUME NEW s \in 0 .. l - 1, Congruent(s * s, dd, l)
      PROVE  \E x \in 0 .. l - 1 : (x * x - t * x + p) % l = 0
  <2> DEFINE g == (h + 1) * (t + s)
             x == g % l
             y == x * x - t * x + p
             z == 2 * x - t
  <2>1. g \in Int
    BY <1>0
  <2>2. x \in 0 .. l - 1 /\ x \in Int /\ Congruent(x, g, l)
    BY <1>0, <2>1, CongruentRemainder
  <2>3. Congruent(z, s, l)
    <3>1. PICK k \in Int : x - g = l * k
      BY <2>2 DEF Congruent, Multiple
    <3>2. 2 * g = (l + 1) * (t + s)
      BY <1>0
    <3>3. (l + 1) * (t + s) = l * (t + s) + (t + s)
      BY <1>0
    <3>4. z - s = l * (2 * k + (t + s))
      <4>1. l * (2 * k + (t + s)) = 2 * (l * k) + l * (t + s)
        BY <1>0
      <4> HIDE DEF g, x
      <4> QED
        BY <1>0, <2>1, <2>2, <3>1, <3>2, <3>3, <4>1
    <3>5. 2 * k + (t + s) \in Int
      OBVIOUS
    <3> HIDE DEF z
    <3> QED
      BY <3>4, <3>5 DEF Congruent, Multiple
  <2> HIDE DEF g, x
  <2>4. y \in Int /\ z \in Int /\ 4 * y = z * z - dd /\ z * z \in Int /\ s * s \in Int /\ s \in Int
    BY <2>2, CompleteSquare DEF dd
  <2> HIDE DEF y, z
  <2>5. Congruent(z * z, s * s, l)
    BY <1>0, <2>3, <2>4, CongruentTimes, Zenon
  <2>6. Congruent(z * z, dd, l)
    BY <1>0, <1>1, <1>7, <2>4, <2>5, CongruentTrans, Zenon
  <2>7. Multiple(4 * y, l)
    BY <2>4, <2>6 DEF Congruent
  <2>8. Multiple(y, l)
    BY <1>0, <1>5, <2>4, <2>7, PrimeSplits
  <2> QED
    BY <1>0, <2>2, <2>4, <2>8, MultipleMod DEF y
<1>8. ASSUME Multiple(dd, l) PROVE \E s \in 0 .. l - 1 : Congruent(s * s, dd, l)
  <2>1. 0 * 0 = 0 /\ 0 \in 0 .. l - 1 /\ 0 \in Int
    BY <1>0
  <2>2. 0 - dd = (-1) * dd /\ -1 \in Int
    BY <1>1
  <2>3. Multiple((-1) * dd, l)
    BY <1>0, <1>1, <1>8, <2>2, Scaled, Zenon
  <2>4. Congruent(0 * 0, dd, l)
    BY <2>1, <2>2, <2>3 DEF Congruent
  <2> QED
    BY <2>1, <2>4
<1>9. NoRoot(p, t, l) <=> ~Multiple(dd, l) /\ ~IsSquare(dd, l)
  <2>1. IsSquare(dd, l) => \E s \in 0 .. l - 1 : Congruent(s * s, dd, l)
    BY DEF IsSquare
  <2> QED
    BY <1>6, <1>7, <1>8, <2>1 DEF NoRoot
<1> QED
  BY <1>1, <1>3, <1>4, <1>9

-----------------------------------------------------------------------------
(* Numbers a + b M up to a factor of F_l: the classes on which matrices up *)
(* to scalars are compared.                                                *)

\* The determinant of two numbers; they are proportional when it vanishes.
Cross(x, y) == x[1] * y[2] - x[2] * y[1]

Proportional(x, y, l) == Multiple(Cross(x, y), l)

NonZero(x, l) == ~Multiple(x[1], l) \/ ~Multiple(x[2], l)

\* The norm of a + b M.
Norm(x, p, t) == x[1] * x[1] + t * (x[1] * x[2]) + p * (x[2] * x[2])

LEMMA QuadraticParts ==
  ASSUME NEW p \in Int, NEW t \in Int, NEW x \in Quadratics, NEW y \in Quadratics
  PROVE  /\ x[1] \in Int /\ x[2] \in Int /\ Cross(x, y) \in Int /\ Norm(x, p, t) \in Int
         /\ QuadraticTimes(p, t)[<<x, y>>] \in Quadratics
<1>1. PICK a \in Int, b \in Int : x = <<a, b>>
  BY DEF Quadratics
<1>2. PICK c \in Int, d \in Int : y = <<c, d>>
  BY DEF Quadratics
<1>3. Product(QuadraticTimes(p, t), p, t, a, b, c, d)
  BY QuadraticApplies, Zenon DEF IsQuadraticTimes
<1>4. a * c - p * (b * d) \in Int /\ a * d + b * c + t * (b * d) \in Int
      /\ a * d - b * c \in Int /\ a * a + t * (a * b) + p * (b * b) \in Int
  OBVIOUS
<1> QED
  BY <1>1, <1>2, <1>3, <1>4 DEF Product, Cross, Norm, Quadratics

LEMMA ProportionalRefl ==
  ASSUME NEW l \in Nat, NEW x \in Quadratics
  PROVE  Proportional(x, x, l)
<1>1. x[1] \in Int /\ x[2] \in Int
  BY DEF Quadratics
<1>2. Cross(x, x) = l * 0 /\ 0 \in Int
  BY <1>1 DEF Cross
<1> QED
  BY <1>2 DEF Proportional, Multiple

LEMMA ProportionalSym ==
  ASSUME NEW l \in Nat, NEW x \in Quadratics, NEW y \in Quadratics, Proportional(x, y, l)
  PROVE  Proportional(y, x, l)
<1>1. x[1] \in Int /\ x[2] \in Int /\ y[1] \in Int /\ y[2] \in Int
  BY DEF Quadratics
<1> DEFINE c == Cross(x, y)
           d == Cross(y, x)
<1>2. c \in Int /\ d = (-1) * c /\ -1 \in Int
  BY <1>1 DEF Cross
<1>3. Multiple(c, l)
  BY DEF Proportional
<1> HIDE DEF c, d
<1>4. Multiple((-1) * c, l)
  BY <1>2, <1>3, Scaled, Zenon
<1>5. Multiple(d, l)
  BY <1>2, <1>4, Zenon
<1> QED
  BY <1>5 DEF Proportional, d

\* Proportionality passes through a number that is not zero.
LEMMA ProportionalTrans ==
  ASSUME NEW l \in Nat, SmallPrime(l),
         NEW x \in Quadratics, NEW y \in Quadratics, NEW z \in Quadratics, NonZero(y, l),
         Proportional(x, y, l), Proportional(y, z, l)
  PROVE  Proportional(x, z, l)
<1> DEFINE a == x[1]
           b == x[2]
           c == y[1]
           d == y[2]
           e == z[1]
           f == z[2]
           xy == a * d - b * c
           yz == c * f - d * e
           xz == a * f - b * e
<1>1. a \in Int /\ b \in Int /\ c \in Int /\ d \in Int /\ e \in Int /\ f \in Int
  BY DEF Quadratics
<1>2. Multiple(xy, l) /\ Multiple(yz, l) /\ (~Multiple(c, l) \/ ~Multiple(d, l))
  BY DEF Proportional, Cross, NonZero
<1> HIDE DEF a, b, c, d, e, f
<1>3. /\ xy \in Int /\ yz \in Int /\ xz \in Int
      /\ c * xz = a * yz + e * xy
      /\ d * xz = b * yz + f * xy
  <2>1. c * xz = (c * (a * f)) - (c * (b * e))
    BY <1>1
  <2>2. a * yz + e * xy = (a * (c * f) - a * (d * e)) + (e * (a * d) - e * (b * c))
    BY <1>1
  <2>3. d * xz = (d * (a * f)) - (d * (b * e))
    BY <1>1
  <2>4. b * yz + f * xy = (b * (c * f) - b * (d * e)) + (f * (a * d) - f * (b * c))
    BY <1>1
  <2>5. /\ c * (a * f) = a * (c * f) /\ c * (b * e) = e * (b * c) /\ a * (d * e) = e * (a * d)
        /\ d * (a * f) = f * (a * d) /\ d * (b * e) = b * (d * e) /\ b * (c * f) = f * (b * c)
    BY <1>1
  <2> QED
    BY <1>1, <2>1, <2>2, <2>3, <2>4, <2>5
<1> DEFINE u == c * xz
           w == d * xz
<1>4. u = a * yz + e * xy /\ w = b * yz + f * xy
  BY <1>3
<1> HIDE DEF xy, yz, u, w
<1>5. Multiple(u, l) /\ Multiple(w, l)
  BY <1>1, <1>2, <1>3, <1>4, Combination, Zenon
<1> HIDE DEF xz
<1>6. Multiple(c * xz, l) /\ Multiple(d * xz, l)
  BY <1>5 DEF u, w
<1>7. Multiple(xz, l)
  BY <1>1, <1>2, <1>3, <1>6, PrimeSplits
<1> QED
  BY <1>7 DEF Proportional, Cross, xz, a, b, e, f

\* Multiplying by z multiplies the determinant of two numbers by z's norm.
LEMMA CrossTimes ==
  ASSUME NEW p \in Int, NEW t \in Int, NEW a \in Int, NEW b \in Int, NEW c \in Int,
         NEW d \in Int, NEW e \in Int, NEW f \in Int
  PROVE  (e * a - p * (f * b)) * (e * d + f * c + t * (f * d))
           - (e * b + f * a + t * (f * b)) * (e * c - p * (f * d))
           = (e * e + t * (e * f) + p * (f * f)) * (a * d - b * c)
OBVIOUS

\* Norms multiply.
LEMMA NormTimes ==
  ASSUME NEW p \in Int, NEW t \in Int, NEW a \in Int, NEW b \in Int, NEW c \in Int, NEW d \in Int
  PROVE  (a * c - p * (b * d)) * (a * c - p * (b * d))
           + t * ((a * c - p * (b * d)) * (a * d + b * c + t * (b * d)))
           + p * ((a * d + b * c + t * (b * d)) * (a * d + b * c + t * (b * d)))
           = (a * a + t * (a * b) + p * (b * b)) * (c * c + t * (c * d) + p * (d * d))
OBVIOUS

LEMMA TimesCross ==
  ASSUME NEW p \in Int, NEW t \in Int,
         NEW x \in Quadratics, NEW y \in Quadratics, NEW z \in Quadratics
  PROVE  Cross(QuadraticTimes(p, t)[<<z, x>>], QuadraticTimes(p, t)[<<z, y>>])
           = Norm(z, p, t) * Cross(x, y)
<1>1. PICK a \in Int, b \in Int : x = <<a, b>>
  BY DEF Quadratics
<1>2. PICK c \in Int, d \in Int : y = <<c, d>>
  BY DEF Quadratics
<1>3. PICK e \in Int, f \in Int : z = <<e, f>>
  BY DEF Quadratics
<1>4. QuadraticTimes(p, t)[<<z, x>>] = <<e * a - p * (f * b), e * b + f * a + t * (f * b)>>
  <2>1. Product(QuadraticTimes(p, t), p, t, e, f, a, b)
    BY QuadraticApplies, Zenon DEF IsQuadraticTimes
  <2> QED
    BY <1>1, <1>3, <2>1 DEF Product
<1>5. QuadraticTimes(p, t)[<<z, y>>] = <<e * c - p * (f * d), e * d + f * c + t * (f * d)>>
  <2>1. Product(QuadraticTimes(p, t), p, t, e, f, c, d)
    BY QuadraticApplies, Zenon DEF IsQuadraticTimes
  <2> QED
    BY <1>2, <1>3, <2>1 DEF Product
<1>6. (e * a - p * (f * b)) * (e * d + f * c + t * (f * d))
           - (e * b + f * a + t * (f * b)) * (e * c - p * (f * d))
           = (e * e + t * (e * f) + p * (f * f)) * (a * d - b * c)
  BY CrossTimes
<1>7. Norm(z, p, t) = e * e + t * (e * f) + p * (f * f) /\ Cross(x, y) = a * d - b * c
  BY <1>1, <1>2, <1>3 DEF Norm, Cross
<1> DEFINE k == e * a - p * (f * b)
           m == e * b + f * a + t * (f * b)
           n == e * c - p * (f * d)
           o == e * d + f * c + t * (f * d)
<1>8. Cross(<<k, m>>, <<n, o>>) = k * o - m * n
  BY DEF Cross
<1> QED
  BY <1>4, <1>5, <1>6, <1>7, <1>8

LEMMA TimesNorm ==
  ASSUME NEW p \in Int, NEW t \in Int, NEW x \in Quadratics, NEW y \in Quadratics
  PROVE  Norm(QuadraticTimes(p, t)[<<x, y>>], p, t) = Norm(x, p, t) * Norm(y, p, t)
<1>1. PICK a \in Int, b \in Int : x = <<a, b>>
  BY DEF Quadratics
<1>2. PICK c \in Int, d \in Int : y = <<c, d>>
  BY DEF Quadratics
<1> DEFINE k == a * c - p * (b * d)
           m == a * d + b * c + t * (b * d)
<1>3. QuadraticTimes(p, t)[<<x, y>>] = <<k, m>>
  <2>1. Product(QuadraticTimes(p, t), p, t, a, b, c, d)
    BY QuadraticApplies, Zenon DEF IsQuadraticTimes
  <2> QED
    BY <1>1, <1>2, <2>1 DEF Product
<1>4. Norm(x, p, t) = a * a + t * (a * b) + p * (b * b)
      /\ Norm(y, p, t) = c * c + t * (c * d) + p * (d * d)
  BY <1>1, <1>2 DEF Norm
<1>5. k * k + t * (k * m) + p * (m * m)
        = (a * a + t * (a * b) + p * (b * b)) * (c * c + t * (c * d) + p * (d * d))
  BY NormTimes
<1> HIDE DEF k, m
<1>6. Norm(<<k, m>>, p, t) = k * k + t * (k * m) + p * (m * m)
  BY DEF Norm
<1> QED
  BY <1>3, <1>4, <1>5, <1>6

\* Division modulo a prime.
LEMMA QuotientExists ==
  ASSUME NEW l \in Nat, SmallPrime(l), NEW a \in Int, NEW b \in Int, ~Multiple(b, l)
  PROVE  \E x \in 0 .. l - 1 : Congruent(b * x, a, l)
<1>1. l > 1 /\ l > 0
  BY DEF SmallPrime
<1>2. PICK z \in 1 .. l - 1 : Multiple(b * z - 1, l)
  BY PrimeInverse
<1> DEFINE w == a * z
           x == w % l
           e == b * z
<1>3. w \in Int /\ e \in Int /\ 1 \in Int /\ Congruent(e, 1, l) /\ b * w = a * e /\ a * 1 = a
  BY <1>2 DEF Congruent
<1> HIDE DEF e
<1>4. x \in 0 .. l - 1 /\ x \in Int /\ Congruent(x, w, l)
  BY <1>1, <1>3, CongruentRemainder
<1> HIDE DEF x, w
<1>5. b * x \in Int /\ b * w \in Int /\ a * e \in Int
  BY <1>3, <1>4
<1>6. Congruent(b, b, l) /\ Congruent(a, a, l)
  BY CongruentRefl
<1>7. Congruent(b * x, b * w, l)
  BY <1>3, <1>4, <1>6, CongruentTimes, Zenon
<1>8. Congruent(a * e, a * 1, l)
  BY <1>3, <1>6, CongruentTimes, Zenon
<1>9. Congruent(b * w, a, l)
  BY <1>3, <1>8, Zenon
<1>10. Congruent(b * x, a, l)
  BY <1>5, <1>7, <1>9, CongruentTrans, Zenon
<1> QED
  BY <1>4, <1>10

\* Without a root, only zero has the norm zero.
LEMMA NormNonZero ==
  ASSUME NEW l \in Nat, SmallPrime(l), NEW p \in Int, NEW t \in Int, NoRoot(p, t, l),
         NEW x \in Quadratics, NonZero(x, l)
  PROVE  ~Multiple(Norm(x, p, t), l)
<1> SUFFICES ASSUME Multiple(Norm(x, p, t), l) PROVE FALSE
  OBVIOUS
<1> DEFINE a == x[1]
           b == x[2]
           n == a * a + t * (a * b) + p * (b * b)
<1>1. a \in Int /\ b \in Int /\ l > 1 /\ l > 0
  BY DEF Quadratics, SmallPrime
<1>2. (~Multiple(a, l) \/ ~Multiple(b, l)) /\ Multiple(n, l)
  BY DEF NonZero, Norm
<1> HIDE DEF a, b
<1>3. CASE Multiple(b, l)
  <2> DEFINE m == t * a + p * b
             aa == a * a
  <2>1. n \in Int /\ m \in Int /\ aa \in Int /\ aa = 1 * n + (-m) * b /\ -m \in Int /\ 1 \in Int
    <3>1. (t * a + p * b) * b = t * (a * b) + p * (b * b)
      BY <1>1
    <3>2. (-m) * b = -(m * b)
      BY <1>1
    <3> QED
      BY <1>1, <3>1, <3>2
  <2> HIDE DEF n, m, aa
  <2>2. Multiple(aa, l)
    BY <1>1, <1>2, <1>3, <2>1, Combination, Zenon
  <2>3. Multiple(a * a, l)
    BY <2>2 DEF aa
  <2> QED
    BY <1>1, <1>2, <1>3, <2>3, PrimeSplits
<1>4. CASE ~Multiple(b, l)
  <2>1. -a \in Int
    BY <1>1
  <2>2. PICK r \in 0 .. l - 1 : Congruent(b * r, -a, l)
    BY <1>1, <1>4, <2>1, QuotientExists
  <2> DEFINE y == b * r
             d == y + a
             v == r * r - t * r + p
             bv == b * b
             w == bv * v
             u == y - a - t * b
  <2>3. /\ y \in Int /\ d \in Int /\ v \in Int /\ bv \in Int /\ w \in Int /\ u \in Int
        /\ n \in Int /\ 1 \in Int /\ y - (-a) = d
    BY <1>1
  <2>4. w = u * d + 1 * n
    <3>1. w = y * y - t * (b * y) + p * (b * b)
      <4>1. (b * b) * (r * r) = y * y
        BY <1>1
      <4>2. (b * b) * (t * r) = t * (b * y)
        BY <1>1
      <4>3. (b * b) * p = p * (b * b)
        BY <1>1
      <4>4. w = (b * b) * (r * r) - (b * b) * (t * r) + (b * b) * p
        BY <1>1
      <4> QED
        BY <4>1, <4>2, <4>3, <4>4
    <3> HIDE DEF y, w
    <3>2. u * d = y * y - a * a - t * (b * y) - t * (b * a)
      <4>1. (y - a) * (y + a) = y * y - a * a
        BY <1>1, <2>3
      <4>2. (t * b) * (y + a) = t * (b * y) + t * (b * a)
        BY <1>1, <2>3
      <4>3. u * d = (y - a) * (y + a) - (t * b) * (y + a)
        BY <1>1, <2>3
      <4> HIDE DEF u, d
      <4> QED
        BY <1>1, <2>3, <4>1, <4>2, <4>3
    <3>3. b * a = a * b
      BY <1>1
    <3>4. 1 * n = a * a + t * (a * b) + p * (b * b)
      BY <1>1
    <3> HIDE DEF u, d, n
    <3> QED
      BY <1>1, <2>3, <3>1, <3>2, <3>3, <3>4
  <2>5. Multiple(d, l)
    BY <2>2, <2>3 DEF Congruent
  <2> HIDE DEF n, d, u
  <2>6. Multiple(w, l)
    <3> HIDE DEF w
    <3> QED
      BY <1>2, <2>3, <2>4, <2>5, Combination, Zenon
  <2>7. Multiple(bv * v, l)
    BY <2>6
  <2>8. ~Multiple(bv, l)
    BY <1>1, <1>4, PrimeSplits
  <2> HIDE DEF bv
  <2>9. Multiple(v, l)
    <3> HIDE DEF v
    <3> QED
      BY <2>3, <2>7, <2>8, PrimeSplits
  <2>10. v % l = 0
    BY <1>1, <2>3, <2>9, MultipleMod
  <2> QED
    BY <2>10 DEF NoRoot
<1> QED
  BY <1>3, <1>4

\* A product of numbers that are not zero is not zero.
LEMMA TimesNonZero ==
  ASSUME NEW l \in Nat, SmallPrime(l), NEW p \in Int, NEW t \in Int, NoRoot(p, t, l),
         NEW x \in Quadratics, NonZero(x, l), NEW y \in Quadratics, NonZero(y, l)
  PROVE  NonZero(QuadraticTimes(p, t)[<<x, y>>], l)
<1> DEFINE z == QuadraticTimes(p, t)[<<x, y>>]
<1> SUFFICES ASSUME Multiple(z[1], l), Multiple(z[2], l) PROVE FALSE
  BY DEF NonZero
<1>1. z \in Quadratics /\ Norm(x, p, t) \in Int /\ Norm(y, p, t) \in Int
  BY QuadraticParts
<1>2. Norm(z, p, t) = Norm(x, p, t) * Norm(y, p, t)
  BY TimesNorm
<1>3. ~Multiple(Norm(x, p, t), l) /\ ~Multiple(Norm(y, p, t), l)
  BY NormNonZero
<1> DEFINE a == z[1]
           b == z[2]
<1>4. a \in Int /\ b \in Int /\ Multiple(a, l) /\ Multiple(b, l)
  BY <1>1 DEF Quadratics
<1> HIDE DEF z, a, b
<1> DEFINE u == a + t * b
           v == p * b
           n == Norm(z, p, t)
<1>5. n = u * a + v * b /\ u \in Int /\ v \in Int
  <2>1. n = a * a + t * (a * b) + p * (b * b)
    BY DEF Norm, a, b
  <2>2. (a + t * b) * a = a * a + t * (a * b)
    BY <1>4
  <2>3. (p * b) * b = p * (b * b)
    BY <1>4
  <2> QED
    BY <1>4, <2>1, <2>2, <2>3
<1> HIDE DEF u, v, n
<1>6. Multiple(n, l)
  BY <1>4, <1>5, Combination, Zenon
<1>7. Multiple(Norm(x, p, t) * Norm(y, p, t), l)
  BY <1>2, <1>6 DEF n
<1> QED
  BY <1>1, <1>3, <1>7, PrimeSplits

\* Multiplying both by a number keeps them proportional, and only that can
\* have made them so.
LEMMA ProportionalTimes ==
  ASSUME NEW l \in Nat, SmallPrime(l), NEW p \in Int, NEW t \in Int, NoRoot(p, t, l),
         NEW x \in Quadratics, NEW y \in Quadratics, NEW z \in Quadratics, NonZero(z, l)
  PROVE  Proportional(x, y, l) <=> Proportional(QuadraticTimes(p, t)[<<z, x>>],
                                                QuadraticTimes(p, t)[<<z, y>>], l)
<1> DEFINE c == Cross(x, y)
           n == Norm(z, p, t)
           d == Cross(QuadraticTimes(p, t)[<<z, x>>], QuadraticTimes(p, t)[<<z, y>>])
<1>1. c \in Int /\ n \in Int /\ ~Multiple(n, l)
  BY QuadraticParts, NormNonZero
<1>2. d = n * c
  BY TimesCross
<1> HIDE DEF c, n
<1>3. Multiple(c, l) => Multiple(n * c, l)
  BY <1>1, Scaled
<1>4. Multiple(n * c, l) => Multiple(c, l)
  BY <1>1, PrimeSplits
<1> QED
  BY <1>2, <1>3, <1>4 DEF Proportional, c

-----------------------------------------------------------------------------
(* One number of each class: the l + 1 points of the projective line.      *)

\* One point for each a below l, and the point at infinity.
Point(a, l) == IF a = l THEN <<1, 0>> ELSE <<a, 1>>

Points(l) == {Point(a, l) : a \in 0 .. l}

LEMMA PointParts ==
  ASSUME NEW l \in Nat, SmallPrime(l), NEW a \in 0 .. l
  PROVE  Point(a, l) \in Quadratics /\ NonZero(Point(a, l), l)
<1>1. ~Multiple(1, l) /\ l > 1
  <2>1. l > 1
    BY DEF SmallPrime
  <2> QED
    BY <2>1, SmallMultiple
<1>2. <<1, 0>> \in Quadratics /\ NonZero(<<1, 0>>, l)
  BY <1>1 DEF Quadratics, NonZero
<1>3. <<a, 1>> \in Quadratics /\ NonZero(<<a, 1>>, l)
  BY <1>1 DEF Quadratics, NonZero
<1> QED
  BY <1>2, <1>3 DEF Point

\* Different points are not proportional.
LEMMA PointsDiffer ==
  ASSUME NEW l \in Nat, SmallPrime(l), NEW a \in 0 .. l, NEW b \in 0 .. l,
         Proportional(Point(a, l), Point(b, l), l)
  PROVE  a = b
<1>1. l > 1
  BY DEF SmallPrime
<1>2. ~Multiple(1, l) /\ ~Multiple(-1, l)
  BY <1>1, SmallMultiple
<1>3. CASE a # l /\ b # l
  <2>1. Point(a, l) = <<a, 1>> /\ Point(b, l) = <<b, 1>>
    BY <1>3 DEF Point
  <2>2. Cross(Point(a, l), Point(b, l)) = a - b
    BY <2>1 DEF Cross
  <2>3. Multiple(a - b, l)
    BY <2>2 DEF Proportional
  <2>4. a \in 0 .. l - 1 /\ b \in 0 .. l - 1
    BY <1>3
  <2> QED
    BY <2>3, <2>4, CongruentEqual DEF Congruent
<1>4. CASE a = l /\ b # l
  <2>1. Point(a, l) = <<1, 0>> /\ Point(b, l) = <<b, 1>>
    BY <1>4 DEF Point
  <2>2. Cross(Point(a, l), Point(b, l)) = 1
    BY <2>1 DEF Cross
  <2> QED
    BY <1>2, <2>2 DEF Proportional
<1>5. CASE a # l /\ b = l
  <2>1. Point(a, l) = <<a, 1>> /\ Point(b, l) = <<1, 0>>
    BY <1>5 DEF Point
  <2>2. Cross(Point(a, l), Point(b, l)) = -1
    BY <2>1 DEF Cross
  <2> QED
    BY <1>2, <2>2 DEF Proportional
<1> QED
  BY <1>3, <1>4, <1>5

\* There are l + 1 of them.
LEMMA PointCount ==
  ASSUME NEW l \in Nat, SmallPrime(l)
  PROVE  IsFiniteSet(Points(l)) /\ Cardinality(Points(l)) = l + 1
<1> DEFINE f == [a \in 0 .. l |-> Point(a, l)]
<1>1. \A a, b \in 0 .. l : Point(a, l) = Point(b, l) => a = b
  <2> SUFFICES ASSUME NEW a \in 0 .. l, NEW b \in 0 .. l, Point(a, l) = Point(b, l)
               PROVE  a = b
    OBVIOUS
  <2>1. Point(a, l) \in Quadratics
    BY PointParts
  <2>2. Proportional(Point(a, l), Point(b, l), l)
    BY <2>1, ProportionalRefl
  <2> QED
    BY <2>2, PointsDiffer, Zenon
<1>2. f \in Bijection(0 .. l, Points(l))
  <2>1. f \in [0 .. l -> Points(l)]
    BY DEF Points
  <2>2. \A t \in Points(l) : \E s \in 0 .. l : f[s] = t
    BY DEF Points
  <2>3. \A a, b \in 0 .. l : f[a] = f[b] => a = b
    BY <1>1
  <2> HIDE DEF f
  <2> QED
    BY <2>1, <2>2, <2>3 DEF Bijection, Injection, Surjection, IsInjective
<1>3. ExistsBijection(0 .. l, Points(l))
  BY <1>2 DEF ExistsBijection
<1>4. IsFiniteSet(0 .. l) /\ Cardinality(0 .. l) = l + 1
  <2>1. IsFiniteSet(0 .. l) /\ Cardinality(0 .. l) = IF 0 > l THEN 0 ELSE l - 0 + 1
    BY FS_Interval
  <2> QED
    BY <2>1
<1> QED
  BY <1>3, <1>4, FS_Bijection

\* Every number but zero is proportional to a point.
LEMMA PointOf ==
  ASSUME NEW l \in Nat, SmallPrime(l), NEW x \in Quadratics, NonZero(x, l)
  PROVE  \E q \in Points(l) : Proportional(x, q, l)
<1> DEFINE a == x[1]
           b == x[2]
<1>1. a \in Int /\ b \in Int /\ -1 \in Int
  BY DEF Quadratics
<1>2. CASE Multiple(b, l)
  <2>1. Point(l, l) = <<1, 0>> /\ Point(l, l) \in Points(l)
    BY DEF Point, Points
  <2>2. Cross(x, <<1, 0>>) = (-1) * b
    BY <1>1 DEF Cross
  <2> HIDE DEF b
  <2>3. Multiple((-1) * b, l)
    BY <1>1, <1>2, Scaled, Zenon
  <2> QED
    BY <2>1, <2>2, <2>3 DEF Proportional
<1>3. CASE ~Multiple(b, l)
  <2>1. PICK c \in 0 .. l - 1 : Congruent(b * c, a, l)
    BY <1>1, <1>3, QuotientExists
  <2>2. Point(c, l) = <<c, 1>> /\ Point(c, l) \in Points(l)
    BY DEF Point, Points
  <2>3. Cross(x, <<c, 1>>) = a - b * c
    BY <1>1 DEF Cross
  <2>4. b * c \in Int
    BY <1>1
  <2> HIDE DEF a, b
  <2>5. Congruent(a, b * c, l)
    BY <1>1, <2>1, <2>4, CongruentSym, Zenon
  <2> QED
    BY <2>2, <2>3, <2>5 DEF Proportional, Congruent
<1> QED
  BY <1>2, <1>3

-----------------------------------------------------------------------------
(* M permutes the l + 1 points, so its power l + 1 is scalar.              *)

\* The laws of the product of numbers a + b M.
Laws(op) ==
  /\ \A x, y \in Quadratics : op[<<x, y>>] \in Quadratics /\ op[<<x, y>>] = op[<<y, x>>]
  /\ \A x \in Quadratics : op[<<<<1, 0>>, x>>] = x /\ op[<<x, <<1, 0>>>>] = x
  /\ \A x, y, z \in Quadratics : op[<<x, op[<<y, z>>]>>] = op[<<op[<<x, y>>], z>>]

LEMMA QuadraticLaws ==
  ASSUME NEW p \in Int, NEW t \in Int, NEW op, op = QuadraticTimes(p, t)
  PROVE  Laws(op)
<1> DEFINE V == Quadratics
           unit == <<1, 0>>
<1>1. CommutativeMonoid(V, op, unit)
  BY QuadraticMonoid
<1> HIDE DEF V, unit
<1>2. op \in [V \X V -> V] /\ unit \in V
  BY <1>1 DEF CommutativeMonoid
<1>3. \A x, y \in V : op[<<x, y>>] \in V
  BY <1>2
<1> QED
  BY <1>1, <1>2, <1>3 DEF CommutativeMonoid, V, unit, Laws

\* Products of proportional numbers are proportional.
LEMMA ProductsProportional ==
  ASSUME NEW l \in Nat, SmallPrime(l), NEW p \in Int, NEW t \in Int, NoRoot(p, t, l),
         NEW op, op = QuadraticTimes(p, t),
         NEW a \in Quadratics, NEW b \in Quadratics, NEW c \in Quadratics, NEW d \in Quadratics,
         NonZero(a, l), NonZero(d, l), Proportional(a, b, l), Proportional(c, d, l)
  PROVE  Proportional(op[<<a, c>>], op[<<b, d>>], l)
<1>0. Laws(op)
  BY QuadraticLaws
<1>1. \A x, y \in Quadratics : op[<<x, y>>] \in Quadratics /\ op[<<x, y>>] = op[<<y, x>>]
  BY <1>0 DEF Laws
<1>2. Proportional(op[<<a, c>>], op[<<a, d>>], l)
  BY ProportionalTimes
<1>3. Proportional(op[<<d, a>>], op[<<d, b>>], l)
  BY ProportionalTimes
<1>4. op[<<d, a>>] = op[<<a, d>>] /\ op[<<d, b>>] = op[<<b, d>>]
  BY <1>1
<1>5. NonZero(op[<<a, d>>], l)
  BY TimesNonZero
<1>6. /\ op[<<a, c>>] \in Quadratics /\ op[<<a, d>>] \in Quadratics /\ op[<<b, d>>] \in Quadratics
      /\ Proportional(op[<<a, d>>], op[<<b, d>>], l)
  BY <1>1, <1>3, <1>4
<1> DEFINE u == op[<<a, c>>]
           v == op[<<a, d>>]
           w == op[<<b, d>>]
<1>7. u \in Quadratics /\ v \in Quadratics /\ w \in Quadratics /\ NonZero(v, l)
      /\ Proportional(u, v, l) /\ Proportional(v, w, l)
  BY <1>2, <1>5, <1>6
<1> HIDE DEF u, v, w
<1>8. Proportional(u, w, l)
  BY <1>7, ProportionalTrans
<1> QED
  BY <1>8 DEF u, w

\* Where M takes each point.
Moves(f, op, l) ==
  /\ f \in [Points(l) -> Points(l)]
  /\ \A q \in Points(l) : Proportional(op[<<<<0, 1>>, q>>], f[q], l)

LEMMA RootIsNonZero ==
  ASSUME NEW l \in Nat, SmallPrime(l)
  PROVE  /\ <<0, 1>> \in Quadratics /\ NonZero(<<0, 1>>, l)
         /\ <<1, 0>> \in Quadratics /\ NonZero(<<1, 0>>, l)
<1>1. l > 1
  BY DEF SmallPrime
<1>2. ~Multiple(1, l)
  BY <1>1, SmallMultiple
<1> QED
  BY <1>2 DEF Quadratics, NonZero

LEMMA PointsFacts ==
  ASSUME NEW l \in Nat, SmallPrime(l)
  PROVE  /\ \A q \in Points(l) : q \in Quadratics /\ NonZero(q, l)
         /\ \A q, r \in Points(l) : Proportional(q, r, l) => q = r
<1>1. \A a \in 0 .. l : Point(a, l) \in Quadratics /\ NonZero(Point(a, l), l)
  BY PointParts, Zenon
<1>2. \A a, b \in 0 .. l : Proportional(Point(a, l), Point(b, l), l) => a = b
  BY PointsDiffer, Zenon
<1> QED
  BY <1>1, <1>2, Zenon DEF Points

\* M takes points to points, and no two to the same one.
LEMMA MovesExists ==
  ASSUME NEW l \in Nat, SmallPrime(l), NEW p \in Int, NEW t \in Int, NoRoot(p, t, l),
         NEW op, op = QuadraticTimes(p, t)
  PROVE  \E f : Moves(f, op, l) /\ f \in Injection(Points(l), Points(l))
<1> DEFINE R == Points(l)
           M == <<0, 1>>
           f == [q \in R |-> CHOOSE r \in R : Proportional(op[<<M, q>>], r, l)]
<1>1. M \in Quadratics /\ NonZero(M, l)
  BY RootIsNonZero
<1>2. \A q \in R : q \in Quadratics /\ NonZero(q, l)
  BY PointsFacts
<1> HIDE DEF R, M
<1>3. \A q \in R : op[<<M, q>>] \in Quadratics /\ NonZero(op[<<M, q>>], l)
  <2>1. \A x, y \in Quadratics : op[<<x, y>>] \in Quadratics
    BY QuadraticLaws DEF Laws
  <2>2. \A q \in R : NonZero(op[<<M, q>>], l)
    BY <1>1, <1>2, TimesNonZero, Zenon
  <2> QED
    BY <1>1, <1>2, <2>1, <2>2
<1>4. \A q \in R : \E r \in R : Proportional(op[<<M, q>>], r, l)
  BY <1>3, PointOf, Zenon DEF R
<1>5. \A q \in R : f[q] \in R /\ Proportional(op[<<M, q>>], f[q], l)
  BY <1>4, Zenon
<1>6. f \in [R -> R]
  BY <1>5
<1> HIDE DEF f
<1>7. ASSUME NEW q \in R, NEW r \in R, f[q] = f[r] PROVE q = r
  <2> DEFINE u == op[<<M, q>>]
             v == op[<<M, r>>]
             w == f[q]
  <2>1. u \in Quadratics /\ v \in Quadratics /\ w \in Quadratics /\ NonZero(w, l)
    BY <1>2, <1>3, <1>5
  <2>2. Proportional(u, w, l) /\ Proportional(v, w, l)
    BY <1>5, <1>7
  <2> HIDE DEF u, v, w
  <2>3. Proportional(w, v, l)
    BY <2>1, <2>2, ProportionalSym
  <2>4. Proportional(u, v, l)
    BY <2>1, <2>2, <2>3, ProportionalTrans
  <2>5. Proportional(q, r, l)
    <3>1. Proportional(op[<<M, q>>], op[<<M, r>>], l)
      BY <2>4 DEF u, v
    <3>2. q \in Quadratics /\ r \in Quadratics
      BY <1>2
    <3> QED
      BY <1>1, <3>1, <3>2, ProportionalTimes
  <2> QED
    BY <2>5, PointsFacts DEF R
<1> QED
  BY <1>5, <1>6, <1>7 DEF Moves, Injection, IsInjective, R, M

\* The product of the points of a set, times a power of M for each, is
\* proportional to the product of the points they are taken to.
Shifted(P, F, f, op, l, n) ==
  \A s \in SUBSET Points(l) :
    Cardinality(s) = n => Proportional(op[<<P[n], F[s]>>], F[{f[q] : q \in s}], l)

\* F[s] is the product of the points of s.
PointProduct(F, op, l) ==
  /\ F \in [SUBSET Points(l) -> Quadratics]
  /\ F[{}] = <<1, 0>>
  /\ \A s \in SUBSET Points(l) : \A q \in s : F[s] = op[<<q, F[s \ {q}]>>]

LEMMA PointProductExists ==
  ASSUME NEW l \in Nat, SmallPrime(l), NEW p \in Int, NEW t \in Int, NoRoot(p, t, l),
         NEW op, op = QuadraticTimes(p, t)
  PROVE  \E F : PointProduct(F, op, l) /\ \A s \in SUBSET Points(l) : NonZero(F[s], l)
<1> DEFINE R == Points(l)
           w == [q \in R |-> q]
<1>1. \A q \in R : q \in Quadratics /\ NonZero(q, l)
  BY PointsFacts
<1>2. IsFiniteSet(R)
  BY PointCount
<1>3. CommutativeMonoid(Quadratics, op, <<1, 0>>)
  BY QuadraticMonoid
<1> HIDE DEF R
<1>4. w \in [R -> Quadratics] /\ \A q \in R : w[q] = q
  BY <1>1
<1> HIDE DEF w
<1>5. PICK F \in [SUBSET R -> Quadratics] : IsProduct(F, w, op, <<1, 0>>, R)
  BY <1>2, <1>3, <1>4, ProductExists, Zenon
<1>6. \A s \in SUBSET R : \A q \in s : F[s] = op[<<q, F[s \ {q}]>>]
  BY <1>4, <1>5 DEF IsProduct
<1>7. F[{}] = <<1, 0>>
  BY <1>5 DEF IsProduct
<1> DEFINE T == {s \in SUBSET R : NonZero(F[s], l)}
<1>8. ASSUME NEW s \in SUBSET R, \A q \in s : s \ {q} \in T PROVE s \in T
  <2>1. CASE s = {}
    BY <1>7, <2>1, RootIsNonZero
  <2>2. CASE s # {}
    <3>1. PICK q \in s : TRUE
      BY <2>2
    <3>2. NonZero(F[s \ {q}], l) /\ F[s \ {q}] \in Quadratics
      BY <1>5, <1>8
    <3>3. q \in Quadratics /\ NonZero(q, l)
      BY <1>1
    <3>4. NonZero(op[<<q, F[s \ {q}]>>], l)
      BY <3>2, <3>3, TimesNonZero
    <3> QED
      BY <1>6, <3>4
  <2> QED
    BY <2>1, <2>2
<1>9. T = SUBSET R
  <2>1. T \in SUBSET (SUBSET R)
    OBVIOUS
  <2> HIDE DEF T
  <2> QED
    BY <1>2, <1>8, <2>1, RemovalInduction
<1> QED
  BY <1>5, <1>6, <1>7, <1>9 DEF PointProduct, R

\* No power of M is zero: M and its powers are invertible.
LEMMA PowersNonZero ==
  ASSUME NEW l \in Nat, SmallPrime(l), NEW p \in Int, NEW t \in Int, NoRoot(p, t, l),
         NEW n \in Nat, NEW P, MPowers(P, p, t, n)
  PROVE  \A k \in 0 .. n : P[k] \in Quadratics /\ NonZero(P[k], l)
<1> DEFINE T == {k \in Nat : k <= n => NonZero(P[k], l)}
<1>1. 0 \in T
  <2>1. P[0] = <<1, 0>>
    BY DEF MPowers, IsPowers
  <2> QED
    BY <2>1, RootIsNonZero
<1>2. ASSUME NEW k \in T PROVE k + 1 \in T
  <2> SUFFICES ASSUME k + 1 <= n PROVE NonZero(P[k + 1], l)
    OBVIOUS
  <2>1. k \in 0 .. n /\ k + 1 \in 1 .. n /\ (k + 1) - 1 = k /\ NonZero(P[k], l)
    OBVIOUS
  <2>2. P[k + 1] = QuadraticTimes(p, t)[<<P[k], <<0, 1>>>>]
    BY <2>1 DEF MPowers, IsPowers
  <2>3. P[k] \in Quadratics
    BY <2>1 DEF MPowers
  <2>4. NonZero(QuadraticTimes(p, t)[<<P[k], <<0, 1>>>>], l)
    BY <2>1, <2>3, RootIsNonZero, TimesNonZero, Zenon
  <2> QED
    BY <2>2, <2>4
<1>3. T = Nat
  <2>1. T \in SUBSET Nat
    OBVIOUS
  <2> HIDE DEF T
  <2> QED
    BY <1>1, <1>2, <2>1, NaturalInduction
<1>4. \A k \in 0 .. n : NonZero(P[k], l)
  BY <1>3
<1> QED
  BY <1>4 DEF MPowers

\* One more point, one more factor M.
LEMMA ShiftStep ==
  ASSUME NEW l \in Nat, SmallPrime(l), NEW p \in Int, NEW t \in Int, NoRoot(p, t, l),
         NEW op, op = QuadraticTimes(p, t), NEW n \in Nat, NEW P, MPowers(P, p, t, n),
         NEW f, Moves(f, op, l), f \in Injection(Points(l), Points(l)),
         NEW F, PointProduct(F, op, l), \A s \in SUBSET Points(l) : NonZero(F[s], l),
         NEW k \in Nat, k + 1 <= n, Shifted(P, F, f, op, l, k)
  PROVE  Shifted(P, F, f, op, l, k + 1)
<1> DEFINE R == Points(l)
           M == <<0, 1>>
           Im(s) == {f[q] : q \in s}
<1> SUFFICES ASSUME NEW s \in SUBSET R, Cardinality(s) = k + 1
             PROVE  Proportional(op[<<P[k + 1], F[s]>>], F[Im(s)], l)
  BY DEF Shifted
<1>1. Laws(op)
  BY QuadraticLaws
<1>2. IsFiniteSet(s)
  BY PointCount, FS_Subset
<1>3. s # {}
  BY <1>2, FS_EmptySet
<1>4. PICK x \in s : TRUE
  BY <1>3
<1> DEFINE s1 == s \ {x}
           q == f[x]
<1>5. s1 \in SUBSET R /\ x \in R
  OBVIOUS
<1>6. Cardinality(s1) = k
  <2>1. Cardinality(s1) = Cardinality(s) - 1
    BY <1>2, <1>4, FS_RemoveElement
  <2> HIDE DEF s1
  <2> QED
    BY <2>1
<1>7. q \in R /\ Proportional(op[<<M, x>>], q, l) /\ (\A y, z \in R : f[y] = f[z] => y = z)
      /\ (\A y \in R : f[y] \in R)
  BY <1>5 DEF Moves, Injection, IsInjective
<1>8. Im(s) \in SUBSET R /\ q \in Im(s) /\ Im(s) \ {q} = Im(s1) /\ Im(s1) \in SUBSET R
  BY <1>4, <1>7
<1>9. F[s] = op[<<x, F[s1]>>] /\ F[Im(s)] = op[<<q, F[Im(s1)]>>]
  <2>1. \A u \in SUBSET R : \A v \in u : F[u] = op[<<v, F[u \ {v}]>>]
    BY DEF PointProduct
  <2>2. x \in s /\ s \in SUBSET R
    BY <1>4
  <2> DEFINE j == Im(s)
             j1 == Im(s1)
  <2>3. j \in SUBSET R /\ q \in j /\ j \ {q} = j1
    BY <1>8
  <2> HIDE DEF R, j, j1, q
  <2>4. F[s] = op[<<x, F[s1]>>]
    BY <2>1, <2>2
  <2>5. F[j] = op[<<q, F[j1]>>]
    BY <2>1, <2>3
  <2> QED
    BY <2>4, <2>5 DEF j, j1
<1>10. Proportional(op[<<P[k], F[s1]>>], F[Im(s1)], l)
  BY <1>5, <1>6 DEF Shifted
<1>11. k \in 0 .. n /\ k + 1 \in 1 .. n /\ (k + 1) - 1 = k
  OBVIOUS
<1>12. P[k + 1] = op[<<P[k], M>>]
  BY <1>11 DEF MPowers, IsPowers
<1>13. P[k] \in Quadratics /\ NonZero(P[k], l)
  BY <1>11, PowersNonZero
<1>14. /\ x \in Quadratics /\ NonZero(x, l) /\ q \in Quadratics
       /\ M \in Quadratics /\ NonZero(M, l)
  BY <1>5, <1>7, PointsFacts, RootIsNonZero
<1>15. F[s1] \in Quadratics /\ F[Im(s1)] \in Quadratics /\ NonZero(F[Im(s1)], l)
  BY <1>5, <1>8 DEF PointProduct
<1> DEFINE a == op[<<M, x>>]
           c == op[<<P[k], F[s1]>>]
           d == F[Im(s1)]
           g == F[s1]
           e == P[k]
<1> HIDE DEF R, M, Im, q, s1
<1>16. a \in Quadratics /\ c \in Quadratics
  BY <1>1, <1>13, <1>14, <1>15 DEF Laws
<1>17. NonZero(a, l)
  BY <1>14, TimesNonZero
<1>18. Proportional(op[<<a, c>>], op[<<q, d>>], l)
  <2>1. d \in Quadratics /\ NonZero(d, l) /\ Proportional(a, q, l) /\ Proportional(c, d, l)
    BY <1>7, <1>10, <1>15
  <2> HIDE DEF a, c, d
  <2> QED
    BY <1>14, <1>16, <1>17, <2>1, ProductsProportional
<1>19. op[<<op[<<e, M>>], op[<<x, g>>]>>] = op[<<a, c>>]
  <2>1. e \in Quadratics /\ g \in Quadratics
    BY <1>13, <1>15
  <2> HIDE DEF e, g
  <2>2. a = op[<<M, x>>] /\ c = op[<<e, g>>]
    BY DEF e, g
  <2> HIDE DEF a, c
  <2> DEFINE em == op[<<e, M>>]
             emx == op[<<em, x>>]
             xg == op[<<x, g>>]
             ea == op[<<e, a>>]
  <2>3. em \in Quadratics /\ ea \in Quadratics /\ xg \in Quadratics
    BY <1>1, <1>14, <1>16, <2>1 DEF Laws
  <2>4. op[<<em, xg>>] = op[<<emx, g>>]
    BY <1>1, <1>14, <2>1, <2>3 DEF Laws
  <2>5. emx = ea
    BY <1>1, <1>14, <2>1, <2>2 DEF Laws
  <2>6. ea = op[<<a, e>>]
    BY <1>1, <1>16, <2>1 DEF Laws
  <2>7. op[<<op[<<a, e>>], g>>] = op[<<a, op[<<e, g>>]>>]
    BY <1>1, <1>16, <2>1 DEF Laws
  <2> QED
    BY <2>2, <2>4, <2>5, <2>6, <2>7
<1> QED
  BY <1>9, <1>12, <1>18, <1>19

\* The power l + 1 of M is scalar.
LEMMA PowerIsScalar ==
  ASSUME NEW l \in Nat, SmallPrime(l), NEW p \in Int, NEW t \in Int, NoRoot(p, t, l),
         NEW P, MPowers(P, p, t, l + 1)
  PROVE  Proportional(P[l + 1], <<1, 0>>, l)
<1> DEFINE op == QuadraticTimes(p, t)
           R == Points(l)
           n == l + 1
<1>1. Laws(op)
  BY QuadraticLaws
<1>2. PICK f : Moves(f, op, l) /\ f \in Injection(R, R)
  BY MovesExists
<1>3. PICK F : PointProduct(F, op, l) /\ \A s \in SUBSET R : NonZero(F[s], l)
  BY PointProductExists
<1> DEFINE T == {k \in Nat : k <= n => Shifted(P, F, f, op, l, k)}
<1>4. 0 \in T
  <2> SUFFICES ASSUME NEW s \in SUBSET R, Cardinality(s) = 0
               PROVE  Proportional(op[<<P[0], F[s]>>], F[{f[q] : q \in s}], l)
    BY DEF Shifted
  <2>1. IsFiniteSet(s)
    BY PointCount, FS_Subset
  <2>2. s = {} /\ {f[q] : q \in s} = {}
    BY <2>1, FS_EmptySet
  <2>3. P[0] = <<1, 0>> /\ F[{}] = <<1, 0>> /\ <<1, 0>> \in Quadratics
    BY <1>3, RootIsNonZero DEF MPowers, IsPowers, PointProduct
  <2>4. op[<<<<1, 0>>, <<1, 0>>>>] = <<1, 0>>
    BY <1>1, <2>3 DEF Laws
  <2> HIDE DEF op
  <2> QED
    BY <2>2, <2>3, <2>4, ProportionalRefl
<1>5. ASSUME NEW k \in T PROVE k + 1 \in T
  <2> SUFFICES ASSUME k + 1 <= n PROVE Shifted(P, F, f, op, l, k + 1)
    OBVIOUS
  <2>1. k \in Nat /\ n \in Nat /\ Shifted(P, F, f, op, l, k)
    OBVIOUS
  <2> HIDE DEF T, n
  <2>2. MPowers(P, p, t, n)
    BY DEF n
  <2> QED
    BY <1>2, <1>3, <2>1, <2>2, ShiftStep
<1>6. T = Nat
  <2>1. T \in SUBSET Nat
    OBVIOUS
  <2> HIDE DEF T
  <2> QED
    BY <1>4, <1>5, <2>1, NaturalInduction
<1>7. Shifted(P, F, f, op, l, n)
  <2>1. n \in Nat /\ n <= n
    OBVIOUS
  <2> QED
    BY <1>6, <2>1
<1>8. IsFiniteSet(R) /\ Cardinality(R) = n
  BY PointCount
<1>9. {f[q] : q \in R} = R
  <2> HIDE DEF R
  <2>1. f \in Surjection(R, R)
    BY <1>2, <1>8, FS_Injection
  <2> QED
    BY <2>1 DEF Surjection
<1>10. Proportional(op[<<P[n], F[R]>>], F[R], l)
  BY <1>7, <1>8, <1>9 DEF Shifted
<1>11. F[R] \in Quadratics /\ NonZero(F[R], l)
  BY <1>3 DEF PointProduct
<1>12. P[n] \in Quadratics /\ <<1, 0>> \in Quadratics
  <2>1. n \in 0 .. l + 1
    OBVIOUS
  <2> QED
    BY <2>1, RootIsNonZero DEF MPowers
<1> DEFINE x == F[R]
           y == P[n]
           unit == <<1, 0>>
<1>13. op[<<y, x>>] = op[<<x, y>>] /\ op[<<x, unit>>] = x
  BY <1>1, <1>11, <1>12 DEF Laws
<1>14. Proportional(op[<<x, y>>], op[<<x, unit>>], l)
  BY <1>10, <1>13
<1>15. x \in Quadratics /\ NonZero(x, l) /\ y \in Quadratics /\ unit \in Quadratics
  BY <1>11, <1>12
<1> HIDE DEF x, y, unit
<1>16. Proportional(y, unit, l)
  BY <1>14, <1>15, ProportionalTimes
<1> QED
  BY <1>16 DEF y, unit, n

-----------------------------------------------------------------------------
(* The scalar powers of M are those whose exponent the least one divides.  *)

\* The power k of M is scalar.
ScalarPower(P, l, k) == Proportional(P[k], <<1, 0>>, l)

LEMMA ScalarPowerFacts ==
  ASSUME NEW l \in Nat, l > 1, NEW p \in Int, NEW t \in Int, NEW n \in Nat,
         NEW P, MPowers(P, p, t, n), NEW k \in 0 .. n
  PROVE  IsScalar(MatrixOf(P[k], p, t, l)) <=> ScalarPower(P, l, k)
<1>1. P[k] \in Quadratics
  BY DEF MPowers
<1> DEFINE b == P[k][2]
<1>2. P[k][1] \in Int /\ b \in Int /\ -1 \in Int
  BY <1>1 DEF Quadratics
<1>3. Cross(P[k], <<1, 0>>) = (-1) * b /\ b = (-1) * ((-1) * b) /\ (-1) * b \in Int
  BY <1>2 DEF Cross
<1>4. IsScalar(MatrixOf(P[k], p, t, l)) <=> Multiple(b, l)
  BY <1>1, ScalarFacts
<1> HIDE DEF b
<1>5. Multiple(b, l) => Multiple((-1) * b, l)
  BY <1>2, Scaled, Zenon
<1>6. Multiple((-1) * b, l) => Multiple((-1) * ((-1) * b), l)
  BY <1>2, <1>3, Scaled, Zenon
<1>7. Multiple((-1) * b, l) => Multiple(b, l)
  BY <1>3, <1>6
<1> QED
  BY <1>3, <1>4, <1>5, <1>7 DEF ScalarPower, Proportional

\* A scalar power changes nothing for the powers after it.
LEMMA ScalarShift ==
  ASSUME NEW l \in Nat, SmallPrime(l), NEW p \in Int, NEW t \in Int, NoRoot(p, t, l),
         NEW n \in Nat, NEW P, MPowers(P, p, t, n),
         NEW i \in 0 .. n, NEW j \in 0 .. n, i + j <= n, ScalarPower(P, l, i)
  PROVE  ScalarPower(P, l, i + j) <=> ScalarPower(P, l, j)
<1> DEFINE op == QuadraticTimes(p, t)
           unit == <<1, 0>>
           x == P[i]
           y == P[j]
           z == P[i + j]
<1>1. Laws(op)
  BY QuadraticLaws
<1>2. ExponentsAdd(P, op, n)
  BY MPowersAdd
<1> HIDE DEF op
<1>3. z = op[<<x, y>>]
  BY <1>2 DEF ExponentsAdd
<1>4. /\ x \in Quadratics /\ y \in Quadratics /\ NonZero(y, l)
      /\ unit \in Quadratics /\ NonZero(unit, l) /\ z \in Quadratics /\ NonZero(z, l)
  <2>1. \A k \in 0 .. n : P[k] \in Quadratics /\ NonZero(P[k], l)
    BY PowersNonZero
  <2>2. i + j \in 0 .. n
    OBVIOUS
  <2> QED
    BY <2>1, <2>2, RootIsNonZero
<1>5. Proportional(x, unit, l)
  BY DEF ScalarPower
<1>6. op[<<x, y>>] = op[<<y, x>>] /\ op[<<y, unit>>] = y
  BY <1>1, <1>4 DEF Laws
<1> HIDE DEF unit, x, y, z
<1>7. Proportional(op[<<y, x>>], op[<<y, unit>>], l)
  BY <1>4, <1>5, ProportionalTimes DEF op
<1>8. Proportional(z, y, l)
  BY <1>3, <1>6, <1>7
<1>9. Proportional(y, z, l)
  BY <1>4, <1>8, ProportionalSym
<1>10. Proportional(z, unit, l) <=> Proportional(y, unit, l)
  BY <1>4, <1>8, <1>9, ProportionalTrans
<1> QED
  BY <1>10 DEF ScalarPower, unit, y, z

\* k is the order of M up to scalars.
LeastScalar(P, l, k) ==
  ScalarPower(P, l, k) /\ \A i \in 1 .. k - 1 : ~ScalarPower(P, l, i)

\* A power is scalar exactly when the order divides its exponent.
LEMMA ScalarMultiples ==
  ASSUME NEW l \in Nat, SmallPrime(l), NEW p \in Int, NEW t \in Int, NoRoot(p, t, l),
         NEW n \in Nat, NEW P, MPowers(P, p, t, n),
         NEW k \in 1 .. n, LeastScalar(P, l, k)
  PROVE  \A m \in 0 .. n : ScalarPower(P, l, m) <=> Multiple(m, k)
<1> DEFINE Bad == {m \in 0 .. n : ~(ScalarPower(P, l, m) <=> Multiple(m, k))}
<1> SUFFICES ASSUME Bad # {} PROVE FALSE
  OBVIOUS
<1>1. Bad \in SUBSET Nat
  OBVIOUS
<1>2. PICK m \in Bad : \A y \in Bad : m <= y
  <2> HIDE DEF Bad
  <2> QED
    BY <1>1, LeastNatural
<1>3. m \in 0 .. n /\ k \in Nat /\ k > 0 /\ m \in Nat
  OBVIOUS
<1>4. CASE m = 0
  <2>1. P[0] = <<1, 0>> /\ <<1, 0>> \in Quadratics
    BY RootIsNonZero DEF MPowers, IsPowers
  <2>2. ScalarPower(P, l, 0)
    BY <2>1, ProportionalRefl DEF ScalarPower
  <2>3. 0 = k * 0 /\ 0 \in Int
    BY <1>3
  <2>4. Multiple(0, k)
    BY <2>3 DEF Multiple
  <2> QED
    BY <1>4, <2>2, <2>4
<1>5. CASE m # 0 /\ m < k
  <2>1. ~ScalarPower(P, l, m)
    BY <1>3, <1>5 DEF LeastScalar
  <2>2. ~Multiple(m, k)
    BY <1>3, <1>5, SmallMultiple
  <2> QED
    BY <2>1, <2>2
<1>6. CASE m >= k
  <2> DEFINE j == m - k
  <2>1. j \in 0 .. n /\ k \in 0 .. n /\ k + j <= n /\ k + j = m /\ j < m
    BY <1>3, <1>6
  <2>2. ScalarPower(P, l, k + j) <=> ScalarPower(P, l, j)
    <3> HIDE DEF j
    <3> QED
      BY <2>1, ScalarShift DEF LeastScalar
  <2>3. ScalarPower(P, l, j) <=> Multiple(j, k)
    BY <1>2, <1>3, <2>1
  <2>4. Multiple(m, k) <=> Multiple(j, k)
    <3>1. m - j = k * 1 /\ 1 \in Int
      BY <1>3
    <3>2. Congruent(m, j, k)
      BY <3>1 DEF Congruent, Multiple
    <3>3. k \in Nat /\ m \in Int /\ j \in Int
      BY <1>3
    <3> HIDE DEF j, Bad
    <3> QED
      BY <3>2, <3>3, CongruentMultiple, Zenon
  <2> QED
    BY <2>1, <2>2, <2>3, <2>4
<1> QED
  BY <1>3, <1>4, <1>5, <1>6

\* The order exists, and divides l + 1: the bound of the code is a multiple of it.
LEMMA LeastScalarExists ==
  ASSUME NEW l \in Nat, SmallPrime(l), NEW p \in Int, NEW t \in Int, NoRoot(p, t, l),
         NEW P, MPowers(P, p, t, l + 1)
  PROVE  \E k \in 1 .. l + 1 : LeastScalar(P, l, k) /\ Multiple(l + 1, k)
<1> DEFINE T == {k \in 1 .. l + 1 : ScalarPower(P, l, k)}
<1>1. l + 1 \in T /\ T \in SUBSET Nat
  <2>1. ScalarPower(P, l, l + 1)
    BY PowerIsScalar, Zenon DEF ScalarPower
  <2> QED
    BY <2>1
<1>2. PICK k \in T : \A y \in T : k <= y
  <2> HIDE DEF T
  <2> QED
    BY <1>1, LeastNatural
<1>3. k \in 1 .. l + 1 /\ LeastScalar(P, l, k)
  BY <1>2 DEF LeastScalar
<1>4. l + 1 \in Nat /\ l + 1 \in 0 .. l + 1
  OBVIOUS
<1>5. ScalarPower(P, l, l + 1) <=> Multiple(l + 1, k)
  <2>1. \A m \in 0 .. l + 1 : ScalarPower(P, l, m) <=> Multiple(m, k)
    BY <1>3, <1>4, ScalarMultiples
  <2> QED
    BY <1>4, <2>1
<1> QED
  BY <1>1, <1>3, <1>5

-----------------------------------------------------------------------------
(* Dividing the bound by a prime as long as a smaller power is scalar.     *)

\* The loop, for the exponents of which it may divide.
DescendSteps(f, m, q, C) == f = [n \in 1 .. m |-> IF n \in C THEN f[n \div q] ELSE n]

LEMMA DescendExists ==
  ASSUME NEW q \in Nat, q > 1, NEW C, \A n \in C : n \in Nat /\ n # 0 /\ n % q = 0,
         NEW m \in Nat
  PROVE  \E f : DescendSteps(f, m, q, C)
<1> DEFINE T == {k \in Nat : \E f : DescendSteps(f, k, q, C)}
<1>0. ASSUME NEW n \in C PROVE n \div q \in 1 .. n - 1
  <2>1. n \in Nat /\ n # 0 /\ n % q = 0
    OBVIOUS
  <2> DEFINE d == n \div q
  <2>2. d \in Nat /\ n = q * d
    BY <2>1, DivFacts
  <2> HIDE DEF d
  <2>3. d # 0
    BY <2>1, <2>2
  <2>4. q * d >= 2 * d
    BY <2>2
  <2>5. d \in 1 .. n - 1
    BY <2>1, <2>2, <2>3, <2>4
  <2> QED
    BY <2>5 DEF d
<1>1. 0 \in T
  <2> DEFINE f == [n \in 1 .. 0 |-> n]
  <2>1. \A n \in 1 .. 0 : FALSE
    OBVIOUS
  <2>2. DescendSteps(f, 0, q, C)
    BY <2>1 DEF DescendSteps
  <2> QED
    BY <2>2
<1>2. ASSUME NEW k \in T PROVE k + 1 \in T
  <2>1. PICK f : DescendSteps(f, k, q, C)
    OBVIOUS
  <2> DEFINE g == [n \in 1 .. k + 1 |->
                     IF n = k + 1 THEN (IF n \in C THEN f[n \div q] ELSE n) ELSE f[n]]
  <2>2. k \in Nat
    OBVIOUS
  <2>3. ASSUME NEW n \in 1 .. k + 1 PROVE g[n] = IF n \in C THEN g[n \div q] ELSE n
    <3>1. n \in C => n \div q \in 1 .. k + 1 /\ n \div q # k + 1
      BY <1>0, <2>2
    <3>2. n \in C => g[n \div q] = f[n \div q]
      BY <3>1
    <3>3. CASE n = k + 1
      <4>1. g[n] = IF n \in C THEN f[n \div q] ELSE n
        BY <3>3
      <4> QED
        BY <3>2, <4>1
    <3>4. CASE n # k + 1
      <4>1. n \in 1 .. k /\ g[n] = f[n]
        BY <2>2, <3>4
      <4>2. f[n] = IF n \in C THEN f[n \div q] ELSE n
        BY <2>1, <4>1 DEF DescendSteps
      <4> HIDE DEF g
      <4> QED
        BY <3>2, <4>1, <4>2
    <3> QED
      BY <3>3, <3>4
  <2>4. g = [n \in 1 .. k + 1 |-> g[n]]
    OBVIOUS
  <2> HIDE DEF g
  <2>5. DescendSteps(g, k + 1, q, C)
    BY <2>3, <2>4 DEF DescendSteps
  <2> QED
    BY <2>2, <2>5
<1>3. T = Nat
  <2>1. T \in SUBSET Nat
    OBVIOUS
  <2> HIDE DEF T
  <2> QED
    BY <1>1, <1>2, <2>1, NaturalInduction
<1> QED
  BY <1>3

\* No further division by r leaves a multiple of k.
NotFurther(n, r, k) == \A j \in Nat : n = r * j => ~Multiple(j, k)

\* What the loop keeps, and where it stops.
IsTrimmed(old, new, q, k) ==
  /\ new \in 1 .. old /\ Multiple(old, new) /\ Multiple(new, k) /\ NotFurther(new, q, k)

\* The loop keeps the order dividing what is left, and stops where it must.
LEMMA DescendFacts ==
  ASSUME NEW q \in Nat, q > 1, NEW k \in Nat, k > 0, NEW m \in Nat, NEW C,
         C = {n \in 1 .. m : n % q = 0 /\ Multiple(n \div q, k)},
         NEW f, DescendSteps(f, m, q, C)
  PROVE  \A n \in 1 .. m : Multiple(n, k) => IsTrimmed(n, f[n], q, k)
<1> DEFINE Bad == {n \in 1 .. m : ~(Multiple(n, k) => IsTrimmed(n, f[n], q, k))}
<1> SUFFICES ASSUME Bad # {} PROVE FALSE
  OBVIOUS
<1>1. PICK n \in Bad : \A y \in Bad : n <= y
  <2>1. Bad \in SUBSET Nat
    OBVIOUS
  <2> HIDE DEF Bad
  <2> QED
    BY <2>1, LeastNatural
<1>2. n \in 1 .. m /\ Multiple(n, k) /\ ~IsTrimmed(n, f[n], q, k)
  OBVIOUS
<1>3. f[n] = IF n \in C THEN f[n \div q] ELSE n
  BY <1>2, Zenon DEF DescendSteps
<1> DEFINE d == n \div q
<1>4. d \in Nat /\ n % q \in 0 .. q - 1 /\ n = q * d + (n % q)
  <2>1. n \in Nat
    BY <1>2
  <2> QED
    BY <2>1, DivFacts
<1>5. CASE n \in C
  <2>1. n = q * d /\ Multiple(d, k) /\ f[n] = f[d]
    BY <1>3, <1>4, <1>5
  <2> HIDE DEF d
  <2>2. d # 0 /\ q * d >= 2 * d
    BY <1>2, <1>4, <2>1
  <2>3. d \in 1 .. m /\ d < n
    BY <1>2, <1>4, <2>1, <2>2
  <2>4. d \notin Bad
    BY <1>1, <1>2, <2>3
  <2>5. IsTrimmed(d, f[d], q, k)
    BY <2>1, <2>3, <2>4
  <2>6. PICK e \in Int : d = f[d] * e
    BY <2>5 DEF IsTrimmed, Multiple
  <2> DEFINE g == f[d]
  <2>7. g \in 1 .. d /\ d = g * e
    BY <2>5, <2>6 DEF IsTrimmed
  <2> HIDE DEF g
  <2>8. n = g * (q * e) /\ q * e \in Int
    <3>1. q * (g * e) = g * (q * e)
      BY <2>7
    <3> QED
      BY <2>1, <2>7, <3>1
  <2>9. Multiple(n, g) /\ g \in 1 .. n
    <3>1. Multiple(n, g)
      BY <2>8 DEF Multiple
    <3> QED
      BY <2>3, <2>7, <3>1
  <2> QED
    BY <1>2, <2>1, <2>5, <2>9 DEF IsTrimmed, g
<1>6. CASE n \notin C
  <2>1. f[n] = n
    BY <1>3, <1>6
  <2>2. n = n * 1 /\ 1 \in Int
    BY <1>2
  <2>3. Multiple(n, n)
    BY <2>2 DEF Multiple
  <2>4. ASSUME NEW j \in Nat, n = q * j, Multiple(j, k) PROVE FALSE
    <3>1. n % q = 0
      BY <2>4, ModOfMultiple
    <3>2. n = q * d
      BY <1>4, <3>1
    <3> HIDE DEF d
    <3>3. q * (j - d) = 0
      BY <1>4, <2>4, <3>2
    <3>4. j - d >= 1 => q * (j - d) >= 1
      BY <1>4
    <3>5. j - d <= -1 => q * (j - d) <= -1
      BY <1>4
    <3>6. j = d
      BY <1>4, <3>3, <3>4, <3>5
    <3>7. Multiple(n \div q, k)
      BY <2>4, <3>6 DEF d
    <3> QED
      BY <1>2, <1>6, <3>1, <3>7
  <2> QED
    BY <1>2, <2>1, <2>3, <2>4 DEF IsTrimmed, NotFurther
<1> QED
  BY <1>5, <1>6

\* The loop of trace.cpp.
TrimSteps(f, order, divisor, frobenius, l) ==
  f = [n \in 1 .. order |->
         IF n % divisor = 0 /\ IsScalar(MatrixPow(frobenius, n \div divisor, l))
         THEN f[n \div divisor] ELSE n]

LEMMA TrimmedUnfolds ==
  ASSUME NEW order, NEW divisor, NEW frobenius, NEW l
  PROVE  Trimmed(order, divisor, frobenius, l)
           = (CHOOSE f : TrimSteps(f, order, divisor, frobenius, l))[order]
  BY Zenon DEF Trimmed, TrimSteps

\* The test of the loop, a scalar smaller power, is that the order still divides.
LEMMA TrimmedFacts ==
  ASSUME NEW l \in Nat, SmallPrime(l), NEW p \in Int, NEW t \in Int, NoRoot(p, t, l),
         NEW P, MPowers(P, p, t, l + 1), NEW k \in 1 .. l + 1, LeastScalar(P, l, k),
         NEW order \in 1 .. l + 1, Multiple(order, k), NEW q \in Nat, q > 1
  PROVE  IsTrimmed(order, Trimmed(order, q, Frobenius(p, t, l), l), q, k)
<1> DEFINE F == Frobenius(p, t, l)
           C == {n \in 1 .. order : n % q = 0 /\ Multiple(n \div q, k)}
           f == CHOOSE g : TrimSteps(g, order, q, F, l)
<1>0. l > 1 /\ l + 1 \in Nat
  BY DEF SmallPrime
<1>1. ASSUME NEW n \in 1 .. order
      PROVE  n \in C <=> n % q = 0 /\ IsScalar(MatrixPow(F, n \div q, l))
  <2> DEFINE d == n \div q
  <2>1. d \in 0 .. l + 1
    <3>1. d \in Nat /\ n % q \in 0 .. q - 1 /\ n = q * d + (n % q)
      BY DivFacts
    <3> HIDE DEF d
    <3>2. q * d >= d
      BY <3>1
    <3> QED
      BY <3>1, <3>2
  <2> HIDE DEF d
  <2>2. MatrixPow(F, d, l) = MatrixOf(P[d], p, t, l)
    BY <1>0, <2>1, MatrixPowFacts
  <2>3. IsScalar(MatrixOf(P[d], p, t, l)) <=> ScalarPower(P, l, d)
    BY <1>0, <2>1, ScalarPowerFacts, Zenon
  <2>4. ScalarPower(P, l, d) <=> Multiple(d, k)
    <3>1. \A m \in 0 .. l + 1 : ScalarPower(P, l, m) <=> Multiple(m, k)
      BY <1>0, ScalarMultiples, Zenon
    <3> QED
      BY <2>1, <3>1
  <2>5. IsScalar(MatrixPow(F, d, l)) <=> Multiple(d, k)
    BY <2>2, <2>3, <2>4, Zenon
  <2> QED
    BY <2>5 DEF d
<1> HIDE DEF F
<1>2. \A g : TrimSteps(g, order, q, F, l) <=> DescendSteps(g, order, q, C)
  <2> SUFFICES ASSUME NEW g
               PROVE  TrimSteps(g, order, q, F, l) <=> DescendSteps(g, order, q, C)
    OBVIOUS
  <2> DEFINE u(n) == IF n % q = 0 /\ IsScalar(MatrixPow(F, n \div q, l)) THEN g[n \div q] ELSE n
             v(n) == IF n \in C THEN g[n \div q] ELSE n
  <2> HIDE DEF C
  <2>1. \A n \in 1 .. order : u(n) = v(n)
    BY <1>1, Zenon
  <2> HIDE DEF u, v
  <2>2. [n \in 1 .. order |-> u(n)] = [n \in 1 .. order |-> v(n)]
    BY <2>1
  <2> QED
    BY <2>2, Zenon DEF u, v, TrimSteps, DescendSteps
<1>3. \A n \in C : n \in Nat /\ n # 0 /\ n % q = 0
  OBVIOUS
<1> DEFINE CC == C
<1>4. CC = {n \in 1 .. order : n % q = 0 /\ Multiple(n \div q, k)}
      /\ \A n \in CC : n \in Nat /\ n # 0 /\ n % q = 0
  BY <1>3
<1>5. \A g : TrimSteps(g, order, q, F, l) <=> DescendSteps(g, order, q, CC)
  BY <1>2
<1> HIDE DEF C, CC
<1>6. order \in Nat /\ k \in Nat /\ k > 0 /\ order \in 1 .. order
  OBVIOUS
<1>7. \E g : DescendSteps(g, order, q, CC)
  BY <1>4, <1>6, DescendExists, Zenon
<1>8. DescendSteps(f, order, q, CC)
  <2>1. \E g : TrimSteps(g, order, q, F, l)
    BY <1>5, <1>7, Zenon
  <2>2. TrimSteps(f, order, q, F, l)
    BY <2>1, Zenon
  <2> QED
    BY <1>5, <2>2, Zenon
<1> HIDE DEF f
<1>9. \A n \in 1 .. order : Multiple(n, k) => IsTrimmed(n, f[n], q, k)
  BY <1>4, <1>6, <1>8, DescendFacts
<1>10. IsTrimmed(order, f[order], q, k)
  BY <1>6, <1>9
<1> QED
  BY <1>10, TrimmedUnfolds DEF f, F

-----------------------------------------------------------------------------
(* All prime divisors of the bound in turn leave the order.                *)

Reduces(f, m, bound, frobenius, l) ==
  f = [q \in 1 .. m |->
         IF q = 1 THEN bound
         ELSE IF q \in DistinctPrimeDivisors(bound)
         THEN Trimmed(f[q - 1], q, frobenius, l)
         ELSE f[q - 1]]

LEMMA OrderUnfolds ==
  ASSUME NEW l, NEW p, NEW t, NEW bound, bound = OrderBound(l, p, t)
  PROVE  ProjectiveFrobeniusOrder(l, p, t)
           = (CHOOSE f : Reduces(f, bound, bound, Frobenius(p, t, l), l))[bound]
  BY Zenon DEF ProjectiveFrobeniusOrder, Reduces

LEMMA ReducesExists ==
  ASSUME NEW bound, NEW frobenius, NEW l, NEW m \in Nat
  PROVE  \E f : Reduces(f, m, bound, frobenius, l)
<1> DEFINE Next(x, q) == IF q = 1 THEN bound
                         ELSE IF q \in DistinctPrimeDivisors(bound)
                         THEN Trimmed(x, q, frobenius, l) ELSE x
           T == {k \in Nat : \E f : f = [q \in 1 .. k |-> Next(f[q - 1], q)]}
<1>1. 0 \in T
  <2> DEFINE f == [q \in 1 .. 0 |-> q]
  <2>1. \A q \in 1 .. 0 : FALSE
    OBVIOUS
  <2>2. f = [q \in 1 .. 0 |-> Next(f[q - 1], q)]
    BY <2>1
  <2> QED
    BY <2>2
<1>2. ASSUME NEW k \in T PROVE k + 1 \in T
  <2> HIDE DEF Next
  <2>1. PICK f : f = [q \in 1 .. k |-> Next(f[q - 1], q)]
    OBVIOUS
  <2> DEFINE g == [q \in 1 .. k + 1 |-> IF q = k + 1 THEN Next(f[q - 1], q) ELSE f[q]]
  <2>2. k \in Nat
    OBVIOUS
  <2>3. ASSUME NEW q \in 1 .. k + 1 PROVE g[q] = Next(g[q - 1], q)
    <3>1. CASE q = 1
      <4>1. \A x, y : Next(x, 1) = Next(y, 1)
        BY DEF Next
      <4>2. g[q] = Next(f[q - 1], q)
        <5>1. CASE q = k + 1
          BY <5>1
        <5>2. CASE q # k + 1
          <6>1. q \in 1 .. k
            BY <2>2, <5>2
          <6> QED
            BY <2>1, <5>2, <6>1
        <5> QED
          BY <5>1, <5>2
      <4> HIDE DEF g
      <4> QED
        BY <3>1, <4>1, <4>2
    <3>2. CASE q # 1
      <4>1. q - 1 \in 1 .. k + 1 /\ q - 1 # k + 1 /\ q - 1 \in 1 .. k
        BY <2>2, <3>2
      <4>2. g[q - 1] = f[q - 1]
        BY <4>1
      <4>3. g[q] = Next(f[q - 1], q)
        <5>1. CASE q = k + 1
          BY <5>1
        <5>2. CASE q # k + 1
          <6>1. q \in 1 .. k
            BY <2>2, <5>2
          <6> QED
            BY <2>1, <5>2, <6>1
        <5> QED
          BY <5>1, <5>2
      <4> HIDE DEF g
      <4> QED
        BY <4>2, <4>3
    <3> QED
      BY <3>1, <3>2
  <2>4. g = [q \in 1 .. k + 1 |-> g[q]]
    OBVIOUS
  <2> HIDE DEF g
  <2>5. g = [q \in 1 .. k + 1 |-> Next(g[q - 1], q)]
    BY <2>3, <2>4
  <2> QED
    BY <2>2, <2>5
<1>3. T = Nat
  <2>1. T \in SUBSET Nat
    OBVIOUS
  <2> HIDE DEF T
  <2> QED
    BY <1>1, <1>2, <2>1, NaturalInduction
<1>4. PICK f : f = [q \in 1 .. m |-> Next(f[q - 1], q)]
  BY <1>3
<1> QED
  BY <1>4, Zenon DEF Reduces, Next

-----------------------------------------------------------------------------
(* The order that is left is the least scalar exponent.                    *)

\* What cannot be divided by r does not become divisible when it shrinks.
LEMMA NotFurtherStays ==
  ASSUME NEW old \in Nat, NEW new \in Nat, new > 0, Multiple(old, new),
         NEW r \in Nat, NEW k \in Nat, k > 0, Multiple(new, k), NotFurther(old, r, k)
  PROVE  NotFurther(new, r, k)
<1> SUFFICES ASSUME NEW j \in Nat, new = r * j, Multiple(j, k) PROVE FALSE
  BY DEF NotFurther
<1>1. PICK i \in Int : old = new * i
  BY DEF Multiple
<1>2. CASE i >= 0
  <2>1. j * i \in Nat /\ (r * j) * i = r * (j * i) /\ j * i = i * j /\ j \in Int
    BY <1>2
  <2>2. old = r * (j * i)
    BY <1>1, <2>1
  <2>3. Multiple(i * j, k)
    BY Scaled, <2>1
  <2>4. Multiple(j * i, k)
    BY <2>1, <2>3
  <2> QED
    BY <2>1, <2>2, <2>4 DEF NotFurther
<1>3. CASE i < 0
  <2>1. new * i <= -1
    BY <1>3
  <2> QED
    BY <1>1, <2>1
<1> QED
  BY <1>2, <1>3

\* What is left after the primes up to q.
IsReduced(n, q, bound, k) ==
  /\ n \in 1 .. bound /\ Multiple(bound, n) /\ Multiple(n, k)
  /\ \A r \in 2 .. q : r \in DistinctPrimeDivisors(bound) => NotFurther(n, r, k)

\* One prime more.
LEMMA ReducedStep ==
  ASSUME NEW bound \in Nat, NEW k \in Nat, k > 0, NEW q \in Nat, q > 1,
         NEW old, IsReduced(old, q - 1, bound, k),
         NEW new, q \in DistinctPrimeDivisors(bound) => IsTrimmed(old, new, q, k),
         q \notin DistinctPrimeDivisors(bound) => new = old
  PROVE  IsReduced(new, q, bound, k)
<1>0. old \in 1 .. bound /\ Multiple(bound, old) /\ Multiple(old, k)
      /\ old \in Int /\ bound \in Int /\ old \in Nat
  BY DEF IsReduced
<1>1. CASE q \in DistinctPrimeDivisors(bound)
  <2>1. new \in 1 .. old /\ Multiple(old, new) /\ Multiple(new, k) /\ NotFurther(new, q, k)
    BY <1>1 DEF IsTrimmed
  <2>2. new \in Int /\ new \in Nat /\ new > 0 /\ new \in 1 .. bound
    BY <1>0, <2>1
  <2>3. Multiple(bound, new)
    BY <1>0, <2>1, <2>2, MultipleTrans
  <2>4. ASSUME NEW r \in 2 .. q, r \in DistinctPrimeDivisors(bound)
        PROVE  NotFurther(new, r, k)
    <3>1. CASE r = q
      BY <2>1, <3>1
    <3>2. CASE r # q
      <4>1. r \in 2 .. q - 1 /\ r \in Nat
        BY <3>2
      <4>2. NotFurther(old, r, k)
        BY <2>4, <4>1 DEF IsReduced
      <4> QED
        BY <1>0, <2>1, <2>2, <4>1, <4>2, NotFurtherStays
    <3> QED
      BY <3>1, <3>2
  <2> QED
    BY <2>1, <2>2, <2>3, <2>4 DEF IsReduced
<1>2. CASE q \notin DistinctPrimeDivisors(bound)
  <2>1. new = old
    BY <1>2
  <2>2. ASSUME NEW r \in 2 .. q, r \in DistinctPrimeDivisors(bound)
        PROVE  NotFurther(new, r, k)
    <3>1. r \in 2 .. q - 1
      BY <1>2, <2>2
    <3> QED
      BY <2>1, <2>2, <3>1 DEF IsReduced
  <2> QED
    BY <1>0, <2>1, <2>2 DEF IsReduced
<1> QED
  BY <1>1, <1>2

LEMMA ReducedFacts ==
  ASSUME NEW l \in Nat, SmallPrime(l), NEW p \in Int, NEW t \in Int, NoRoot(p, t, l),
         NEW P, MPowers(P, p, t, l + 1), NEW k \in 1 .. l + 1, LeastScalar(P, l, k),
         Multiple(l + 1, k), NEW f, Reduces(f, l + 1, l + 1, Frobenius(p, t, l), l)
  PROVE  \A q \in 1 .. l + 1 : IsReduced(f[q], q, l + 1, k)
<1> DEFINE bound == l + 1
           T == {m \in Nat : m \in 1 .. bound => IsReduced(f[m], m, bound, k)}
<1>0. bound \in Nat /\ bound >= 1 /\ k \in Nat /\ k > 0
  OBVIOUS
<1>1. 0 \in T
  OBVIOUS
<1>2. ASSUME NEW m \in T PROVE m + 1 \in T
  <2>0. m \in Nat
    OBVIOUS
  <2> SUFFICES ASSUME m + 1 \in 1 .. bound PROVE IsReduced(f[m + 1], m + 1, bound, k)
    BY <2>0
  <2>1. f[m + 1] = IF m + 1 = 1 THEN bound
                   ELSE IF m + 1 \in DistinctPrimeDivisors(bound)
                   THEN Trimmed(f[(m + 1) - 1], m + 1, Frobenius(p, t, l), l)
                   ELSE f[(m + 1) - 1]
    BY Zenon DEF Reduces
  <2>2. CASE m = 0
    <3>1. f[m + 1] = bound
      BY <2>1, <2>2
    <3>2. bound = bound * 1 /\ 1 \in Int
      BY <1>0
    <3>3. Multiple(bound, bound)
      BY <3>2 DEF Multiple
    <3>4. \A r \in 2 .. m + 1 : FALSE
      BY <2>2
    <3> QED
      BY <1>0, <3>1, <3>3, <3>4 DEF IsReduced
  <2>3. CASE m # 0
    <3> DEFINE q == m + 1
               old == f[m]
               new == f[q]
    <3>1. m \in 1 .. bound /\ q - 1 = m /\ q \in Nat /\ q > 1 /\ q # 1
      BY <2>0, <2>3
    <3>2. IsReduced(old, q - 1, bound, k)
      BY <3>1
    <3>3. q \in DistinctPrimeDivisors(bound)
            => new = Trimmed(old, q, Frobenius(p, t, l), l)
      BY <2>1, <3>1
    <3>4. q \notin DistinctPrimeDivisors(bound) => new = old
      BY <2>1, <3>1
    <3>5. old \in 1 .. l + 1 /\ Multiple(old, k)
      BY <3>2 DEF IsReduced
    <3> HIDE DEF q, old, new
    <3>6. IsTrimmed(old, Trimmed(old, q, Frobenius(p, t, l), l), q, k)
      BY <3>1, <3>5, TrimmedFacts
    <3>7. q \in DistinctPrimeDivisors(bound) => IsTrimmed(old, new, q, k)
      BY <3>3, <3>6, Zenon
    <3> HIDE DEF bound
    <3>8. IsReduced(new, q, bound, k)
      BY <1>0, <3>1, <3>2, <3>4, <3>7, ReducedStep
    <3> QED
      BY <3>8 DEF new, q
  <2> QED
    BY <2>2, <2>3
<1>3. T = Nat
  <2>1. T \in SUBSET Nat
    OBVIOUS
  <2> HIDE DEF T
  <2> QED
    BY <1>1, <1>2, <2>1, NaturalInduction
<1> QED
  BY <1>3

\* No prime is left by which the order could be exceeded.
LEMMA ReducedIsLeast ==
  ASSUME NEW bound \in Nat, NEW k \in Nat, k > 0,
         NEW n, IsReduced(n, bound, bound, k)
  PROVE  n = k
<1>1. n \in 1 .. bound /\ Multiple(bound, n) /\ n \in Int /\ bound \in Int
  BY DEF IsReduced
<1>2. PICK c \in Int : n = k * c
  BY DEF IsReduced, Multiple
<1>3. c >= 1
  <2>1. c <= 0 => k * c <= 0
    OBVIOUS
  <2> QED
    BY <1>1, <1>2, <2>1
<1>4. CASE c = 1
  BY <1>2, <1>4
<1>5. CASE c > 1
  <2>1. PICK r \in 2 .. c : SmallPrime(r) /\ Multiple(c, r)
    BY <1>3, <1>5, PrimeDivisor
  <2>2. PICK e \in Int : c = r * e
    BY <2>1 DEF Multiple
  <2>3. r * (k * e) = k * (r * e) /\ k * e = e * k /\ k * e \in Int /\ r \in Nat /\ r > 0
        /\ r \in Int
    OBVIOUS
  <2>4. n = r * (k * e)
    BY <1>2, <2>2, <2>3
  <2>5. k * e \in Nat
    <3>1. k * e <= -1 => r * (k * e) <= -1
      BY <2>3
    <3> QED
      BY <1>1, <2>3, <2>4, <3>1
  <2>6. Multiple(k * e, k)
    BY DEF Multiple
  <2>7. Multiple(n, r)
    BY <2>3, <2>4 DEF Multiple
  <2>8. Multiple(bound, r)
    BY <1>1, <2>3, <2>7, MultipleTrans
  <2>9. bound % r = 0
    BY <1>1, <2>3, <2>8, MultipleMod
  <2>10. r <= bound
    <3>1. ~(-r < bound /\ bound < r)
      BY <1>1, <2>3, <2>8, SmallMultiple
    <3> QED
      BY <1>1, <2>3, <3>1
  <2>11. r \in 2 .. bound /\ r \in DistinctPrimeDivisors(bound)
    BY <2>1, <2>9, <2>10 DEF DistinctPrimeDivisors
  <2>12. NotFurther(n, r, k)
    BY <2>11 DEF IsReduced
  <2> QED
    BY <2>4, <2>5, <2>6, <2>12 DEF NotFurther
<1> QED
  BY <1>3, <1>4, <1>5

\* projective_frobenius_order of an irreducible polynomial.
LEMMA OrderFacts ==
  ASSUME NEW l, OddPrime(l), NEW p \in Int, NEW t \in Int, NoRoot(p, t, l),
         NEW P, MPowers(P, p, t, l + 1), NEW k \in 1 .. l + 1, LeastScalar(P, l, k),
         Multiple(l + 1, k)
  PROVE  ProjectiveFrobeniusOrder(l, p, t) = k
<1> DEFINE F == Frobenius(p, t, l)
           bound == l + 1
           f == CHOOSE g : Reduces(g, bound, bound, F, l)
<1>0. l \in Nat /\ SmallPrime(l) /\ bound \in Nat /\ k \in Nat /\ k > 0
      /\ bound \in 1 .. bound
  BY OddPrimeHalf
<1>1. LegendreSmall(Discriminant(p, t, l), l) = -1
  BY IrreducibleFacts
<1>2. OrderBound(l, p, t) = bound
  BY <1>1 DEF OrderBound
<1>3. ProjectiveFrobeniusOrder(l, p, t) = f[bound]
  BY <1>2, OrderUnfolds, Zenon
<1>4. Reduces(f, bound, bound, F, l)
  <2>1. \E g : Reduces(g, bound, bound, F, l)
    BY <1>0, ReducesExists, Zenon
  <2> QED
    BY <2>1, Zenon
<1> HIDE DEF f
<1>5. \A q \in 1 .. l + 1 : IsReduced(f[q], q, l + 1, k)
  BY <1>0, <1>4, ReducedFacts
<1>6. IsReduced(f[bound], bound, bound, k)
  BY <1>0, <1>5
<1> HIDE DEF bound
<1>7. f[bound] = k
  BY <1>0, <1>6, ReducedIsLeast
<1> QED
  BY <1>3, <1>7

\* The power l + 1 of an irreducible polynomial's Frobenius is scalar: the
\* logic_error of projective_frobenius_order ("order bound failed") cannot be
\* raised where the Atkin residues are collected.
THEOREM OrderBoundHolds ==
  ASSUME NEW l, OddPrime(l), NEW p \in Int, NEW t \in Int, NoRoot(p, t, l)
  PROVE  IsScalar(MatrixPow(Frobenius(p, t, l), OrderBound(l, p, t), l))
<1> DEFINE n == l + 1
<1>0. l \in Nat /\ l > 1 /\ SmallPrime(l) /\ n \in Nat /\ n \in 0 .. n
  BY OddPrimeHalf
<1>1. LegendreSmall(Discriminant(p, t, l), l) = -1
  BY IrreducibleFacts
<1>2. OrderBound(l, p, t) = n
  BY <1>1 DEF OrderBound
<1>3. PICK P : MPowers(P, p, t, n)
  BY <1>0, QuadraticPowersExist, Zenon DEF MPowers
<1>4. MatrixPow(Frobenius(p, t, l), n, l) = MatrixOf(P[n], p, t, l)
  BY <1>0, <1>3, MatrixPowFacts
<1>5. ScalarPower(P, l, n)
  BY <1>0, <1>3, PowerIsScalar, Zenon DEF ScalarPower
<1>6. IsScalar(MatrixOf(P[n], p, t, l))
  BY <1>0, <1>3, <1>5, ScalarPowerFacts, Zenon
<1> QED
  BY <1>2, <1>4, <1>6

=============================================================================
