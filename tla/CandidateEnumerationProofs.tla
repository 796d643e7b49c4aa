--------------------- MODULE CandidateEnumerationProofs ---------------------
(***************************************************************************)
(* enumerate_certificate_candidates visits admissible orders only, none of *)
(* them twice, all of them unless it was cut short, and each with its      *)
(* primes, for every field, every order with its smooth part, and every    *)
(* pair of limits.  An order is the value of a vector of exponents; the    *)
(* search goes through the vectors in lexicographic order, and what it has *)
(* put behind it is a function of the stack.                               *)
(***************************************************************************)
EXTENDS CandidateEnumeration, DataLemmas

-----------------------------------------------------------------------------
(* Recursion over the naturals and powers.                                 *)

\* The first n + 1 values of a recursion.
Begins(g, n, V, base, step) ==
  /\ g \in [0 .. n -> V] /\ g[0] = base
  /\ \A e \in 0 .. n - 1 : g[e + 1] = step[<<e, g[e]>>]

\* The values of a recursion exist up to every bound.
LEMMA BeginsExists ==
  ASSUME NEW V, NEW base \in V, NEW step \in [Nat \X V -> V], NEW n \in Nat
  PROVE  \E g : Begins(g, n, V, base, step)
<1> DEFINE T == {m \in Nat : \E g : Begins(g, m, V, base, step)}
<1>1. 0 \in T
  <2> DEFINE g == [e \in 0 .. 0 |-> base]
  <2>1. Begins(g, 0, V, base, step)
    BY DEF Begins
  <2> QED
    BY <2>1
<1>2. ASSUME NEW m \in T PROVE m + 1 \in T
  <2>1. PICK g : Begins(g, m, V, base, step)
    OBVIOUS
  <2>2. m \in Nat /\ m \in 0 .. m /\ g[m] \in V /\ step[<<m, g[m]>>] \in V
    BY <2>1 DEF Begins
  <2> DEFINE h == [e \in 0 .. m + 1 |-> IF e = m + 1 THEN step[<<m, g[m]>>] ELSE g[e]]
  <2>3. h \in [0 .. m + 1 -> V] /\ h[0] = base
    BY <2>1, <2>2 DEF Begins
  <2>4. ASSUME NEW e \in 0 .. (m + 1) - 1 PROVE h[e + 1] = step[<<e, h[e]>>]
    <3>1. e \in 0 .. m + 1 /\ e # m + 1 /\ e + 1 \in 0 .. m + 1
      BY <2>2
    <3>2. h[e] = g[e]
      BY <3>1
    <3>3. CASE e = m
      BY <2>2, <3>1, <3>2, <3>3
    <3>4. CASE e # m
      <4>1. e \in 0 .. m - 1 /\ e + 1 # m + 1
        BY <2>2, <3>4
      <4>2. h[e + 1] = g[e + 1]
        BY <3>1, <4>1
      <4> QED
        BY <2>1, <3>2, <4>1, <4>2 DEF Begins
    <3> QED
      BY <3>3, <3>4
  <2> HIDE DEF h
  <2>5. Begins(h, m + 1, V, base, step)
    BY <2>3, <2>4 DEF Begins
  <2> QED
    BY <2>2, <2>5
<1>3. T = Nat
  <2>1. T \in SUBSET Nat
    OBVIOUS
  <2> HIDE DEF T
  <2> QED
    BY <1>1, <1>2, <2>1, NaturalInduction
<1> QED
  BY <1>3

\* Two recursions agree as far as both go.
LEMMA BeginsOnly ==
  ASSUME NEW V, NEW base, NEW step, NEW m \in Nat, NEW n \in Nat,
         NEW g, NEW h, Begins(g, m, V, base, step), Begins(h, n, V, base, step)
  PROVE  \A e \in Nat : e <= m /\ e <= n => g[e] = h[e]
<1> DEFINE T == {e \in Nat : e <= m /\ e <= n => g[e] = h[e]}
<1>1. 0 \in T
  BY DEF Begins
<1>2. ASSUME NEW e \in T PROVE e + 1 \in T
  <2> SUFFICES ASSUME e + 1 <= m, e + 1 <= n PROVE g[e + 1] = h[e + 1]
    OBVIOUS
  <2>1. e \in 0 .. m - 1 /\ e \in 0 .. n - 1 /\ g[e] = h[e]
    OBVIOUS
  <2> QED
    BY <2>1 DEF Begins
<1>3. T = Nat
  <2>1. T \in SUBSET Nat
    OBVIOUS
  <2> HIDE DEF T
  <2> QED
    BY <1>1, <1>2, <2>1, NaturalInduction
<1> QED
  BY <1>3

\* All values of a recursion.
Recursion(f, V, base, step) ==
  /\ f \in [Nat -> V] /\ f[0] = base
  /\ \A e \in Nat : f[e + 1] = step[<<e, f[e]>>]

\* A function may be defined by recursion over the naturals.
LEMMA RecursionExists ==
  ASSUME NEW V, NEW base \in V, NEW step \in [Nat \X V -> V]
  PROVE  \E f : Recursion(f, V, base, step)
<1> DEFINE g(n) == CHOOSE h : Begins(h, n, V, base, step)
           f == [n \in Nat |-> g(n)[n]]
<1>1. ASSUME NEW n \in Nat PROVE Begins(g(n), n, V, base, step)
  <2>1. \E h : Begins(h, n, V, base, step)
    BY BeginsExists
  <2> QED
    BY <2>1
<1> HIDE DEF g
<1>2. f \in [Nat -> V] /\ f[0] = base
  <2>1. \A n \in Nat : g(n)[n] \in V /\ g(n)[0] = base
    BY <1>1 DEF Begins
  <2> QED
    BY <2>1
<1>3. ASSUME NEW e \in Nat PROVE f[e + 1] = step[<<e, f[e]>>]
  <2>1. Begins(g(e + 1), e + 1, V, base, step) /\ Begins(g(e), e, V, base, step)
    BY <1>1
  <2>2. g(e + 1)[e] = g(e)[e]
    BY <2>1, BeginsOnly
  <2>3. e \in 0 .. (e + 1) - 1 /\ e + 1 \in Nat
    OBVIOUS
  <2>4. g(e + 1)[e + 1] = step[<<e, g(e + 1)[e]>>]
    BY <2>1, <2>3 DEF Begins
  <2> QED
    BY <2>2, <2>3, <2>4
<1> HIDE DEF f
<1> QED
  BY <1>2, <1>3 DEF Recursion

\* The recursion of Power.
PowerSteps(f, base) == f = [e \in Nat |-> IF e = 0 THEN 1 ELSE f[e - 1] * base]

\* Power is its recursion.
LEMMA PowerUnfolds ==
  ASSUME NEW base, NEW exponent
  PROVE  Power(base, exponent) = (CHOOSE f : PowerSteps(f, base))[exponent]
  BY Zenon DEF Power, PowerSteps

\* Powers, one factor at a time.
LEMMA PowerFacts ==
  ASSUME NEW base \in Nat
  PROVE  /\ Power(base, 0) = 1
         /\ \A e \in Nat : Power(base, e) \in Nat /\ Power(base, e + 1) = Power(base, e) * base
<1> DEFINE step == [z \in Nat \X Nat |-> z[2] * base]
<1>1. step \in [Nat \X Nat -> Nat] /\ 1 \in Nat
  OBVIOUS
<1>2. \A e, v \in Nat : step[<<e, v>>] = v * base
  OBVIOUS
<1> HIDE DEF step
<1>3. PICK f : Recursion(f, Nat, 1, step)
  BY <1>1, RecursionExists
<1>4. PowerSteps(f, base)
  <2>1. ASSUME NEW e \in Nat PROVE f[e] = IF e = 0 THEN 1 ELSE f[e - 1] * base
    <3>1. CASE e = 0
      BY <1>3, <3>1 DEF Recursion
    <3>2. CASE e # 0
      <4>1. e - 1 \in Nat /\ (e - 1) + 1 = e
        BY <3>2
      <4> QED
        BY <1>2, <1>3, <3>2, <4>1 DEF Recursion
    <3> QED
      BY <3>1, <3>2
  <2>2. f = [e \in Nat |-> f[e]]
    BY <1>3 DEF Recursion
  <2> QED
    BY <2>1, <2>2 DEF PowerSteps
<1> DEFINE p == CHOOSE g : PowerSteps(g, base)
<1>5. PowerSteps(p, base)
  BY <1>4
<1>6. \A e : Power(base, e) = p[e]
  BY PowerUnfolds
<1> HIDE DEF p
<1>7. p[0] = 1 /\ \A e \in Nat : p[e + 1] = p[e] * base
  <2>1. \A e \in Nat : p[e] = IF e = 0 THEN 1 ELSE p[e - 1] * base
    BY <1>5 DEF PowerSteps
  <2>2. \A e \in Nat : e + 1 \in Nat /\ e + 1 # 0 /\ (e + 1) - 1 = e
    OBVIOUS
  <2> QED
    BY <2>1, <2>2
<1> DEFINE T == {e \in Nat : p[e] \in Nat}
<1>8. T = Nat
  <2>1. T \in SUBSET Nat /\ 0 \in T /\ \A e \in T : e + 1 \in T
    BY <1>7
  <2> HIDE DEF T
  <2> QED
    BY <2>1, NaturalInduction
<1>9. \A e \in Nat : p[e] \in Nat
  BY <1>8
<1> HIDE DEF T
<1> QED
  BY <1>6, <1>7, <1>9

\* Powers of a number above one grow with the exponent.
LEMMA PowerGrows ==
  ASSUME NEW base \in Nat, base > 1
  PROVE  \A e \in Nat : Power(base, e) > e
<1> DEFINE T == {e \in Nat : Power(base, e) > e}
<1>1. 0 \in T
  BY PowerFacts
<1>2. ASSUME NEW e \in T PROVE e + 1 \in T
  <2> DEFINE x == Power(base, e)
  <2>1. x \in Nat /\ x > e /\ e \in Nat /\ Power(base, e + 1) = x * base
    BY PowerFacts
  <2> HIDE DEF x
  <2>2. x * base >= x * 2
    BY <2>1
  <2>3. x * base > e + 1
    BY <2>1, <2>2
  <2> QED
    BY <2>1, <2>3
<1>3. T = Nat
  <2>1. T \in SUBSET Nat
    OBVIOUS
  <2> HIDE DEF T
  <2> QED
    BY <1>1, <1>2, <2>1, NaturalInduction
<1> QED
  BY <1>3

\* Exponents add.
LEMMA PowerSplits ==
  ASSUME NEW base \in Nat, NEW i \in Nat
  PROVE  \A j \in Nat : Power(base, i + j) = Power(base, i) * Power(base, j)
<1> DEFINE T == {j \in Nat : Power(base, i + j) = Power(base, i) * Power(base, j)}
<1>1. 0 \in T
  <2>1. Power(base, 0) = 1 /\ Power(base, i) \in Nat /\ i + 0 = i
    BY PowerFacts
  <2> QED
    BY <2>1
<1>2. ASSUME NEW j \in T PROVE j + 1 \in T
  <2> DEFINE x == Power(base, i)
             y == Power(base, j)
  <2>1. /\ x \in Nat /\ y \in Nat /\ Power(base, j + 1) = y * base
        /\ Power(base, (i + j) + 1) = Power(base, i + j) * base
        /\ Power(base, i + j) = x * y /\ i + (j + 1) = (i + j) + 1
    BY PowerFacts
  <2> HIDE DEF x, y
  <2>2. (x * y) * base = x * (y * base)
    BY <2>1
  <2> QED
    BY <2>1, <2>2 DEF x
<1>3. T = Nat
  <2>1. T \in SUBSET Nat
    OBVIOUS
  <2> HIDE DEF T
  <2> QED
    BY <1>1, <1>2, <2>1, NaturalInduction
<1> QED
  BY <1>3

\* A divisor of a positive number, as a natural number with its quotient.
LEMMA NaturalQuotient ==
  ASSUME NEW n \in Nat, n > 0, NEW d \in Nat, Multiple(n, d)
  PROVE  \E r \in Nat : r > 0 /\ n = d * r /\ d > 0 /\ d <= n /\ r <= n
<1>1. PICK r \in Int : n = d * r
  BY DEF Multiple
<1>2. d > 0
  <2> SUFFICES ASSUME d = 0 PROVE FALSE
    OBVIOUS
  <2>1. d * r = 0
    OBVIOUS
  <2> QED
    BY <1>1, <2>1
<1>3. r > 0
  <2> SUFFICES ASSUME r <= 0 PROVE FALSE
    BY <1>1
  <2>1. d * r <= 0
    BY <1>2
  <2> QED
    BY <1>1, <2>1
<1>4. d * r >= d /\ d * r >= r
  BY <1>2, <1>3
<1> QED
  BY <1>1, <1>2, <1>3, <1>4

\* A product is a multiple of its factors.
LEMMA MultipleOfProduct ==
  ASSUME NEW x \in Int, NEW y \in Int
  PROVE  Multiple(x * y, x) /\ Multiple(x * y, y) /\ Multiple(x, x) /\ Multiple(x, 1)
<1>1. x * y = y * x /\ x = x * 1 /\ x = 1 * x /\ 1 \in Int
  OBVIOUS
<1> QED
  BY <1>1, Zenon DEF Multiple

\* The same with the product named.
LEMMA ProductMultiple ==
  ASSUME NEW x \in Nat, NEW y \in Nat, NEW z, z = x * y
  PROVE  Multiple(z, x) /\ Multiple(z, y)
<1>1. z = y * x /\ x \in Int /\ y \in Int
  OBVIOUS
<1> QED
  BY <1>1, Zenon DEF Multiple

\* The only prime that divides a power of a prime is that prime.
LEMMA PrimeOfPower ==
  ASSUME NEW q \in Nat, SmallPrime(q), NEW x \in Nat, SmallPrime(x)
  PROVE  \A e \in Nat : Multiple(Power(x, e), q) <=> (q = x /\ e # 0)
<1> DEFINE T == {e \in Nat : Multiple(Power(x, e), q) => q = x /\ e # 0}
<1>0. q > 1
  BY DEF SmallPrime
<1>1. 0 \in T
  <2> SUFFICES ASSUME Multiple(Power(x, 0), q) PROVE FALSE
    OBVIOUS
  <2>1. Multiple(1, q) /\ 1 \in Int /\ -q < 1
    BY PowerFacts
  <2>2. 1 = 0
    BY <1>0, <2>1, SmallMultiple
  <2> QED
    BY <2>2
<1>2. ASSUME NEW e \in T PROVE e + 1 \in T
  <2> SUFFICES ASSUME Multiple(Power(x, e + 1), q) PROVE q = x
    OBVIOUS
  <2> DEFINE y == Power(x, e)
  <2>0. e \in Nat
    OBVIOUS
  <2> HIDE DEF T
  <2>1. y \in Nat /\ Power(x, e + 1) = y * x
    BY <2>0, PowerFacts
  <2> HIDE DEF y
  <2>2. Multiple(y, q) \/ Multiple(x, q)
    BY <2>1, PrimeSplits
  <2>3. CASE Multiple(y, q)
    BY <2>3 DEF y, T
  <2>4. CASE Multiple(x, q)
    BY <1>0, <2>4, DistinctPrimes, MultipleMod
  <2> QED
    BY <2>2, <2>3, <2>4
<1>3. T = Nat
  <2>1. T \in SUBSET Nat
    OBVIOUS
  <2> HIDE DEF T
  <2> QED
    BY <1>1, <1>2, <2>1, NaturalInduction
<1>4. ASSUME NEW e \in Nat, e # 0 PROVE Multiple(Power(x, e), x)
  <2>1. e - 1 \in Nat /\ (e - 1) + 1 = e
    BY <1>4
  <2>2. Power(x, e) = Power(x, e - 1) * x /\ Power(x, e - 1) \in Nat
    BY <2>1, PowerFacts
  <2> QED
    BY <2>2, MultipleOfProduct
<1>5. \A e \in Nat : Multiple(Power(x, e), q) => q = x /\ e # 0
  BY <1>3
<1> HIDE DEF T
<1> QED
  BY <1>4, <1>5

-----------------------------------------------------------------------------
(* A list of primes and vectors of exponents.                              *)

\* Primes in increasing order.
Listed(f) ==
  /\ Len(f.primes) \in Nat
  /\ f.exponents \in [1 .. Len(f.primes) -> Nat]
  /\ \A i \in 1 .. Len(f.primes) : f.primes[i] \in Nat /\ SmallPrime(f.primes[i])
  /\ \A i, j \in 1 .. Len(f.primes) : i < j => f.primes[i] < f.primes[j]

\* Exponents for the primes of a list.
Vectors(f) == [1 .. Len(f.primes) -> Nat]

\* The products of the first prime powers.
PrefixProducts(g, f, a) ==
  /\ g \in [Nat -> Nat] /\ g[0] = 1
  /\ \A i \in 1 .. Len(f.primes) : g[i] = g[i - 1] * Power(f.primes[i], a[i])

Prefix(f, a) == CHOOSE g : PrefixProducts(g, f, a)

\* The products exist.
LEMMA PrefixExists ==
  ASSUME NEW f, Listed(f), NEW a, \A i \in 1 .. Len(f.primes) : a[i] \in Nat
  PROVE  PrefixProducts(Prefix(f, a), f, a)
<1> DEFINE k == Len(f.primes)
           w(i) == Power(f.primes[i], a[i])
           step == [z \in Nat \X Nat |-> IF z[1] + 1 \in 1 .. k THEN z[2] * w(z[1] + 1) ELSE 0]
<1>1. \A i \in 1 .. k : w(i) \in Nat
  BY PowerFacts DEF Listed
<1> HIDE DEF w
<1>2. step \in [Nat \X Nat -> Nat] /\ 1 \in Nat
  BY <1>1
<1>3. \A e, v \in Nat : e + 1 \in 1 .. k => step[<<e, v>>] = v * w(e + 1)
  OBVIOUS
<1> HIDE DEF step
<1>4. PICK g : Recursion(g, Nat, 1, step)
  BY <1>2, RecursionExists
<1>5. ASSUME NEW i \in 1 .. k PROVE g[i] = g[i - 1] * w(i)
  <2>1. i - 1 \in Nat /\ (i - 1) + 1 = i /\ g[i - 1] \in Nat
    BY <1>4 DEF Listed, Recursion
  <2> QED
    BY <1>3, <1>4, <2>1 DEF Recursion
<1>6. PrefixProducts(g, f, a)
  BY <1>4, <1>5 DEF PrefixProducts, Recursion, w
<1> QED
  BY <1>6 DEF Prefix

\* The products are positive and grow by one prime power each.
LEMMA PrefixFacts ==
  ASSUME NEW f, Listed(f), NEW a \in Vectors(f)
  PROVE  /\ Prefix(f, a)[0] = 1
         /\ \A i \in 0 .. Len(f.primes) : Prefix(f, a)[i] \in Nat /\ Prefix(f, a)[i] > 0
         /\ \A i \in 1 .. Len(f.primes) :
              /\ Prefix(f, a)[i] = Prefix(f, a)[i - 1] * Power(f.primes[i], a[i])
              /\ Power(f.primes[i], a[i]) \in Nat /\ Power(f.primes[i], a[i]) > 0
<1> DEFINE k == Len(f.primes)
           g == Prefix(f, a)
           w(i) == Power(f.primes[i], a[i])
<1>1. PrefixProducts(g, f, a)
  BY PrefixExists DEF Vectors
<1>2. k \in Nat
  BY DEF Listed
<1> HIDE DEF g
<1>3. ASSUME NEW i \in 1 .. k PROVE w(i) \in Nat /\ w(i) > 0
  <2>1. f.primes[i] \in Nat /\ f.primes[i] > 1 /\ a[i] \in Nat
    BY DEF Listed, SmallPrime, Vectors
  <2>2. Power(f.primes[i], a[i]) \in Nat
    BY <2>1, PowerFacts
  <2>3. Power(f.primes[i], a[i]) > a[i]
    BY <2>1, PowerGrows
  <2> QED
    BY <2>1, <2>2, <2>3
<1> DEFINE T == {i \in Nat : i <= k => g[i] > 0}
<1>4. 0 \in T
  BY <1>1 DEF PrefixProducts
<1>5. ASSUME NEW i \in T PROVE i + 1 \in T
  <2> SUFFICES ASSUME i + 1 <= k PROVE g[i + 1] > 0
    OBVIOUS
  <2>1. i + 1 \in 1 .. k /\ (i + 1) - 1 = i
    BY <1>2
  <2>2. g[i + 1] = g[i] * w(i + 1) /\ g[i] \in Nat /\ g[i] > 0
    BY <1>1, <1>2, <2>1 DEF PrefixProducts
  <2>3. w(i + 1) \in Nat /\ w(i + 1) > 0
    BY <1>3, <2>1
  <2> HIDE DEF w
  <2> QED
    BY <2>2, <2>3
<1>6. T = Nat
  <2>1. T \in SUBSET Nat
    OBVIOUS
  <2> HIDE DEF T
  <2> QED
    BY <1>4, <1>5, <2>1, NaturalInduction
<1>7. \A i \in 0 .. k : g[i] \in Nat /\ g[i] > 0
  <2>1. \A i \in Nat : i <= k => g[i] > 0
    BY <1>6
  <2>2. \A i \in Nat : g[i] \in Nat
    BY <1>1 DEF PrefixProducts
  <2>3. \A i \in 0 .. k : i \in Nat /\ i <= k
    BY <1>2
  <2> QED
    BY <2>1, <2>2, <2>3
<1> HIDE DEF T
<1> QED
  BY <1>1, <1>3, <1>7 DEF PrefixProducts, g

\* Only the exponents before a place matter to the product up to it.
LEMMA PrefixAgrees ==
  ASSUME NEW f, Listed(f), NEW a \in Vectors(f), NEW b \in Vectors(f), NEW n \in Nat,
         \A i \in 1 .. n : a[i] = b[i]
  PROVE  n <= Len(f.primes) => Prefix(f, a)[n] = Prefix(f, b)[n]
<1> DEFINE k == Len(f.primes)
           g == Prefix(f, a)
           h == Prefix(f, b)
           T == {i \in Nat : i <= n /\ i <= k => g[i] = h[i]}
<1>1. k \in Nat
  BY DEF Listed
<1>2. g[0] = h[0]
  BY PrefixFacts
<1>3. \A i \in 1 .. k : g[i] = g[i - 1] * Power(f.primes[i], a[i])
                        /\ h[i] = h[i - 1] * Power(f.primes[i], b[i])
  BY PrefixFacts
<1> HIDE DEF g, h
<1>4. ASSUME NEW i \in T PROVE i + 1 \in T
  <2> SUFFICES ASSUME i + 1 <= n, i + 1 <= k PROVE g[i + 1] = h[i + 1]
    OBVIOUS
  <2>1. i + 1 \in 1 .. k /\ i + 1 \in 1 .. n /\ (i + 1) - 1 = i /\ g[i] = h[i]
    BY <1>1
  <2> QED
    BY <1>3, <2>1
<1>5. T = Nat
  <2>1. T \in SUBSET Nat /\ 0 \in T
    BY <1>2
  <2> HIDE DEF T
  <2> QED
    BY <1>4, <2>1, NaturalInduction
<1>6. n <= k => g[n] = h[n]
  BY <1>5
<1> QED
  BY <1>6 DEF g, h

\* The primes of a product are those with an exponent.
LEMMA PrefixPrimes ==
  ASSUME NEW f, Listed(f), NEW a \in Vectors(f), NEW q \in Nat, SmallPrime(q)
  PROVE  \A n \in 0 .. Len(f.primes) :
           Multiple(Prefix(f, a)[n], q) <=> \E j \in 1 .. n : f.primes[j] = q /\ a[j] # 0
<1> DEFINE k == Len(f.primes)
           g == Prefix(f, a)
           w(i) == Power(f.primes[i], a[i])
           Among(n) == \E j \in 1 .. n : f.primes[j] = q /\ a[j] # 0
           T == {n \in Nat : n <= k => (Multiple(g[n], q) <=> Among(n))}
<1>1. k \in Nat /\ q > 1
  BY DEF Listed, SmallPrime
<1>2. /\ g[0] = 1
      /\ \A i \in 0 .. k : g[i] \in Nat
      /\ \A i \in 1 .. k : g[i] = g[i - 1] * w(i) /\ w(i) \in Nat
  BY PrefixFacts
<1>3. \A i \in 1 .. k : Multiple(w(i), q) <=> (f.primes[i] = q /\ a[i] # 0)
  <2> TAKE i \in 1 .. k
  <2>1. f.primes[i] \in Nat /\ SmallPrime(f.primes[i]) /\ a[i] \in Nat
    BY DEF Listed, Vectors
  <2> QED
    BY <2>1, PrimeOfPower
<1> HIDE DEF g, w
<1>4. 0 \in T
  <2>1. ~Multiple(1, q)
    <3> SUFFICES ASSUME Multiple(1, q) PROVE FALSE
      OBVIOUS
    <3>1. 1 \in Int /\ -q < 1
      BY <1>1
    <3>2. 1 = 0
      BY <1>1, <3>1, SmallMultiple
    <3> QED
      BY <3>2
  <2>2. ~Among(0)
    OBVIOUS
  <2> HIDE DEF Among
  <2> QED
    BY <1>2, <2>1, <2>2
<1>5. ASSUME NEW i \in T PROVE i + 1 \in T
  <2> SUFFICES ASSUME i + 1 <= k PROVE Multiple(g[i + 1], q) <=> Among(i + 1)
    OBVIOUS
  <2>1. i + 1 \in 1 .. k /\ (i + 1) - 1 = i /\ i \in 0 .. k /\ (Multiple(g[i], q) <=> Among(i))
    BY <1>1
  <2>2. g[i + 1] = g[i] * w(i + 1) /\ g[i] \in Int /\ w(i + 1) \in Int
    BY <1>2, <2>1
  <2>3. Multiple(g[i + 1], q) <=> (Multiple(g[i], q) \/ Multiple(w(i + 1), q))
    <3>1. Multiple(g[i] * w(i + 1), q) => (Multiple(g[i], q) \/ Multiple(w(i + 1), q))
      BY <2>2, PrimeSplits
    <3>2. Multiple(g[i], q) => Multiple(w(i + 1) * g[i], q)
      BY <2>2, Scaled
    <3>3. Multiple(w(i + 1), q) => Multiple(g[i] * w(i + 1), q)
      BY <2>2, Scaled
    <3>4. w(i + 1) * g[i] = g[i] * w(i + 1)
      BY <2>2
    <3> QED
      BY <2>2, <3>1, <3>2, <3>3, <3>4
  <2>4. 1 .. i + 1 = (1 .. i) \cup {i + 1}
    BY <2>1
  <2>5. Among(i + 1) <=> (Among(i) \/ (f.primes[i + 1] = q /\ a[i + 1] # 0))
    BY <2>4
  <2> HIDE DEF Among
  <2> QED
    BY <1>3, <2>1, <2>3, <2>5
<1>6. T = Nat
  <2>1. T \in SUBSET Nat
    OBVIOUS
  <2> HIDE DEF T
  <2> QED
    BY <1>4, <1>5, <2>1, NaturalInduction
<1>7. \A n \in 0 .. k : Multiple(g[n], q) <=> Among(n)
  <2> HIDE DEF Among
  <2> QED
    BY <1>1, <1>6
<1> QED
  BY <1>7 DEF g

\* A positive factor cancels.
LEMMA CancelFactor ==
  ASSUME NEW x \in Nat, NEW y \in Nat, NEW p \in Nat, p > 0, x * p = y * p
  PROVE  x = y
<1>1. ASSUME NEW u \in Nat, NEW v \in Nat, u * p = v * p PROVE ~(u < v)
  <2> SUFFICES ASSUME u < v PROVE FALSE
    OBVIOUS
  <2>1. PICK w \in Nat : v = u + w /\ w >= 1
    <3>1. v - u \in Nat /\ v = u + (v - u) /\ v - u >= 1
      OBVIOUS
    <3> QED
      BY <3>1
  <2>2. v * p = u * p + w * p
    BY <2>1
  <2>3. w * p >= p
    BY <2>1
  <2> QED
    BY <1>1, <2>2, <2>3
<1> QED
  BY <1>1

\* A smaller power divides a larger one.
LEMMA PowerDivides ==
  ASSUME NEW q \in Nat, q > 1, NEW i \in Nat, NEW j \in Nat, i <= j
  PROVE  \E r \in Nat : r > 0 /\ Power(q, j) = Power(q, i) * r /\ Power(q, i) > 0
                       /\ (i < j => Multiple(r, q))
<1> DEFINE r == Power(q, j - i)
<1>1. j - i \in Nat /\ i + (j - i) = j
  OBVIOUS
<1>2. r \in Nat /\ Power(q, i) \in Nat
  BY <1>1, PowerFacts
<1>3. r > j - i /\ Power(q, i) > i
  BY <1>1, PowerGrows
<1>4. Power(q, i + (j - i)) = Power(q, i) * r
  BY <1>1, PowerSplits
<1>5. ASSUME i < j PROVE Multiple(r, q)
  <2>1. (j - i) - 1 \in Nat /\ ((j - i) - 1) + 1 = j - i
    BY <1>5
  <2>2. r = Power(q, (j - i) - 1) * q /\ Power(q, (j - i) - 1) \in Nat
    BY <2>1, PowerFacts
  <2> HIDE DEF r
  <2> QED
    BY <2>2, MultipleOfProduct
<1>6. Power(q, j) = Power(q, i) * r
  BY <1>1, <1>4
<1>7. r > 0 /\ Power(q, i) > 0
  BY <1>1, <1>2, <1>3
<1> HIDE DEF r
<1> QED
  BY <1>2, <1>5, <1>6, <1>7

\* A number is one power of a prime times what the prime does not divide.
LEMMA PrimePartOnly ==
  ASSUME NEW q \in Nat, SmallPrime(q), NEW x \in Nat, NEW y \in Nat,
         ~Multiple(x, q), ~Multiple(y, q), NEW s \in Nat, NEW t \in Nat,
         x * Power(q, s) = y * Power(q, t)
  PROVE  s = t /\ x = y
<1>0. q > 1
  BY DEF SmallPrime
<1>1. ASSUME NEW c \in Nat, NEW d \in Nat, NEW m \in Nat, NEW n \in Nat,
             c * Power(q, m) = d * Power(q, n), m < n
      PROVE  Multiple(c, q)
  <2>1. PICK r \in Nat : /\ r > 0 /\ Power(q, n) = Power(q, m) * r /\ Power(q, m) > 0
                         /\ (m < n => Multiple(r, q))
    BY <1>0, <1>1, PowerDivides
  <2> DEFINE w == Power(q, m)
  <2>2. w \in Nat /\ w > 0 /\ Multiple(r, q) /\ c * w = d * (w * r)
    BY <1>1, <2>1, PowerFacts
  <2> HIDE DEF w
  <2>3. c * w = (d * r) * w /\ d * r \in Nat
    BY <2>2
  <2>4. c = d * r
    BY <2>2, <2>3, CancelFactor
  <2>5. Multiple(d * r, q)
    BY <2>2, Scaled
  <2> QED
    BY <2>4, <2>5
<1>2. ~(s < t)
  BY <1>1
<1>3. ~(t < s)
  BY <1>1
<1>4. s = t
  BY <1>2, <1>3
<1>5. Power(q, s) \in Nat /\ Power(q, s) > 0
  <2>1. Power(q, s) \in Nat
    BY PowerFacts
  <2>2. Power(q, s) > s
    BY <1>0, PowerGrows
  <2> QED
    BY <2>1, <2>2
<1>6. x = y
  BY <1>4, <1>5, CancelFactor
<1> QED
  BY <1>4, <1>6

\* A number has one vector of exponents.
LEMMA PrefixOnly ==
  ASSUME NEW f, Listed(f), NEW a \in Vectors(f), NEW b \in Vectors(f),
         Prefix(f, a)[Len(f.primes)] = Prefix(f, b)[Len(f.primes)]
  PROVE  a = b
<1> DEFINE k == Len(f.primes)
           g == Prefix(f, a)
           h == Prefix(f, b)
           Same(m) == g[k - m] = h[k - m] /\ \A i \in (k - m) + 1 .. k : a[i] = b[i]
           T == {m \in Nat : m <= k => Same(m)}
<1>1. k \in Nat
  BY DEF Listed
<1>2. 0 \in T
  BY <1>1
<1>3. ASSUME NEW m \in T PROVE m + 1 \in T
  <2> SUFFICES ASSUME m + 1 <= k PROVE Same(m + 1)
    OBVIOUS
  <2> DEFINE n == k - m
  <2>1. n \in 1 .. k /\ n - 1 \in 0 .. k /\ n \in 0 .. k /\ k - (m + 1) = n - 1
    BY <1>1
  <2>2. g[n] = h[n] /\ \A i \in n + 1 .. k : a[i] = b[i]
    BY <1>1
  <2> HIDE DEF n
  <2>3. f.primes[n] \in Nat /\ SmallPrime(f.primes[n]) /\ a[n] \in Nat /\ b[n] \in Nat
    BY <2>1 DEF Listed, Vectors
  <2>4. /\ g[n - 1] \in Nat /\ h[n - 1] \in Nat
        /\ g[n] = g[n - 1] * Power(f.primes[n], a[n])
        /\ h[n] = h[n - 1] * Power(f.primes[n], b[n])
    BY <2>1, PrefixFacts
  <2>5. ASSUME NEW c \in Vectors(f) PROVE ~Multiple(Prefix(f, c)[n - 1], f.primes[n])
    <3>0. Multiple(Prefix(f, c)[n - 1], f.primes[n])
            <=> \E j \in 1 .. n - 1 : f.primes[j] = f.primes[n] /\ c[j] # 0
      <4> DEFINE q == f.primes[n]
      <4>1. q \in Nat /\ SmallPrime(q)
        BY <2>3
      <4> HIDE DEF q
      <4>2. \A w \in 0 .. k :
              Multiple(Prefix(f, c)[w], q) <=> \E j \in 1 .. w : f.primes[j] = q /\ c[j] # 0
        BY <4>1, PrefixPrimes
      <4> QED
        BY <2>1, <4>2 DEF q
    <3> SUFFICES ASSUME NEW j \in 1 .. n - 1, f.primes[j] = f.primes[n] PROVE FALSE
      BY <3>0
    <3>1. j \in 1 .. k /\ j < n
      BY <2>1
    <3>2. f.primes[j] < f.primes[n] /\ f.primes[j] \in Nat
      BY <2>1, <3>1 DEF Listed
    <3> QED
      BY <2>3, <3>2
  <2>6. ~Multiple(g[n - 1], f.primes[n]) /\ ~Multiple(h[n - 1], f.primes[n])
    BY <2>5
  <2> HIDE DEF g, h
  <2>7. a[n] = b[n] /\ g[n - 1] = h[n - 1]
    <3> DEFINE x == g[n - 1]
               y == h[n - 1]
               q == f.primes[n]
               i == a[n]
               j == b[n]
    <3>1. /\ x \in Nat /\ y \in Nat /\ q \in Nat /\ SmallPrime(q) /\ i \in Nat /\ j \in Nat
          /\ ~Multiple(x, q) /\ ~Multiple(y, q)
      BY <2>3, <2>4, <2>6
    <3>2. x * Power(q, i) = y * Power(q, j)
      BY <2>2, <2>4
    <3> HIDE DEF x, y, q, i, j
    <3>3. i = j /\ x = y
      BY <3>1, <3>2, PrimePartOnly
    <3> QED
      BY <3>3 DEF x, y, i, j
  <2>8. \A i \in (n - 1) + 1 .. k : i = n \/ i \in n + 1 .. k
    BY <1>1, <2>1
  <2> QED
    BY <2>1, <2>2, <2>7, <2>8
<1>4. T = Nat
  <2>1. T \in SUBSET Nat
    OBVIOUS
  <2> HIDE DEF T
  <2> QED
    BY <1>2, <1>3, <2>1, NaturalInduction
<1>5. Same(k)
  <2> HIDE DEF Same
  <2> QED
    BY <1>1, <1>4
<1>6. \A i \in 1 .. k : a[i] = b[i]
  BY <1>1, <1>5
<1> QED
  BY <1>6 DEF Vectors

\* A divisor of M times a power of a prime splits accordingly.
LEMMA DivisorSplits ==
  ASSUME NEW q \in Nat, SmallPrime(q), NEW M \in Nat, M > 0
  PROVE  \A s \in Nat : \A d \in Nat : d > 0 /\ Multiple(M * Power(q, s), d) =>
           \E t \in 0 .. s : \E c \in Nat : c > 0 /\ Multiple(M, c) /\ d = c * Power(q, t)
<1> DEFINE Split(d, s) ==
             \E t \in 0 .. s : \E c \in Nat : c > 0 /\ Multiple(M, c) /\ d = c * Power(q, t)
           T == {s \in Nat : \A d \in Nat : d > 0 /\ Multiple(M * Power(q, s), d) => Split(d, s)}
<1>0. q > 1 /\ \A e \in Nat : /\ Power(q, e) \in Nat
                             /\ Power(q, e + 1) = Power(q, e) * q
  BY PowerFacts DEF SmallPrime
<1>1. 0 \in T
  <2> SUFFICES ASSUME NEW d \in Nat, d > 0, Multiple(M * Power(q, 0), d) PROVE Split(d, 0)
    OBVIOUS
  <2>1. Power(q, 0) = 1 /\ M * 1 = M /\ d * 1 = d /\ 0 \in 0 .. 0
    BY PowerFacts
  <2> QED
    BY <2>1
<1>2. ASSUME NEW s \in T PROVE s + 1 \in T
  <2> SUFFICES ASSUME NEW d \in Nat, d > 0, Multiple(M * Power(q, s + 1), d)
               PROVE  Split(d, s + 1)
    OBVIOUS
  <2> DEFINE x == Power(q, s)
             n == M * x
  <2>0. s \in Nat /\ \A e \in Nat : e > 0 /\ Multiple(n, e) => Split(e, s)
    OBVIOUS
  <2>1. x \in Nat /\ x > 0 /\ Power(q, s + 1) = x * q
    <3>1. x > s
      BY <1>0, <2>0, PowerGrows
    <3> QED
      BY <1>0, <2>0, <3>1
  <2> HIDE DEF x, T
  <2>2. n \in Nat /\ n > 0 /\ M * (x * q) = n * q /\ n * q \in Nat /\ n * q > 0
    BY <1>0, <2>1
  <2>3. Multiple(n * q, d)
    BY <2>1, <2>2
  <2> HIDE DEF n, Split
  <2>4. PICK r \in Nat : r > 0 /\ n * q = d * r
    <3> DEFINE z == n * q
    <3>1. z \in Nat /\ z > 0 /\ Multiple(z, d)
      BY <2>2, <2>3
    <3> HIDE DEF z
    <3>2. \E r \in Nat : r > 0 /\ z = d * r /\ d > 0 /\ d <= z /\ r <= z
      BY <3>1, NaturalQuotient
    <3> QED
      BY <3>2 DEF z
  <2>5. Multiple(d, q) \/ Multiple(r, q)
    <3> DEFINE z == d * r
    <3>1. z \in Int /\ z = q * n /\ d \in Int /\ r \in Int
      BY <2>2, <2>4
    <3>2. Multiple(z, q)
      BY <2>2, <3>1, ProductMultiple
    <3> QED
      BY <3>1, <3>2, PrimeSplits
  <2>6. CASE Multiple(r, q)
    <3>1. PICK v \in Nat : r = q * v
      BY <2>4, <2>6, NaturalQuotient
    <3>2. n * q = (d * v) * q /\ d * v \in Nat
      BY <2>4, <3>1
    <3>3. n = d * v
      BY <1>0, <2>2, <3>2, CancelFactor
    <3>4. Multiple(n, d)
      BY <3>1, <3>3, ProductMultiple
    <3>5. Split(d, s)
      BY <2>0, <3>4
    <3> QED
      BY <2>0, <3>5 DEF Split
  <2>7. CASE Multiple(d, q)
    <3>1. PICK v \in Nat : v > 0 /\ d = q * v
      BY <2>7, NaturalQuotient
    <3>2. n * q = (v * r) * q /\ v * r \in Nat
      BY <2>4, <3>1
    <3>3. n = v * r
      BY <1>0, <2>2, <3>2, CancelFactor
    <3>4. Multiple(n, v)
      BY <3>1, <3>3, ProductMultiple
    <3>5. Split(v, s)
      BY <2>0, <3>1, <3>4
    <3>6. PICK t \in 0 .. s : \E c \in Nat : c > 0 /\ Multiple(M, c) /\ v = c * Power(q, t)
      BY <3>5 DEF Split
    <3>7. PICK c \in Nat : c > 0 /\ Multiple(M, c) /\ v = c * Power(q, t)
      BY <3>6
    <3>8. t \in Nat /\ t + 1 \in 0 .. s + 1
      BY <2>0
    <3> DEFINE y == Power(q, t)
    <3>9. y \in Nat /\ Power(q, t + 1) = y * q
      BY <1>0, <3>8
    <3>10. d = q * (c * y)
      BY <3>1, <3>7
    <3> HIDE DEF y
    <3>11. q * (c * y) = c * (y * q)
      BY <3>9
    <3>12. d = c * Power(q, t + 1)
      BY <3>9, <3>10, <3>11
    <3> QED
      BY <3>7, <3>8, <3>12 DEF Split
  <2> QED
    BY <2>5, <2>6, <2>7
<1>3. T = Nat
  <2>1. T \in SUBSET Nat
    OBVIOUS
  <2> HIDE DEF T
  <2> QED
    BY <1>1, <1>2, <2>1, NaturalInduction
<1> QED
  BY <1>3

\* Exponents a divisor may have.
Below(f, a) == \A i \in 1 .. Len(f.primes) : a[i] <= f.exponents[i]

\* The number that a vector stands for.
Value(f, a) == Prefix(f, a)[Len(f.primes)]

\* Every divisor is the value of a vector.
LEMMA DivisorVector ==
  ASSUME NEW f, Listed(f), NEW d \in Nat, d > 0, Multiple(Value(f, f.exponents), d)
  PROVE  \E a \in Vectors(f) : Below(f, a) /\ Value(f, a) = d
<1> DEFINE k == Len(f.primes)
           g == Prefix(f, f.exponents)
           Has(n, c) == \E a \in Vectors(f) : Below(f, a) /\ Prefix(f, a)[n] = c
           T == {n \in Nat : n <= k => \A c \in Nat : c > 0 /\ Multiple(g[n], c) => Has(n, c)}
<1>0. k \in Nat /\ f.exponents \in Vectors(f)
  BY DEF Listed, Vectors
<1>1. /\ g[0] = 1 /\ \A i \in 0 .. k : g[i] \in Nat /\ g[i] > 0
      /\ \A i \in 1 .. k : g[i] = g[i - 1] * Power(f.primes[i], f.exponents[i])
  BY <1>0, PrefixFacts
<1> HIDE DEF g
<1>2. 0 \in T
  <2> SUFFICES ASSUME NEW c \in Nat, c > 0, Multiple(1, c) PROVE Has(0, c)
    BY <1>1
  <2>1. c <= 1
    <3>1. \E r \in Nat : r > 0 /\ 1 = c * r /\ c > 0 /\ c <= 1 /\ r <= 1
      BY NaturalQuotient
    <3> QED
      BY <3>1
  <2> DEFINE a == [i \in 1 .. k |-> 0]
  <2>2. a \in Vectors(f) /\ Below(f, a)
    BY <1>0 DEF Vectors, Below
  <2>3. Prefix(f, a)[0] = 1
    BY <2>2, PrefixFacts
  <2> QED
    BY <2>1, <2>2, <2>3
<1>3. ASSUME NEW m \in T PROVE m + 1 \in T
  <2> SUFFICES ASSUME m + 1 <= k, NEW c \in Nat, c > 0, Multiple(g[m + 1], c)
               PROVE  Has(m + 1, c)
    OBVIOUS
  <2> DEFINE n == m + 1
             q == f.primes[n]
             e == f.exponents[n]
             M == g[m]
  <2>1. m \in Nat /\ n \in 1 .. k /\ n - 1 = m /\ m \in 0 .. k
        /\ \A z \in Nat : z > 0 /\ Multiple(g[m], z) => Has(m, z)
    BY <1>0
  <2>2. q \in Nat /\ SmallPrime(q) /\ e \in Nat /\ M \in Nat /\ M > 0
        /\ g[n] = M * Power(q, e)
    BY <1>0, <1>1, <2>1 DEF Listed
  <2>3. Multiple(M * Power(q, e), c)
    BY <2>2
  <2> HIDE DEF M, q, e, T, Has
  <2>4. \E t \in 0 .. e : \E b \in Nat : b > 0 /\ Multiple(M, b) /\ c = b * Power(q, t)
    BY <2>2, <2>3, DivisorSplits
  <2>5. PICK t \in 0 .. e : \E b \in Nat : b > 0 /\ Multiple(M, b) /\ c = b * Power(q, t)
    BY <2>4
  <2>6. PICK b \in Nat : b > 0 /\ Multiple(M, b) /\ c = b * Power(q, t)
    BY <2>5
  <2>7. Has(m, b)
    BY <2>1, <2>6 DEF M
  <2>8. PICK a \in Vectors(f) : Below(f, a) /\ Prefix(f, a)[m] = b
    BY <2>7 DEF Has
  <2> DEFINE v == [a EXCEPT ![n] = t]
  <2>9. v \in Vectors(f) /\ v[n] = t /\ \A i \in 1 .. m : v[i] = a[i]
    <3>1. t \in Nat /\ n \in 1 .. k /\ \A i \in 1 .. m : i # n /\ i \in 1 .. k
      BY <2>1, <2>2
    <3> QED
      BY <3>1 DEF Vectors
  <2>10. Below(f, v)
    <3> SUFFICES ASSUME NEW i \in 1 .. k PROVE v[i] <= f.exponents[i]
      BY DEF Below
    <3>1. CASE i = n
      BY <2>2, <2>9, <3>1 DEF e
    <3>2. CASE i # n
      BY <2>8, <3>2 DEF Vectors, Below
    <3> QED
      BY <3>1, <3>2
  <2> HIDE DEF v
  <2>11. Prefix(f, v)[m] = b
    <3>1. Prefix(f, v)[m] = Prefix(f, a)[m]
      BY <2>1, <2>9, PrefixAgrees
    <3> QED
      BY <2>8, <3>1
  <2>12. Prefix(f, v)[n] = Prefix(f, v)[n - 1] * Power(q, t)
    BY <2>1, <2>9, PrefixFacts DEF q
  <2>13. Prefix(f, v)[n] = c
    BY <2>1, <2>6, <2>11, <2>12
  <2> QED
    BY <2>9, <2>10, <2>13 DEF Has
<1>4. T = Nat
  <2>1. T \in SUBSET Nat
    OBVIOUS
  <2> HIDE DEF T
  <2> QED
    BY <1>2, <1>3, <2>1, NaturalInduction
<1>5. \A c \in Nat : c > 0 /\ Multiple(g[k], c) => Has(k, c)
  <2> HIDE DEF Has
  <2> QED
    BY <1>0, <1>4
<1>6. Has(k, d)
  <2> HIDE DEF Has
  <2> QED
    BY <1>5 DEF g, Value
<1> QED
  BY <1>6 DEF Value

\* The products of the last full prime powers, read from the end.
SuffixProducts(h, f) ==
  /\ h[Len(f.primes) + 1] = 1
  /\ \A i \in 1 .. Len(f.primes) : h[i] = h[i + 1] * Power(f.primes[i], f.exponents[i])

\* The products of the last prime powers are positive.
LEMMA SuffixFacts ==
  ASSUME NEW f, Listed(f), NEW h, SuffixProducts(h, f)
  PROVE  \A i \in 1 .. Len(f.primes) + 1 :
           h[i] \in Nat /\ h[i] > 0 /\ Prefix(f, f.exponents)[i - 1] * h[i] = Value(f, f.exponents)
<1> DEFINE k == Len(f.primes)
           g == Prefix(f, f.exponents)
           w(i) == Power(f.primes[i], f.exponents[i])
           Right(i) == h[i] \in Nat /\ h[i] > 0 /\ g[i - 1] * h[i] = g[k]
           T == {m \in Nat : m <= k => Right((k + 1) - m)}
<1>0. k \in Nat /\ f.exponents \in Vectors(f)
  BY DEF Listed, Vectors
<1>1. /\ \A i \in 0 .. k : g[i] \in Nat /\ g[i] > 0
      /\ \A i \in 1 .. k : g[i] = g[i - 1] * w(i) /\ w(i) \in Nat /\ w(i) > 0
  BY <1>0, PrefixFacts
<1>2. h[k + 1] = 1 /\ \A i \in 1 .. k : h[i] = h[i + 1] * w(i)
  BY DEF SuffixProducts
<1> HIDE DEF g, w
<1>3. 0 \in T
  <2>1. (k + 1) - 0 = k + 1 /\ (k + 1) - 1 = k /\ k \in 0 .. k
    BY <1>0
  <2>2. g[k] * 1 = g[k]
    BY <1>1, <2>1
  <2> QED
    BY <1>2, <2>1, <2>2
<1>4. ASSUME NEW m \in T PROVE m + 1 \in T
  <2> SUFFICES ASSUME m + 1 <= k PROVE Right((k + 1) - (m + 1))
    OBVIOUS
  <2> DEFINE i == k - m
  <2>1. i \in 1 .. k /\ i - 1 \in 0 .. k /\ (k + 1) - (m + 1) = i /\ (k + 1) - m = i + 1
        /\ (i + 1) - 1 = i
    BY <1>0
  <2>2. Right(i + 1)
    BY <1>0, <2>1
  <2> HIDE DEF i
  <2> DEFINE x == g[i - 1]
             y == w(i)
             z == h[i + 1]
  <2>3. x \in Nat /\ y \in Nat /\ y > 0 /\ z \in Nat /\ z > 0 /\ (x * y) * z = g[k] /\ h[i] = z * y
    BY <1>1, <1>2, <2>1, <2>2
  <2> HIDE DEF x, y, z
  <2>4. x * (z * y) = (x * y) * z /\ z * y \in Nat /\ z * y > 0
    BY <2>3
  <2>5. Right(i)
    BY <2>3, <2>4 DEF x
  <2> QED
    BY <2>1, <2>5
<1>5. T = Nat
  <2>1. T \in SUBSET Nat
    OBVIOUS
  <2> HIDE DEF T
  <2> QED
    BY <1>3, <1>4, <2>1, NaturalInduction
<1>6. ASSUME NEW i \in 1 .. k + 1 PROVE Right(i)
  <2>1. (k + 1) - i \in Nat /\ (k + 1) - i <= k /\ (k + 1) - ((k + 1) - i) = i
    BY <1>0
  <2>2. (k + 1) - i \in T
    BY <1>5, <2>1
  <2>3. Right((k + 1) - ((k + 1) - i))
    BY <2>1, <2>2
  <2> QED
    BY <2>1, <2>3
<1> QED
  BY <1>6 DEF g, Value

\* The value of a vector lies between the product up to a place and that
\* product times all the factors that are left.
LEMMA ValueBetween ==
  ASSUME NEW f, Listed(f), NEW h, SuffixProducts(h, f), NEW a \in Vectors(f), Below(f, a)
  PROVE  \A i \in 1 .. Len(f.primes) + 1 :
           /\ Prefix(f, a)[i - 1] <= Value(f, a)
           /\ Value(f, a) <= Prefix(f, a)[i - 1] * h[i]
           /\ \E r \in Nat : r > 0 /\ Prefix(f, a)[i - 1] * h[i] = Value(f, a) * r
<1> DEFINE k == Len(f.primes)
           g == Prefix(f, a)
           w(i) == Power(f.primes[i], f.exponents[i])
           v(i) == Power(f.primes[i], a[i])
           Right(i) == /\ g[i - 1] <= g[k]
                       /\ \E r \in Nat : r > 0 /\ g[i - 1] * h[i] = g[k] * r
           T == {m \in Nat : m <= k => Right((k + 1) - m)}
<1>0. k \in Nat /\ f.exponents \in Vectors(f)
  BY DEF Listed, Vectors
<1>1. /\ \A i \in 0 .. k : g[i] \in Nat /\ g[i] > 0
      /\ \A i \in 1 .. k : g[i] = g[i - 1] * v(i) /\ v(i) \in Nat /\ v(i) > 0
  BY <1>0, PrefixFacts
<1>2. h[k + 1] = 1 /\ \A i \in 1 .. k : h[i] = h[i + 1] * w(i)
  BY DEF SuffixProducts
<1>3. \A i \in 1 .. k + 1 : h[i] \in Nat /\ h[i] > 0
  BY SuffixFacts
<1>4. ASSUME NEW i \in 1 .. k PROVE \E r \in Nat : r > 0 /\ w(i) = v(i) * r
  <2>1. f.primes[i] \in Nat /\ f.primes[i] > 1 /\ a[i] \in Nat /\ f.exponents[i] \in Nat
        /\ a[i] <= f.exponents[i]
    BY <1>0 DEF Listed, SmallPrime, Vectors, Below
  <2>2. \E r \in Nat : /\ r > 0 /\ w(i) = v(i) * r /\ v(i) > 0
                       /\ (a[i] < f.exponents[i] => Multiple(r, f.primes[i]))
    BY <2>1, PowerDivides
  <2> QED
    BY <2>2
<1> HIDE DEF g, w, v
<1>5. 0 \in T
  <2>1. (k + 1) - 0 = k + 1 /\ (k + 1) - 1 = k /\ k \in 0 .. k
    BY <1>0
  <2>2. g[k] * 1 = g[k] * 1 /\ g[k] <= g[k] /\ 1 \in Nat /\ 1 > 0
    BY <1>1, <2>1
  <2> QED
    BY <1>2, <2>1, <2>2
<1>6. ASSUME NEW m \in T PROVE m + 1 \in T
  <2> SUFFICES ASSUME m + 1 <= k PROVE Right((k + 1) - (m + 1))
    OBVIOUS
  <2> DEFINE i == k - m
  <2>1. i \in 1 .. k /\ i - 1 \in 0 .. k /\ (k + 1) - (m + 1) = i /\ (k + 1) - m = i + 1
        /\ (i + 1) - 1 = i /\ i + 1 \in 1 .. k + 1 /\ k \in 0 .. k
    BY <1>0
  <2>2. Right(i + 1)
    BY <1>0, <2>1
  <2> HIDE DEF i
  <2>3. PICK r \in Nat : r > 0 /\ g[i] * h[i + 1] = g[k] * r
    BY <2>1, <2>2
  <2>4. PICK s \in Nat : s > 0 /\ w(i) = v(i) * s
    BY <1>4, <2>1
  <2> DEFINE x == g[i - 1]
             y == v(i)
             z == h[i + 1]
             n == g[k]
  <2>5. /\ x \in Nat /\ y \in Nat /\ y > 0 /\ z \in Nat /\ z > 0 /\ n \in Nat
        /\ g[i] = x * y /\ h[i] = z * (y * s) /\ (x * y) * z = n * r /\ x * y <= n
    BY <1>1, <1>2, <1>3, <2>1, <2>2, <2>3, <2>4
  <2> HIDE DEF x, y, z, n
  <2>6. x <= x * y
    BY <2>5
  <2>7. x * (z * (y * s)) = ((x * y) * z) * s
    BY <2>5
  <2>8. (n * r) * s = n * (r * s) /\ r * s \in Nat /\ r * s > 0
    BY <2>3, <2>4, <2>5
  <2>9. x * h[i] = n * (r * s) /\ x <= n
    <3>1. x * y \in Nat
      BY <2>5
    <3> QED
      BY <2>5, <2>6, <2>7, <2>8, <3>1
  <2>10. Right(i)
    BY <2>8, <2>9 DEF x, n
  <2> QED
    BY <2>1, <2>10
<1>7. T = Nat
  <2>1. T \in SUBSET Nat
    OBVIOUS
  <2> HIDE DEF T
  <2> QED
    BY <1>5, <1>6, <2>1, NaturalInduction
<1>8. ASSUME NEW i \in 1 .. k + 1 PROVE Right(i) /\ g[k] <= g[i - 1] * h[i]
  <2>1. (k + 1) - i \in Nat /\ (k + 1) - i <= k /\ (k + 1) - ((k + 1) - i) = i
    BY <1>0
  <2>2. (k + 1) - i \in T
    BY <1>7, <2>1
  <2>3. Right((k + 1) - ((k + 1) - i))
    BY <2>1, <2>2
  <2>4. Right(i)
    BY <2>1, <2>3
  <2>5. PICK r \in Nat : r > 0 /\ g[i - 1] * h[i] = g[k] * r
    BY <2>4
  <2>6. g[k] * r >= g[k]
    <3>1. g[k] \in Nat
      BY <1>0, <1>1
    <3> HIDE DEF k
    <3> QED
      BY <2>5, <3>1
  <2> QED
    BY <2>4, <2>5, <2>6
<1> QED
  BY <1>8 DEF g, Value

-----------------------------------------------------------------------------
(* The factorization of a number.                                          *)

\* The integer square root.
LEMMA IsqrtFacts ==
  ASSUME NEW n \in Nat
  PROVE  Isqrt(n) \in Nat /\ Isqrt(n) * Isqrt(n) <= n /\ n < (Isqrt(n) + 1) * (Isqrt(n) + 1)
<1> DEFINE T == {r \in Nat : n < (r + 1) * (r + 1)}
<1>1. n \in T
  OBVIOUS
<1>2. PICK h \in T : \A k \in T : h <= k
  <2> HIDE DEF T
  <2>1. T # {}
    BY <1>1
  <2> QED
    BY <2>1, LeastNatural DEF T
<1>3. h \in 0 .. n /\ n < (h + 1) * (h + 1)
  BY <1>1, <1>2
<1>4. h * h <= n
  <2>1. CASE h = 0
    BY <2>1
  <2>2. CASE h # 0
    <3>1. h - 1 \in Nat /\ h - 1 \notin T /\ (h - 1) + 1 = h
      BY <1>2, <2>2
    <3>2. ~(n < ((h - 1) + 1) * ((h - 1) + 1))
      BY <3>1
    <3> QED
      BY <1>3, <3>1, <3>2
  <2> QED
    BY <2>1, <2>2
<1> DEFINE s == Isqrt(n)
<1>5. s \in 0 .. n /\ s * s <= n /\ n < (s + 1) * (s + 1)
  BY <1>3, <1>4 DEF Isqrt
<1> QED
  BY <1>5

\* The divisors that the code tests are those of the lemmas.
LEMMA DividesMultiple ==
  ASSUME NEW n \in Nat, NEW d \in Nat, d > 0
  PROVE  Divides(d, n) <=> Multiple(n, d)
BY MultipleMod DEF Divides

\* Trial division up to the square root finds a divisor if there is one.
LEMMA IsPrimeFacts ==
  ASSUME NEW n \in Nat
  PROVE  IsPrime(n) <=> SmallPrime(n)
<1> SUFFICES ASSUME n > 1 PROVE IsPrime(n) <=> SmallPrime(n)
  BY DEF IsPrime, SmallPrime
<1> DEFINE s == Isqrt(n)
<1>1. s \in Nat /\ s * s <= n /\ n < (s + 1) * (s + 1)
  BY IsqrtFacts
<1> HIDE DEF s
<1>2. s <= n - 1
  <2> SUFFICES ASSUME s >= n PROVE FALSE
    BY <1>1
  <2>1. s * s >= n * s
    BY <1>1
  <2>2. n * s >= n * 2
    BY <1>1
  <2> QED
    BY <1>1, <2>1, <2>2
<1>3. ASSUME NEW d \in 2 .. n - 1, n % d = 0 PROVE \E c \in 2 .. s : n % c = 0
  <2>1. d \in Nat /\ d > 0 /\ d >= 2 /\ n \in Int /\ n > 0
    OBVIOUS
  <2>2. Multiple(n, d)
    <3>1. Multiple(n, d) <=> n % d = 0
      BY <2>1, MultipleMod
    <3> QED
      BY <1>3, <3>1
  <2>3. PICK r \in Nat : r > 0 /\ n = d * r /\ d > 0 /\ d <= n /\ r <= n
    <3>1. \E r \in Nat : r > 0 /\ n = d * r /\ d > 0 /\ d <= n /\ r <= n
      BY <2>1, <2>2, NaturalQuotient, Zenon
    <3> QED
      BY <3>1
  <2>4. Multiple(n, r)
    BY <2>1, <2>3, ProductMultiple
  <2>5. n % r = 0
    BY <2>3, <2>4, MultipleMod
  <2>6. r # 1
    BY <2>3
  <2>7. d <= s \/ r <= s
    <3> SUFFICES ASSUME d >= s + 1, r >= s + 1 PROVE FALSE
      BY <1>1, <2>1
    <3>1. d * r >= (s + 1) * r
      BY <1>1, <2>1, <2>3
    <3>2. (s + 1) * r >= (s + 1) * (s + 1)
      BY <1>1, <2>3
    <3> QED
      BY <1>1, <2>1, <2>3, <3>1, <3>2
  <2>8. CASE d <= s
    <3>1. d \in 2 .. s
      BY <1>1, <2>1, <2>8
    <3> QED
      BY <1>3, <3>1
  <2>9. CASE r <= s
    <3>1. r \in 2 .. s
      BY <1>1, <2>3, <2>6, <2>9
    <3> QED
      BY <2>5, <3>1
  <2> QED
    BY <2>7, <2>8, <2>9
<1>4. \A d \in 2 .. s : d \in 2 .. n - 1
  BY <1>1, <1>2
<1> QED
  BY <1>3, <1>4 DEF IsPrime, SmallPrime, Divides, s

\* The place of a number in a set of numbers.
Rank(S, q) == Cardinality({r \in S : r < q})

\* The ranks of the elements of a finite set.
LEMMA RankFacts ==
  ASSUME NEW S \in SUBSET Nat, IsFiniteSet(S)
  PROVE  /\ \A q \in S : Rank(S, q) \in 0 .. Cardinality(S) - 1
         /\ \A q, r \in S : q < r => Rank(S, q) < Rank(S, r)
         /\ \A i \in 0 .. Cardinality(S) - 1 : \E q \in S : Rank(S, q) = i
<1> DEFINE n == Cardinality(S)
           B(q) == {r \in S : r < q}
<1>0. n \in Nat
  BY FS_CardinalityType
<1>1. ASSUME NEW q \in S PROVE IsFiniteSet(B(q)) /\ Cardinality(B(q)) \in Nat
  <2>1. B(q) \in SUBSET S
    OBVIOUS
  <2> HIDE DEF B
  <2> QED
    BY <2>1, FS_Subset, FS_CardinalityType
<1>2. ASSUME NEW q \in S, NEW C \in SUBSET S, q \notin B(q), B(q) \cup {q} \in SUBSET C
      PROVE  Cardinality(B(q)) < Cardinality(C)
  <2> DEFINE D == B(q) \cup {q}
  <2>1. Cardinality(D) = Cardinality(B(q)) + 1
    <3> HIDE DEF B
    <3> QED
      BY <1>1, <1>2, FS_AddElement
  <2>2. IsFiniteSet(C) /\ Cardinality(C) \in Nat
    BY FS_Subset, FS_CardinalityType
  <2>3. Cardinality(D) <= Cardinality(C)
    <3>1. D \in SUBSET C
      BY <1>2
    <3> HIDE DEF D
    <3> QED
      BY <2>2, <3>1, FS_Subset
  <2> HIDE DEF B, D
  <2> QED
    BY <1>1, <2>1, <2>2, <2>3
<1>3. \A q \in S : Rank(S, q) \in 0 .. n - 1
  <2> TAKE q \in S
  <2>1. q \notin B(q) /\ B(q) \cup {q} \in SUBSET S /\ S \in SUBSET S
    OBVIOUS
  <2> HIDE DEF B, n
  <2>2. Cardinality(B(q)) < Cardinality(S)
    BY <1>2, <2>1
  <2>3. Cardinality(B(q)) \in 0 .. n - 1
    BY <1>0, <1>1, <2>2 DEF n
  <2> QED
    BY <2>3 DEF Rank, B
<1>4. \A q, r \in S : q < r => Rank(S, q) < Rank(S, r)
  <2> TAKE q, r \in S
  <2> HAVE q < r
  <2>1. q \in Nat /\ r \in Nat
    OBVIOUS
  <2>2. q \notin B(q) /\ B(q) \cup {q} \in SUBSET B(r) /\ B(r) \in SUBSET S
    <3>1. ASSUME NEW x \in B(q) \cup {q} PROVE x \in B(r)
      BY <2>1
    <3>2. B(q) \cup {q} \in SUBSET B(r)
      BY <3>1
    <3>3. q \notin B(q) /\ B(r) \in SUBSET S
      BY <2>1
    <3> QED
      BY <3>2, <3>3
  <2> HIDE DEF B
  <2>3. Cardinality(B(q)) < Cardinality(B(r))
    BY <1>2, <2>2
  <2> QED
    BY <2>3 DEF Rank, B
<1>5. ASSUME NEW i \in 0 .. n - 1 PROVE \E q \in S : Rank(S, q) = i
  <2> DEFINE R == 0 .. n - 1
             f == [q \in S |-> Rank(S, q)]
  <2>1. IsFiniteSet(R) /\ Cardinality(R) = n
    <3>1. /\ IsFiniteSet(0 .. n - 1)
          /\ Cardinality(0 .. n - 1) = IF 0 > n - 1 THEN 0 ELSE (n - 1) - 0 + 1
      <4>1. 0 \in Int /\ n - 1 \in Int
        BY <1>0
      <4> HIDE DEF n
      <4> QED
        BY <4>1, FS_Interval
    <3>2. (IF 0 > n - 1 THEN 0 ELSE (n - 1) - 0 + 1) = n
      BY <1>0
    <3> QED
      BY <3>1, <3>2
  <2>2. f \in [S -> R]
    BY <1>3
  <2>3. \A q, r \in S : f[q] = f[r] => q = r
    <3> SUFFICES ASSUME NEW q \in S, NEW r \in S, Rank(S, q) = Rank(S, r), q # r PROVE FALSE
      OBVIOUS
    <3>1. Rank(S, q) \in Int /\ Rank(S, r) \in Int /\ q \in Nat /\ r \in Nat
      BY <1>0, <1>3
    <3>2. q < r \/ r < q
      BY <3>1
    <3> QED
      BY <1>4, <3>1, <3>2
  <2> HIDE DEF f, R
  <2>4. f \in Injection(S, R)
    BY <2>2, <2>3 DEF Injection, IsInjective
  <2>5. f \in Surjection(S, R)
    BY <2>1, <2>4, FS_Injection
  <2>6. i \in R
    BY DEF R
  <2>7. PICK q \in S : f[q] = i
    BY <2>5, <2>6 DEF Surjection
  <2> QED
    BY <2>7 DEF f
<1> QED
  BY <1>3, <1>4, <1>5

\* The sequence has the elements of the set, each once and in order.
LEMMA AscendingFacts ==
  ASSUME NEW S \in SUBSET Nat, IsFiniteSet(S)
  PROVE  /\ Ascending(S) \in Seq(Nat) /\ Len(Ascending(S)) = Cardinality(S)
         /\ Cardinality(S) \in Nat
         /\ \A i \in 1 .. Cardinality(S) : Ascending(S)[i] \in S
         /\ \A i, j \in 1 .. Cardinality(S) : i < j => Ascending(S)[i] < Ascending(S)[j]
         /\ \A q \in S : \E i \in 1 .. Cardinality(S) : Ascending(S)[i] = q
<1> DEFINE n == Cardinality(S)
           e(i) == CHOOSE q \in S : Rank(S, q) = i - 1
           a == Ascending(S)
<1>0. n \in Nat
  BY FS_CardinalityType
<1>1. a = [i \in 1 .. n |-> e(i)]
  BY DEF Ascending, Rank
<1>2. ASSUME NEW i \in 1 .. n PROVE e(i) \in S /\ Rank(S, e(i)) = i - 1
  <2>1. i - 1 \in 0 .. n - 1
    BY <1>0
  <2>2. \E q \in S : Rank(S, q) = i - 1
    BY <2>1, RankFacts
  <2> QED
    BY <2>2
<1> HIDE DEF e, a
<1>3. a \in Seq(Nat) /\ Len(a) = n
  <2>1. \A i \in 1 .. n : e(i) \in Nat
    BY <1>2
  <2> HIDE DEF n
  <2> QED
    BY <1>0, <1>1, <2>1
<1>4. \A i \in 1 .. n : a[i] \in S /\ Rank(S, a[i]) = i - 1
  BY <1>1, <1>2
<1>7. \A x \in S : x \in Nat
  OBVIOUS
<1>5. ASSUME NEW i \in 1 .. n, NEW j \in 1 .. n, i < j PROVE a[i] < a[j]
  <2>1. a[i] \in S /\ a[j] \in S /\ Rank(S, a[i]) = i - 1 /\ Rank(S, a[j]) = j - 1
    BY <1>4
  <2>2. a[i] \in Nat /\ a[j] \in Nat /\ i \in Int /\ j \in Int
    <3>1. a[i] \in Nat /\ a[j] \in Nat
      BY <1>7, <2>1, Zenon
    <3> HIDE DEF n
    <3>2. i \in Int /\ j \in Int
      BY <1>0
    <3> QED
      BY <3>1, <3>2
  <2>3. ~(a[j] < a[i]) /\ a[i] # a[j]
    <3>1. ASSUME a[j] < a[i] PROVE FALSE
      <4>1. Rank(S, a[j]) < Rank(S, a[i])
        BY <2>1, <3>1, RankFacts
      <4> QED
        BY <1>5, <2>1, <2>2, <4>1
    <3> QED
      BY <1>5, <2>1, <2>2, <3>1
  <2> QED
    BY <2>2, <2>3
<1>6. ASSUME NEW q \in S PROVE \E i \in 1 .. n : a[i] = q
  <2> DEFINE i == Rank(S, q) + 1
  <2>1. Rank(S, q) \in 0 .. n - 1
    BY RankFacts
  <2>2. i \in 1 .. n /\ i - 1 = Rank(S, q)
    BY <1>0, <2>1
  <2> HIDE DEF i
  <2>3. a[i] \in S /\ Rank(S, a[i]) = Rank(S, q)
    BY <1>4, <2>2
  <2>4. a[i] \in Nat /\ q \in Nat /\ Rank(S, q) \in Int
    <3>1. a[i] \in Nat /\ q \in Nat
      BY <1>7, <2>3, Zenon
    <3> HIDE DEF n
    <3>2. Rank(S, q) \in Int
      BY <1>0, <2>1
    <3> QED
      BY <3>1, <3>2
  <2>5. ~(a[i] < q) /\ ~(q < a[i])
    <3>1. ASSUME a[i] < q PROVE FALSE
      <4>1. Rank(S, a[i]) < Rank(S, q)
        BY <2>3, <3>1, RankFacts
      <4> QED
        BY <2>3, <2>4, <4>1
    <3>2. ASSUME q < a[i] PROVE FALSE
      <4>1. Rank(S, q) < Rank(S, a[i])
        BY <2>3, <3>2, RankFacts
      <4> QED
        BY <2>3, <2>4, <4>1
    <3> QED
      BY <3>1, <3>2
  <2> QED
    BY <2>2, <2>4, <2>5
<1> HIDE DEF n
<1> QED
  BY <1>0, <1>3, <1>4, <1>5, <1>6 DEF n, a

\* The valuation is the largest power that divides.
LEMMA ValuationFacts ==
  ASSUME NEW n \in Nat, n > 0, NEW q \in Nat, q > 1
  PROVE  /\ Valuation(n, q) \in Nat
         /\ Multiple(n, Power(q, Valuation(n, q)))
         /\ ~Multiple(n, Power(q, Valuation(n, q) + 1))
<1> DEFINE T == {e \in Nat : ~Multiple(n, Power(q, e + 1))}
<1>1. ASSUME NEW e \in Nat PROVE Power(q, e) \in Nat /\ Power(q, e) > e
  BY PowerFacts, PowerGrows
<1>2. ASSUME NEW e \in Nat, Multiple(n, Power(q, e)) PROVE e < n
  <2> DEFINE w == Power(q, e)
  <2>1. w \in Nat /\ w > e /\ Multiple(n, w)
    BY <1>1, <1>2
  <2> HIDE DEF w
  <2>2. \E r \in Nat : r > 0 /\ n = w * r /\ w > 0 /\ w <= n /\ r <= n
    BY <2>1, NaturalQuotient
  <2> QED
    BY <2>1, <2>2
<1>3. n \in T
  <2>1. n + 1 \in Nat /\ ~(n + 1 < n)
    OBVIOUS
  <2> QED
    BY <1>2, <2>1
<1>4. PICK v \in T : \A e \in T : v <= e
  <2> HIDE DEF T
  <2>1. T # {} /\ (T \subseteq Nat)
    BY <1>3 DEF T
  <2> QED
    BY <2>1, LeastNatural
<1>5. v \in Nat /\ ~Multiple(n, Power(q, v + 1))
  BY <1>4
<1>6. Multiple(n, Power(q, v))
  <2>1. CASE v = 0
    <3>1. Power(q, v) = 1 /\ n \in Int
      BY <2>1, PowerFacts
    <3> QED
      BY <3>1, MultipleOfProduct
  <2>2. CASE v # 0
    <3>1. v - 1 \in Nat /\ (v - 1) + 1 = v /\ ~(v <= v - 1)
      BY <1>5, <2>2
    <3>2. v - 1 \notin T
      BY <1>4, <3>1
    <3> QED
      BY <3>1, <3>2
  <2> QED
    BY <2>1, <2>2
<1>7. v \in 0 .. n
  <2>1. v < n
    BY <1>2, <1>5, <1>6
  <2> QED
    BY <1>5, <2>1
<1>8. \A e \in Nat : Divides(Power(q, e), n) <=> Multiple(n, Power(q, e))
  <2> TAKE e \in Nat
  <2> DEFINE w == Power(q, e)
  <2>1. w \in Nat /\ w > 0
    BY <1>1
  <2> HIDE DEF w
  <2>2. Divides(w, n) <=> Multiple(n, w)
    BY <2>1, DividesMultiple
  <2> QED
    BY <2>2 DEF w
<1> DEFINE x == Valuation(n, q)
<1>9. x \in 0 .. n /\ Divides(Power(q, x), n) /\ ~Divides(Power(q, x + 1), n)
  <2>1. v + 1 \in Nat
    BY <1>5
  <2>2. Divides(Power(q, v), n) /\ ~Divides(Power(q, v + 1), n)
    BY <1>5, <1>6, <1>8, <2>1
  <2> QED
    BY <1>7, <2>2, Zenon DEF Valuation
<1>10. x \in Nat /\ x + 1 \in Nat
  BY <1>9
<1> QED
  BY <1>8, <1>9, <1>10

\* A power of a prime divides a product if it divides a factor, the other
\* factor being free of the prime.
LEMMA PowerThrough ==
  ASSUME NEW q \in Nat, SmallPrime(q), NEW x \in Nat, x > 0, ~Multiple(x, q)
  PROVE  \A s \in Nat : \A r \in Nat : Multiple(x * r, Power(q, s)) => Multiple(r, Power(q, s))
<1> DEFINE T == {s \in Nat : \A r \in Nat :
                    Multiple(x * r, Power(q, s)) => Multiple(r, Power(q, s))}
<1>0. q > 1 /\ \A e \in Nat : /\ Power(q, e) \in Nat
                             /\ Power(q, e + 1) = Power(q, e) * q
  BY PowerFacts DEF SmallPrime
<1>1. 0 \in T
  <2>1. \A r \in Nat : Multiple(r, 1)
    <3> TAKE r \in Nat
    <3>1. r \in Int
      OBVIOUS
    <3> QED
      BY <3>1, MultipleOfProduct
  <2> QED
    BY <2>1, PowerFacts
<1>2. ASSUME NEW s \in T PROVE s + 1 \in T
  <2> SUFFICES ASSUME NEW r \in Nat, Multiple(x * r, Power(q, s + 1))
               PROVE  Multiple(r, Power(q, s + 1))
    OBVIOUS
  <2> DEFINE w == Power(q, s)
  <2>0. s \in Nat /\ \A c \in Nat : Multiple(x * c, w) => Multiple(c, w)
    OBVIOUS
  <2>1. w \in Nat /\ Power(q, s + 1) = w * q
    BY <1>0, <2>0
  <2>2. CASE r = 0
    <3>1. r = Power(q, s + 1) * 0 /\ 0 \in Int
      BY <1>0, <2>1, <2>2
    <3> QED
      BY <3>1 DEF Multiple
  <2>3. CASE r > 0
    <3> HIDE DEF w, T
    <3> DEFINE z == x * r
               m == w * q
    <3>1. z \in Nat /\ z > 0 /\ m \in Nat /\ Multiple(z, m)
      BY <2>1, <2>3
    <3>2. m = w * q /\ z = x * r
      OBVIOUS
    <3> HIDE DEF z, m
    <3>3. PICK v \in Nat : v > 0 /\ z = m * v
      <4>1. \E v \in Nat : v > 0 /\ z = m * v /\ m > 0 /\ m <= z /\ v <= z
        BY <3>1, NaturalQuotient
      <4> QED
        BY <4>1
    <3>4. z = q * (w * v) /\ w * v \in Nat
      BY <2>1, <3>2, <3>3
    <3>5. Multiple(z, q)
      BY <3>4, ProductMultiple
    <3>6. Multiple(r, q)
      <4>1. Multiple(x * r, q) /\ x \in Int /\ r \in Int
        BY <3>2, <3>5
      <4> QED
        BY <4>1, PrimeSplits
    <3>7. PICK c \in Nat : c > 0 /\ r = q * c
      BY <2>3, <3>6, NaturalQuotient
    <3>8. (x * c) * q = (w * v) * q /\ x * c \in Nat
      BY <3>2, <3>4, <3>7
    <3>9. x * c = w * v
      <4> DEFINE y1 == x * c
                 y2 == w * v
      <4>1. y1 \in Nat /\ y2 \in Nat /\ y1 * q = y2 * q /\ q > 0
        BY <1>0, <3>4, <3>8
      <4> HIDE DEF y1, y2
      <4>2. y1 = y2
        BY <4>1, CancelFactor
      <4> QED
        BY <4>2 DEF y1, y2
    <3>10. Multiple(x * c, w)
      <4> DEFINE y == x * c
      <4>1. y = w * v
        BY <3>9
      <4> HIDE DEF y
      <4>2. Multiple(y, w)
        BY <2>1, <4>1, ProductMultiple
      <4> QED
        BY <4>2 DEF y
    <3>11. Multiple(c, w)
      BY <2>0, <3>10
    <3>12. PICK b \in Int : c = w * b
      BY <3>11 DEF Multiple
    <3>13. r = (w * q) * b
      BY <2>1, <3>7, <3>12
    <3> QED
      BY <2>1, <3>13 DEF Multiple
  <2> QED
    BY <2>2, <2>3
<1>3. T = Nat
  <2>1. T \in SUBSET Nat
    OBVIOUS
  <2> HIDE DEF T
  <2> QED
    BY <1>1, <1>2, <2>1, NaturalInduction
<1> QED
  BY <1>3

\* The prime divisors of a number in their order.
LEMMA PrimesOfFacts ==
  ASSUME NEW n \in Nat
  PROVE  /\ PrimesOf(n) \in Seq(Nat) /\ Len(PrimesOf(n)) \in Nat
         /\ \A i \in 1 .. Len(PrimesOf(n)) :
              /\ PrimesOf(n)[i] \in Nat /\ SmallPrime(PrimesOf(n)[i])
              /\ PrimesOf(n)[i] <= n /\ Multiple(n, PrimesOf(n)[i])
         /\ \A i, j \in 1 .. Len(PrimesOf(n)) : i < j => PrimesOf(n)[i] < PrimesOf(n)[j]
         /\ n > 0 => \A q \in Nat : SmallPrime(q) /\ Multiple(n, q) =>
                        \E i \in 1 .. Len(PrimesOf(n)) : PrimesOf(n)[i] = q
<1> DEFINE S == {q \in 2 .. n : Divides(q, n) /\ IsPrime(q)}
           s == Ascending(S)
<1>1. S \in SUBSET Nat /\ IsFiniteSet(S)
  <2>1. S \in SUBSET (2 .. n) /\ S \in SUBSET Nat
    OBVIOUS
  <2>2. IsFiniteSet(2 .. n)
    <3>1. 2 \in Int /\ n \in Int
      OBVIOUS
    <3> QED
      BY <3>1, FS_Interval
  <2> HIDE DEF S
  <2> QED
    BY <2>1, <2>2, FS_Subset
<1>2. PrimesOf(n) = s
  BY DEF PrimesOf
<1>3. \A q \in S : q \in Nat /\ q <= n /\ SmallPrime(q) /\ Multiple(n, q)
  <2> TAKE q \in S
  <2>1. q \in Nat /\ q > 0 /\ q <= n /\ Divides(q, n) /\ IsPrime(q)
    OBVIOUS
  <2> QED
    BY <2>1, IsPrimeFacts, DividesMultiple
<1>4. ASSUME n > 0, NEW q \in Nat, SmallPrime(q), Multiple(n, q) PROVE q \in S
  <2>1. q > 1 /\ q > 0
    BY <1>4 DEF SmallPrime
  <2>2. \E r \in Nat : r > 0 /\ n = q * r /\ q > 0 /\ q <= n /\ r <= n
    BY <1>4, NaturalQuotient
  <2>3. Divides(q, n) /\ IsPrime(q)
    BY <1>4, <2>1, IsPrimeFacts, DividesMultiple
  <2> QED
    BY <2>1, <2>2, <2>3
<1> HIDE DEF S, s
<1>5. /\ s \in Seq(Nat) /\ Len(s) \in Nat
      /\ \A i \in 1 .. Len(s) : s[i] \in S
      /\ \A i, j \in 1 .. Len(s) : i < j => s[i] < s[j]
      /\ \A q \in S : \E i \in 1 .. Len(s) : s[i] = q
  BY <1>1, AscendingFacts DEF s
<1> QED
  BY <1>2, <1>3, <1>4, <1>5

\* The factorization of a number is that of its primes that gives it back.
LEMMA FactorizationFacts ==
  ASSUME NEW n \in Nat, n > 0, NEW f, f = Factorization(n)
  PROVE  Listed(f) /\ Value(f, f.exponents) = n /\ f.primes = PrimesOf(n)
<1> DEFINE s == PrimesOf(n)
           k == Len(s)
           x == [i \in 1 .. k |-> Valuation(n, s[i])]
<1>1. /\ k \in Nat
      /\ \A i \in 1 .. k : s[i] \in Nat /\ SmallPrime(s[i]) /\ Multiple(n, s[i])
      /\ \A i, j \in 1 .. k : i < j => s[i] < s[j]
      /\ \A q \in Nat : SmallPrime(q) /\ Multiple(n, q) => \E i \in 1 .. k : s[i] = q
  BY PrimesOfFacts
<1>2. f.primes = s /\ f.exponents = x
  BY DEF Factorization
<1>3. \A i \in 1 .. k : /\ x[i] \in Nat /\ Multiple(n, Power(s[i], x[i]))
                        /\ ~Multiple(n, Power(s[i], x[i] + 1))
  <2> TAKE i \in 1 .. k
  <2>1. s[i] \in Nat /\ s[i] > 1
    BY <1>1 DEF SmallPrime
  <2> QED
    BY <2>1, ValuationFacts
<1>4. x \in [1 .. k -> Nat]
  BY <1>3
<1> HIDE DEF s, x
<1>5. Listed(f)
  BY <1>1, <1>2, <1>4 DEF Listed
<1> DEFINE g == Prefix(f, x)
           w(i) == Power(s[i], x[i])
<1>6. /\ g[0] = 1 /\ \A i \in 0 .. k : g[i] \in Nat /\ g[i] > 0
      /\ \A i \in 1 .. k : g[i] = g[i - 1] * w(i) /\ w(i) \in Nat /\ w(i) > 0
  <2>1. x \in Vectors(f)
    BY <1>2, <1>4 DEF Vectors
  <2> QED
    BY <1>2, <1>5, <2>1, PrefixFacts
<1>7. \A q \in Nat : SmallPrime(q) => \A i \in 0 .. k :
        Multiple(g[i], q) <=> \E j \in 1 .. i : s[j] = q /\ x[j] # 0
  <2>1. x \in Vectors(f)
    BY <1>2, <1>4 DEF Vectors
  <2> QED
    BY <1>2, <1>5, <2>1, PrefixPrimes
<1> HIDE DEF g, w
<1> DEFINE Goes(i) == Multiple(n, g[i]) /\ \A j \in 1 .. i : Multiple(g[i], w(j))
           T == {i \in Nat : i <= k => Goes(i)}
<1>8. 0 \in T
  <2>1. Multiple(n, 1)
    <3>1. n \in Int
      OBVIOUS
    <3> QED
      BY <3>1, MultipleOfProduct
  <2> QED
    BY <1>6, <2>1
<1>9. ASSUME NEW m \in T PROVE m + 1 \in T
  <2> SUFFICES ASSUME m + 1 <= k PROVE Goes(m + 1)
    OBVIOUS
  <2> DEFINE i == m + 1
             q == s[i]
             c == g[m]
  <2>1. m \in Nat /\ i \in 1 .. k /\ i - 1 = m /\ m \in 0 .. k /\ Goes(m)
    BY <1>1
  <2>2. q \in Nat /\ SmallPrime(q) /\ c \in Nat /\ c > 0 /\ w(i) \in Nat /\ w(i) > 0 /\ g[i] = c * w(i)
        /\ w(i) = Power(q, x[i]) /\ x[i] \in Nat /\ Multiple(n, w(i))
    BY <1>1, <1>3, <1>6, <2>1 DEF w
  <2>3. ~Multiple(c, q)
    <3>1. \A j \in 1 .. m : s[j] # q
      <4> TAKE j \in 1 .. m
      <4>1. j \in 1 .. k /\ j < i
        BY <2>1
      <4>2. s[j] < s[i] /\ s[j] \in Nat
        BY <1>1, <2>1, <4>1
      <4> QED
        BY <2>2, <4>2
    <3> QED
      BY <1>7, <2>1, <2>2, <3>1
  <2>4. PICK r \in Nat : r > 0 /\ n = c * r
    <3>1. \E r \in Nat : r > 0 /\ n = c * r /\ c > 0 /\ c <= n /\ r <= n
      BY <2>1, <2>2, NaturalQuotient
    <3> QED
      BY <3>1
  <2> DEFINE e == x[i]
  <2>5. e \in Nat /\ w(i) = Power(q, e)
    BY <2>2
  <2> HIDE DEF c, q, e, T
  <2>6. Multiple(r, w(i))
    <3>1. Multiple(c * r, Power(q, e))
      BY <2>2, <2>4, <2>5
    <3>2. Multiple(r, Power(q, e))
      BY <2>2, <2>3, <2>5, <3>1, PowerThrough
    <3> QED
      BY <2>5, <3>2
  <2>7. PICK b \in Int : r = w(i) * b
    BY <2>6 DEF Multiple
  <2>8. Multiple(n, g[i])
    <3>1. n = (c * w(i)) * b
      BY <2>2, <2>4, <2>7
    <3>2. n = g[i] * b
      BY <2>2, <3>1
    <3> QED
      BY <3>2 DEF Multiple
  <2>9. ASSUME NEW j \in 1 .. i PROVE Multiple(g[i], w(j))
    <3>1. CASE j = i
      BY <2>2, <3>1, ProductMultiple
    <3>2. CASE j # i
      <4>1. j \in 1 .. m /\ j \in 1 .. k
        BY <2>1, <3>2
      <4>2. Multiple(c, w(j)) /\ w(j) \in Nat
        BY <1>6, <2>1, <4>1 DEF c
      <4> DEFINE u == w(i)
                 l == w(j)
      <4>3. u \in Int /\ c \in Int /\ l \in Nat /\ Multiple(c, l) /\ g[i] = c * u
        BY <2>2, <4>2
      <4> HIDE DEF u, l
      <4>4. Multiple(u * c, l)
        BY <4>3, Scaled, Zenon
      <4>5. u * c = g[i]
        BY <4>3
      <4> QED
        BY <4>4, <4>5 DEF l
    <3> QED
      BY <3>1, <3>2
  <2> QED
    BY <2>8, <2>9
<1>10. T = Nat
  <2>1. T \in SUBSET Nat
    OBVIOUS
  <2> HIDE DEF T
  <2> QED
    BY <1>8, <1>9, <2>1, NaturalInduction
<1>11. Goes(k)
  <2> HIDE DEF Goes
  <2> QED
    BY <1>1, <1>10
<1> DEFINE c == g[k]
<1>12. c \in Nat /\ c > 0 /\ Multiple(n, c)
  BY <1>1, <1>6, <1>11
<1> HIDE DEF T
<1>13. PICK r \in Nat : r > 0 /\ n = c * r
  <2> HIDE DEF c, Goes
  <2>1. \E r \in Nat : r > 0 /\ n = c * r /\ c > 0 /\ c <= n /\ r <= n
    BY <1>12, NaturalQuotient
  <2> QED
    BY <2>1
<1>14. r = 1
  <2> SUFFICES ASSUME r > 1 PROVE FALSE
    BY <1>13
  <2>1. PICK q \in 2 .. r : SmallPrime(q) /\ Multiple(r, q)
    BY PrimeDivisor
  <2>2. q \in Nat
    BY <2>1
  <2>3. PICK b \in Nat : r = q * b
    <3>1. \E b \in Nat : b > 0 /\ r = q * b /\ q > 0 /\ q <= r /\ b <= r
      BY <2>1, <2>2, <1>13, NaturalQuotient
    <3> QED
      BY <3>1
  <2>4. Multiple(n, q)
    <3> HIDE DEF c, Goes
    <3>1. n = q * (c * b) /\ c * b \in Nat
      BY <1>12, <1>13, <2>2, <2>3
    <3> QED
      BY <2>2, <3>1, ProductMultiple
  <2>5. PICK j \in 1 .. k : s[j] = q
    BY <1>1, <2>1, <2>2, <2>4
  <2>6. Multiple(c, w(j)) /\ w(j) \in Nat
    BY <1>6, <1>11, <2>5
  <2>7. PICK a \in Int : c = w(j) * a
    BY <2>6 DEF Multiple
  <2>8. Power(s[j], x[j] + 1) = w(j) * q
    BY <1>3, <2>2, <2>5, PowerFacts DEF w
  <2>9. n = (w(j) * q) * (a * b) /\ a * b \in Int
    <3> HIDE DEF c, Goes
    <3>1. n = (w(j) * a) * (q * b)
      BY <1>13, <2>3, <2>7
    <3> QED
      BY <2>2, <2>6, <3>1
  <2>10. Multiple(n, w(j) * q)
    BY <2>9 DEF Multiple
  <2> QED
    BY <1>3, <2>5, <2>8, <2>10
<1>15. c = n
  <2> HIDE DEF c
  <2> QED
    BY <1>12, <1>13, <1>14
<1> QED
  BY <1>2, <1>5, <1>15 DEF g, c, Value, s

\* A function may be defined by recursion from the end of an interval.
LEMMA BackwardExists ==
  ASSUME NEW k \in Nat, NEW base \in Nat, NEW step \in [Nat \X Nat -> Nat]
  PROVE  \E h : /\ h \in [1 .. k + 1 -> Nat] /\ h[k + 1] = base
                /\ \A i \in 1 .. k : h[i] = step[<<i, h[i + 1]>>]
<1> DEFINE turned == [z \in Nat \X Nat |-> IF z[1] <= k THEN step[<<k - z[1], z[2]>>] ELSE 0]
<1>1. turned \in [Nat \X Nat -> Nat]
  <2>1. ASSUME NEW m \in Nat, NEW v \in Nat, m <= k PROVE step[<<k - m, v>>] \in Nat
    <3>1. k - m \in Nat
      BY <2>1
    <3>2. <<k - m, v>> \in Nat \X Nat
      BY <3>1
    <3> QED
      BY <3>2
  <2> QED
    BY <2>1
<1>2. \A m, v \in Nat : m <= k => turned[<<m, v>>] = step[<<k - m, v>>]
  OBVIOUS
<1> HIDE DEF turned
<1>3. PICK f : Recursion(f, Nat, base, turned)
  BY <1>1, RecursionExists
<1> DEFINE h == [i \in 1 .. k + 1 |-> f[(k + 1) - i]]
<1>4. f \in [Nat -> Nat] /\ f[0] = base /\ \A e \in Nat : f[e + 1] = turned[<<e, f[e]>>]
  BY <1>3 DEF Recursion
<1>5. h \in [1 .. k + 1 -> Nat] /\ h[k + 1] = base
  <2>1. \A i \in 1 .. k + 1 : (k + 1) - i \in Nat
    OBVIOUS
  <2>2. k + 1 \in 1 .. k + 1 /\ (k + 1) - (k + 1) = 0
    OBVIOUS
  <2> QED
    BY <1>4, <2>1, <2>2
<1>6. ASSUME NEW i \in 1 .. k PROVE h[i] = step[<<i, h[i + 1]>>]
  <2> DEFINE e == k - i
  <2>1. e \in Nat /\ e <= k /\ (k + 1) - i = e + 1 /\ (k + 1) - (i + 1) = e /\ k - e = i
        /\ i \in 1 .. k + 1 /\ i + 1 \in 1 .. k + 1
    OBVIOUS
  <2> HIDE DEF e
  <2>2. h[i] = f[e + 1] /\ h[i + 1] = f[e]
    BY <2>1
  <2>3. f[e] \in Nat /\ f[e + 1] = turned[<<e, f[e]>>]
    BY <1>4, <2>1
  <2>4. turned[<<e, f[e]>>] = step[<<k - e, f[e]>>]
    BY <1>2, <2>1, <2>3
  <2> QED
    BY <2>1, <2>2, <2>3, <2>4
<1> QED
  BY <1>5, <1>6

\* The recursion of suffix_maximum.
SuffixSteps(h, f) ==
  h = [i \in 1 .. Len(f.primes) + 1 |->
         IF i = Len(f.primes) + 1 THEN 1
         ELSE h[i + 1] * Power(f.primes[i], f.exponents[i])]

SuffixOf(f) == CHOOSE h : SuffixSteps(h, f)

\* suffix_maximum is its recursion.
LEMMA SuffixUnfolds ==
  ASSUME NEW index
  PROVE  SuffixMaximum(index) = SuffixOf(factors)[index]
  BY Zenon DEF SuffixMaximum, SuffixOf, SuffixSteps, FactorCount, PrimeAt

\* The recursion of SuffixMaximum is well founded.
LEMMA SuffixOfFacts ==
  ASSUME NEW f, Listed(f)
  PROVE  SuffixProducts(SuffixOf(f), f)
<1> DEFINE k == Len(f.primes)
           w(i) == Power(f.primes[i], f.exponents[i])
           step == [z \in Nat \X Nat |-> IF z[1] \in 1 .. k THEN z[2] * w(z[1]) ELSE 0]
<1>1. k \in Nat /\ \A i \in 1 .. k : w(i) \in Nat
  BY PowerFacts DEF Listed
<1> HIDE DEF w
<1>2. step \in [Nat \X Nat -> Nat]
  BY <1>1
<1>3. \A i \in 1 .. k : \A v \in Nat : step[<<i, v>>] = v * w(i)
  <2> TAKE i \in 1 .. k
  <2> TAKE v \in Nat
  <2>1. <<i, v>> \in Nat \X Nat /\ <<i, v>>[1] = i /\ <<i, v>>[2] = v
    OBVIOUS
  <2> QED
    BY <2>1
<1> HIDE DEF step
<1>4. PICK h : /\ h \in [1 .. k + 1 -> Nat] /\ h[k + 1] = 1
               /\ \A i \in 1 .. k : h[i] = step[<<i, h[i + 1]>>]
  <2>1. 1 \in Nat
    OBVIOUS
  <2> HIDE DEF k
  <2> QED
    BY <1>1, <1>2, <2>1, BackwardExists
<1>5. SuffixSteps(h, f)
  <2>1. ASSUME NEW i \in 1 .. k + 1 PROVE h[i] = IF i = k + 1 THEN 1 ELSE h[i + 1] * w(i)
    <3>1. CASE i = k + 1
      BY <1>4, <3>1
    <3>2. CASE i # k + 1
      <4>1. i \in 1 .. k /\ i + 1 \in 1 .. k + 1
        BY <1>1, <3>2
      <4>2. h[i + 1] \in Nat
        BY <1>4, <4>1
      <4> QED
        BY <1>3, <1>4, <3>2, <4>1, <4>2
    <3> QED
      BY <3>1, <3>2
  <2>2. h = [i \in 1 .. k + 1 |-> h[i]]
    BY <1>4
  <2> QED
    BY <2>1, <2>2 DEF SuffixSteps, w
<1> DEFINE p == SuffixOf(f)
<1>6. SuffixSteps(p, f)
  BY <1>5 DEF SuffixOf
<1> HIDE DEF p
<1>7. \A i \in 1 .. k + 1 : p[i] = IF i = k + 1 THEN 1 ELSE p[i + 1] * w(i)
  BY <1>6 DEF SuffixSteps, w
<1>8. k + 1 \in 1 .. k + 1 /\ \A i \in 1 .. k : i \in 1 .. k + 1 /\ i # k + 1
  BY <1>1
<1>9. SuffixProducts(p, f)
  BY <1>7, <1>8 DEF SuffixProducts, w
<1> QED
  BY <1>9 DEF p

\* The recursion of MultipliedUp.
RaisedSteps(g, d, q, lower) ==
  g = [e \in Nat |-> IF e = 0 THEN d ELSE IF g[e - 1] > lower THEN g[e - 1] ELSE g[e - 1] * q]

\* MultipliedUp is its recursion.
LEMMA RaisedUnfolds ==
  ASSUME NEW d, NEW q, NEW exponent, NEW lower
  PROVE  MultipliedUp(d, q, exponent, lower) = (CHOOSE g : RaisedSteps(g, d, q, lower))[exponent]
  BY Zenon DEF MultipliedUp, RaisedSteps

\* A factor is multiplied in no more often than it may.
LEMMA MultipliedUpFacts ==
  ASSUME NEW d \in Nat, NEW q \in Nat, NEW lower \in Nat
  PROVE  \A e \in Nat : \E s \in 0 .. e : MultipliedUp(d, q, e, lower) = d * Power(q, s)
<1> DEFINE step == [z \in Nat \X Nat |-> IF z[2] > lower THEN z[2] ELSE z[2] * q]
<1>1. step \in [Nat \X Nat -> Nat]
  OBVIOUS
<1>2. \A e, v \in Nat : step[<<e, v>>] = IF v > lower THEN v ELSE v * q
  OBVIOUS
<1> HIDE DEF step
<1>3. PICK f : Recursion(f, Nat, d, step)
  BY <1>1, RecursionExists
<1>4. RaisedSteps(f, d, q, lower)
  <2>1. ASSUME NEW e \in Nat
        PROVE f[e] = IF e = 0 THEN d ELSE IF f[e - 1] > lower THEN f[e - 1] ELSE f[e - 1] * q
    <3>1. CASE e = 0
      BY <1>3, <3>1 DEF Recursion
    <3>2. CASE e # 0
      <4>1. e - 1 \in Nat /\ (e - 1) + 1 = e
        BY <3>2
      <4> QED
        BY <1>2, <1>3, <3>2, <4>1 DEF Recursion
    <3> QED
      BY <3>1, <3>2
  <2>2. f = [e \in Nat |-> f[e]]
    BY <1>3 DEF Recursion
  <2> QED
    BY <2>1, <2>2 DEF RaisedSteps
<1> DEFINE p == CHOOSE g : RaisedSteps(g, d, q, lower)
<1>5. RaisedSteps(p, d, q, lower)
  BY <1>4
<1>6. \A e : MultipliedUp(d, q, e, lower) = p[e]
  BY RaisedUnfolds
<1> HIDE DEF p
<1>7. p[0] = d /\ \A e \in Nat : p[e + 1] = IF p[e] > lower THEN p[e] ELSE p[e] * q
  <2>1. \A e \in Nat : p[e] = IF e = 0 THEN d ELSE IF p[e - 1] > lower THEN p[e - 1] ELSE p[e - 1] * q
    BY <1>5 DEF RaisedSteps
  <2>2. \A e \in Nat : e + 1 \in Nat /\ e + 1 # 0 /\ (e + 1) - 1 = e
    OBVIOUS
  <2> QED
    BY <2>1, <2>2
<1> DEFINE T == {e \in Nat : \E s \in 0 .. e : p[e] = d * Power(q, s)}
<1>8. 0 \in T
  <2>1. d = d * Power(q, 0) /\ 0 \in 0 .. 0
    BY PowerFacts
  <2> QED
    BY <1>7, <2>1
<1>9. ASSUME NEW e \in T PROVE e + 1 \in T
  <2>1. e \in Nat
    OBVIOUS
  <2>2. PICK s \in 0 .. e : p[e] = d * Power(q, s)
    OBVIOUS
  <2>3. CASE p[e] > lower
    <3>1. p[e + 1] = d * Power(q, s) /\ s \in 0 .. e + 1
      BY <1>7, <2>1, <2>2, <2>3
    <3> QED
      BY <2>1, <3>1
  <2>4. CASE ~(p[e] > lower)
    <3> DEFINE x == Power(q, s)
    <3>0. s \in Nat
      BY <2>1
    <3>1. x \in Nat /\ Power(q, s + 1) = x * q
      BY <3>0, PowerFacts
    <3>2. p[e + 1] = (d * x) * q
      BY <1>7, <2>1, <2>2, <2>4
    <3> HIDE DEF x
    <3>3. (d * x) * q = d * (x * q)
      BY <3>1
    <3>4. p[e + 1] = d * Power(q, s + 1) /\ s + 1 \in 0 .. e + 1
      BY <2>1, <3>1, <3>2, <3>3
    <3> QED
      BY <2>1, <3>4
  <2> QED
    BY <2>3, <2>4
<1>10. T = Nat
  <2>1. T \in SUBSET Nat
    OBVIOUS
  <2> HIDE DEF T
  <2> QED
    BY <1>8, <1>9, <2>1, NaturalInduction
<1>11. \A e \in Nat : \E s \in 0 .. e : p[e] = d * Power(q, s)
  BY <1>10
<1> HIDE DEF T
<1> QED
  BY <1>6, <1>11

\* A prime that the greedy choice does not use.
Skipped(f, limit, odd_only, j) == f.primes[j] > limit.n4 \/ (odd_only /\ f.primes[j] = 2)

\* The recursion of FirstAbove.
AboveSteps(h, f, limit, odd_only) ==
  h = [j \in 1 .. Len(f.primes) + 1 |->
         IF j = Len(f.primes) + 1 THEN 1
         ELSE IF Skipped(f, limit, odd_only, j) THEN h[j + 1]
         ELSE MultipliedUp(h[j + 1], f.primes[j], f.exponents[j], limit.lower)]

\* FirstAbove is its recursion.
LEMMA AboveUnfolds ==
  ASSUME NEW f, NEW limit, NEW odd_only
  PROVE  FirstAbove(f, limit, odd_only) = (CHOOSE h : AboveSteps(h, f, limit, odd_only))[1]
  BY Zenon DEF FirstAbove, AboveSteps, Skipped

\* The greedy product divides the number.
LEMMA FirstAboveFacts ==
  ASSUME NEW f, Listed(f), NEW limit, limit.lower \in Nat, NEW odd_only
  PROVE  /\ FirstAbove(f, limit, odd_only) \in Nat /\ FirstAbove(f, limit, odd_only) > 0
         /\ Multiple(Value(f, f.exponents), FirstAbove(f, limit, odd_only))
<1> DEFINE k == Len(f.primes)
           skip(i) == Skipped(f, limit, odd_only, i)
           up(v, i) == MultipliedUp(v, f.primes[i], f.exponents[i], limit.lower)
           step == [z \in Nat \X Nat |->
                      IF z[1] \in 1 .. k THEN IF skip(z[1]) THEN z[2] ELSE up(z[2], z[1]) ELSE 0]
<1>1. /\ k \in Nat
      /\ \A i \in 1 .. k : f.primes[i] \in Nat /\ f.primes[i] > 1 /\ f.exponents[i] \in Nat
  BY DEF Listed, SmallPrime
<1>2. \A i \in 1 .. k : \A v \in Nat : \E s \in 0 .. f.exponents[i] : up(v, i) = v * Power(f.primes[i], s)
  <2> TAKE i \in 1 .. k
  <2> DEFINE q == f.primes[i]
             e == f.exponents[i]
             lower == limit.lower
  <2>1. q \in Nat /\ e \in Nat /\ lower \in Nat
    BY <1>1
  <2> HIDE DEF q, e, lower
  <2>2. \A v \in Nat : \E s \in 0 .. e : MultipliedUp(v, q, e, lower) = v * Power(q, s)
    <3> TAKE v \in Nat
    <3>1. \A n \in Nat : \E s \in 0 .. n : MultipliedUp(v, q, n, lower) = v * Power(q, s)
      BY <2>1, MultipliedUpFacts, Zenon
    <3> QED
      BY <2>1, <3>1, Zenon
  <2> QED
    BY <2>2, Zenon DEF q, e, lower, up
<1>3. \A i \in 1 .. k : \A v \in Nat : up(v, i) \in Nat
  <2> TAKE i \in 1 .. k
  <2> TAKE v \in Nat
  <2>1. PICK s \in 0 .. f.exponents[i] : up(v, i) = v * Power(f.primes[i], s)
    BY <1>2
  <2>2. s \in Nat /\ f.primes[i] \in Nat
    BY <1>1
  <2>3. Power(f.primes[i], s) \in Nat
    BY <2>2, PowerFacts
  <2> QED
    BY <2>1, <2>3
<1> HIDE DEF skip, up
<1>4. step \in [Nat \X Nat -> Nat]
  BY <1>3
<1>5. \A i \in 1 .. k : \A v \in Nat : step[<<i, v>>] = IF skip(i) THEN v ELSE up(v, i)
  <2> TAKE i \in 1 .. k
  <2> TAKE v \in Nat
  <2>1. <<i, v>> \in Nat \X Nat /\ <<i, v>>[1] = i /\ <<i, v>>[2] = v
    OBVIOUS
  <2> QED
    BY <2>1
<1> HIDE DEF step
<1>6. PICK h : /\ h \in [1 .. k + 1 -> Nat] /\ h[k + 1] = 1
               /\ \A i \in 1 .. k : h[i] = step[<<i, h[i + 1]>>]
  <2>1. 1 \in Nat
    OBVIOUS
  <2> HIDE DEF k
  <2> QED
    BY <1>1, <1>4, <2>1, BackwardExists
<1>7. AboveSteps(h, f, limit, odd_only)
  <2>1. ASSUME NEW i \in 1 .. k + 1
        PROVE h[i] = IF i = k + 1 THEN 1 ELSE IF skip(i) THEN h[i + 1] ELSE up(h[i + 1], i)
    <3>1. CASE i = k + 1
      BY <1>6, <3>1
    <3>2. CASE i # k + 1
      <4>1. i \in 1 .. k /\ i + 1 \in 1 .. k + 1
        BY <1>1, <3>2
      <4>2. h[i + 1] \in Nat
        BY <1>6, <4>1
      <4> QED
        BY <1>5, <1>6, <3>2, <4>1, <4>2
    <3> QED
      BY <3>1, <3>2
  <2>2. h = [i \in 1 .. k + 1 |-> h[i]]
    BY <1>6
  <2> QED
    BY <2>1, <2>2 DEF AboveSteps, skip, up
<1> DEFINE p == CHOOSE g : AboveSteps(g, f, limit, odd_only)
<1>8. AboveSteps(p, f, limit, odd_only)
  BY <1>7
<1>9. FirstAbove(f, limit, odd_only) = p[1]
  BY AboveUnfolds
<1> HIDE DEF p
<1>10. \A i \in 1 .. k + 1 :
         p[i] = IF i = k + 1 THEN 1 ELSE IF skip(i) THEN p[i + 1] ELSE up(p[i + 1], i)
  BY <1>8 DEF AboveSteps, skip, up
<1> DEFINE m == SuffixOf(f)
<1>11. SuffixProducts(m, f)
  BY SuffixOfFacts
<1>12. m[k + 1] = 1 /\ \A i \in 1 .. k : m[i] = m[i + 1] * Power(f.primes[i], f.exponents[i])
  BY <1>11 DEF SuffixProducts
<1>13. /\ \A i \in 1 .. k + 1 : m[i] \in Nat /\ m[i] > 0
       /\ Prefix(f, f.exponents)[1 - 1] * m[1] = Value(f, f.exponents)
  <2>1. 1 \in 1 .. k + 1
    BY <1>1
  <2> QED
    BY <1>11, <2>1, SuffixFacts
<1> HIDE DEF m
<1> DEFINE Right(i) == p[i] \in Nat /\ p[i] > 0 /\ \E c \in Nat : m[i] = p[i] * c
           T == {e \in Nat : e <= k => Right((k + 1) - e)}
<1>14. 0 \in T
  <2>1. (k + 1) - 0 = k + 1 /\ k + 1 \in 1 .. k + 1 /\ 1 = 1 * 1
    BY <1>1
  <2>2. p[k + 1] = 1
    BY <1>10, <2>1
  <2>3. Right(k + 1)
    BY <1>12, <2>1, <2>2
  <2> QED
    BY <2>1, <2>3
<1>15. ASSUME NEW e \in T PROVE e + 1 \in T
  <2> SUFFICES ASSUME e + 1 <= k PROVE Right((k + 1) - (e + 1))
    OBVIOUS
  <2> DEFINE i == k - e
  <2>1. i \in 1 .. k /\ i \in 1 .. k + 1 /\ (k + 1) - (e + 1) = i /\ (k + 1) - e = i + 1 /\ i # k + 1
    BY <1>1
  <2>2. Right(i + 1)
    BY <1>1, <2>1
  <2> HIDE DEF i
  <2> DEFINE q == f.primes[i]
             x == f.exponents[i]
             v == p[i + 1]
             w == Power(q, x)
  <2>3. q \in Nat /\ q > 1 /\ x \in Nat
    BY <1>1, <2>1
  <2>4. v \in Nat /\ v > 0
    BY <2>2
  <2>5. PICK c \in Nat : m[i + 1] = v * c
    BY <2>2
  <2>6. w \in Nat /\ m[i] = m[i + 1] * w
    BY <1>12, <2>1, <2>3, PowerFacts
  <2>7. p[i] = IF skip(i) THEN v ELSE up(v, i)
    BY <1>10, <2>1
  <2>8. \E s \in 0 .. x : p[i] = v * Power(q, s)
    <3>1. CASE skip(i)
      <4>1. Power(q, 0) = 1
        BY <2>3, PowerFacts
      <4>2. p[i] = v /\ 0 \in 0 .. x
        BY <2>3, <2>7, <3>1
      <4> HIDE DEF q, x, v
      <4>3. v = v * 1
        BY <2>4
      <4> QED
        BY <4>1, <4>2, <4>3
    <3>2. CASE ~skip(i)
      <4>1. p[i] = up(v, i)
        BY <2>7, <3>2
      <4> HIDE DEF v
      <4> QED
        BY <1>2, <2>1, <2>4, <4>1
    <3> QED
      BY <3>1, <3>2
  <2>9. PICK s \in 0 .. x : p[i] = v * Power(q, s)
    BY <2>8
  <2>10. s \in Nat /\ s <= x
    BY <2>3
  <2> HIDE DEF q, x, v, w
  <2>11. PICK r \in Nat : r > 0 /\ Power(q, x) = Power(q, s) * r /\ Power(q, s) > 0
    <3>1. \E r \in Nat : r > 0 /\ Power(q, x) = Power(q, s) * r /\ Power(q, s) > 0
                         /\ (s < x => Multiple(r, q))
      BY <2>3, <2>10, PowerDivides
    <3> QED
      BY <3>1
  <2> DEFINE u == Power(q, s)
  <2>12. u \in Nat /\ u > 0 /\ w = u * r /\ p[i] = v * u
    BY <2>3, <2>9, <2>10, <2>11, PowerFacts DEF w
  <2> HIDE DEF u
  <2>13. m[i] = (v * c) * (u * r)
    BY <2>5, <2>6, <2>12
  <2>14. (v * c) * (u * r) = (v * u) * (c * r) /\ c * r \in Nat /\ v * u \in Nat /\ v * u > 0
    BY <2>4, <2>12
  <2>15. Right(i)
    BY <2>12, <2>13, <2>14
  <2> QED
    BY <2>1, <2>15
<1>16. T = Nat
  <2>1. T \in SUBSET Nat
    OBVIOUS
  <2> HIDE DEF T
  <2> QED
    BY <1>14, <1>15, <2>1, NaturalInduction
<1>17. Right((k + 1) - k)
  <2> HIDE DEF Right
  <2> QED
    BY <1>1, <1>16
<1>18. (k + 1) - k = 1 /\ 1 - 1 = 0
  BY <1>1
<1> HIDE DEF T
<1>19. PICK c \in Nat : m[1] = p[1] * c
  BY <1>17, <1>18
<1>20. Value(f, f.exponents) = m[1]
  <2>1. f.exponents \in Vectors(f)
    BY DEF Listed, Vectors
  <2>2. Prefix(f, f.exponents)[0] = 1
    BY <2>1, PrefixFacts
  <2>3. m[1] \in Nat
    BY <1>1, <1>13
  <2> QED
    BY <1>13, <1>18, <2>2, <2>3
<1>21. p[1] \in Nat /\ p[1] > 0 /\ c \in Int
  BY <1>17, <1>18
<1> QED
  BY <1>9, <1>19, <1>20, <1>21 DEF Multiple

\* The length in bits of a number that is not zero.
LEMMA BitLengthFacts ==
  ASSUME NEW n \in Nat, n > 0
  PROVE  BitLength(n) \in Nat
<1> DEFINE T == {b \in Nat : n < Power(2, b)}
<1>0. 2 \in Nat /\ 2 > 1
  OBVIOUS
<1>1. n < Power(2, n) /\ \A b \in Nat : Power(2, b) \in Nat /\ Power(2, b) > b
  BY <1>0, PowerFacts, PowerGrows
<1>2. n \in T /\ T \in SUBSET Nat
  BY <1>1
<1>3. PICK b \in T : \A c \in T : b <= c
  <2> HIDE DEF T
  <2> QED
    BY <1>2, LeastNatural
<1>4. b # 0
  <2>1. Power(2, 0) = 1
    BY <1>0, PowerFacts
  <2> QED
    BY <2>1
<1>5. b - 1 \in Nat /\ b - 1 \notin T
  BY <1>3, <1>4
<1>6. Power(2, b - 1) <= n /\ b <= n
  BY <1>1, <1>5
<1>7. \E c \in 1 .. n : Power(2, c - 1) <= n /\ n < Power(2, c)
  BY <1>4, <1>5, <1>6
<1> DEFINE x == BitLength(n)
<1>8. x \in 1 .. n
  BY <1>7, Zenon DEF BitLength
<1> QED
  BY <1>8

\* The bounds of a field are numbers, and the lower one is not zero.
LEMMA BoundsFacts ==
  ASSUME NEW p \in Nat, p > 0
  PROVE  Bounds(p).n4 \in Nat /\ Bounds(p).lower \in Nat /\ Bounds(p).lower > 0
<1> DEFINE root == Isqrt(p)
           twice == Isqrt(4 * root)
<1>1. root \in Nat
  BY IsqrtFacts
<1>2. 4 * root \in Nat
  BY <1>1
<1>3. twice \in Nat
  <2> HIDE DEF root
  <2> QED
    BY <1>2, IsqrtFacts
<1>4. Power(BitLength(p), 4) \in Nat
  <2>1. BitLength(p) \in Nat /\ 4 \in Nat
    BY BitLengthFacts
  <2> QED
    BY <2>1, PowerFacts
<1>5. Bounds(p).n4 = Power(BitLength(p), 4) /\ Bounds(p).lower = root + 1 + twice
  BY DEF Bounds
<1> HIDE DEF root, twice
<1> QED
  BY <1>1, <1>3, <1>4, <1>5

-----------------------------------------------------------------------------
(* The search.                                                             *)

\* The first prime of a vector.
Leads(a, l) == a[l] # 0 /\ \A i \in 1 .. l - 1 : a[i] = 0

\* A vector whose value is in the window.
Good(f, lower, a) ==
  /\ a \in Vectors(f) /\ Below(f, a) /\ lower < Value(f, a)
  /\ \E l \in 1 .. Len(f.primes) : Leads(a, l) /\ Value(f, a) < lower * f.primes[l]

\* The search has not begun.
Untouched ==
  least_index = 1 /\ stack = <<>> /\ selected_exponents = [i \in 1 .. FactorCount |-> 0]

\* The index of the frame at the top.
Depth == least_index + Len(stack) - 1

\* The exponents that are behind the search at an index.
Edge(i) == IF i < Depth THEN selected_exponents[i] ELSE stack[1].exponent

\* A vector follows the search up to an index.
Agrees(a, n) == \A i \in 1 .. n : a[i] = selected_exponents[i]

\* The vectors that are behind the search.
Done(a) ==
  \/ \E i \in 1 .. least_index - 1 : a[i] # 0
  \/ /\ Leads(a, least_index)
     /\ \E i \in least_index .. Depth : i <= FactorCount /\ Agrees(a, i - 1) /\ a[i] < Edge(i)

\* The frames of descend.
FrameSet == [index : Nat, partial : Nat, called : BOOLEAN, exponent : Nat]

\* The exponent a frame begins with: the least prime is always used.
Initial(index) == IF index = least_index THEN 1 ELSE 0

\* A frame stands for one index, holds the product of what was selected before
\* it, and below the top it has moved past the exponent that was selected.
FrameRight(j) ==
  LET frame == stack[j] IN
  /\ frame \in FrameSet
  /\ frame.index = (least_index + Len(stack)) - j
  /\ frame.partial = Prefix(factors, selected_exponents)[frame.index - 1]
  /\ frame.exponent >= Initial(frame.index)
  /\ frame.called => frame.exponent = Initial(frame.index)
  /\ ~frame.called => frame.index <= FactorCount
  /\ j > 1 => ~frame.called /\ frame.exponent = selected_exponents[frame.index] + 1

\* The stack holds the indices from the least prime on, without a gap.
Frames ==
  /\ stack \in Seq(FrameSet)
  /\ least_index \in Nat /\ least_index > 0 /\ least_index <= FactorCount + 1
  /\ Depth <= FactorCount + 1
  /\ Len(stack) > 0 => least_index <= FactorCount
  /\ \A j \in 1 .. Len(stack) : FrameRight(j)

\* Nothing is selected outside the branch: other branches were reset.
Selected ==
  /\ selected_exponents \in Vectors(factors) /\ Below(factors, selected_exponents)
  /\ \A i \in 1 .. FactorCount : i < least_index \/ i > Depth => selected_exponents[i] = 0
  /\ Len(stack) > 0 /\ stack[1].called /\ Depth <= FactorCount => selected_exponents[Depth] = 0
  /\ Len(stack) > 1 => selected_exponents[least_index] # 0

\* The orders that were visited before the search.
Greedy == {preferred[1], preferred[2]} \ {NoOrder}

\* The vectors of the admissible orders.
GoodVectors == {a \in Vectors(factors) : Good(factors, bounds.lower, a)}

\* What must have been visited: the greedy choices and the orders behind the search.
Seen == Greedy \cup {Value(factors, a) : a \in {b \in GoodVectors : Done(b)}}

\* No order twice, and every order with its primes.
Visits ==
  /\ visited \in Seq([order : Nat, primes : Seq(Nat)])
  /\ IsFiniteSet(VisitedOrders) /\ Cardinality(VisitedOrders) = Len(visited)
  /\ PrimesMatch

\* Before the end.
NoResult == [failure |-> "none", limit |-> "none", stopped_early |-> FALSE]

\* The greedy choices are admissible.
Chosen == preferred \in [1 .. 2 -> Nat] /\ Greedy \subseteq Admissible

\* The inductive invariant: the orders visited are exactly those behind the search.
EInv ==
  /\ input \in Orders /\ limits \in Limits
  /\ bounds = Bounds(input.prime) /\ factors = Factorization(input.smooth)
  /\ pc \in {"prepare", "preferred", "preferred_odd", "descend", "done"}
  /\ pc # "done" => result = NoResult
  /\ pc = "prepare" => Untouched /\ preferred = <<NoOrder, NoOrder>> /\ visited = <<>>
  /\ pc \in {"preferred", "preferred_odd", "descend"} => input.smooth > 0 /\ Chosen /\ Visits
  /\ pc \in {"preferred", "preferred_odd"} => Untouched /\ preferred[2] = NoOrder
  /\ pc = "preferred" => visited = <<>>
  /\ pc = "preferred_odd" => VisitedOrders = Greedy
  /\ pc = "descend" => Frames /\ Selected /\ VisitedOrders = Seen
  /\ pc = "done" => AdmissibleOnce /\ PrimesMatch

-----------------------------------------------------------------------------
(* What the window holds.                                                  *)

\* The admissible orders of a smooth part.
Window(n, lower) ==
  {d \in 2 .. n : /\ Divides(d, n) /\ d > lower
                  /\ \A r \in 2 .. d : Divides(r, d) => d < lower * r}

\* A prime that divides the value of a vector is one of its primes.
LEMMA ValuePrime ==
  ASSUME NEW f, Listed(f), NEW a \in Vectors(f), NEW q \in Nat, SmallPrime(q)
  PROVE  /\ Value(f, a) \in Nat /\ Value(f, a) > 0
         /\ Multiple(Value(f, a), q) <=> \E j \in 1 .. Len(f.primes) : f.primes[j] = q /\ a[j] # 0
<1>1. Len(f.primes) \in 0 .. Len(f.primes)
  BY DEF Listed
<1>2. Value(f, a) \in Nat /\ Value(f, a) > 0
  BY <1>1, PrefixFacts DEF Value
<1>3. Multiple(Value(f, a), q) <=> \E j \in 1 .. Len(f.primes) : f.primes[j] = q /\ a[j] # 0
  BY <1>1, PrefixPrimes DEF Value
<1> QED
  BY <1>2, <1>3

\* The vectors of the divisors in the window.
LEMMA GoodIsInWindow ==
  ASSUME NEW n \in Nat, n > 0, NEW f, f = Factorization(n), NEW lower \in Nat, NEW a, Good(f, lower, a)
  PROVE  Value(f, a) \in Window(n, lower)
<1> DEFINE d == Value(f, a)
           k == Len(f.primes)
<1>1. Listed(f) /\ Value(f, f.exponents) = n
  BY FactorizationFacts
<1>2. a \in Vectors(f) /\ Below(f, a) /\ lower < d
  BY DEF Good
<1>3. PICK l \in 1 .. k : Leads(a, l) /\ d < lower * f.primes[l]
  BY DEF Good
<1>4. /\ k \in Nat
      /\ \A i \in 1 .. k : f.primes[i] \in Nat /\ SmallPrime(f.primes[i]) /\ f.primes[i] > 1
      /\ \A i, j \in 1 .. k : i < j => f.primes[i] < f.primes[j]
  BY <1>1 DEF Listed, SmallPrime
<1>5. /\ d \in Nat /\ d > 0
      /\ \A q \in Nat : SmallPrime(q) =>
           (Multiple(d, q) <=> \E j \in 1 .. k : f.primes[j] = q /\ a[j] # 0)
  <2>1. \A q \in Nat : SmallPrime(q) =>
          /\ d \in Nat /\ d > 0
          /\ Multiple(d, q) <=> \E j \in 1 .. k : f.primes[j] = q /\ a[j] # 0
    BY <1>1, <1>2, ValuePrime
  <2>2. f.primes[l] \in Nat /\ SmallPrime(f.primes[l])
    BY <1>4
  <2> HIDE DEF d
  <2> QED
    BY <2>1, <2>2
<1> DEFINE h == SuffixOf(f)
<1>6. Multiple(n, d)
  <2>1. SuffixProducts(h, f)
    BY <1>1, SuffixOfFacts
  <2> HIDE DEF h
  <2>2. 1 \in 1 .. k + 1 /\ 1 - 1 = 0
    BY <1>4
  <2>3. /\ Prefix(f, f.exponents)[0] * h[1] = n
        /\ \E r \in Nat : r > 0 /\ Prefix(f, a)[0] * h[1] = d * r
    BY <1>1, <1>2, <2>1, <2>2, SuffixFacts, ValueBetween
  <2>4. Prefix(f, f.exponents)[0] = 1 /\ Prefix(f, a)[0] = 1
    <3>1. f.exponents \in Vectors(f)
      BY <1>1 DEF Listed, Vectors
    <3> QED
      BY <1>1, <1>2, <3>1, PrefixFacts
  <2>5. PICK r \in Nat : n = d * r
    BY <2>3, <2>4
  <2> HIDE DEF d
  <2> QED
    BY <1>5, <2>5, ProductMultiple
<1> HIDE DEF d
<1>7. Divides(d, n) /\ d <= n
  <2>1. \E r \in Nat : r > 0 /\ n = d * r /\ d > 0 /\ d <= n /\ r <= n
    BY <1>5, <1>6, NaturalQuotient
  <2> QED
    BY <1>5, <1>6, <2>1, DividesMultiple
<1> DEFINE x == f.primes[l]
<1>8. x \in Nat /\ x > 1 /\ SmallPrime(x) /\ d < lower * x
  BY <1>3, <1>4
<1>9. d >= 2
  <2>1. Multiple(d, x)
    BY <1>3, <1>4, <1>5 DEF Leads
  <2> HIDE DEF x
  <2>2. \E r \in Nat : r > 0 /\ d = x * r /\ x > 0 /\ x <= d /\ r <= d
    BY <1>5, <1>8, <2>1, NaturalQuotient
  <2> QED
    BY <1>5, <1>8, <2>2
<1>10. ASSUME NEW r \in 2 .. d, Divides(r, d) PROVE d < lower * r
  <2>1. r \in Nat /\ r > 1 /\ r > 0
    BY <1>5
  <2>2. Multiple(d, r)
    BY <1>5, <1>10, <2>1, DividesMultiple
  <2>3. PICK q \in 2 .. r : SmallPrime(q) /\ Multiple(r, q)
    BY <2>1, PrimeDivisor
  <2>4. q \in Nat /\ q <= r
    BY <2>1
  <2>5. Multiple(d, q)
    <3>1. d \in Int /\ r \in Int /\ q \in Int
      BY <1>5, <2>1, <2>4
    <3> QED
      BY <2>2, <2>3, <3>1, MultipleTrans
  <2>6. PICK j \in 1 .. k : f.primes[j] = q /\ a[j] # 0
    BY <1>5, <2>3, <2>4, <2>5
  <2>7. ~(j < l)
    <3>1. j < l => j \in 1 .. l - 1
      BY <1>4
    <3> QED
      BY <1>3, <2>6, <3>1 DEF Leads
  <2>8. x <= q
    <3>1. CASE j = l
      BY <1>8, <2>6, <3>1
    <3>2. CASE j # l
      <4>1. l < j
        BY <1>4, <2>7, <3>2
      <4>2. f.primes[l] < f.primes[j]
        BY <1>4, <4>1
      <4> QED
        BY <1>8, <2>4, <2>6, <4>2
    <3> QED
      BY <3>1, <3>2
  <2> HIDE DEF x
  <2>9. PICK u \in Nat : r = x + u
    <3>1. r - x \in Nat /\ r = x + (r - x)
      BY <1>8, <2>1, <2>4, <2>8
    <3> QED
      BY <3>1
  <2> DEFINE y == lower * x
             z == lower * u
  <2>10. lower * r = y + z /\ z \in Nat /\ y \in Nat /\ d < y
    BY <1>8, <2>9
  <2> HIDE DEF y, z
  <2>11. d < y + z
    BY <1>5, <2>10
  <2> QED
    BY <2>10, <2>11
<1> QED
  BY <1>2, <1>5, <1>7, <1>9, <1>10 DEF Window, d

\* Every admissible order is the value of a good vector.
LEMMA WindowHasVectors ==
  ASSUME NEW n \in Nat, n > 0, NEW f, f = Factorization(n), NEW lower \in Nat,
         NEW d \in Window(n, lower)
  PROVE  \E a \in Vectors(f) : Good(f, lower, a) /\ Value(f, a) = d
<1> DEFINE k == Len(f.primes)
<1>1. Listed(f) /\ Value(f, f.exponents) = n
  BY FactorizationFacts
<1>2. d \in Nat /\ d > 1 /\ Divides(d, n) /\ d > lower
      /\ \A r \in 2 .. d : Divides(r, d) => d < lower * r
  BY DEF Window
<1>3. Multiple(n, d)
  BY <1>2, DividesMultiple
<1>4. PICK a \in Vectors(f) : Below(f, a) /\ Value(f, a) = d
  <2>1. Multiple(Value(f, f.exponents), d) /\ d > 0
    BY <1>1, <1>2, <1>3
  <2> QED
    BY <1>1, <1>2, <2>1, DivisorVector
<1>5. PICK q \in 2 .. d : SmallPrime(q) /\ Multiple(d, q)
  BY <1>2, PrimeDivisor
<1>6. q \in Nat
  BY <1>2
<1>7. PICK j \in 1 .. k : f.primes[j] = q /\ a[j] # 0
  BY <1>1, <1>4, <1>5, <1>6, ValuePrime
<1>8. /\ k \in Nat
      /\ \A i \in 1 .. k : f.primes[i] \in Nat /\ SmallPrime(f.primes[i]) /\ f.primes[i] > 1
  BY <1>1 DEF Listed, SmallPrime
<1> DEFINE T == {i \in 1 .. k : a[i] # 0}
<1>9. PICK l \in T : \A i \in T : l <= i
  <2>1. T \in SUBSET Nat /\ T # {}
    BY <1>7, <1>8
  <2> HIDE DEF T
  <2> QED
    BY <2>1, LeastNatural
<1>10. l \in 1 .. k /\ Leads(a, l)
  <2>1. ASSUME NEW i \in 1 .. l - 1 PROVE a[i] = 0
    <3>1. i \in 1 .. k /\ ~(l <= i)
      BY <1>8
    <3> QED
      BY <1>9, <3>1
  <2> QED
    BY <2>1 DEF Leads
<1> DEFINE x == f.primes[l]
<1>11. x \in Nat /\ SmallPrime(x) /\ x > 1
  BY <1>8, <1>10
<1>12. Multiple(d, x)
  <2>1. a[l] # 0 /\ f.primes[l] = x
    BY <1>10 DEF Leads
  <2> HIDE DEF x
  <2>2. Multiple(Value(f, a), x) <=> \E i \in 1 .. k : f.primes[i] = x /\ a[i] # 0
    BY <1>1, <1>11, ValuePrime
  <2>3. l \in 1 .. k
    BY <1>10
  <2> HIDE DEF k
  <2>4. \E i \in 1 .. k : f.primes[i] = x /\ a[i] # 0
    BY <2>1, <2>3, Zenon
  <2> QED
    BY <1>4, <2>2, <2>4 DEF k
<1> HIDE DEF x
<1>13. x \in 2 .. d /\ Divides(x, d)
  <2>1. \E r \in Nat : r > 0 /\ d = x * r /\ x > 0 /\ x <= d /\ r <= d
    <3>1. d \in Nat /\ d > 0
      BY <1>2
    <3> QED
      BY <1>11, <1>12, <3>1, NaturalQuotient, Zenon
  <2>2. Divides(x, d)
    BY <1>2, <1>11, <1>12, DividesMultiple
  <2> QED
    BY <1>2, <1>11, <2>1, <2>2
<1>14. d < lower * x
  BY <1>2, <1>13
<1>15. Good(f, lower, a)
  BY <1>2, <1>4, <1>10, <1>14 DEF Good, x
<1> QED
  BY <1>4, <1>15

\* A greedy choice is in the window.
LEMMA PreferredIsInWindow ==
  ASSUME NEW n \in Nat, n > 0, NEW f, f = Factorization(n),
         NEW limit, limit.lower \in Nat, limit.lower > 0, NEW odd_only
  PROVE  \/ PreferredOrder(f, limit, odd_only) = NoOrder
         \/ /\ PreferredOrder(f, limit, odd_only) \in Window(n, limit.lower)
            /\ PreferredOrder(f, limit, odd_only) \in Nat
            /\ PreferredOrder(f, limit, odd_only) # NoOrder
<1> DEFINE d == FirstAbove(f, limit, odd_only)
           lower == limit.lower
<1>1. Listed(f) /\ Value(f, f.exponents) = n
  BY FactorizationFacts
<1>2. d \in Nat /\ d > 0 /\ Multiple(n, d)
  BY <1>1, FirstAboveFacts
<1>3. PreferredOrder(f, limit, odd_only) = IF InWindow(d, limit) THEN d ELSE NoOrder
  BY DEF PreferredOrder
<1>4. InWindow(d, limit) <=> d > lower /\ \A r \in 2 .. d \div lower : ~Divides(r, d)
  BY DEF InWindow
<1>5. lower \in Nat /\ lower > 0
  OBVIOUS
<1> HIDE DEF d, lower
<1>6. ASSUME d > lower, \A r \in 2 .. d \div lower : ~Divides(r, d) PROVE d \in Window(n, lower)
  <2>1. Divides(d, n) /\ d <= n
    <3>1. \E r \in Nat : r > 0 /\ n = d * r /\ d > 0 /\ d <= n /\ r <= n
      BY <1>2, NaturalQuotient
    <3> QED
      BY <1>2, <3>1, DividesMultiple
  <2> DEFINE c == d \div lower
  <2>2. c \in Nat /\ d % lower \in 0 .. lower - 1 /\ d = lower * c + (d % lower)
    BY <1>2, <1>5, DivFacts
  <2> HIDE DEF c
  <2>3. ASSUME NEW r \in 2 .. d, Divides(r, d) PROVE d < lower * r
    <3>1. r \in Nat /\ r >= 2
      BY <1>2
    <3>2. r > c
      <4>1. r \notin 2 .. c
        BY <1>6, <2>3 DEF c
      <4> QED
        BY <2>2, <3>1, <4>1
    <3>3. PICK u \in Nat : r = (c + 1) + u
      <4>1. r - (c + 1) \in Nat /\ r = (c + 1) + (r - (c + 1))
        BY <2>2, <3>1, <3>2
      <4> QED
        BY <4>1
    <3>4. lower * r = lower * c + lower + lower * u /\ lower * u \in Nat /\ lower * c \in Nat
      BY <1>5, <2>2, <3>3
    <3> QED
      BY <1>2, <1>5, <2>2, <3>4
  <2> QED
    BY <1>2, <1>5, <1>6, <2>1, <2>3 DEF Window
<1> QED
  BY <1>2, <1>3, <1>4, <1>6 DEF NoOrder, lower

\* The primes collected from a vector are those of its value.
LEMMA SelectedAreItsPrimes ==
  ASSUME NEW f, Listed(f), NEW a \in Vectors(f)
  PROVE  Ascending({f.primes[i] : i \in {j \in 1 .. Len(f.primes) : a[j] # 0}}) = PrimesOf(Value(f, a))
<1> DEFINE k == Len(f.primes)
           n == Value(f, a)
           S == {f.primes[i] : i \in {j \in 1 .. k : a[j] # 0}}
           U == {q \in 2 .. n : Divides(q, n) /\ IsPrime(q)}
<1>1. /\ k \in Nat
      /\ \A i \in 1 .. k : f.primes[i] \in Nat /\ SmallPrime(f.primes[i]) /\ f.primes[i] > 1
  BY DEF Listed, SmallPrime
<1>2. \A q \in Nat : SmallPrime(q) =>
        /\ n \in Nat /\ n > 0
        /\ Multiple(n, q) <=> \E j \in 1 .. k : f.primes[j] = q /\ a[j] # 0
  BY ValuePrime
<1>3. n \in Nat /\ n > 0
  <2>1. k \in 0 .. k
    BY <1>1
  <2> QED
    BY <2>1, PrefixFacts DEF Value
<1>4. \A q \in Nat : q \in S <=> \E j \in 1 .. k : f.primes[j] = q /\ a[j] # 0
  OBVIOUS
<1>5. \A q \in S : q \in Nat /\ SmallPrime(q) /\ q > 1
  BY <1>1
<1> HIDE DEF n, S
<1>6. \A q \in S : q \in U
  <2> TAKE q \in S
  <2>1. q \in Nat /\ SmallPrime(q) /\ q > 1
    BY <1>5
  <2>2. Multiple(n, q)
    BY <1>2, <1>4, <2>1
  <2>3. \E r \in Nat : r > 0 /\ n = q * r /\ q > 0 /\ q <= n /\ r <= n
    BY <1>3, <2>1, <2>2, NaturalQuotient
  <2>4. Divides(q, n) /\ IsPrime(q)
    BY <1>3, <2>1, <2>2, DividesMultiple, IsPrimeFacts
  <2> QED
    BY <1>3, <2>1, <2>3, <2>4
<1>7. \A q \in U : q \in S
  <2> TAKE q \in U
  <2>1. q \in Nat /\ q > 0 /\ Divides(q, n) /\ IsPrime(q)
    BY <1>3
  <2>2. SmallPrime(q) /\ Multiple(n, q)
    BY <1>3, <2>1, DividesMultiple, IsPrimeFacts
  <2> QED
    BY <1>2, <1>4, <2>1, <2>2
<1>8. S = U
  BY <1>6, <1>7
<1> QED
  BY <1>8 DEF PrimesOf, S, n

\* No exponent, no factor.
LEMMA PrefixOfZeros ==
  ASSUME NEW f, Listed(f), NEW a \in Vectors(f), NEW m \in Nat, m <= Len(f.primes),
         \A i \in 1 .. m : a[i] = 0
  PROVE  Prefix(f, a)[m] = 1
<1> DEFINE g == Prefix(f, a)
           T == {n \in Nat : n <= m => g[n] = 1}
<1>1. /\ g[0] = 1
      /\ \A i \in 1 .. Len(f.primes) : g[i] = g[i - 1] * Power(f.primes[i], a[i])
  BY PrefixFacts
<1>2. Len(f.primes) \in Nat /\ \A i \in 1 .. Len(f.primes) : f.primes[i] \in Nat
  BY DEF Listed
<1> HIDE DEF g
<1>3. 0 \in T
  BY <1>1
<1>4. ASSUME NEW n \in T PROVE n + 1 \in T
  <2> SUFFICES ASSUME n + 1 <= m PROVE g[n + 1] = 1
    OBVIOUS
  <2>1. n + 1 \in 1 .. Len(f.primes) /\ n + 1 \in 1 .. m /\ (n + 1) - 1 = n /\ g[n] = 1
    BY <1>2
  <2>2. Power(f.primes[n + 1], 0) = 1
    BY <1>2, <2>1, PowerFacts
  <2>3. a[n + 1] = 0
    BY <2>1
  <2> QED
    BY <1>1, <2>1, <2>2, <2>3
<1>5. T = Nat
  <2>1. T \in SUBSET Nat
    OBVIOUS
  <2> HIDE DEF T
  <2> QED
    BY <1>3, <1>4, <2>1, NaturalInduction
<1>6. g[m] = 1
  BY <1>5
<1> QED
  BY <1>6 DEF g

\* Sequences that are used as stacks.
LEMMA StackFacts ==
  ASSUME NEW S, NEW s \in Seq(S), s # <<>>
  PROVE  /\ Len(s) \in Nat /\ Len(s) > 0 /\ s[1] \in S /\ Head(s) = s[1]
         /\ Tail(s) \in Seq(S) /\ Len(Tail(s)) = Len(s) - 1
         /\ \A j \in 1 .. Len(s) - 1 : Tail(s)[j] = s[j + 1]
         /\ Tail(s) = <<>> <=> Len(s) = 1
<1>1. Len(s) \in Nat /\ Len(s) > 0 /\ s[1] \in S
  OBVIOUS
<1>2. Tail(s) \in Seq(S) /\ Len(Tail(s)) = Len(s) - 1
  OBVIOUS
<1>3. \A j \in 1 .. Len(s) - 1 : Tail(s)[j] = s[j + 1]
  OBVIOUS
<1> QED
  BY <1>1, <1>2, <1>3

\* A pop.
LEMMA TailFacts ==
  ASSUME NEW S, NEW s \in Seq(S), s # <<>>
  PROVE  /\ \A j \in 2 .. Len(s) : j - 1 \in 1 .. Len(Tail(s)) /\ Tail(s)[j - 1] = s[j]
         /\ \A j \in 3 .. Len(s) + 1 : j - 2 \in 1 .. Len(Tail(s)) /\ Tail(s)[j - 2] = s[j - 1]
<1> DEFINE r == Tail(s)
<1>1. r \in Seq(S) /\ Len(r) = Len(s) - 1 /\ Len(s) \in Nat /\ Len(s) > 0
      /\ \A j \in 1 .. Len(s) - 1 : r[j] = s[j + 1]
  BY StackFacts
<1> HIDE DEF r
<1>2. \A j \in 2 .. Len(s) : j - 1 \in 1 .. Len(r) /\ r[j - 1] = s[j]
  <2> TAKE j \in 2 .. Len(s)
  <2>1. j - 1 \in 1 .. Len(s) - 1 /\ (j - 1) + 1 = j
    BY <1>1
  <2> QED
    BY <1>1, <2>1
<1>3. \A j \in 3 .. Len(s) + 1 : j - 2 \in 1 .. Len(r) /\ r[j - 2] = s[j - 1]
  <2> TAKE j \in 3 .. Len(s) + 1
  <2>1. j - 2 \in 1 .. Len(s) - 1 /\ (j - 2) + 1 = j - 1
    BY <1>1
  <2> QED
    BY <1>1, <2>1
<1> QED
  BY <1>2, <1>3 DEF r

\* A new top.
LEMMA ReplaceFacts ==
  ASSUME NEW S, NEW s \in Seq(S), s # <<>>, NEW x \in S, NEW v, v = <<x>> \o Tail(s)
  PROVE  /\ v \in Seq(S) /\ Len(v) = Len(s) /\ v[1] = x
         /\ \A j \in 2 .. Len(s) : v[j] = s[j]
<1> DEFINE r == Tail(s)
<1>1. /\ r \in Seq(S) /\ Len(r) = Len(s) - 1 /\ Len(s) \in Nat /\ Len(s) > 0
      /\ \A j \in 2 .. Len(s) : j - 1 \in 1 .. Len(r) /\ r[j - 1] = s[j]
  BY StackFacts, TailFacts
<1> HIDE DEF r
<1>2. /\ <<x>> \o r \in Seq(S) /\ Len(<<x>> \o r) = Len(s)
      /\ (<<x>> \o r)[1] = x
      /\ \A j \in 2 .. Len(s) : (<<x>> \o r)[j] = r[j - 1]
  BY <1>1
<1> QED
  BY <1>1, <1>2 DEF r

\* A new top and a push.
LEMMA PushFacts ==
  ASSUME NEW S, NEW s \in Seq(S), s # <<>>, NEW x \in S, NEW y \in S, NEW v, v = <<x, y>> \o Tail(s)
  PROVE  /\ v \in Seq(S) /\ Len(v) = Len(s) + 1 /\ v[1] = x /\ v[2] = y
         /\ \A j \in 3 .. Len(s) + 1 : v[j] = s[j - 1]
<1> DEFINE r == Tail(s)
<1>1. /\ r \in Seq(S) /\ Len(r) = Len(s) - 1 /\ Len(s) \in Nat /\ Len(s) > 0
      /\ \A j \in 3 .. Len(s) + 1 : j - 2 \in 1 .. Len(r) /\ r[j - 2] = s[j - 1]
  BY StackFacts, TailFacts
<1> HIDE DEF r
<1>2. /\ <<x, y>> \o r \in Seq(S) /\ Len(<<x, y>> \o r) = Len(s) + 1
      /\ (<<x, y>> \o r)[1] = x /\ (<<x, y>> \o r)[2] = y
      /\ \A j \in 3 .. Len(s) + 1 : (<<x, y>> \o r)[j] = r[j - 2]
  BY <1>1
<1> QED
  BY <1>1, <1>2 DEF r

\* The input was prepared.
Ready ==
  /\ input \in Orders /\ limits \in Limits /\ input.smooth > 0
  /\ bounds = Bounds(input.prime) /\ factors = Factorization(input.smooth)

\* What is admissible, in terms of the factors.
LEMMA ReadyFacts ==
  ASSUME Ready
  PROVE  /\ Listed(factors) /\ FactorCount = Len(factors.primes) /\ FactorCount \in Nat
         /\ bounds.lower \in Nat /\ bounds.lower > 0
         /\ limits.candidates \in Nat /\ limits.candidates > 0
         /\ input.smooth \in Nat
         /\ Admissible = Window(input.smooth, bounds.lower)
         /\ \A d \in Admissible : d \in Nat /\ d # NoOrder
         /\ \A a \in GoodVectors : Value(factors, a) \in Admissible
         /\ \A d \in Admissible : \E a \in GoodVectors : Value(factors, a) = d
         /\ \A a, b \in Vectors(factors) : Value(factors, a) = Value(factors, b) => a = b
<1>1. input.smooth \in Nat /\ input.smooth > 0 /\ input.prime \in Nat /\ input.prime > 0
  BY OrdersAssumption DEF Ready
<1>2. Listed(factors) /\ FactorCount = Len(factors.primes) /\ FactorCount \in Nat
  <2>1. Listed(factors)
    BY <1>1, FactorizationFacts DEF Ready
  <2> QED
    BY <2>1 DEF Listed, FactorCount
<1>3. bounds.lower \in Nat /\ bounds.lower > 0
  BY <1>1, BoundsFacts DEF Ready
<1>4. limits.candidates \in Nat /\ limits.candidates > 0
  BY LimitsAssumption DEF Ready
<1>5. Admissible = Window(input.smooth, bounds.lower)
  <2>1. input \in Orders /\ bounds = Bounds(input.prime)
    BY DEF Ready
  <2>2. Admissible = {d \in 2 .. input.smooth :
          /\ Divides(d, input.smooth)
          /\ d > Bounds(input.prime).lower
          /\ \A r \in 2 .. d : Divides(r, d) => d < Bounds(input.prime).lower * r}
    BY <2>1, Zenon DEF Admissible, AdmissibleOrders
  <2> QED
    BY <2>1, <2>2, Zenon DEF Window
<1>6. \A d \in Admissible : d \in Nat /\ d # NoOrder
  BY <1>1, <1>5 DEF Window, NoOrder
<1>7. \A a \in GoodVectors : Value(factors, a) \in Admissible
  <2> TAKE a \in GoodVectors
  <2>1. Good(factors, bounds.lower, a) /\ factors = Factorization(input.smooth)
    BY DEF GoodVectors, Ready
  <2> QED
    BY <1>1, <1>3, <1>5, <2>1, GoodIsInWindow
<1>8. \A d \in Admissible : \E a \in GoodVectors : Value(factors, a) = d
  <2> TAKE d \in Admissible
  <2>1. factors = Factorization(input.smooth) /\ d \in Window(input.smooth, bounds.lower)
    BY <1>5 DEF Ready
  <2>2. \E a \in Vectors(factors) : Good(factors, bounds.lower, a) /\ Value(factors, a) = d
    BY <1>1, <1>3, <2>1, WindowHasVectors
  <2> QED
    BY <2>2 DEF GoodVectors
<1>9. \A a, b \in Vectors(factors) : Value(factors, a) = Value(factors, b) => a = b
  BY <1>2, PrefixOnly DEF Value
<1> QED
  BY <1>1, <1>2, <1>3, <1>4, <1>5, <1>6, <1>7, <1>8, <1>9

\* What a visit leaves.
Handed(order, next) ==
  \/ /\ visited' = visited /\ pc' = "done" /\ result' = [result EXCEPT !.limit = "candidates"]
     /\ Len(visited) = limits.candidates
  \/ /\ VisitedOrders' = VisitedOrders \cup {order} /\ Visits'
     /\ \/ pc' = next /\ result' = result
        \/ pc' = "done" /\ result' = [result EXCEPT !.stopped_early = TRUE]

\* A visit of a new order with its primes.
LEMMA VisitFacts ==
  ASSUME Visits, NEW order \in Nat, NEW primes, primes = PrimesOf(order), order \notin VisitedOrders,
         NEW next, Visit(order, primes, next)
  PROVE  Handed(order, next)
<1> DEFINE R == [order : Nat, primes : Seq(Nat)]
           x == [order |-> order, primes |-> primes]
<1>1. CASE Len(visited) = limits.candidates
  BY <1>1 DEF Visit, Handed, Finish
<1>2. CASE Len(visited) # limits.candidates
  <2>1. /\ visited' = Append(visited, x)
        /\ \/ pc' = next /\ result' = result
           \/ pc' = "done" /\ result' = [result EXCEPT !.stopped_early = TRUE]
    BY <1>2 DEF Visit, Finish
  <2>2. x \in R /\ x.order = order /\ x.primes = PrimesOf(order)
    BY PrimesOfFacts
  <2>3. visited \in Seq(R) /\ Len(visited) \in Nat
    BY DEF Visits
  <2> HIDE DEF x, R
  <2>4. /\ visited' \in Seq(R) /\ Len(visited') = Len(visited) + 1
        /\ \A i \in 1 .. Len(visited) : visited'[i] = visited[i]
        /\ visited'[Len(visited) + 1] = x
    BY <2>1, <2>2, <2>3
  <2>5. VisitedOrders' = VisitedOrders \cup {order}
    <3> DEFINE n == Len(visited)
    <3>1. /\ n \in Nat /\ Len(visited') = n + 1 /\ n + 1 \in 1 .. n + 1
          /\ \A i \in 1 .. n + 1 : i \in 1 .. n \/ i = n + 1
          /\ \A i \in 1 .. n : i \in 1 .. n + 1
      BY <2>3, <2>4
    <3>2. VisitedOrders = {visited[i].order : i \in 1 .. n}
          /\ VisitedOrders' = {visited'[i].order : i \in 1 .. n + 1}
      BY <3>1 DEF VisitedOrders
    <3>3. visited'[n + 1].order = order /\ \A i \in 1 .. n : visited'[i].order = visited[i].order
      BY <2>2, <2>4
    <3> HIDE DEF n
    <3> QED
      BY <3>1, <3>2, <3>3
  <2>6. IsFiniteSet(VisitedOrders)' /\ Cardinality(VisitedOrders)' = Len(visited)'
    <3> DEFINE V == VisitedOrders
    <3>1. IsFiniteSet(V) /\ order \notin V /\ Cardinality(V) = Len(visited)
      BY DEF Visits
    <3> HIDE DEF V
    <3>2. IsFiniteSet(V \cup {order}) /\ Cardinality(V \cup {order}) = Cardinality(V) + 1
      BY <3>1, FS_AddElement
    <3> QED
      BY <2>4, <2>5, <3>1, <3>2 DEF V
  <2>7. PrimesMatch'
    <3>1. ASSUME NEW i \in 1 .. Len(visited) + 1
          PROVE visited'[i].primes = PrimesOf(visited'[i].order)
      <4>1. CASE i = Len(visited) + 1
        BY <2>2, <2>4, <4>1
      <4>2. CASE i # Len(visited) + 1
        <5>1. i \in 1 .. Len(visited)
          BY <2>3, <4>2
        <5>2. visited[i].primes = PrimesOf(visited[i].order)
          BY <5>1 DEF Visits, PrimesMatch
        <5> QED
          BY <2>4, <5>1, <5>2
      <4> QED
        BY <4>1, <4>2
    <3> QED
      BY <2>4, <3>1 DEF PrimesMatch
  <2>8. Visits'
    BY <2>4, <2>6, <2>7 DEF Visits, R
  <2> QED
    BY <2>1, <2>5, <2>8 DEF Handed
<1> QED
  BY <1>1, <1>2

\* The input as it was handed in.
Unprepared ==
  /\ input \in Orders /\ limits \in Limits
  /\ bounds = Bounds(input.prime) /\ factors = Factorization(input.smooth)

\* The invariant holds at the call.
LEMMA InitFacts ==
  ASSUME EnumerateInit
  PROVE  EInv
<1>1. PICK o \in Orders, l \in Limits : Called(o, l)
  BY DEF EnumerateInit
<1> QED
  BY <1>1 DEF EnumerateInit, EInv, Called, Untouched, FactorCount, NoResult

\* Nothing visited.
LEMMA NothingVisited ==
  ASSUME visited = <<>>
  PROVE  Visits /\ VisitedOrders = {} /\ PrimesMatch /\ Len(visited) = 0 /\ Cardinality(VisitedOrders) = 0
<1>1. Len(visited) = 0 /\ visited \in Seq([order : Nat, primes : Seq(Nat)])
  OBVIOUS
<1>2. VisitedOrders = {} /\ PrimesMatch
  BY <1>1 DEF VisitedOrders, PrimesMatch
<1>3. IsFiniteSet(VisitedOrders) /\ Cardinality(VisitedOrders) = 0
  BY <1>2, FS_EmptySet
<1> QED
  BY <1>1, <1>2, <1>3 DEF Visits

\* The first greedy choice is made.
LEMMA PrepareStep ==
  ASSUME EInv, Prepare
  PROVE  EInv'
<1>1. /\ Unprepared /\ pc = "prepare" /\ result = NoResult /\ Untouched
      /\ preferred = <<NoOrder, NoOrder>> /\ visited = <<>>
  BY DEF EInv, Prepare, Unprepared
<1>2. UNCHANGED <<input, limits, factors, bounds, least_index, stack, selected_exponents, visited, nodes>>
  BY DEF Prepare
<1>3. Unprepared' /\ Untouched' /\ visited' = <<>>
  BY <1>1, <1>2 DEF Unprepared, Untouched, FactorCount
<1>4. Visits' /\ VisitedOrders' = {} /\ PrimesMatch' /\ Len(visited') = 0 /\ Cardinality(VisitedOrders)' = 0
  <2>1. Visits /\ VisitedOrders = {} /\ PrimesMatch /\ Len(visited) = 0 /\ Cardinality(VisitedOrders) = 0
    BY <1>1, NothingVisited
  <2> QED
    BY <1>2, <2>1 DEF Visits, VisitedOrders, PrimesMatch
<1> DEFINE failure == PrepareFailure(input.prime, input.order, input.smooth)
<1>5. CASE failure # "none"
  <2>1. pc' = "done" /\ result' = [result EXCEPT !.failure = failure]
    BY <1>5 DEF Prepare, Finish
  <2>2. failure \in {"invalid_order", "invalid_smooth_part", "smooth_part_not_divisor",
                     "insufficient_smooth_part"}
    BY <1>5 DEF PrepareFailure
  <2> HIDE DEF failure
  <2>3. result'.failure = failure /\ result'.limit = "none"
    BY <1>1, <2>1 DEF NoResult
  <2>4. AdmissibleOnce'
    BY <1>4, <2>2, <2>3 DEF AdmissibleOnce
  <2> QED
    BY <1>3, <1>4, <2>1, <2>4 DEF EInv, Unprepared
<1>6. CASE failure = "none"
  <2>1. input.smooth > 0
    <3>1. input.smooth \in Nat /\ ~(input.smooth <= 0)
      BY <1>1, <1>6, OrdersAssumption DEF PrepareFailure, Unprepared
    <3> QED
      BY <3>1
  <2>2. Ready
    BY <1>1, <2>1 DEF Ready, Unprepared
  <2>3. ~\E i \in 1 .. FactorCount : PrimeAt(i) > bounds.n4
    <3> SUFFICES ASSUME NEW i \in 1 .. FactorCount, PrimeAt(i) > bounds.n4 PROVE FALSE
      OBVIOUS
    <3>1. /\ input.prime \in Nat /\ input.prime > 0 /\ input.smooth \in Nat
          /\ \A j \in 1 .. Len(PrimesOf(input.smooth)) :
               PrimesOf(input.smooth)[j] <= Bounds(input.prime).n4
      BY <1>1, OrdersAssumption DEF Unprepared
    <3>2. bounds.n4 \in Nat
      BY <1>1, <3>1, BoundsFacts DEF Unprepared
    <3>3. factors.primes = PrimesOf(input.smooth)
      BY <1>1, <2>1, <3>1, FactorizationFacts DEF Unprepared
    <3>4. PrimeAt(i) <= bounds.n4
      BY <1>1, <3>1, <3>3 DEF Unprepared, PrimeAt, FactorCount
    <3>5. PrimeAt(i) \in Nat
      BY <2>2, ReadyFacts DEF Listed, PrimeAt
    <3> QED
      BY <3>2, <3>4, <3>5
  <2> DEFINE d == PreferredOrder(factors, bounds, FALSE)
  <2>4. /\ preferred' = [preferred EXCEPT ![1] = d]
        /\ pc' = "preferred" /\ result' = result
    BY <1>6, <2>3 DEF Prepare
  <2>5. d = NoOrder \/ (d \in Admissible /\ d \in Nat /\ d # NoOrder)
    <3>1. /\ input.smooth \in Nat /\ input.smooth > 0 /\ factors = Factorization(input.smooth)
          /\ bounds.lower \in Nat /\ bounds.lower > 0 /\ Admissible = Window(input.smooth, bounds.lower)
      BY <1>1, <2>1, <2>2, ReadyFacts DEF Unprepared
    <3>2. d = NoOrder \/ (d \in Window(input.smooth, bounds.lower) /\ d \in Nat /\ d # NoOrder)
      BY <3>1, PreferredIsInWindow
    <3> QED
      BY <3>1, <3>2
  <2> HIDE DEF d
  <2>6. preferred' = <<d, NoOrder>>
    BY <1>1, <2>4
  <2>7. NoOrder \in Nat
    BY DEF NoOrder
  <2>8. preferred' \in [1 .. 2 -> Nat] /\ preferred'[1] = d /\ preferred'[2] = NoOrder
    BY <2>5, <2>6, <2>7
  <2>9. Admissible' = Admissible
    BY <1>2 DEF Admissible
  <2>10. Chosen'
    BY <2>5, <2>8, <2>9 DEF Chosen, Greedy
  <2> QED
    BY <1>1, <1>2, <1>3, <1>4, <2>1, <2>4, <2>8, <2>10 DEF EInv, Unprepared
<1> QED
  BY <1>5, <1>6

\* An end of the enumeration that was a limit or a stop.
LEMMA CutShort ==
  ASSUME Ready, result = NoResult, UNCHANGED <<input, limits, factors, bounds>>, pc' = "done",
         Visits', VisitedOrders' \in SUBSET Admissible,
         \/ result' = [result EXCEPT !.stopped_early = TRUE]
         \/ result' = [result EXCEPT !.limit = "search_nodes"]
         \/ result' = [result EXCEPT !.limit = "candidates"] /\ Admissible \ VisitedOrders' # {}
  PROVE  EInv'
<1>1. Admissible' = Admissible
  BY DEF Admissible
<1>2. \/ result'.limit = "none" /\ result'.stopped_early
      \/ result'.limit = "search_nodes"
      \/ result'.limit = "candidates" /\ Admissible \ VisitedOrders' # {}
  BY DEF NoResult
<1>3. AdmissibleOnce' /\ PrimesMatch'
  BY <1>1, <1>2 DEF AdmissibleOnce, Visits
<1> QED
  BY <1>3 DEF EInv, Ready

\* The first greedy choice is visited.
LEMMA PreferredStep ==
  ASSUME EInv, Preferred
  PROVE  EInv'
<1>1. /\ Ready /\ result = NoResult /\ Untouched /\ Chosen /\ Visits /\ visited = <<>>
      /\ preferred[2] = NoOrder
  BY DEF EInv, Preferred, Ready
<1>2. UNCHANGED <<input, limits, factors, bounds, preferred, least_index, stack, selected_exponents, nodes>>
  BY DEF Preferred
<1>3. Ready' /\ Untouched' /\ preferred'[2] = NoOrder
  BY <1>1, <1>2 DEF Ready, Untouched, FactorCount
<1>4. Admissible' = Admissible /\ Greedy' = Greedy
  BY <1>2 DEF Admissible, Greedy
<1>5. Chosen'
  BY <1>1, <1>2, <1>4 DEF Chosen
<1>6. VisitedOrders = {} /\ Len(visited) = 0
  BY <1>1, NothingVisited
<1>7. Greedy = IF preferred[1] # NoOrder THEN {preferred[1]} ELSE {}
  BY <1>1 DEF Greedy
<1>8. CASE preferred[1] = NoOrder
  <2>1. pc' = "preferred_odd" /\ visited' = visited /\ result' = result
    BY <1>8 DEF Preferred
  <2>2. Visits' /\ VisitedOrders' = VisitedOrders
    BY <1>1, <2>1 DEF Visits, VisitedOrders, PrimesMatch
  <2> QED
    BY <1>1, <1>3, <1>4, <1>5, <1>6, <1>7, <1>8, <2>1, <2>2 DEF EInv, Ready
<1>9. CASE preferred[1] # NoOrder
  <2> DEFINE d == preferred[1]
             primes == PrimesOf(d)
  <2>1. d \in Nat /\ d \notin VisitedOrders /\ Visit(d, primes, "preferred_odd")
    BY <1>1, <1>6, <1>9 DEF Chosen, Preferred
  <2>2. Greedy = {d}
    BY <1>7, <1>9
  <2> HIDE DEF d
  <2>3. Handed(d, "preferred_odd")
    BY <1>1, <2>1, VisitFacts
  <2>4. Len(visited) # limits.candidates
    BY <1>1, <1>6, ReadyFacts
  <2>5. VisitedOrders' = {d} /\ Visits'
    BY <1>6, <2>3, <2>4 DEF Handed
  <2>6. CASE pc' = "preferred_odd" /\ result' = result
    BY <1>1, <1>3, <1>4, <1>5, <2>2, <2>5, <2>6 DEF EInv, Ready
  <2>7. CASE pc' = "done" /\ result' = [result EXCEPT !.stopped_early = TRUE]
    <3>1. VisitedOrders' \in SUBSET Admissible
      BY <1>1, <2>2, <2>5 DEF Chosen
    <3> QED
      BY <1>1, <1>2, <2>5, <2>7, <3>1, CutShort
  <2> QED
    BY <2>3, <2>4, <2>6, <2>7 DEF Handed
<1> QED
  BY <1>8, <1>9

\* Before the search no vector is behind it.
LEMMA SearchBegins ==
  ASSUME Ready, Untouched
  PROVE  Frames /\ Selected /\ \A a : ~Done(a)
<1>1. /\ Listed(factors) /\ FactorCount = Len(factors.primes) /\ FactorCount \in Nat
  BY ReadyFacts
<1>2. least_index = 1 /\ stack = <<>> /\ Len(stack) = 0 /\ Depth = 0
      /\ selected_exponents = [i \in 1 .. FactorCount |-> 0]
  BY DEF Untouched, Depth
<1>3. stack \in Seq(FrameSet)
  BY <1>2
<1>4. Frames
  BY <1>1, <1>2, <1>3 DEF Frames
<1>5. selected_exponents \in Vectors(factors) /\ Below(factors, selected_exponents)
  BY <1>1, <1>2 DEF Vectors, Below, Listed
<1>6. Selected
  BY <1>1, <1>2, <1>5 DEF Selected
<1>7. \A a : ~Done(a)
  BY <1>2 DEF Done
<1> QED
  BY <1>4, <1>6, <1>7

\* The second greedy choice is made and visited, unless it is the first.
LEMMA PreferredOddStep ==
  ASSUME EInv, PreferredOdd
  PROVE  EInv'
<1>1. /\ Ready /\ result = NoResult /\ Untouched /\ Chosen /\ Visits
      /\ preferred[2] = NoOrder /\ VisitedOrders = Greedy
  BY DEF EInv, PreferredOdd, Ready
<1>2. UNCHANGED <<input, limits, factors, bounds, least_index, stack, selected_exponents, nodes>>
  BY DEF PreferredOdd
<1>3. Ready' /\ Untouched' /\ Admissible' = Admissible
  BY <1>1, <1>2 DEF Ready, Untouched, FactorCount, Admissible
<1> DEFINE odd == PreferredOrder(factors, bounds, TRUE)
           second == PreferredOddOrder(odd, preferred[1])
<1>4. /\ preferred' = [preferred EXCEPT ![2] = second]
      /\ IF second # NoOrder THEN Visit(second, PrimesOf(second), "descend")
         ELSE pc' = "descend" /\ visited' = visited /\ result' = result
  BY DEF PreferredOdd
<1>5. odd = NoOrder \/ (odd \in Admissible /\ odd \in Nat /\ odd # NoOrder)
  <2>1. /\ input.smooth \in Nat /\ input.smooth > 0 /\ factors = Factorization(input.smooth)
        /\ bounds.lower \in Nat /\ bounds.lower > 0 /\ Admissible = Window(input.smooth, bounds.lower)
    BY <1>1, ReadyFacts DEF Ready
  <2>2. odd = NoOrder \/ (odd \in Window(input.smooth, bounds.lower) /\ odd \in Nat /\ odd # NoOrder)
    BY <2>1, PreferredIsInWindow
  <2> QED
    BY <2>1, <2>2
<1> HIDE DEF odd
<1>6. second = NoOrder \/ (second \in Admissible /\ second \in Nat /\ second # preferred[1])
  BY <1>5 DEF PreferredOddOrder
<1>7. second = NoOrder \/ second # NoOrder
  OBVIOUS
<1> HIDE DEF second
<1>8. NoOrder \in Nat
  BY DEF NoOrder
<1>9. /\ preferred' \in [1 .. 2 -> Nat] /\ preferred'[1] = preferred[1] /\ preferred'[2] = second
  BY <1>1, <1>4, <1>6, <1>8 DEF Chosen
<1>10. Greedy' = Greedy \cup ({second} \ {NoOrder})
  BY <1>1, <1>9 DEF Greedy
<1>11. Chosen'
  BY <1>1, <1>3, <1>6, <1>9, <1>10 DEF Chosen
<1>12. Frames' /\ Selected' /\ Seen' = Greedy'
  <2>1. Frames /\ Selected /\ \A a : ~Done(a)
    BY <1>1, SearchBegins
  <2>2. Frames' /\ Selected' /\ (\A a : ~Done(a))'
    BY <1>2, <2>1 DEF Frames, FrameRight, Initial, Selected, Done, Depth, Edge, Agrees, FactorCount
  <2> QED
    BY <2>2 DEF Seen
<1>13. CASE second = NoOrder
  <2>1. pc' = "descend" /\ visited' = visited /\ result' = result
    BY <1>4, <1>13
  <2>2. Visits' /\ VisitedOrders' = VisitedOrders
    BY <1>1, <2>1 DEF Visits, VisitedOrders, PrimesMatch
  <2>3. VisitedOrders' = Seen'
    BY <1>1, <1>10, <1>12, <1>13, <2>2
  <2> QED
    BY <1>1, <1>3, <1>11, <1>12, <2>1, <2>2, <2>3 DEF EInv, Ready
<1>14. CASE second # NoOrder
  <2> DEFINE primes == PrimesOf(second)
  <2>1. second \in Nat /\ second \notin VisitedOrders /\ Visit(second, primes, "descend")
    BY <1>1, <1>4, <1>6, <1>14 DEF Greedy
  <2>2. Handed(second, "descend")
    BY <1>1, <2>1, VisitFacts
  <2>3. CASE /\ visited' = visited /\ pc' = "done" /\ result' = [result EXCEPT !.limit = "candidates"]
             /\ Len(visited) = limits.candidates
    <3>1. Visits' /\ VisitedOrders' = VisitedOrders
      BY <1>1, <2>3 DEF Visits, VisitedOrders, PrimesMatch
    <3>2. VisitedOrders' \in SUBSET Admissible /\ Admissible \ VisitedOrders' # {}
      BY <1>1, <1>6, <1>14, <2>1, <3>1 DEF Chosen
    <3> QED
      BY <1>1, <1>2, <2>3, <3>1, <3>2, CutShort
  <2>4. CASE VisitedOrders' = VisitedOrders \cup {second} /\ Visits'
    <3>1. VisitedOrders' = Greedy'
      BY <1>1, <1>10, <1>14, <2>4
    <3>2. CASE pc' = "descend" /\ result' = result
      BY <1>1, <1>3, <1>11, <1>12, <2>4, <3>1, <3>2 DEF EInv, Ready
    <3>3. CASE pc' = "done" /\ result' = [result EXCEPT !.stopped_early = TRUE]
      <4>1. VisitedOrders' \in SUBSET Admissible
        BY <1>3, <1>11, <3>1 DEF Chosen
      <4> QED
        BY <1>1, <1>2, <2>4, <3>3, <4>1, CutShort
    <3>4. \/ pc' = "descend" /\ result' = result
          \/ pc' = "done" /\ result' = [result EXCEPT !.stopped_early = TRUE]
      <4>1. second \in VisitedOrders'
        BY <2>4
      <4>2. visited' = visited => VisitedOrders' = VisitedOrders
        BY DEF VisitedOrders
      <4> QED
        BY <2>1, <2>2, <4>1, <4>2 DEF Handed
    <3> QED
      BY <3>2, <3>3, <3>4
  <2> QED
    BY <2>2, <2>3, <2>4 DEF Handed
<1> QED
  BY <1>13, <1>14

-----------------------------------------------------------------------------
(* Steps of the search.                                                    *)

\* The search is under way.
Searching == Ready /\ Frames /\ Selected

\* The frame at the top.
LEMMA TopFacts ==
  ASSUME Searching, stack # <<>>
  PROVE  /\ FactorCount \in Nat /\ FactorCount = Len(factors.primes)
         /\ stack \in Seq(FrameSet) /\ Len(stack) \in Nat /\ Len(stack) > 0 /\ Head(stack) = stack[1]
         /\ least_index \in 1 .. FactorCount /\ Depth \in least_index .. FactorCount + 1
         /\ Depth = least_index + Len(stack) - 1
         /\ stack[1] \in FrameSet /\ stack[1].index = Depth
         /\ stack[1].partial = Prefix(factors, selected_exponents)[Depth - 1]
         /\ stack[1].partial \in Nat /\ stack[1].partial > 0
         /\ stack[1].exponent \in Nat /\ stack[1].exponent >= Initial(Depth)
         /\ stack[1].called => stack[1].exponent = Initial(Depth)
         /\ ~stack[1].called => Depth <= FactorCount
<1>1. FactorCount \in Nat /\ FactorCount = Len(factors.primes) /\ Listed(factors)
  BY ReadyFacts DEF Searching
<1>2. stack \in Seq(FrameSet)
  BY DEF Searching, Frames
<1>3. Len(stack) \in Nat /\ Len(stack) > 0 /\ Head(stack) = stack[1] /\ stack[1] \in FrameSet
  BY <1>2, StackFacts
<1>4. /\ least_index \in Nat /\ least_index > 0 /\ least_index <= FactorCount
      /\ Depth <= FactorCount + 1 /\ Depth = least_index + Len(stack) - 1
  BY <1>3 DEF Searching, Frames, Depth
<1>5. FrameRight(1) /\ (least_index + Len(stack)) - 1 = Depth
  BY <1>3, <1>4 DEF Searching, Frames
<1>6. least_index \in 1 .. FactorCount /\ Depth \in least_index .. FactorCount + 1
  BY <1>1, <1>3, <1>4
<1>7. /\ stack[1].index = Depth
      /\ stack[1].partial = Prefix(factors, selected_exponents)[Depth - 1]
      /\ stack[1].exponent >= Initial(Depth)
      /\ stack[1].called => stack[1].exponent = Initial(Depth)
      /\ ~stack[1].called => Depth <= FactorCount
  BY <1>5 DEF FrameRight
<1>8. stack[1].partial \in Nat /\ stack[1].partial > 0
  <2>1. Depth - 1 \in 0 .. Len(factors.primes)
    BY <1>1, <1>6
  <2>2. selected_exponents \in Vectors(factors)
    BY DEF Searching, Selected
  <2> QED
    BY <1>1, <1>7, <2>1, <2>2, PrefixFacts
<1>9. stack[1].exponent \in Nat
  BY <1>3 DEF FrameSet
<1> QED
  BY <1>1, <1>2, <1>3, <1>4, <1>6, <1>7, <1>8, <1>9

\* Returning puts behind the search all that agrees with it so far.
LEMMA PopFacts ==
  ASSUME Searching, stack # <<>>, Return(Tail(stack)), UNCHANGED <<input, limits, factors, bounds>>,
         selected_exponents' \in Vectors(factors),
         \A i \in 1 .. FactorCount :
           selected_exponents'[i] = IF i = Depth THEN 0 ELSE selected_exponents[i]
  PROVE  /\ Frames' /\ Selected'
         /\ \A a \in Vectors(factors) :
              Done(a)' <=> Done(a) \/ (Leads(a, least_index) /\ Agrees(a, Depth - 1))
<1> DEFINE k == FactorCount
           l == least_index
           t == Depth
           n == Len(stack)
           s == Tail(stack)
           e == selected_exponents
<1>1. /\ k \in Nat /\ k = Len(factors.primes) /\ n \in Nat /\ n > 0 /\ l \in 1 .. k /\ t \in l .. k + 1
      /\ t = l + n - 1 /\ stack \in Seq(FrameSet)
  BY TopFacts
<1>2. /\ s \in Seq(FrameSet) /\ Len(s) = n - 1
      /\ \A j \in 1 .. n - 1 : s[j] = stack[j + 1]
      /\ s = <<>> <=> n = 1
  BY <1>1, StackFacts
<1>3. stack' = s /\ least_index' = IF s = <<>> THEN l + 1 ELSE l
  BY DEF Return
<1>4. FactorCount' = k /\ Len(stack') = n - 1
  BY <1>2, <1>3 DEF FactorCount
<1>5. \A j \in 1 .. n : FrameRight(j)
  BY DEF Searching, Frames
<1>6. /\ e \in Vectors(factors) /\ Below(factors, e)
      /\ \A i \in 1 .. k : i < l \/ i > t => e[i] = 0
      /\ n > 1 => e[l] # 0
  BY DEF Searching, Selected
<1>7. \A i \in 1 .. k : e[i] \in Nat /\ factors.exponents[i] \in Nat
  BY <1>1, <1>6, ReadyFacts DEF Searching, Vectors, Listed
<1>8. Below(factors, selected_exponents')
  BY <1>1, <1>6, <1>7 DEF Below
<1> DEFINE u == selected_exponents'
<1>9. factors' = factors /\ u \in Vectors(factors) /\ \A i \in 1 .. k : u[i] = IF i = t THEN 0 ELSE e[i]
  OBVIOUS
<1>10. /\ \A a, m : Agrees(a, m) <=> \A i \in 1 .. m : a[i] = e[i]
       /\ \A a, m : Agrees(a, m)' <=> \A i \in 1 .. m : a[i] = u[i]
       /\ \A i : i < t => Edge(i) = e[i]
  BY DEF Agrees, Edge
<1>11. \A a : Done(a) <=> \/ \E i \in 1 .. l - 1 : a[i] # 0
                          \/ /\ Leads(a, l)
                             /\ \E i \in l .. t : i <= k /\ Agrees(a, i - 1) /\ a[i] < Edge(i)
  BY DEF Done
<1>12. \A a : Done(a)' <=> \/ \E i \in 1 .. least_index' - 1 : a[i] # 0
                           \/ /\ Leads(a, least_index')
                              /\ \E i \in least_index' .. Depth' :
                                   i <= k /\ Agrees(a, i - 1)' /\ a[i] < Edge(i)'
  BY <1>4 DEF Done
<1>13. Selected' <=>
         /\ u \in Vectors(factors) /\ Below(factors, u)
         /\ \A i \in 1 .. k : i < least_index' \/ i > Depth' => u[i] = 0
         /\ Len(stack') > 0 /\ stack'[1].called /\ Depth' <= k => u[Depth'] = 0
         /\ Len(stack') > 1 => u[least_index'] # 0
  BY <1>4, <1>9 DEF Selected
<1>14. Frames' <=>
         /\ stack' \in Seq(FrameSet)
         /\ least_index' \in Nat /\ least_index' > 0 /\ least_index' <= k + 1
         /\ Depth' <= k + 1
         /\ Len(stack') > 0 => least_index' <= k
         /\ \A j \in 1 .. Len(stack') : FrameRight(j)'
  BY <1>4 DEF Frames
<1>15. Depth' = least_index' + (n - 1) - 1
  BY <1>4 DEF Depth
<1>16. \A j \in 1 .. n : /\ stack[j] \in FrameSet
                         /\ stack[j].index = (l + n) - j
                         /\ stack[j].partial = Prefix(factors, e)[stack[j].index - 1]
                         /\ stack[j].exponent >= Initial(stack[j].index)
                         /\ stack[j].called => stack[j].exponent = Initial(stack[j].index)
                         /\ ~stack[j].called => stack[j].index <= k
                         /\ j > 1 => ~stack[j].called /\ stack[j].exponent = e[stack[j].index] + 1
  BY <1>5 DEF FrameRight
<1>17. \A j : FrameRight(j)' <=>
         /\ stack'[j] \in FrameSet
         /\ stack'[j].index = (least_index' + (n - 1)) - j
         /\ stack'[j].partial = Prefix(factors, u)[stack'[j].index - 1]
         /\ stack'[j].exponent >= (IF stack'[j].index = least_index' THEN 1 ELSE 0)
         /\ stack'[j].called => stack'[j].exponent = IF stack'[j].index = least_index' THEN 1 ELSE 0
         /\ ~stack'[j].called => stack'[j].index <= k
         /\ j > 1 => ~stack'[j].called /\ stack'[j].exponent = u[stack'[j].index] + 1
  BY <1>4, <1>9 DEF FrameRight, Initial
<1>18. \A i : Initial(i) = IF i = l THEN 1 ELSE 0
  BY DEF Initial
<1>19. Listed(factors)
  BY ReadyFacts DEF Searching
<1>20. (\A i : Edge(i)' = IF i < Depth' THEN u[i] ELSE stack'[1].exponent) /\ Below(factors, u)
  BY <1>8 DEF Edge
<1> HIDE DEF k, l, t, n, s, e, u
<1>21. \A i \in 1 .. t - 1 : i \in 1 .. k /\ u[i] = e[i]
  BY <1>1, <1>9
<1>22. CASE n = 1
  <2>1. stack' = <<>> /\ Len(stack') = 0 /\ least_index' = l + 1 /\ t = l /\ Depth' = l
    BY <1>1, <1>2, <1>3, <1>22, <1>15
  <2>2. Frames'
    BY <1>1, <1>2, <1>3, <1>14, <2>1
  <2>3. Selected'
    <3>1. \A i \in 1 .. k : u[i] = 0
      BY <1>1, <1>6, <1>9, <2>1
    <3> QED
      BY <1>9, <1>13, <1>20, <2>1, <3>1
  <2>4. ASSUME NEW a PROVE Done(a)' <=> \E i \in 1 .. l : a[i] # 0
    <3>1. least_index' - 1 = l
      BY <1>1, <2>1
    <3>2. \A i : i \notin least_index' .. Depth'
      BY <1>1, <2>1
    <3> QED
      BY <1>12, <3>1, <3>2
  <2>5. ASSUME NEW a
        PROVE (\E i \in 1 .. l : a[i] # 0) <=> Done(a) \/ (Leads(a, l) /\ Agrees(a, t - 1))
    <3>1. ASSUME NEW i \in 1 .. l, a[i] # 0, ~\E j \in 1 .. l - 1 : a[j] # 0
          PROVE Leads(a, l) /\ Agrees(a, t - 1)
      <4>1. i = l
        BY <1>1, <3>1
      <4>2. Leads(a, l)
        BY <3>1, <4>1 DEF Leads
      <4>3. \A j \in 1 .. l - 1 : j \in 1 .. k /\ j < l
        BY <1>1
      <4>4. Agrees(a, t - 1)
        BY <1>6, <1>10, <2>1, <3>1, <4>3
      <4> QED
        BY <4>2, <4>4
    <3>2. (\E i \in 1 .. l - 1 : a[i] # 0) => Done(a)
      BY <1>11
    <3>3. Done(a) => (\E i \in 1 .. l - 1 : a[i] # 0) \/ Leads(a, l)
      BY <1>11
    <3>4. Leads(a, l) => a[l] # 0
      BY DEF Leads
    <3>5. l \in 1 .. l /\ \A i \in 1 .. l - 1 : i \in 1 .. l
      BY <1>1
    <3> QED
      BY <3>1, <3>2, <3>3, <3>4, <3>5
  <2> QED
    BY <2>2, <2>3, <2>4, <2>5 DEF l, t
<1>23. CASE n > 1
  <2>1. least_index' = l /\ t > l /\ t - 1 \in l .. k /\ Depth' = t - 1
    BY <1>1, <1>2, <1>3, <1>23, <1>15
  <2>2. \A j \in 1 .. n - 1 : FrameRight(j)'
    <3> TAKE j \in 1 .. n - 1
    <3>1. stack'[j] = stack[j + 1] /\ j + 1 \in 1 .. n /\ j + 1 > 1
      BY <1>1, <1>2, <1>3
    <3> DEFINE frame == stack'[j]
    <3>2. /\ frame \in FrameSet
          /\ frame.index = (l + n) - (j + 1)
          /\ frame.partial = Prefix(factors, e)[frame.index - 1]
          /\ frame.exponent >= Initial(frame.index)
          /\ frame.called => frame.exponent = Initial(frame.index)
          /\ ~frame.called => frame.index <= k
          /\ ~frame.called /\ frame.exponent = e[frame.index] + 1
      BY <1>16, <3>1
    <3> HIDE DEF frame
    <3>3. frame.index \in l .. t - 1 /\ frame.index \in 1 .. t - 1 /\ frame.index = (l + (n - 1)) - j
      BY <1>1, <2>1, <3>2
    <3>4. Prefix(factors, u)[frame.index - 1] = Prefix(factors, e)[frame.index - 1]
      <4> DEFINE m == frame.index - 1
      <4>1. m \in Nat /\ m <= k /\ m < t - 1 /\ m <= Len(factors.primes)
        BY <1>1, <2>1, <3>3
      <4> HIDE DEF m
      <4>2. \A i \in 1 .. m : u[i] = e[i]
        BY <1>1, <1>21, <4>1
      <4>3. Prefix(factors, u)[m] = Prefix(factors, e)[m]
        BY <1>6, <1>9, <1>19, <4>1, <4>2, PrefixAgrees
      <4> QED
        BY <4>3 DEF m
    <3>5. u[frame.index] = e[frame.index]
      BY <1>21, <3>3
    <3> QED
      BY <1>17, <1>18, <2>1, <3>2, <3>3, <3>4, <3>5 DEF frame
  <2>3. Frames'
    <3>1. least_index' \in Nat /\ least_index' > 0 /\ least_index' <= k + 1 /\ least_index' <= k
          /\ Depth' <= k + 1
      BY <1>1, <2>1
    <3>2. stack' \in Seq(FrameSet) /\ Len(stack') = n - 1
      BY <1>2, <1>3
    <3> QED
      BY <1>14, <2>2, <3>1, <3>2
  <2>4. Selected'
    <3>1. \A i \in 1 .. k : i < l \/ i > t - 1 => u[i] = 0
      <4> TAKE i \in 1 .. k
      <4>1. i > t - 1 => i = t \/ i > t
        BY <1>1
      <4> QED
        BY <1>6, <1>9, <4>1
    <3>2. ~stack'[1].called
      <4>1. stack'[1] = stack[2] /\ 2 \in 1 .. n /\ 2 > 1
        BY <1>1, <1>2, <1>3, <1>23
      <4> QED
        BY <1>16, <4>1
    <3>3. u[l] # 0
      BY <1>1, <1>6, <1>23, <1>21, <2>1
    <3> QED
      BY <1>9, <1>13, <1>20, <2>1, <3>1, <3>2, <3>3
  <2>5. \A i \in l .. t - 1 : Edge(i)' = IF i < t - 1 THEN e[i] ELSE e[i] + 1
    <3>1. stack'[1] = stack[2] /\ 2 \in 1 .. n /\ 2 > 1 /\ (l + n) - 2 = t - 1
      BY <1>1, <1>2, <1>3, <1>23
    <3>2. stack'[1].exponent = e[t - 1] + 1
      BY <1>16, <3>1
    <3>3. \A i \in l .. t - 1 : i \in 1 .. t - 1 /\ (i < t - 1 \/ i = t - 1)
      BY <1>1
    <3> QED
      BY <1>20, <1>21, <2>1, <3>2, <3>3
  <2> DEFINE Was(a) == \E i \in l .. t : i <= k /\ Agrees(a, i - 1) /\ a[i] < Edge(i)
             Is(a) == \E i \in l .. t - 1 :
                        i <= k /\ Agrees(a, i - 1) /\ a[i] < (IF i < t - 1 THEN e[i] ELSE e[i] + 1)
  <2>6. ASSUME NEW a
        PROVE Done(a)' <=> (\E i \in 1 .. l - 1 : a[i] # 0) \/ (Leads(a, l) /\ Is(a))
    <3>1. \A i \in l .. t - 1 : Agrees(a, i - 1)' <=> Agrees(a, i - 1)
      <4> TAKE i \in l .. t - 1
      <4>1. \A j \in 1 .. i - 1 : u[j] = e[j]
        BY <1>1, <1>21
      <4> QED
        BY <1>10, <4>1
    <3>2. (\E i \in l .. t - 1 : i <= k /\ Agrees(a, i - 1)' /\ a[i] < Edge(i)') <=> Is(a)
      BY <2>5, <3>1
    <3> QED
      BY <1>12, <2>1, <3>2
  <2>7. ASSUME NEW a \in Vectors(factors) PROVE Is(a) <=> Was(a) \/ Agrees(a, t - 1)
    <3> DEFINE c == t - 1
    <3>0. \A i \in 1 .. k : a[i] \in Nat
      BY <1>1 DEF Vectors
    <3>1. c \in l .. k /\ c \in l .. t /\ c < t /\ t = c + 1 /\ c \in 1 .. c /\ c \in 1 .. k /\ c \in Nat
      BY <1>1, <2>1
    <3>2. Agrees(a, c) <=> Agrees(a, c - 1) /\ a[c] = e[c]
      BY <1>10, <3>1
    <3>3. ASSUME NEW i \in l .. c, i <= k, Agrees(a, i - 1), a[i] < (IF i < c THEN e[i] ELSE e[i] + 1)
          PROVE Was(a) \/ Agrees(a, c)
      <4>1. i \in l .. t /\ i < t /\ Edge(i) = e[i]
        BY <1>1, <1>10, <3>1
      <4>2. CASE i < c
        BY <3>3, <4>1, <4>2
      <4>3. CASE ~(i < c)
        <5>1. i = c
          BY <1>1, <3>1, <4>3
        <5>2. a[c] < e[c] + 1 /\ Agrees(a, c - 1) /\ c <= k
          BY <3>3, <4>3, <5>1
        <5>3. CASE a[c] < e[c]
          BY <4>1, <5>1, <5>2, <5>3
        <5>4. CASE ~(a[c] < e[c])
          <6>1. a[c] = e[c]
            BY <1>7, <3>0, <3>1, <5>2, <5>4
          <6> QED
            BY <3>2, <5>2, <6>1
        <5> QED
          BY <5>3, <5>4
      <4> QED
        BY <4>2, <4>3
    <3>4. ASSUME Agrees(a, c) PROVE Is(a)
      <4>1. Agrees(a, c - 1) /\ a[c] = e[c] /\ e[c] \in Nat
        BY <1>7, <3>1, <3>2, <3>4
      <4>2. c \in l .. t - 1 /\ c <= k /\ ~(c < t - 1) /\ a[c] < e[c] + 1
        BY <3>1, <4>1
      <4> QED
        BY <4>1, <4>2
    <3>5. ASSUME NEW i \in l .. t, i <= k, Agrees(a, i - 1), a[i] < Edge(i) PROVE Is(a)
      <4>1. CASE i < c
        <5>1. i \in l .. t - 1 /\ i < t - 1 /\ Edge(i) = e[i]
          BY <1>1, <1>10, <3>1, <4>1
        <5> QED
          BY <3>5, <5>1
      <4>2. CASE i = c
        <5>1. i \in l .. t - 1 /\ ~(i < t - 1) /\ Edge(i) = e[i] /\ e[i] \in Nat /\ a[i] \in Nat
          BY <1>1, <1>7, <1>10, <3>0, <3>1, <4>2
        <5>2. a[i] < e[i] + 1
          BY <3>5, <5>1
        <5> QED
          BY <3>5, <5>1, <5>2
      <4>3. CASE i = t
        <5>1. Agrees(a, c)
          BY <3>5, <4>3
        <5> QED
          BY <3>4, <5>1
      <4>4. i < c \/ i = c \/ i = t
        BY <1>1, <3>1
      <4> QED
        BY <4>1, <4>2, <4>3, <4>4
    <3> QED
      BY <3>3, <3>4, <3>5
  <2>8. \A a : Done(a) <=> (\E i \in 1 .. l - 1 : a[i] # 0) \/ (Leads(a, l) /\ Was(a))
    BY <1>11
  <2> HIDE DEF Was, Is
  <2>9. \A a \in Vectors(factors) : Done(a)' <=> Done(a) \/ (Leads(a, l) /\ Agrees(a, t - 1))
    BY <2>6, <2>7, <2>8
  <2> QED
    BY <2>3, <2>4, <2>9 DEF l, t
<1>24. n = 1 \/ n > 1
  BY <1>1
<1> QED
  BY <1>22, <1>23, <1>24

\* The entry of a branch that is searched.
Entered ==
  /\ stack # <<>> /\ stack[1].called /\ stack[1].index # FactorCount + 1
  /\ stack' = <<[stack[1] EXCEPT !.called = FALSE]>> \o Tail(stack)
  /\ UNCHANGED <<input, limits, factors, bounds, least_index, selected_exponents>>

\* Entering a branch puts no vector behind the search.
LEMMA EnterFacts ==
  ASSUME Searching, Entered
  PROVE  Frames' /\ Selected' /\ \A a : Done(a)' <=> Done(a)
<1> DEFINE k == FactorCount
           l == least_index
           t == Depth
           n == Len(stack)
           x == [stack[1] EXCEPT !.called = FALSE]
<1>1. /\ k \in Nat /\ n \in Nat /\ n > 0 /\ l \in 1 .. k /\ t \in l .. k + 1
      /\ t = l + n - 1 /\ stack \in Seq(FrameSet) /\ stack[1] \in FrameSet /\ stack[1].index = t
      /\ stack # <<>> /\ t # k + 1
  BY TopFacts DEF Entered
<1>2. x \in FrameSet /\ x.index = stack[1].index /\ x.partial = stack[1].partial
      /\ x.exponent = stack[1].exponent /\ ~x.called
  BY <1>1 DEF FrameSet
<1>3. stack' = <<x>> \o Tail(stack)
  BY DEF Entered
<1> HIDE DEF x
<1>4. /\ stack' \in Seq(FrameSet) /\ Len(stack') = n /\ stack'[1] = x
      /\ \A j \in 2 .. n : stack'[j] = stack[j]
  BY <1>1, <1>2, <1>3, ReplaceFacts
<1>5. FactorCount' = k /\ Depth' = t /\ factors' = factors /\ least_index' = l
      /\ selected_exponents' = selected_exponents
  BY <1>4 DEF FactorCount, Depth, Entered
<1>6. t <= k
  BY <1>1
<1>7. \A j \in 1 .. n : FrameRight(j)
  BY DEF Searching, Frames
<1>8. ASSUME NEW j \in 1 .. n PROVE FrameRight(j)'
  <2>1. CASE j = 1
    <3>1. FrameRight(1)
      BY <1>1, <1>7
    <3> QED
      BY <1>1, <1>2, <1>4, <1>5, <1>6, <2>1, <3>1 DEF FrameRight, Initial
  <2>2. CASE j # 1
    <3>1. FrameRight(j) /\ stack'[j] = stack[j]
      BY <1>1, <1>4, <1>7, <2>2
    <3> QED
      BY <1>4, <1>5, <3>1 DEF FrameRight, Initial
  <2> QED
    BY <2>1, <2>2
<1>9. Frames'
  BY <1>1, <1>4, <1>5, <1>8 DEF Frames, Searching
<1>10. Selected'
  BY <1>2, <1>4, <1>5 DEF Selected, Searching
<1>11. \A i : Edge(i)' = Edge(i)
  BY <1>2, <1>4, <1>5 DEF Edge
<1>12. \A a, m : Agrees(a, m)' <=> Agrees(a, m)
  BY <1>5 DEF Agrees
<1>13. \A a : Done(a)' <=> Done(a)
  BY <1>5, <1>11, <1>12 DEF Done
<1> QED
  BY <1>9, <1>10, <1>13

\* The entry of a least prime.
Rooted ==
  /\ stack = <<>> /\ least_index <= FactorCount /\ stack' = <<Frame(least_index, 1)>>
  /\ UNCHANGED <<input, limits, factors, bounds, least_index, selected_exponents>>

\* A new least prime puts no vector behind the search.
LEMMA RootFacts ==
  ASSUME Searching, Rooted
  PROVE  Frames' /\ Selected' /\ \A a \in Vectors(factors) : Done(a)' <=> Done(a)
<1> DEFINE k == FactorCount
           l == least_index
           x == Frame(least_index, 1)
<1>1. Listed(factors) /\ k \in Nat /\ k = Len(factors.primes)
  BY ReadyFacts DEF Searching
<1>2. l \in 1 .. k /\ Len(stack) = 0 /\ Depth = l - 1
  BY <1>1 DEF Searching, Frames, Depth, Rooted
<1>3. x = [index |-> l, partial |-> 1, called |-> TRUE, exponent |-> 1]
  BY DEF Frame
<1> HIDE DEF x
<1>4. x \in FrameSet /\ x.index = l /\ x.partial = 1 /\ x.called /\ x.exponent = 1
  <2>1. l \in Nat
    BY <1>1, <1>2
  <2> HIDE DEF l
  <2> QED
    BY <1>3, <2>1 DEF FrameSet
<1>5. stack' \in Seq(FrameSet) /\ Len(stack') = 1 /\ stack'[1] = x
  <2>1. stack' = <<x>>
    BY DEF Rooted, x
  <2> QED
    BY <1>4, <2>1
<1>6. FactorCount' = k /\ Depth' = l /\ factors' = factors /\ least_index' = l
      /\ selected_exponents' = selected_exponents
  BY <1>2, <1>5 DEF FactorCount, Depth, Rooted
<1>7. /\ selected_exponents \in Vectors(factors) /\ Below(factors, selected_exponents)
      /\ \A i \in 1 .. k : selected_exponents[i] = 0
  <2>1. \A i \in 1 .. k : i < l \/ i > Depth
    BY <1>2
  <2> QED
    BY <2>1 DEF Searching, Selected
<1>8. Prefix(factors, selected_exponents)[l - 1] = 1
  <2> DEFINE m == l - 1
  <2>1. m \in Nat /\ m <= Len(factors.primes) /\ \A i \in 1 .. m : selected_exponents[i] = 0
    BY <1>1, <1>2, <1>7
  <2> HIDE DEF m
  <2>2. Prefix(factors, selected_exponents)[m] = 1
    BY <1>1, <1>7, <2>1, PrefixOfZeros
  <2> QED
    BY <2>2 DEF m
<1>9. FrameRight(1)'
  BY <1>2, <1>4, <1>5, <1>6, <1>8 DEF FrameRight, Initial
<1>10. Frames'
  BY <1>1, <1>2, <1>5, <1>6, <1>9 DEF Frames
<1>11. Selected'
  BY <1>1, <1>2, <1>5, <1>6, <1>7 DEF Selected
<1>12. ASSUME NEW a \in Vectors(factors) PROVE Done(a)' <=> Done(a)
  <2>1. \A i : i = l => Edge(i)' = 1
    BY <1>2, <1>4, <1>5, <1>6 DEF Edge
  <2>2. Leads(a, l) => ~(a[l] < 1)
    BY <1>1, <1>2 DEF Leads, Vectors
  <2>3. \A i \in l .. Depth' : i = l
    BY <1>2, <1>6
  <2>4. Done(a) <=> \E i \in 1 .. l - 1 : a[i] # 0
    <3>1. \A i : i \notin l .. Depth
      BY <1>2
    <3> QED
      BY <3>1 DEF Done
  <2>5. Done(a)' <=> \/ \E i \in 1 .. l - 1 : a[i] # 0
                     \/ /\ Leads(a, l)
                        /\ \E i \in l .. Depth' : i <= k /\ Agrees(a, i - 1)' /\ a[i] < Edge(i)'
    BY <1>6 DEF Done
  <2> HIDE DEF l, k
  <2>6. ~(Leads(a, l) /\ \E i \in l .. Depth' : i <= k /\ Agrees(a, i - 1)' /\ a[i] < Edge(i)')
    BY <2>1, <2>2, <2>3
  <2> QED
    BY <2>4, <2>5, <2>6
<1> QED
  BY <1>10, <1>11, <1>12

\* A turn of the loop.
Turned(next) ==
  /\ stack # <<>> /\ ~stack[1].called
  /\ next = stack[1].partial * Power(factors.primes[Depth], stack[1].exponent)
  /\ stack[1].exponent <= factors.exponents[Depth]
  /\ selected_exponents' = [selected_exponents EXCEPT ![Depth] = stack[1].exponent]
  /\ stack' = <<Frame(Depth + 1, next), [stack[1] EXCEPT !.exponent = @ + 1]>> \o Tail(stack)
  /\ UNCHANGED <<input, limits, factors, bounds, least_index>>

\* A turn of the loop puts no vector behind the search.
LEMMA LoopFacts ==
  ASSUME Searching, NEW next, Turned(next)
  PROVE  Frames' /\ Selected' /\ \A a \in Vectors(factors) : Done(a)' <=> Done(a)
<1> DEFINE k == FactorCount
           l == least_index
           t == Depth
           n == Len(stack)
           e == selected_exponents
           u == selected_exponents'
           c == stack[1].exponent
           x == Frame(Depth + 1, next)
           y == [stack[1] EXCEPT !.exponent = @ + 1]
<1>1. /\ k \in Nat /\ k = Len(factors.primes) /\ n \in Nat /\ n > 0 /\ l \in 1 .. k /\ t \in l .. k
      /\ t = l + n - 1 /\ stack \in Seq(FrameSet) /\ stack[1] \in FrameSet /\ stack[1].index = t
      /\ stack[1].partial \in Nat /\ stack[1].partial = Prefix(factors, e)[t - 1]
      /\ c \in Nat /\ c >= Initial(t) /\ stack # <<>>
  BY TopFacts DEF Turned
<1>2. Listed(factors) /\ factors.primes[t] \in Nat /\ factors.exponents[t] \in Nat
  <2>1. Listed(factors) /\ t \in 1 .. Len(factors.primes)
    BY <1>1, ReadyFacts DEF Searching
  <2> HIDE DEF t
  <2> QED
    BY <2>1 DEF Listed
<1>3. next \in Nat
  <2>1. Power(factors.primes[t], c) \in Nat
    BY <1>1, <1>2, PowerFacts
  <2> DEFINE w == Power(factors.primes[t], c)
             v == stack[1].partial
  <2>2. w \in Nat /\ v \in Nat /\ next = v * w
    BY <1>1, <2>1 DEF Turned
  <2> HIDE DEF w, v
  <2> QED
    BY <2>2
<1>4. x = [index |-> t + 1, partial |-> next, called |-> TRUE, exponent |-> 0]
  <2>1. t + 1 # l
    BY <1>1
  <2> QED
    BY <2>1 DEF Frame
<1> HIDE DEF x
<1>5. x \in FrameSet /\ x.index = t + 1 /\ x.partial = next /\ x.called /\ x.exponent = 0
  <2>1. t + 1 \in Nat
    BY <1>1
  <2> HIDE DEF t
  <2> QED
    BY <1>3, <1>4, <2>1 DEF FrameSet
<1>6. y \in FrameSet /\ y.index = t /\ y.partial = stack[1].partial /\ ~y.called /\ y.exponent = c + 1
  <2> DEFINE z == stack[1]
  <2>1. z \in FrameSet /\ z.index = t /\ z.exponent = c /\ c \in Nat /\ ~z.called
        /\ y = [z EXCEPT !.exponent = c + 1]
    BY <1>1 DEF Turned
  <2> HIDE DEF z, y, t, c
  <2>2. y \in FrameSet /\ y.index = t /\ y.partial = z.partial /\ ~y.called /\ y.exponent = c + 1
    BY <2>1 DEF FrameSet
  <2> QED
    BY <2>2 DEF z
<1> HIDE DEF y
<1>7. stack' = <<x, y>> \o Tail(stack)
  BY DEF x, y, Turned
<1>8. /\ stack' \in Seq(FrameSet) /\ Len(stack') = n + 1 /\ stack'[1] = x /\ stack'[2] = y
      /\ \A j \in 3 .. n + 1 : stack'[j] = stack[j - 1]
  BY <1>1, <1>5, <1>6, <1>7, PushFacts
<1>9. FactorCount' = k /\ Depth' = t + 1 /\ factors' = factors /\ least_index' = l
  BY <1>1, <1>8 DEF FactorCount, Depth, Turned
<1>10. /\ e \in Vectors(factors) /\ Below(factors, e)
       /\ \A i \in 1 .. k : i < l \/ i > t => e[i] = 0
       /\ n > 1 => e[l] # 0
  BY DEF Searching, Selected
<1>11. u \in Vectors(factors) /\ \A i \in 1 .. k : u[i] = IF i = t THEN c ELSE e[i]
  <2>1. u = [e EXCEPT ![t] = c]
    BY DEF Turned
  <2> HIDE DEF u, e, t, c, k
  <2> QED
    BY <1>1, <1>10, <2>1 DEF Vectors
<1>12. Below(factors, u)
  <2>1. c <= factors.exponents[t]
    BY DEF Turned
  <2> HIDE DEF u, e, t, c, k
  <2> QED
    BY <1>1, <1>10, <1>11, <2>1 DEF Below
<1>13. /\ \A a, m : Agrees(a, m) <=> \A i \in 1 .. m : a[i] = e[i]
       /\ \A a, m : Agrees(a, m)' <=> \A i \in 1 .. m : a[i] = u[i]
       /\ \A i : Edge(i) = IF i < t THEN e[i] ELSE c
  BY DEF Agrees, Edge
<1>14. \A a : Done(a) <=> \/ \E i \in 1 .. l - 1 : a[i] # 0
                          \/ /\ Leads(a, l)
                             /\ \E i \in l .. t : i <= k /\ Agrees(a, i - 1) /\ a[i] < Edge(i)
  BY DEF Done
<1>15. \A a : Done(a)' <=> \/ \E i \in 1 .. l - 1 : a[i] # 0
                           \/ /\ Leads(a, l)
                              /\ \E i \in l .. t + 1 : i <= k /\ Agrees(a, i - 1)' /\ a[i] < Edge(i)'
  BY <1>9 DEF Done
<1>16. Selected' <=>
         /\ u \in Vectors(factors) /\ Below(factors, u)
         /\ \A i \in 1 .. k : i < l \/ i > t + 1 => u[i] = 0
         /\ Len(stack') > 0 /\ stack'[1].called /\ t + 1 <= k => u[t + 1] = 0
         /\ Len(stack') > 1 => u[l] # 0
  BY <1>9 DEF Selected
<1>17. Frames' <=>
         /\ stack' \in Seq(FrameSet)
         /\ l \in Nat /\ l > 0 /\ l <= k + 1
         /\ t + 1 <= k + 1
         /\ Len(stack') > 0 => l <= k
         /\ \A j \in 1 .. Len(stack') : FrameRight(j)'
  BY <1>9 DEF Frames
<1>18. \A j \in 1 .. n : /\ stack[j] \in FrameSet
                         /\ stack[j].index = (l + n) - j
                         /\ stack[j].partial = Prefix(factors, e)[stack[j].index - 1]
                         /\ stack[j].exponent >= Initial(stack[j].index)
                         /\ stack[j].called => stack[j].exponent = Initial(stack[j].index)
                         /\ ~stack[j].called => stack[j].index <= k
                         /\ j > 1 => ~stack[j].called /\ stack[j].exponent = e[stack[j].index] + 1
  BY DEF FrameRight, Searching, Frames
<1>19. \A j : FrameRight(j)' <=>
         /\ stack'[j] \in FrameSet
         /\ stack'[j].index = (l + (n + 1)) - j
         /\ stack'[j].partial = Prefix(factors, u)[stack'[j].index - 1]
         /\ stack'[j].exponent >= (IF stack'[j].index = l THEN 1 ELSE 0)
         /\ stack'[j].called => stack'[j].exponent = IF stack'[j].index = l THEN 1 ELSE 0
         /\ ~stack'[j].called => stack'[j].index <= k
         /\ j > 1 => ~stack'[j].called /\ stack'[j].exponent = u[stack'[j].index] + 1
  BY <1>8, <1>9 DEF FrameRight, Initial
<1>20. \A i : Initial(i) = IF i = l THEN 1 ELSE 0
  BY DEF Initial
<1>21. next = Prefix(factors, e)[t - 1] * Power(factors.primes[t], c)
  BY <1>1 DEF Turned
<1>22. \A i : Edge(i)' = IF i < t + 1 THEN u[i] ELSE 0
  BY <1>5, <1>8, <1>9 DEF Edge
<1> HIDE DEF k, l, t, n, e, u, c
<1>23. \A i \in 1 .. t - 1 : i \in 1 .. k /\ u[i] = e[i]
  BY <1>1, <1>11
<1>24. u[t] = c /\ t \in 1 .. k
  BY <1>1, <1>11
<1>25. ASSUME NEW m \in Nat, m <= t - 1 PROVE Prefix(factors, u)[m] = Prefix(factors, e)[m]
  <2>1. m <= Len(factors.primes) /\ \A i \in 1 .. m : u[i] = e[i]
    BY <1>1, <1>23, <1>25
  <2> QED
    BY <1>2, <1>10, <1>11, <2>1, PrefixAgrees
<1>26. Prefix(factors, u)[t] = next
  <2>1. Prefix(factors, u)[t] = Prefix(factors, u)[t - 1] * Power(factors.primes[t], u[t])
    BY <1>1, <1>2, <1>11, <1>24, PrefixFacts
  <2>2. t - 1 \in Nat /\ t - 1 <= t - 1
    BY <1>1
  <2>3. Prefix(factors, u)[t - 1] = Prefix(factors, e)[t - 1]
    BY <1>25, <2>2
  <2> QED
    BY <1>21, <1>24, <2>1, <2>3
<1>27. \A j \in 1 .. n + 1 : FrameRight(j)'
  <2> TAKE j \in 1 .. n + 1
  <2>1. CASE j = 1
    <3>1. t + 1 # l /\ (l + (n + 1)) - j = t + 1 /\ (t + 1) - 1 = t
      BY <1>1, <2>1
    <3>2. stack'[j] = x
      BY <1>8, <2>1
    <3>3. ~(j > 1)
      BY <2>1
    <3>4. /\ stack'[j] \in FrameSet /\ stack'[j].index = t + 1 /\ stack'[j].partial = next
          /\ stack'[j].called /\ stack'[j].exponent = 0
      BY <1>5, <3>2
    <3>5. stack'[j].partial = Prefix(factors, u)[stack'[j].index - 1]
      BY <1>26, <3>1, <3>4
    <3> DEFINE frame == stack'[j]
    <3>6. /\ frame \in FrameSet
          /\ frame.index = (l + (n + 1)) - j
          /\ frame.partial = Prefix(factors, u)[frame.index - 1]
          /\ (IF frame.index = l THEN 1 ELSE 0) = 0 /\ frame.exponent = 0
          /\ frame.called
      BY <3>1, <3>4, <3>5
    <3> HIDE DEF frame
    <3>7. /\ frame.exponent >= (IF frame.index = l THEN 1 ELSE 0)
          /\ frame.called => frame.exponent = IF frame.index = l THEN 1 ELSE 0
          /\ ~frame.called => frame.index <= k
          /\ j > 1 => ~frame.called /\ frame.exponent = u[frame.index] + 1
      BY <3>3, <3>6
    <3> QED
      BY <1>19, <3>6, <3>7, Zenon DEF frame
  <2>2. CASE j = 2
    <3>0. stack'[j] = y
      BY <1>8, <2>2
    <3>1. (l + (n + 1)) - j = t /\ t <= k /\ t - 1 \in Nat /\ t - 1 <= t - 1
      BY <1>1, <2>2
    <3>2. y.partial = Prefix(factors, u)[t - 1]
      BY <1>1, <1>6, <1>25, <3>1
    <3>3. c + 1 >= (IF t = l THEN 1 ELSE 0)
      BY <1>1
    <3> QED
      BY <1>6, <1>19, <1>24, <2>2, <3>0, <3>1, <3>2, <3>3
  <2>3. CASE j > 2
    <3>1. stack'[j] = stack[j - 1] /\ j - 1 \in 1 .. n /\ j - 1 > 1
      BY <1>1, <1>8, <2>3
    <3> DEFINE frame == stack[j - 1]
    <3>2. /\ frame \in FrameSet
          /\ frame.index = (l + n) - (j - 1)
          /\ frame.partial = Prefix(factors, e)[frame.index - 1]
          /\ frame.exponent >= Initial(frame.index)
          /\ frame.called => frame.exponent = Initial(frame.index)
          /\ ~frame.called => frame.index <= k
          /\ ~frame.called /\ frame.exponent = e[frame.index] + 1
      BY <1>18, <3>1
    <3>3. stack'[j] = frame
      BY <3>1
    <3> HIDE DEF frame
    <3>4. frame.index \in 1 .. t - 1 /\ frame.index - 1 \in Nat /\ frame.index - 1 <= t - 1
          /\ frame.index = (l + (n + 1)) - j
      BY <1>1, <2>3, <3>2
    <3>5. Prefix(factors, u)[frame.index - 1] = Prefix(factors, e)[frame.index - 1]
      BY <1>25, <3>4
    <3>6. u[frame.index] = e[frame.index]
      BY <1>23, <3>4
    <3> QED
      BY <1>19, <1>20, <3>2, <3>3, <3>4, <3>5, <3>6
  <2> QED
    BY <1>1, <2>1, <2>2, <2>3
<1>28. Frames'
  BY <1>1, <1>8, <1>17, <1>27
<1>29. Selected'
  <2>1. \A i \in 1 .. k : i < l \/ i > t + 1 => u[i] = 0
    <3> TAKE i \in 1 .. k
    <3>1. i < l \/ i > t + 1 => i # t /\ (i < l \/ i > t)
      BY <1>1
    <3> QED
      BY <1>10, <1>11, <3>1
  <2>2. t + 1 <= k => u[t + 1] = 0
    <3>1. t + 1 <= k => t + 1 \in 1 .. k /\ t + 1 # t /\ t + 1 > t
      BY <1>1
    <3> QED
      BY <1>10, <1>11, <3>1
  <2>3. u[l] # 0
    <3>1. CASE l = t
      BY <1>1, <1>20, <1>24, <3>1
    <3>2. CASE l # t
      <4>1. n > 1 /\ l \in 1 .. k
        BY <1>1, <3>2
      <4> QED
        BY <1>10, <1>11, <3>2, <4>1
    <3> QED
      BY <3>1, <3>2
  <2> QED
    BY <1>11, <1>12, <1>16, <2>1, <2>2, <2>3
<1>30. ASSUME NEW a \in Vectors(factors) PROVE Done(a)' <=> Done(a)
  <2>0. \A i \in 1 .. k : a[i] \in Nat
    BY <1>1 DEF Vectors
  <2>1. \A i \in l .. t : (Agrees(a, i - 1)' <=> Agrees(a, i - 1)) /\ Edge(i)' = Edge(i)
    <3> TAKE i \in l .. t
    <3>1. \A j \in 1 .. i - 1 : u[j] = e[j]
      BY <1>1, <1>23
    <3>2. Edge(i)' = u[i] /\ Edge(i) = u[i]
      <4>1. i < t + 1 /\ (i = t \/ (i < t /\ i \in 1 .. t - 1))
        BY <1>1
      <4> QED
        BY <1>13, <1>22, <1>23, <1>24, <4>1
    <3> QED
      BY <1>13, <3>1, <3>2
  <2>2. \A i : i = t + 1 /\ i <= k => ~(a[i] < Edge(i)')
    <3>1. \A i : i = t + 1 /\ i <= k => a[i] \in Nat
      <4>1. \A i : i = t + 1 /\ i <= k => i \in 1 .. k
        BY <1>1
      <4> QED
        BY <2>0, <4>1
    <3>2. \A i : i = t + 1 => Edge(i)' = 0
      BY <1>1, <1>22
    <3> QED
      BY <3>1, <3>2
  <2>3. \A i \in l .. t + 1 : i \in l .. t \/ i = t + 1
    BY <1>1
  <2>4. \A i \in l .. t : i \in l .. t + 1
    BY <1>1
  <2> QED
    BY <1>14, <1>15, <2>1, <2>2, <2>3, <2>4
<1> QED
  BY <1>28, <1>29, <1>30

\* What agrees with the search so far stays within the bounds of a branch.
LEMMA BranchFacts ==
  ASSUME Searching, stack # <<>>, NEW a \in GoodVectors, Leads(a, least_index), Agrees(a, Depth - 1)
  PROVE  /\ ~Pruned(Depth, stack[1].partial)
         /\ bounds.lower < Value(factors, a) /\ Value(factors, a) < UpperBound
         /\ Depth = FactorCount + 1 => a = selected_exponents
         /\ Depth <= FactorCount =>
              stack[1].partial * Power(factors.primes[Depth], a[Depth]) < UpperBound
<1> DEFINE k == FactorCount
           l == least_index
           t == Depth
           e == selected_exponents
           h == SuffixOf(factors)
           v == Value(factors, a)
           x == stack[1].partial
           lower == bounds.lower
<1>1. /\ k \in Nat /\ k = Len(factors.primes) /\ l \in 1 .. k /\ t \in l .. k + 1
      /\ x \in Nat /\ x > 0 /\ x = Prefix(factors, e)[t - 1]
  BY TopFacts
<1>2. Listed(factors) /\ lower \in Nat
  BY ReadyFacts DEF Searching
<1>3. e \in Vectors(factors)
  BY DEF Searching, Selected
<1>4. a \in Vectors(factors) /\ Below(factors, a) /\ lower < v
  BY DEF GoodVectors, Good
<1>5. PICK m \in 1 .. k : Leads(a, m) /\ v < lower * factors.primes[m]
  BY <1>1 DEF GoodVectors, Good
<1>6. m = l
  <2>1. ~(m < l)
    <3>1. m < l => m \in 1 .. l - 1
      BY <1>1
    <3> QED
      BY <1>5, <3>1 DEF Leads
  <2>2. ~(l < m)
    <3>1. l < m => l \in 1 .. m - 1
      BY <1>1
    <3> QED
      BY <1>5, <3>1 DEF Leads
  <2> QED
    BY <1>1, <2>1, <2>2
<1>7. v < UpperBound
  BY <1>5, <1>6 DEF UpperBound, PrimeAt
<1>8. UpperBound \in Nat
  <2>1. factors.primes[l] \in Nat
    BY <1>1, <1>2 DEF Listed
  <2> DEFINE q == factors.primes[l]
  <2>2. q \in Nat /\ UpperBound = lower * q
    BY <2>1 DEF UpperBound, PrimeAt
  <2> HIDE DEF q, lower
  <2> QED
    BY <1>2, <2>2
<1>9. \A i \in 1 .. t - 1 : a[i] = e[i]
  BY DEF Agrees
<1>10. v \in Nat
  <2>1. k \in 0 .. k
    BY <1>1
  <2> QED
    BY <1>1, <1>2, <1>4, <2>1, PrefixFacts DEF Value
<1>11. SuffixProducts(h, factors) /\ SuffixMaximum(t) = h[t]
  BY <1>2, SuffixOfFacts, SuffixUnfolds
<1> HIDE DEF k, l, t, e, h, v, x, lower
<1>12. Prefix(factors, a)[t - 1] = x
  <2> DEFINE n == t - 1
  <2>1. n \in Nat /\ n <= Len(factors.primes) /\ \A i \in 1 .. n : a[i] = e[i]
    BY <1>1, <1>9
  <2> HIDE DEF n
  <2>2. Prefix(factors, a)[n] = Prefix(factors, e)[n]
    BY <1>2, <1>3, <1>4, <2>1, PrefixAgrees
  <2> QED
    BY <1>1, <2>2 DEF n
<1>13. \A i \in 1 .. k + 1 :
         /\ Prefix(factors, a)[i - 1] <= Value(factors, a)
         /\ Value(factors, a) <= Prefix(factors, a)[i - 1] * h[i]
  BY <1>1, <1>2, <1>4, <1>11, ValueBetween
<1>14. x <= v /\ v <= x * h[t]
  <2>1. t \in 1 .. k + 1
    BY <1>1
  <2>2. Prefix(factors, a)[t - 1] <= Value(factors, a)
        /\ Value(factors, a) <= Prefix(factors, a)[t - 1] * h[t]
    BY <1>13, <2>1
  <2> QED
    BY <1>12, <2>2 DEF v
<1>15. ~Pruned(t, x)
  <2> DEFINE y == x * h[t]
  <2>1. y \in Nat /\ v <= y
    <3>1. h[t] \in Nat
      BY <1>1, <1>2, <1>11, SuffixFacts
    <3> QED
      BY <1>1, <1>14, <3>1
  <2>2. Pruned(t, x) <=> x >= UpperBound \/ y <= lower
    BY <1>11 DEF Pruned, lower
  <2> HIDE DEF y
  <2> QED
    BY <1>1, <1>2, <1>4, <1>7, <1>8, <1>10, <1>14, <2>1, <2>2
<1>16. ASSUME t = k + 1 PROVE a = e
  <2>1. \A i \in 1 .. k : a[i] = e[i]
    BY <1>1, <1>9, <1>16
  <2> QED
    BY <1>1, <1>3, <1>4, <2>1 DEF Vectors
<1>17. ASSUME t <= k PROVE x * Power(factors.primes[t], a[t]) < UpperBound
  <2>1. t \in 1 .. k /\ t + 1 \in 1 .. k + 1 /\ (t + 1) - 1 = t
    BY <1>1, <1>17
  <2> DEFINE w == Power(factors.primes[t], a[t])
  <2>2. Prefix(factors, a)[t] = Prefix(factors, a)[t - 1] * w /\ w \in Nat
    BY <1>1, <1>2, <1>4, <2>1, PrefixFacts
  <2>3. Prefix(factors, a)[t] <= v
    BY <1>13, <2>1 DEF v
  <2> DEFINE y == x * w
  <2>4. y <= v /\ y \in Nat
    BY <1>1, <1>12, <2>2, <2>3
  <2> HIDE DEF y
  <2>5. y < UpperBound
    BY <1>7, <1>8, <1>10, <2>4
  <2> QED
    BY <2>5 DEF y
<1> QED
  BY <1>4, <1>7, <1>15, <1>16, <1>17 DEF k, l, t, e, v, x, lower

\* What a return adds to the orders behind the search.
LEMMA SeenAfterPop ==
  ASSUME Searching, UNCHANGED <<factors, bounds, preferred>>, NEW X,
         \A a \in Vectors(factors) : Done(a)' <=> Done(a) \/ (Leads(a, least_index) /\ Agrees(a, Depth - 1)),
         \A a \in GoodVectors : Leads(a, least_index) /\ Agrees(a, Depth - 1) =>
            Done(a) \/ Value(factors, a) \in X \cup Greedy,
         \A d \in X : \E a \in GoodVectors :
            Leads(a, least_index) /\ Agrees(a, Depth - 1) /\ Value(factors, a) = d
  PROVE  Seen' = Seen \cup X
<1>1. Greedy' = Greedy /\ GoodVectors' = GoodVectors /\ factors' = factors
  BY DEF Greedy, GoodVectors
<1>2. GoodVectors \in SUBSET Vectors(factors)
  BY DEF GoodVectors
<1> DEFINE V(a) == Value(factors, a)
           D(a) == Done(a)
           E(a) == Leads(a, least_index) /\ Agrees(a, Depth - 1)
<1>3. Seen = Greedy \cup {V(a) : a \in {b \in GoodVectors : D(b)}}
  BY DEF Seen
<1>4. Seen' = Greedy \cup {V(a) : a \in {b \in GoodVectors : Done(b)'}}
  BY <1>1 DEF Seen
<1>5. \A a \in GoodVectors : Done(a)' <=> D(a) \/ E(a)
  BY <1>2
<1>6. \A a \in GoodVectors : E(a) => D(a) \/ V(a) \in X \cup Greedy
  OBVIOUS
<1>7. \A d \in X : \E a \in GoodVectors : E(a) /\ V(a) = d
  OBVIOUS
<1> HIDE DEF V, D, E
<1>8. \A d \in Seen' : d \in Seen \cup X
  BY <1>3, <1>4, <1>5, <1>6
<1>9. \A d \in Seen : d \in Seen'
  BY <1>3, <1>4, <1>5
<1>10. \A d \in X : d \in Seen'
  BY <1>4, <1>5, <1>7
<1> QED
  BY <1>8, <1>9, <1>10

\* Nothing inadmissible is visited.
LEMMA SeenIsAdmissible ==
  ASSUME Ready, Chosen
  PROVE  Seen \in SUBSET Admissible
<1>1. \A a \in GoodVectors : Value(factors, a) \in Admissible
  BY ReadyFacts
<1> QED
  BY <1>1 DEF Seen, Chosen

\* A turn of the loop, or its end: a vector with a further exponent exceeds the
\* upper bound.
LEMMA LoopStep ==
  ASSUME EInv, Loop
  PROVE  EInv'
<1> DEFINE frame == stack[1]
           c == stack[1].exponent
           next == stack[1].partial * Power(factors.primes[Depth], stack[1].exponent)
<1>1. /\ Searching /\ Chosen /\ Visits /\ VisitedOrders = Seen /\ pc = "descend" /\ result = NoResult
      /\ stack # <<>> /\ UNCHANGED <<input, limits, factors, bounds, pc, preferred, visited, nodes, result>>
  BY DEF EInv, Loop, Searching, Ready
<1>2. /\ FactorCount \in Nat /\ FactorCount = Len(factors.primes)
      /\ stack \in Seq(FrameSet) /\ Head(stack) = stack[1]
      /\ least_index \in 1 .. FactorCount /\ Depth \in least_index .. FactorCount + 1
      /\ stack[1] \in FrameSet /\ stack[1].index = Depth
      /\ stack[1].partial \in Nat /\ stack[1].partial > 0
      /\ c \in Nat /\ c >= Initial(Depth)
      /\ ~stack[1].called => Depth <= FactorCount
  BY <1>1, TopFacts
<1>3. ~stack[1].called /\ Depth \in 1 .. FactorCount
  <2>1. ~stack[1].called
    BY <1>2 DEF Loop
  <2> QED
    BY <1>2, <2>1
<1>4. Ready' /\ Chosen' /\ Visits' /\ VisitedOrders' = VisitedOrders /\ pc' = "descend" /\ result' = NoResult
  BY <1>1 DEF Searching, Ready, Chosen, Greedy, Admissible, Visits, VisitedOrders, PrimesMatch
<1>5. ASSUME Frames', Selected', Seen' = Seen PROVE EInv'
  BY <1>1, <1>4, <1>5 DEF EInv, Ready
<1>6. CASE c <= factors.exponents[Depth] /\ next < UpperBound
  <2>1. Turned(next)
    <3>1. /\ selected_exponents' = [selected_exponents EXCEPT ![stack[1].index] = stack[1].exponent]
          /\ stack' = <<Frame(stack[1].index + 1, next),
                        [stack[1] EXCEPT !.exponent = @ + 1]>> \o Tail(stack)
          /\ UNCHANGED least_index
      BY <1>2, <1>6 DEF Loop, PrimeAt
    <3> QED
      BY <1>1, <1>2, <1>3, <1>6, <3>1 DEF Turned
  <2> HIDE DEF next
  <2>2. Frames' /\ Selected' /\ \A a \in Vectors(factors) : Done(a)' <=> Done(a)
    BY <1>1, <2>1, LoopFacts
  <2>3. Seen' = Seen
    <3>1. Greedy' = Greedy /\ GoodVectors' = GoodVectors /\ GoodVectors \in SUBSET Vectors(factors)
      BY <1>1 DEF Greedy, GoodVectors
    <3>2. {b \in GoodVectors : Done(b)'} = {b \in GoodVectors : Done(b)}
      BY <2>2, <3>1
    <3> QED
      BY <1>1, <3>1, <3>2 DEF Seen
  <2> QED
    BY <1>5, <2>2, <2>3
<1>7. CASE ~(c <= factors.exponents[Depth] /\ next < UpperBound)
  <2>1. selected_exponents' = [selected_exponents EXCEPT ![Depth] = 0] /\ Return(Tail(stack))
    BY <1>2, <1>7 DEF Loop, PrimeAt
  <2>2. /\ selected_exponents' \in Vectors(factors)
        /\ \A i \in 1 .. FactorCount :
             selected_exponents'[i] = IF i = Depth THEN 0 ELSE selected_exponents[i]
    <3>1. selected_exponents \in Vectors(factors)
      BY <1>1 DEF Searching, Selected
    <3> QED
      BY <1>2, <1>3, <2>1, <3>1 DEF Vectors
  <2>3. UNCHANGED <<input, limits, factors, bounds>>
    BY <1>1
  <2>4. /\ Frames' /\ Selected'
        /\ \A a \in Vectors(factors) :
             Done(a)' <=> Done(a) \/ (Leads(a, least_index) /\ Agrees(a, Depth - 1))
    BY <1>1, <2>1, <2>2, <2>3, PopFacts
  <2>5. ASSUME NEW a \in GoodVectors, Leads(a, least_index), Agrees(a, Depth - 1), ~(a[Depth] < c)
        PROVE FALSE
    <3> DEFINE q == factors.primes[Depth]
               j == a[Depth]
               x == stack[1].partial
    <3>1. a \in Vectors(factors) /\ Below(factors, a)
      BY DEF GoodVectors, Good
    <3>2. j \in Nat /\ j <= factors.exponents[Depth]
      BY <1>2, <1>3, <3>1 DEF Vectors, Below
    <3>3. q \in Nat /\ q > 1 /\ factors.exponents[Depth] \in Nat
      <4>1. Listed(factors)
        BY <1>1, ReadyFacts DEF Searching
      <4> QED
        BY <1>2, <1>3, <4>1 DEF Listed, SmallPrime
    <3>4. x * Power(q, j) < UpperBound
      BY <1>1, <1>2, <1>3, <2>5, BranchFacts
    <3>5. c <= j /\ c <= factors.exponents[Depth]
      BY <1>2, <2>5, <3>2, <3>3
    <3>6. ~(x * Power(q, c) < UpperBound)
      BY <1>7, <3>5
    <3>7. x \in Nat /\ c \in Nat
      BY <1>2
    <3>8. UpperBound \in Nat
      <4> DEFINE r == factors.primes[least_index]
                 lower == bounds.lower
      <4>1. r \in Nat /\ lower \in Nat /\ UpperBound = lower * r
        <5>1. Listed(factors) /\ bounds.lower \in Nat
          BY <1>1, ReadyFacts DEF Searching
        <5> QED
          BY <1>2, <5>1 DEF Listed, UpperBound, PrimeAt
      <4> HIDE DEF r, lower
      <4> QED
        BY <4>1
    <3> HIDE DEF q, j, x, c
    <3>9. PICK r \in Nat : r > 0 /\ Power(q, j) = Power(q, c) * r
      <4>1. \E r \in Nat : r > 0 /\ Power(q, j) = Power(q, c) * r /\ Power(q, c) > 0
                           /\ (c < j => Multiple(r, q))
        BY <3>2, <3>3, <3>5, <3>7, PowerDivides
      <4> QED
        BY <4>1
    <3> DEFINE w == Power(q, c)
    <3>10. w \in Nat
      BY <3>3, <3>7, PowerFacts
    <3>11. x * Power(q, j) = x * (w * r)
      BY <3>9
    <3> HIDE DEF w
    <3> DEFINE y == x * w
    <3>12. y \in Nat /\ x * (w * r) = y * r
      BY <3>7, <3>10
    <3>13. ~(y < UpperBound)
      BY <3>6 DEF w
    <3> HIDE DEF y
    <3>14. y * r >= y
      BY <3>9, <3>12
    <3> QED
      BY <3>4, <3>8, <3>11, <3>12, <3>13, <3>14
  <2>6. ASSUME NEW a \in GoodVectors, Leads(a, least_index), Agrees(a, Depth - 1)
        PROVE Done(a)
    <3>1. a[Depth] < c
      BY <2>5, <2>6
    <3>2. Depth \in least_index .. Depth /\ Depth <= FactorCount /\ Edge(Depth) = c
      BY <1>2, <1>3 DEF Edge
    <3> QED
      BY <2>6, <3>1, <3>2 DEF Done
  <2>7. Seen' = Seen \cup {}
    <3>1. UNCHANGED <<factors, bounds, preferred>>
      BY <1>1
    <3> QED
      BY <1>1, <2>4, <2>6, <3>1, SeenAfterPop
  <2> QED
    BY <1>5, <2>4, <2>7
<1> QED
  BY <1>6, <1>7

\* The end of the search: every good vector is behind it.
LEMMA RootStep ==
  ASSUME EInv, Root
  PROVE  EInv'
<1>1. /\ Searching /\ Ready /\ Chosen /\ Visits /\ VisitedOrders = Seen /\ pc = "descend" /\ result = NoResult
      /\ stack = <<>>
      /\ UNCHANGED <<input, limits, factors, bounds, preferred, least_index, selected_exponents, visited, nodes>>
  BY DEF EInv, Root, Searching, Ready
<1>2. /\ Ready' /\ Chosen' /\ Visits' /\ VisitedOrders' = VisitedOrders /\ Admissible' = Admissible
  BY <1>1 DEF Searching, Ready, Chosen, Greedy, Admissible, Visits, VisitedOrders, PrimesMatch
<1>3. CASE least_index <= FactorCount
  <2>1. Rooted /\ pc' = "descend" /\ result' = NoResult
    BY <1>1, <1>3 DEF Root, Rooted
  <2>2. Frames' /\ Selected' /\ \A a \in Vectors(factors) : Done(a)' <=> Done(a)
    BY <1>1, <2>1, RootFacts
  <2>3. Seen' = Seen
    <3>1. Greedy' = Greedy /\ GoodVectors' = GoodVectors /\ GoodVectors \in SUBSET Vectors(factors)
      BY <1>1 DEF Greedy, GoodVectors
    <3>2. {b \in GoodVectors : Done(b)'} = {b \in GoodVectors : Done(b)}
      BY <2>2, <3>1
    <3> QED
      BY <1>1, <3>1, <3>2 DEF Seen
  <2> QED
    BY <1>1, <1>2, <2>1, <2>2, <2>3 DEF EInv, Ready
<1>4. CASE ~(least_index <= FactorCount)
  <2>1. /\ pc' = "done"
        /\ result'.limit = "none" /\ ~result'.stopped_early
    BY <1>1, <1>4 DEF Root, Finish, NoResult
  <2>2. /\ FactorCount \in Nat /\ FactorCount = Len(factors.primes)
        /\ \A d \in Admissible : \E a \in GoodVectors : Value(factors, a) = d
    BY <1>1, ReadyFacts
  <2>3. least_index \in Nat
    BY <1>1 DEF Searching, Frames
  <2>4. ASSUME NEW a \in GoodVectors PROVE Done(a)
    <3>1. PICK m \in 1 .. FactorCount : Leads(a, m)
      BY <2>2 DEF GoodVectors, Good
    <3>2. m \in 1 .. least_index - 1
      BY <1>4, <2>2, <2>3
    <3> QED
      BY <3>1, <3>2 DEF Leads, Done
  <2>5. Admissible \in SUBSET Seen
    BY <2>2, <2>4 DEF Seen
  <2>6. VisitedOrders = Admissible
    <3>1. Seen \in SUBSET Admissible
      BY <1>1, SeenIsAdmissible
    <3> QED
      BY <1>1, <2>5, <3>1
  <2>7. AdmissibleOnce' /\ PrimesMatch'
    BY <1>2, <2>1, <2>6 DEF AdmissibleOnce, Visits
  <2> QED
    BY <1>2, <2>1, <2>7 DEF EInv, Ready
<1> QED
  BY <1>3, <1>4

\* The vector of a leaf.
LEMMA LeafFacts ==
  ASSUME Searching, stack # <<>>, Depth = FactorCount + 1
  PROVE  /\ stack[1].partial = Value(factors, selected_exponents)
         /\ selected_exponents \in Vectors(factors) /\ Below(factors, selected_exponents)
         /\ Leads(selected_exponents, least_index) /\ Agrees(selected_exponents, Depth - 1)
         /\ ~Done(selected_exponents)
<1> DEFINE e == selected_exponents
           l == least_index
           k == FactorCount
           t == Depth
<1>1. /\ k \in Nat /\ k = Len(factors.primes) /\ l \in 1 .. k /\ t = k + 1 /\ Len(stack) \in Nat
      /\ t = l + Len(stack) - 1 /\ stack[1].partial = Prefix(factors, e)[t - 1]
  BY TopFacts
<1>2. stack[1].partial = Value(factors, e)
  <2>1. t - 1 = k
    BY <1>1
  <2> QED
    BY <1>1, <2>1 DEF Value
<1>3. /\ e \in Vectors(factors) /\ Below(factors, e)
      /\ \A i \in 1 .. k : i < l \/ i > t => e[i] = 0
      /\ Len(stack) > 1 => e[l] # 0
  BY DEF Searching, Selected
<1>4. Leads(e, l)
  <2>1. Len(stack) > 1
    BY <1>1
  <2>2. \A i \in 1 .. l - 1 : i \in 1 .. k /\ i < l
    BY <1>1
  <2> QED
    BY <1>3, <2>1, <2>2 DEF Leads
<1>5. Agrees(e, t - 1)
  BY DEF Agrees
<1>6. \A i \in 1 .. k : e[i] \in Nat
  BY <1>1, <1>3 DEF Vectors
<1>7. ASSUME NEW i \in l .. t, i <= k, e[i] < Edge(i) PROVE FALSE
  <2>1. i \in 1 .. k /\ i < t
    BY <1>1, <1>7
  <2>2. Edge(i) = e[i]
    BY <2>1 DEF Edge
  <2>3. e[i] \in Nat
    BY <1>6, <2>1
  <2> QED
    BY <1>7, <2>2, <2>3
<1>8. ~Done(e)
  <2>1. ~\E i \in 1 .. l - 1 : e[i] # 0
    BY <1>4 DEF Leads
  <2> QED
    BY <1>7, <2>1 DEF Done
<1> QED
  BY <1>2, <1>3, <1>4, <1>5, <1>8

\* A return with nothing admissible left in the branch.
LEMMA ReturnKeeps ==
  ASSUME EInv, pc = "descend", stack # <<>>, stack[1].called, Return(Tail(stack)),
         UNCHANGED <<input, limits, factors, bounds, preferred, selected_exponents>>,
         NEW X,
         \A a \in GoodVectors : Leads(a, least_index) /\ Agrees(a, Depth - 1) =>
            Value(factors, a) \in X \cup Greedy,
         \A d \in X : \E a \in GoodVectors :
            Leads(a, least_index) /\ Agrees(a, Depth - 1) /\ Value(factors, a) = d
  PROVE  Frames' /\ Selected' /\ Seen' = Seen \cup X
<1>1. Searching
  BY DEF EInv, Searching, Ready
<1>2. /\ FactorCount \in Nat /\ FactorCount = Len(factors.primes)
      /\ least_index \in 1 .. FactorCount /\ Depth \in least_index .. FactorCount + 1
  BY <1>1, TopFacts
<1>3. /\ selected_exponents \in Vectors(factors)
      /\ Len(stack) > 0 /\ stack[1].called /\ Depth <= FactorCount => selected_exponents[Depth] = 0
  BY <1>1 DEF Searching, Selected
<1>4. Len(stack) > 0
  BY <1>1, TopFacts
<1>5. /\ selected_exponents' \in Vectors(factors)
      /\ \A i \in 1 .. FactorCount :
           selected_exponents'[i] = IF i = Depth THEN 0 ELSE selected_exponents[i]
  BY <1>2, <1>3, <1>4
<1>6. /\ Frames' /\ Selected'
      /\ \A a \in Vectors(factors) :
           Done(a)' <=> Done(a) \/ (Leads(a, least_index) /\ Agrees(a, Depth - 1))
  BY <1>1, <1>5, PopFacts
<1>7. Seen' = Seen \cup X
  BY <1>1, <1>6, SeenAfterPop
<1> QED
  BY <1>6, <1>7

\* A return without a visit.
LEMMA ReturnStep ==
  ASSUME EInv, pc = "descend", stack # <<>>, stack[1].called, Return(Tail(stack)),
         UNCHANGED <<input, limits, factors, bounds, preferred, selected_exponents, pc, visited, result>>,
         \A a \in GoodVectors : Leads(a, least_index) /\ Agrees(a, Depth - 1) =>
            Value(factors, a) \in Greedy
  PROVE  EInv'
<1>1. Frames' /\ Selected' /\ Seen' = Seen \cup {}
  BY ReturnKeeps
<1>2. /\ Chosen /\ Visits /\ Ready /\ VisitedOrders = Seen /\ result = NoResult
  BY DEF EInv, Ready
<1>3. Ready' /\ Chosen' /\ Visits' /\ VisitedOrders' = VisitedOrders
  BY <1>2 DEF Ready, Chosen, Greedy, Admissible, Visits, VisitedOrders, PrimesMatch
<1> QED
  BY <1>1, <1>2, <1>3 DEF EInv, Ready

\* What a leaf that the code visits holds.
LEMMA LeafIsNew ==
  ASSUME EInv, pc = "descend", stack # <<>>, Depth = FactorCount + 1,
         ~Pruned(Depth, stack[1].partial), ~(stack[1].partial <= bounds.lower),
         ~IsPreferred(stack[1].partial)
  PROVE  /\ stack[1].partial \in Nat /\ stack[1].partial \in Admissible
         /\ stack[1].partial \notin VisitedOrders
         /\ SelectedPrimes = PrimesOf(stack[1].partial)
         /\ selected_exponents \in GoodVectors
         /\ Leads(selected_exponents, least_index) /\ Agrees(selected_exponents, Depth - 1)
         /\ Value(factors, selected_exponents) = stack[1].partial
<1> DEFINE x == stack[1].partial
           e == selected_exponents
<1>1. Searching /\ Ready /\ Chosen /\ VisitedOrders = Seen
  BY DEF EInv, Searching, Ready
<1>2. /\ x = Value(factors, e) /\ e \in Vectors(factors) /\ Below(factors, e)
      /\ Leads(e, least_index) /\ Agrees(e, Depth - 1) /\ ~Done(e)
  BY <1>1, LeafFacts
<1>3. /\ FactorCount = Len(factors.primes) /\ least_index \in 1 .. FactorCount
      /\ x \in Nat /\ x > 0
  BY <1>1, TopFacts
<1>4. bounds.lower \in Nat /\ \A a, b \in Vectors(factors) : Value(factors, a) = Value(factors, b) => a = b
  BY <1>1, ReadyFacts
<1>5. UpperBound = bounds.lower * factors.primes[least_index] /\ UpperBound \in Nat
  <2> DEFINE r == factors.primes[least_index]
             lower == bounds.lower
  <2>1. r \in Nat /\ lower \in Nat /\ UpperBound = lower * r
    <3>1. Listed(factors) /\ bounds.lower \in Nat
      BY <1>1, ReadyFacts DEF Searching
    <3> QED
      BY <1>3, <3>1 DEF Listed, UpperBound, PrimeAt
  <2> HIDE DEF r, lower
  <2>2. UpperBound \in Nat
    BY <2>1
  <2> QED
    BY <2>1, <2>2 DEF r, lower
<1>6. bounds.lower < x /\ x < UpperBound
  <2>1. ~(x >= UpperBound)
    BY DEF Pruned
  <2> HIDE DEF x
  <2>2. ~(x <= bounds.lower)
    BY DEF x
  <2> QED
    BY <1>3, <1>4, <1>5, <2>1, <2>2
<1>7. e \in GoodVectors
  <2>1. Good(factors, bounds.lower, e)
    BY <1>2, <1>3, <1>5, <1>6 DEF Good
  <2> QED
    BY <1>2, <2>1 DEF GoodVectors
<1>8. x \in Admissible
  BY <1>1, <1>2, <1>7, ReadyFacts
<1>9. x \notin Seen
  <2>1. x \notin Greedy
    BY DEF IsPreferred, Greedy
  <2>2. ASSUME NEW a \in GoodVectors, Done(a), Value(factors, a) = x PROVE FALSE
    <3>1. a \in Vectors(factors)
      BY DEF GoodVectors
    <3>2. a = e
      BY <1>2, <1>4, <2>2, <3>1
    <3> QED
      BY <1>2, <2>2, <3>2
  <2> QED
    BY <2>1, <2>2 DEF Seen
<1>10. SelectedPrimes = PrimesOf(x)
  <2>1. Listed(factors)
    BY <1>1, ReadyFacts
  <2>2. SelectedPrimes = Ascending({factors.primes[i] : i \in {j \in 1 .. Len(factors.primes) : e[j] # 0}})
    BY DEF SelectedPrimes, PrimeAt, FactorCount
  <2> QED
    BY <1>2, <2>1, <2>2, SelectedAreItsPrimes
<1> QED
  BY <1>1, <1>2, <1>3, <1>7, <1>8, <1>9, <1>10

\* A prune, a leaf or the entry of a loop.
LEMMA DescendStep ==
  ASSUME EInv, Descend
  PROVE  EInv'
<1> DEFINE x == stack[1].partial
           called == stack[1].called
           leaf == Depth = FactorCount + 1
<1>1. /\ Searching /\ Ready /\ Chosen /\ Visits /\ VisitedOrders = Seen /\ pc = "descend" /\ result = NoResult
      /\ stack # <<>>
      /\ UNCHANGED <<input, limits, factors, bounds, preferred, selected_exponents>>
  BY DEF EInv, Descend, Searching, Ready
<1>2. /\ Head(stack) = stack[1] /\ stack[1].index = Depth /\ FactorCount \in Nat
      /\ Depth \in least_index .. FactorCount + 1
  BY <1>1, TopFacts
<1>3. stack[1].called
  BY <1>2 DEF Descend
<1>4. Ready' /\ Chosen' /\ Admissible' = Admissible
  BY <1>1 DEF Ready, Chosen, Greedy, Admissible
<1>5. VisitedOrders \in SUBSET Admissible
  BY <1>1, SeenIsAdmissible
<1>6. CASE nodes = limits.nodes
  <2>1. /\ pc' = "done" /\ result' = [result EXCEPT !.limit = "search_nodes"] /\ visited' = visited
    BY <1>6 DEF Descend, Finish
  <2>2. Visits' /\ VisitedOrders' = VisitedOrders
    BY <1>1, <2>1 DEF Visits, VisitedOrders, PrimesMatch
  <2> QED
    BY <1>1, <1>5, <2>1, <2>2, CutShort
<1> DEFINE pruned == Pruned(Depth, x)
           passed == x <= bounds.lower \/ IsPreferred(x)
<1>7. ASSUME nodes # limits.nodes
      PROVE  \/ /\ pruned \/ (leaf /\ passed)
                /\ Return(Tail(stack)) /\ UNCHANGED <<pc, visited, result>>
             \/ /\ ~pruned /\ leaf /\ ~passed
                /\ Return(Tail(stack)) /\ Visit(x, SelectedPrimes, "descend")
             \/ /\ ~pruned /\ ~leaf
                /\ stack' = <<[stack[1] EXCEPT !.called = FALSE]>> \o Tail(stack)
                /\ UNCHANGED <<pc, least_index, visited, result>>
  <2> DEFINE P == Pruned(stack[1].index, x)
             L == stack[1].index = FactorCount + 1
  <2>1. CASE P \/ (L /\ passed)
        <3>1. Return(Tail(stack)) /\ UNCHANGED <<pc, visited, result>>
          <4> HIDE DEF P, L, passed
          <4> QED
            BY <1>2, <1>7, <2>1 DEF Descend, P, L, passed
        <3> QED
          BY <1>2, <2>1, <3>1
  <2>2. CASE ~P /\ L /\ ~passed
    BY <1>2, <1>7, <2>2 DEF Descend
  <2>3. CASE ~P /\ ~L
    BY <1>2, <1>7, <2>3 DEF Descend
  <2> QED
    BY <2>1, <2>2, <2>3
<1>8. CASE /\ nodes # limits.nodes /\ (pruned \/ (leaf /\ passed))
           /\ Return(Tail(stack)) /\ UNCHANGED <<pc, visited, result>>
  <2>1. ASSUME NEW a \in GoodVectors, Leads(a, least_index), Agrees(a, Depth - 1)
        PROVE  Value(factors, a) \in Greedy
    <3>1. /\ ~Pruned(Depth, x) /\ bounds.lower < Value(factors, a)
          /\ Depth = FactorCount + 1 => a = selected_exponents
      BY <1>1, <2>1, BranchFacts
    <3>2. leaf /\ passed
      BY <1>8, <3>1
    <3>3. a = selected_exponents /\ x = Value(factors, selected_exponents)
      BY <1>1, <3>1, <3>2, LeafFacts
    <3>4. Value(factors, a) \in Nat /\ bounds.lower \in Nat /\ Value(factors, a) # NoOrder
      <4>1. /\ bounds.lower \in Nat
            /\ \A d \in Admissible : d \in Nat /\ d # NoOrder
            /\ \A b \in GoodVectors : Value(factors, b) \in Admissible
        BY <1>1, ReadyFacts
      <4> QED
        BY <4>1
    <3>5. ~(x <= bounds.lower)
      <4> DEFINE y == Value(factors, a)
      <4>1. y \in Nat /\ bounds.lower < y /\ x = y
        BY <3>1, <3>3, <3>4
      <4> HIDE DEF y, x
      <4> QED
        BY <3>4, <4>1
    <3>6. IsPreferred(x)
      BY <3>2, <3>5
    <3> QED
      BY <3>3, <3>4, <3>6 DEF IsPreferred, Greedy
  <2>2. UNCHANGED <<input, limits, factors, bounds, preferred, selected_exponents, pc, visited, result>>
    BY <1>1, <1>8
  <2> QED
    BY <1>1, <1>3, <1>8, <2>1, <2>2, ReturnStep
<1>9. CASE /\ ~pruned /\ leaf /\ ~passed
           /\ Return(Tail(stack)) /\ Visit(x, SelectedPrimes, "descend")
  <2> DEFINE primes == SelectedPrimes
  <2>1. /\ x \in Nat /\ x \in Admissible /\ x \notin VisitedOrders /\ primes = PrimesOf(x)
        /\ selected_exponents \in GoodVectors
        /\ Leads(selected_exponents, least_index) /\ Agrees(selected_exponents, Depth - 1)
        /\ Value(factors, selected_exponents) = x
    BY <1>1, <1>9, LeafIsNew
  <2>2. Handed(x, "descend")
    <3> DEFINE o == x
    <3>1. o \in Nat /\ o \notin VisitedOrders /\ primes = PrimesOf(o) /\ Visit(o, primes, "descend")
      BY <1>9, <2>1
    <3> HIDE DEF o, primes
    <3>2. Handed(o, "descend")
      BY <1>1, <3>1, VisitFacts
    <3> QED
      BY <3>2 DEF o
  <2>3. Frames' /\ Selected' /\ Seen' = Seen \cup {x}
    <3> DEFINE X == {x}
    <3>1. ASSUME NEW a \in GoodVectors, Leads(a, least_index), Agrees(a, Depth - 1)
          PROVE  Value(factors, a) \in X \cup Greedy
      <4>1. a = selected_exponents
        BY <1>1, <1>9, <3>1, BranchFacts
      <4> QED
        BY <2>1, <4>1
    <3>2. \A d \in X : \E a \in GoodVectors :
            Leads(a, least_index) /\ Agrees(a, Depth - 1) /\ Value(factors, a) = d
      BY <2>1
    <3> HIDE DEF X
    <3>3. Frames' /\ Selected' /\ Seen' = Seen \cup X
      BY <1>1, <1>3, <1>9, <3>1, <3>2, ReturnKeeps
    <3> QED
      BY <3>3 DEF X
  <2> HIDE DEF x, primes
  <2>4. CASE /\ visited' = visited /\ pc' = "done" /\ result' = [result EXCEPT !.limit = "candidates"]
    <3>1. Visits' /\ VisitedOrders' = VisitedOrders
      BY <1>1, <2>4 DEF Visits, VisitedOrders, PrimesMatch
    <3>2. Admissible \ VisitedOrders' # {}
      BY <2>1, <3>1
    <3> QED
      BY <1>1, <1>5, <2>4, <3>1, <3>2, CutShort
  <2>5. CASE /\ VisitedOrders' = VisitedOrders \cup {x} /\ Visits'
             /\ pc' = "done" /\ result' = [result EXCEPT !.stopped_early = TRUE]
    <3>1. VisitedOrders' \in SUBSET Admissible
      BY <1>5, <2>1, <2>5
    <3> QED
      BY <1>1, <2>5, <3>1, CutShort
  <2>6. CASE /\ VisitedOrders' = VisitedOrders \cup {x} /\ Visits'
             /\ pc' = "descend" /\ result' = result
    BY <1>1, <1>4, <2>3, <2>6 DEF EInv, Ready
  <2> QED
    BY <2>2, <2>4, <2>5, <2>6 DEF Handed
<1>10. CASE /\ ~pruned /\ ~leaf
            /\ stack' = <<[stack[1] EXCEPT !.called = FALSE]>> \o Tail(stack)
            /\ UNCHANGED <<pc, least_index, visited, result>>
  <2>1. Entered
    BY <1>1, <1>2, <1>3, <1>10 DEF Entered
  <2>2. Frames' /\ Selected' /\ \A a : Done(a)' <=> Done(a)
    BY <1>1, <2>1, EnterFacts
  <2>3. Visits' /\ VisitedOrders' = VisitedOrders
    BY <1>1, <1>10 DEF Visits, VisitedOrders, PrimesMatch
  <2>4. Seen' = Seen
    <3>1. Greedy' = Greedy /\ GoodVectors' = GoodVectors /\ factors' = factors
      BY <1>1 DEF Greedy, GoodVectors
    <3>2. {b \in GoodVectors : Done(b)'} = {b \in GoodVectors : Done(b)}
      BY <2>2
    <3> QED
      BY <3>1, <3>2 DEF Seen
  <2> QED
    BY <1>1, <1>4, <1>10, <2>2, <2>3, <2>4 DEF EInv, Ready
<1> QED
  BY <1>6, <1>7, <1>8, <1>9, <1>10

\* Every step keeps the invariant.
LEMMA EStep ==
  ASSUME EInv, [Enumerate]_enumeration
  PROVE  EInv'
<1>1. CASE Prepare
  BY <1>1, PrepareStep
<1>2. CASE Preferred
  BY <1>2, PreferredStep
<1>3. CASE PreferredOdd
  BY <1>3, PreferredOddStep
<1>4. CASE Root
  BY <1>4, RootStep
<1>5. CASE Descend
  BY <1>5, DescendStep
<1>6. CASE Loop
  BY <1>6, LoopStep
<1>7. CASE UNCHANGED enumeration
  <2>1. UNCHANGED <<input, limits, factors, bounds, pc, preferred, least_index, stack,
                    selected_exponents, visited, nodes, result>>
    BY <1>7 DEF enumeration
  <2>2. /\ (Untouched' <=> Untouched) /\ (Chosen' <=> Chosen) /\ (Visits' <=> Visits)
        /\ VisitedOrders' = VisitedOrders /\ Greedy' = Greedy /\ Admissible' = Admissible
    BY <2>1 DEF Untouched, FactorCount, Chosen, Greedy, Admissible, Visits, VisitedOrders, PrimesMatch
  <2>3. /\ (Frames' <=> Frames) /\ (Selected' <=> Selected)
    BY <2>1 DEF Frames, FrameRight, Initial, Selected, Depth, FactorCount
  <2>4. Seen' = Seen
    <3>1. \A a : Done(a)' <=> Done(a)
      BY <2>1 DEF Done, Depth, Edge, Agrees, FactorCount
    <3>2. GoodVectors' = GoodVectors /\ factors' = factors
      BY <2>1 DEF GoodVectors
    <3>3. {b \in GoodVectors : Done(b)'} = {b \in GoodVectors : Done(b)}
      BY <3>1
    <3> QED
      BY <2>2, <3>2, <3>3 DEF Seen
  <2>5. (AdmissibleOnce' <=> AdmissibleOnce) /\ (PrimesMatch' <=> PrimesMatch)
    BY <2>1, <2>2 DEF AdmissibleOnce, PrimesMatch
  <2> QED
    BY <2>1, <2>2, <2>3, <2>4, <2>5 DEF EInv
<1> QED
  BY <1>1, <1>2, <1>3, <1>4, <1>5, <1>6, <1>7 DEF Enumerate

\* The invariant implies the properties.
LEMMA EInvImplies ==
  ASSUME EInv
  PROVE  AdmissibleOnce /\ PrimesMatch
<1>1. CASE pc = "done"
  BY <1>1 DEF EInv
<1>2. CASE pc = "prepare"
  <2>1. visited = <<>> /\ result = NoResult
    BY <1>2 DEF EInv
  <2>2. VisitedOrders = {} /\ PrimesMatch /\ Cardinality(VisitedOrders) = Len(visited)
    BY <2>1, NothingVisited
  <2> QED
    BY <1>2, <2>1, <2>2 DEF AdmissibleOnce, NoResult
<1>3. CASE pc \in {"preferred", "preferred_odd", "descend"}
  <2>1. Ready /\ Chosen /\ Visits /\ result = NoResult
    BY <1>3 DEF EInv, Ready
  <2>2. VisitedOrders \in SUBSET Admissible
    <3>1. CASE pc = "preferred"
      <4>1. VisitedOrders = {}
        BY <3>1, NothingVisited DEF EInv
      <4> QED
        BY <4>1
    <3>2. CASE pc = "preferred_odd"
      BY <2>1, <3>2 DEF EInv, Chosen
    <3>3. CASE pc = "descend"
      BY <2>1, <3>3, SeenIsAdmissible DEF EInv
    <3> QED
      BY <1>3, <3>1, <3>2, <3>3
  <2> QED
    BY <1>3, <2>1, <2>2 DEF AdmissibleOnce, Visits, NoResult
<1> QED
  BY <1>1, <1>2, <1>3 DEF EInv

\* The visitor sees admissible orders only, none of them twice, and all of them
\* unless the enumeration was cut short (enumerate_certificate_candidates).
THEOREM AdmissibleOnceHolds ==
  EnumerateInit /\ [][Enumerate]_enumeration => []AdmissibleOnce
<1>1. EnumerateInit => EInv
  BY InitFacts
<1>2. EInv /\ [Enumerate]_enumeration => EInv'
  BY EStep
<1>3. EInv => AdmissibleOnce
  BY EInvImplies
<1> QED
  BY <1>1, <1>2, <1>3, PTL

\* The primes that come with a candidate are the prime divisors of its order
\* (candidate_from_factor_exponents).
THEOREM PrimesMatchHolds ==
  EnumerateInit /\ [][Enumerate]_enumeration => []PrimesMatch
<1>1. EnumerateInit => EInv
  BY InitFacts
<1>2. EInv /\ [Enumerate]_enumeration => EInv'
  BY EStep
<1>3. EInv => PrimesMatch
  BY EInvImplies
<1> QED
  BY <1>1, <1>2, <1>3, PTL

=============================================================================
