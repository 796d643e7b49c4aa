----------------------------- MODULE SmoothEngine -----------------------------
(***************************************************************************)
(* The exact-smooth engine (exact_smooth.cpp, smooth_bounded.cpp): the     *)
(* product of all primes up to the bound, built segment by segment through *)
(* a forest of partial products, and the smooth parts of the curve and     *)
(* twist orders of groups of traces, batch by batch through a product tree *)
(* whose root reduces that product in chunks of machine words.             *)
(***************************************************************************)
EXTENDS Integers, SequencesExt

CONSTANTS
  Extractions,    \* [prime, groups, span, batch, auxiliary]: a built engine and one call
  SmoothBound,    \* n^4 of the engine
  WordBits,       \* bits of a limb
  WordBytes       \* bytes a limb counts for in the auxiliary cap

ASSUME EngineAssumption ==
  /\ SmoothBound \in Nat \ {0, 1} /\ WordBits \in Nat \ {0} /\ WordBytes \in Nat \ {0}
  /\ \A e \in Extractions : e.span \in Nat \ {0} /\ e.batch \in Nat \ {0} /\ e.auxiliary \in Nat \ {0}

VARIABLES
  extraction,   \* the engine's options and the call
  built,        \* bound up to which segments have been multiplied in
  forest,       \* product_levels: a product, or 0 for an empty level
  primes,       \* number of primes so far
  product,      \* base.P, 0 until the levels are folded
  parts,        \* smooth parts of the orders so far
  smooth        \* "building", "extracting", "done" or "rejected"

engine == <<extraction, built, forest, primes, product, parts, smooth>>

NoExtraction ==
  /\ extraction = <<>> /\ built = 0 /\ forest = <<>> /\ primes = 0 /\ product = 0
  /\ parts = <<>> /\ smooth = "none"

ExtractionInit ==
  /\ extraction \in Extractions
  /\ built = 0 /\ forest = <<>> /\ primes = 0 /\ product = 0 /\ parts = <<>>
  /\ smooth = "building"

ProductOfAll(s) == FoldLeft(LAMBDA x, y : x * y, 1, s)

-----------------------------------------------------------------------------
(* Building. A segment's own product is external: sieve_primes_range.      *)

PrimesIn(lower, upper) ==
  {q \in lower + 1 .. upper : q > 1 /\ \A d \in 2 .. q - 1 : q % d # 0}

SegmentProduct(lower, upper) == FoldSet(LAMBDA x, y : x * y, 1, PrimesIn(lower, upper))

\* Occupied levels are multiplied in and emptied, as in a binary counter.
CarryInto(levels, value) ==
  LET free == Min({i \in 1 .. Len(levels) + 1 : i = Len(levels) + 1 \/ levels[i] = 0})
      kept == [i \in 1 .. Max({free, Len(levels)}) |-> IF i <= free THEN 0 ELSE levels[i]]
  IN [kept EXCEPT ![free] = value * ProductOfAll(SubSeq(levels, 1, free - 1))]

BuildSegment ==
  /\ smooth = "building" /\ built < SmoothBound
  /\ built' = Min({built + extraction.span, SmoothBound})
  /\ forest' = CarryInto(forest, SegmentProduct(built, built'))
  /\ primes' = primes + Cardinality(PrimesIn(built, built'))
  /\ UNCHANGED <<extraction, product, parts, smooth>>

FoldLevels(levels) == ProductOfAll(Reverse(SelectSeq(levels, LAMBDA value : value # 0)))

\* The extraction is called only once the engine exists.
FinishBuild ==
  /\ smooth = "building" /\ built = SmoothBound
  /\ product' = FoldLevels(forest)
  /\ smooth' = IF primes \in 1 .. SmoothBound THEN "extracting" ELSE "rejected"
  /\ UNCHANGED <<extraction, built, forest, primes, parts>>

-----------------------------------------------------------------------------
(* The product modulo the root of a tree.                                  *)

Limbs(n) == CHOOSE k \in 1 .. 31 : n < 2 ^ (k * WordBits) /\ n >= 2 ^ ((k - 1) * WordBits)

Ceiling(n, d) == (n + d - 1) \div d

MaximumBlockItems == 65536

\* block_capacity before it throws on zero.
BlockCapacity(modulus, auxiliary, chunks) ==
  Min({auxiliary \div (2 * Limbs(modulus) * WordBytes), MaximumBlockItems, chunks})

\* local_powers: each power from the last power of two below it.
LocalPowers(radix, modulus, count) ==
  LET power[i \in 0 .. count - 1] ==
        IF i <= 1 THEN (IF i = 0 THEN 1 ELSE radix)
        ELSE LET middle == CHOOSE m \in {2 ^ k : k \in 1 .. 16} : m <= i /\ i < 2 * m
             IN IF i = middle THEN (power[i \div 2] * power[i \div 2]) % modulus
                ELSE (power[middle] * power[i - middle]) % modulus
  IN power

ChunkLimbs(modulus) == Limbs(modulus) + 1

Chunk(n, size, index) == (n \div 2 ^ (WordBits * size * index)) % 2 ^ (WordBits * size)

NextOffset_OneChunk(offset, radix, capacity, modulus) == (offset * radix) % modulus

\* From one block of chunks to the next.
NextOffset(offset, radix, capacity, modulus) ==
  LET factor[k \in 0 .. capacity] == IF k = 0 THEN 1 ELSE (factor[k - 1] * radix) % modulus
  IN (offset * factor[capacity]) % modulus

BlockSum(n, size, begin, count, powers, modulus) ==
  MapThenSumSet(LAMBDA local : ((Chunk(n, size, begin + local) % modulus) * powers[local]) % modulus,
                0 .. count - 1) % modulus

\* bounded_root_remainder
RootRemainder(n, modulus, auxiliary) ==
  LET size     == ChunkLimbs(modulus)
      chunks   == Ceiling(Limbs(n), size)
      capacity == BlockCapacity(modulus, auxiliary, chunks)
      radix    == (2 ^ (WordBits * size)) % modulus
      powers   == LocalPowers(radix, modulus, capacity)
      block[b \in 0 .. Ceiling(chunks, capacity)] ==
        IF b = 0 THEN [sum |-> 0, offset |-> 1]
        ELSE LET before == block[b - 1]
                 begin  == (b - 1) * capacity
                 sum    == BlockSum(n, size, begin, Min({capacity, chunks - begin}), powers, modulus)
             IN [ sum    |-> (before.sum + sum * before.offset) % modulus,
                  offset |-> NextOffset(before.offset, radix, capacity, modulus) ]
  IN block[Ceiling(chunks, capacity)].sum

-----------------------------------------------------------------------------
(* One batch of orders.                                                    *)

Padded(orders) ==
  LET size == CHOOSE n \in {2 ^ k : k \in 0 .. 16} : n >= Len(orders) /\ n < 2 * Len(orders)
  IN orders \o [i \in 1 .. size - Len(orders) |-> 1]

RECURSIVE ProductTree(_)
ProductTree(level) ==
  IF Len(level) = 1 THEN <<level>>
  ELSE <<level>> \o ProductTree([i \in 1 .. Len(level) \div 2 |-> level[2 * i - 1] * level[2 * i]])

\* From the root's remainder to those of the leaves.
LeafRemainders(levels, root) ==
  FoldLeft(LAMBDA remainders, moduli :
             [i \in DOMAIN moduli |-> remainders[(i + 1) \div 2] % moduli[i]],
           <<root>>, Reverse(Front(levels)))

\* Repeated squaring covers every multiplicity the order can have.
SmoothPartFrom(order, remainder) ==
  LET bits == CHOOSE b \in 1 .. 31 : order < 2 ^ b /\ order >= 2 ^ (b - 1)
      squarings == CHOOSE k \in 0 .. 5 : 2 ^ k >= bits /\ (k = 0 \/ 2 ^ (k - 1) < bits)
      power[k \in 0 .. squarings] ==
        IF k = 0 THEN remainder ELSE (power[k - 1] * power[k - 1]) % order
  IN IF remainder = 0 THEN order
     ELSE Max({d \in 1 .. order : order % d = 0 /\ power[squarings] % d = 0})

RootProduct(orders) == Last(ProductTree(Padded(orders)))[1]

\* bounded_smooth_parts
BoundedSmoothParts(orders) ==
  LET remainders == LeafRemainders(ProductTree(Padded(orders)),
                      RootRemainder(product, RootProduct(orders), extraction.auxiliary))
  IN [i \in DOMAIN orders |-> SmoothPartFrom(orders[i], remainders[i])]

-----------------------------------------------------------------------------
(* extract_curve_twist_groups.                                             *)

Traces == FlattenSeq(extraction.groups)

BothOrders == FlattenSeq([i \in DOMAIN Traces |->
            << extraction.prime + 1 - Traces[i], extraction.prime + 1 + Traces[i] >>])

Batch == SubSeq(BothOrders, Len(parts) + 1, Min({Len(parts) + extraction.batch, Len(BothOrders)}))

Rejected ==
  \/ \E i \in DOMAIN BothOrders : BothOrders[i] <= 1
  \/ /\ Batch # <<>>
     /\ extraction.auxiliary < 2 * Limbs(RootProduct(Batch)) * WordBytes

Reject ==
  /\ smooth = "extracting" /\ Rejected
  /\ smooth' = "rejected"
  /\ UNCHANGED <<extraction, built, forest, primes, product, parts>>

ExtractBatch ==
  /\ smooth = "extracting" /\ ~Rejected /\ Batch # <<>>
  /\ parts' = parts \o BoundedSmoothParts(Batch)
  /\ UNCHANGED <<extraction, built, forest, primes, product, smooth>>

HandBack ==
  /\ smooth = "extracting" /\ ~Rejected /\ Batch = <<>>
  /\ smooth' = "done"
  /\ UNCHANGED <<extraction, built, forest, primes, product, parts>>

\* What the caller gets: its groups, each trace with its orders and parts.
Results ==
  LET before(g) == FoldLeft(LAMBDA n, s : n + Len(s), 0, SubSeq(extraction.groups, 1, g - 1))
      entry(t, n) == [ trace |-> t, curve |-> BothOrders[2 * n - 1], twist |-> BothOrders[2 * n],
                       curveSmooth |-> parts[2 * n - 1], twistSmooth |-> parts[2 * n] ]
  IN [g \in DOMAIN extraction.groups |->
       [i \in DOMAIN extraction.groups[g] |-> entry(extraction.groups[g][i], before(g) + i)]]

Extract == BuildSegment \/ FinishBuild \/ Reject \/ ExtractBatch \/ HandBack

-----------------------------------------------------------------------------
(* Properties.                                                             *)

\* The largest divisor with no prime factor above the bound.
SmoothDivisor(n) ==
  Max({d \in 1 .. n : n % d = 0 /\ \A q \in PrimesIn(SmoothBound, n) : d % q # 0})

\* SmoothPartsExact: whatever the segments, the batches, the word boundaries
\* and the blocks the auxiliary memory allows, every trace of every group comes
\* back in its place with its two orders and exactly the largest smooth divisor
\* of each, with multiplicity (extract_curve_twist_groups).
SmoothPartsExact ==
  smooth = "done" =>
    \A g \in DOMAIN extraction.groups : \A i \in DOMAIN extraction.groups[g] :
      LET t == extraction.groups[g][i]
          n == extraction.prime + 1
      IN Results[g][i] = [ trace |-> t, curve |-> n - t, twist |-> n + t,
                           curveSmooth |-> SmoothDivisor(n - t),
                           twistSmooth |-> SmoothDivisor(n + t) ]

=============================================================================
