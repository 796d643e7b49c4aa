-------------------------- MODULE SearchFleetProofs --------------------------
(***************************************************************************)
(* Proofs about what the workers of a fleet share.  The partition of the   *)
(* global range is exact for every width, range and number of workers, and *)
(* so is the division of labour built on it (SearchFleet); the launches of *)
(* one worker never mix two assignments where launchers at work together   *)
(* are of one (WorkerLaunch); and the files the workers of a host trust    *)
(* are what their digests say, for any replacements (TrustedFiles).  The   *)
(* calls of the verifier leave no child but where the system refuses to    *)
(* wait or kill, and never wait for a pipe (VerifierCalls).                *)
(***************************************************************************)
EXTENDS SearchFleet, WorkerLaunch, TrustedFiles, VerifierCalls, TLAPS

\* Where the shard of worker k begins, relative to the range.
Offset(k, base, remainder) == k * base + ExtraBefore(k, remainder)

-----------------------------------------------------------------------------
(* Arithmetic.                                                             *)

\* Unsigned arithmetic is exact below the modulus.
LEMMA WrapIdentity ==
  ASSUME NEW n \in Unsigned
  PROVE  Wrap(n) = n
BY ModulusAssumption DEF Unsigned, Wrap

\* Quotient and remainder of the length of the range.
LEMMA Division ==
  ASSUME NEW c \in Nat, NEW n \in Nat \ {0}
  PROVE  /\ c \div n \in Nat
         /\ c % n \in 0 .. n - 1
         /\ c = n * (c \div n) + (c % n)
OBVIOUS

\* A product grows with its first factor.
LEMMA ProductMonotone ==
  ASSUME NEW i \in Nat, NEW j \in Nat, i <= j, NEW q \in Nat
  PROVE  /\ i * q \in Nat /\ j * q \in Nat
         /\ i * q <= j * q
<1>1. PICK d \in Nat : j = i + d
  <2>1. j - i \in Nat /\ j = i + (j - i) OBVIOUS
  <2>2. QED BY <2>1
<1>2. j * q = i * q + d * q BY <1>1
<1>3. i * q \in Nat /\ d * q \in Nat /\ j * q \in Nat OBVIOUS
<1>4. QED BY <1>2, <1>3

\* Offsets grow, the last one is the length, and consecutive ones are a shard
\* apart.
LEMMA OffsetFacts ==
  ASSUME NEW q \in Nat, NEW r \in Nat, NEW j \in Nat, NEW k \in Nat, j <= k
  PROVE  /\ Offset(j, q, r) \in Nat /\ Offset(k, q, r) \in Nat
         /\ Offset(j, q, r) <= Offset(k, q, r)
         /\ r <= k => Offset(k, q, r) = k * q + r
         /\ Offset(k + 1, q, r) = Offset(k, q, r) + ShardSize(k, q, r)
<1>1. /\ j * q \in Nat /\ k * q \in Nat
      /\ j * q <= k * q
  BY ProductMonotone
<1>2. /\ ExtraBefore(j, r) \in Nat /\ ExtraBefore(k, r) \in Nat
      /\ ExtraBefore(j, r) <= ExtraBefore(k, r)
  BY DEF ExtraBefore
<1>3. (k + 1) * q = k * q + q OBVIOUS
<1>4. ExtraBefore(k + 1, r) = ExtraBefore(k, r) + (IF k < r THEN 1 ELSE 0)
  BY DEF ExtraBefore
<1>5. Offset(k + 1, q, r) = Offset(k, q, r) + ShardSize(k, q, r)
  <2>1. Offset(k + 1, q, r) = (k * q + q) + (ExtraBefore(k, r) + (IF k < r THEN 1 ELSE 0))
    BY <1>3, <1>4 DEF Offset
  <2>2. QED BY <2>1, <1>1, <1>2 DEF Offset, ShardSize
<1>6. r <= k => ExtraBefore(k, r) = r BY DEF ExtraBefore
<1>7. QED BY <1>1, <1>2, <1>5, <1>6 DEF Offset

\* Every position of the range lies between two consecutive offsets.
LEMMA OffsetCover ==
  ASSUME NEW q \in Nat, NEW n \in Nat \ {0}, NEW r \in 0 .. n - 1,
         NEW x \in Nat, x < n * q + r
  PROVE  \E k \in 0 .. n - 1 : Offset(k, q, r) <= x /\ x < Offset(k + 1, q, r)
<1>1. CASE x < r * (q + 1)
  <2> DEFINE k == x \div (q + 1)
  <2>1. k \in Nat /\ x = (q + 1) * k + (x % (q + 1)) /\ x % (q + 1) \in 0 .. q
    <3>1. q + 1 \in Nat \ {0} /\ (q + 1) - 1 = q OBVIOUS
    <3>2. /\ x \div (q + 1) \in Nat
          /\ x % (q + 1) \in 0 .. (q + 1) - 1
          /\ x = (q + 1) * (x \div (q + 1)) + (x % (q + 1))
      BY <3>1, Division
    <3>3. QED BY <3>1, <3>2
  <2> HIDE DEF k
  <2>2. k * (q + 1) = k * q + k /\ (k + 1) * q = k * q + q /\ k * q \in Nat
        /\ (q + 1) * k = k * q + k
    BY <2>1
  <2>3. k < r
    <3>1. SUFFICES ASSUME r <= k PROVE FALSE BY <2>1
    <3>2. r * (q + 1) <= k * (q + 1) BY <3>1, <2>1, ProductMonotone, q + 1 \in Nat, r \in Nat
    <3>3. r * (q + 1) \in Nat BY r \in Nat
    <3>4. QED BY <3>2, <3>3, <2>1, <2>2, <1>1
  <2>4. Offset(k, q, r) = k * q + k BY <2>3, <2>1 DEF Offset, ExtraBefore
  <2>5. Offset(k + 1, q, r) = (k * q + q) + (k + 1)
    <3>1. ExtraBefore(k + 1, r) = k + 1 BY <2>3, <2>1 DEF ExtraBefore
    <3>2. QED BY <3>1, <2>2 DEF Offset
  <2>6. Offset(k, q, r) <= x /\ x < Offset(k + 1, q, r) BY <2>1, <2>2, <2>4, <2>5
  <2>7. k \in 0 .. n - 1 BY <2>1, <2>3
  <2>8. QED BY <2>6, <2>7
<1>2. CASE ~(x < r * (q + 1))
  <2>1. r * (q + 1) = r * q + r /\ r * q \in Nat /\ n * q \in Nat BY r \in Nat
  <2> DEFINE y == x - (r * q + r)
  <2>2. y \in Nat BY <1>2, <2>1
  <2>3. q # 0
    <3>1. SUFFICES ASSUME q = 0 PROVE FALSE OBVIOUS
    <3>2. n * q = 0 /\ r * q = 0 BY <3>1
    <3>3. QED BY <3>2, <1>2, <2>1
  <2> DEFINE m == y \div q
  <2>4. m \in Nat /\ y = q * m + (y % q) /\ y % q \in 0 .. q - 1
    BY Division, <2>2, <2>3
  <2>5. x = (r * q + r) + y BY <2>1, <2>2
  <2> HIDE DEF m, y
  <2>6. (r + m) * q = r * q + q * m /\ (r + m + 1) * q = r * q + q * m + q /\ q * m \in Nat
    BY <2>4, r \in Nat
  <2>7. Offset(r + m, q, r) = (r * q + q * m) + r
    <3>1. ExtraBefore(r + m, r) = r BY <2>4, r \in Nat DEF ExtraBefore
    <3>2. QED BY <3>1, <2>6 DEF Offset
  <2>8. Offset(r + m + 1, q, r) = (r * q + q * m + q) + r
    <3>1. ExtraBefore(r + m + 1, r) = r BY <2>4, r \in Nat DEF ExtraBefore
    <3>2. QED BY <3>1, <2>6 DEF Offset
  <2>9. Offset(r + m, q, r) <= x /\ x < Offset(r + m + 1, q, r)
    BY <2>1, <2>2, <2>4, <2>5, <2>6, <2>7, <2>8
  <2>10. r + m < n
    <3>1. SUFFICES ASSUME n <= r + m PROVE FALSE BY <2>4, r \in Nat
    <3>2. n * q <= (r + m) * q BY <3>1, <2>4, ProductMonotone, r + m \in Nat, r \in Nat
    <3>3. QED BY <3>2, <2>1, <2>2, <2>4, <2>5, <2>6
  <2>11. r + m \in 0 .. n - 1 BY <2>10, <2>4, r \in Nat
  <2>12. QED BY <2>9, <2>11
<1>3. QED BY <1>1, <1>2

-----------------------------------------------------------------------------
(* Shards.                                                                 *)

Length(r) == r.end - r.first
Base(r, n) == Length(r) \div n
Rest(r, n) == Length(r) % n

\* The offsets of a range run from zero to its length.
LEMMA RangeOffsets ==
  ASSUME NEW r \in Ranges, NEW n \in Nat \ {0}, NEW k \in 0 .. n - 1
  PROVE  /\ Base(r, n) \in Nat /\ Rest(r, n) \in 0 .. n - 1 /\ Length(r) \in Nat
         /\ r.first \in Nat /\ r.first + Length(r) = r.end /\ r.end < Modulus
         /\ Length(r) = n * Base(r, n) + Rest(r, n)
         /\ Offset(k, Base(r, n), Rest(r, n)) \in Nat
         /\ Offset(k + 1, Base(r, n), Rest(r, n)) \in Nat
         /\ Offset(k, Base(r, n), Rest(r, n)) <= Offset(k + 1, Base(r, n), Rest(r, n))
         /\ Offset(k + 1, Base(r, n), Rest(r, n)) <= Length(r)
         /\ k * Base(r, n) \in Nat
         /\ k * Base(r, n) <= Offset(k, Base(r, n), Rest(r, n))
<1>1. /\ Length(r) \in Nat /\ r.first \in Nat
      /\ r.first + Length(r) = r.end /\ r.end < Modulus
  BY ModulusAssumption DEF Ranges, Unsigned, Length
<1>2. /\ Base(r, n) \in Nat /\ Rest(r, n) \in 0 .. n - 1
      /\ Length(r) = n * Base(r, n) + Rest(r, n)
  BY <1>1, Division DEF Base, Rest
<1> DEFINE q == Base(r, n)
           e == Rest(r, n)
<1>3. q \in Nat /\ e \in Nat /\ e <= n /\ Length(r) = n * q + e BY <1>2
<1> HIDE DEF q, e
<1>4. k \in Nat /\ k + 1 \in Nat /\ k <= k + 1 /\ k + 1 <= n /\ n \in Nat OBVIOUS
<1>5. /\ Offset(k, q, e) \in Nat /\ Offset(k + 1, q, e) \in Nat
      /\ Offset(k, q, e) <= Offset(k + 1, q, e)
  BY <1>3, <1>4, OffsetFacts
<1>6. /\ Offset(k + 1, q, e) <= Offset(n, q, e) /\ Offset(n, q, e) = n * q + e
  BY <1>3, <1>4, OffsetFacts
<1>7. k * q \in Nat /\ k * q <= Offset(k, q, e)
  <2>1. k * q \in Nat BY <1>3, <1>4
  <2>2. ExtraBefore(k, e) \in Nat BY <1>3, <1>4 DEF ExtraBefore
  <2>3. QED BY <2>1, <2>2 DEF Offset
<1>8. QED BY <1>1, <1>2, <1>3, <1>5, <1>6, <1>7 DEF q, e

\* Nothing wraps: a shard is the stretch between two offsets.
LEMMA ShardExact ==
  ASSUME NEW r \in Ranges, NEW n \in Nat \ {0}, NEW k \in 0 .. n - 1
  PROVE  Shard(r, k, n) =
           [first |-> r.first + Offset(k, Base(r, n), Rest(r, n)),
            end   |-> r.first + Offset(k + 1, Base(r, n), Rest(r, n))]
<1> DEFINE q == Base(r, n)
           e == Rest(r, n)
<1>1. /\ q \in Nat /\ e \in Nat /\ Length(r) \in Nat
      /\ r.first \in Nat /\ r.first + Length(r) = r.end /\ r.end < Modulus
      /\ Offset(k, q, e) \in Nat /\ Offset(k + 1, q, e) \in Nat
      /\ Offset(k, q, e) <= Offset(k + 1, q, e)
      /\ Offset(k + 1, q, e) <= Length(r)
      /\ k * q \in Nat /\ k * q <= Offset(k, q, e)
  BY RangeOffsets
<1>2. Wrap(r.end - r.first) = Length(r)
  <2>1. Length(r) \in Unsigned BY <1>1, ModulusAssumption DEF Unsigned
  <2>2. QED BY <2>1, WrapIdentity DEF Length
<1> HIDE DEF q, e
<1>3. Wrap(k * q) = k * q
  <2>1. k * q \in Unsigned BY <1>1, ModulusAssumption DEF Unsigned
  <2>2. QED BY <2>1, WrapIdentity
<1>4. Wrap(k * q + ExtraBefore(k, e)) = Offset(k, q, e)
  <2>1. Offset(k, q, e) \in Unsigned BY <1>1, ModulusAssumption DEF Unsigned
  <2>2. QED BY <2>1, WrapIdentity DEF Offset
<1>5. Wrap(r.first + Offset(k, q, e)) = r.first + Offset(k, q, e)
  <2>1. r.first + Offset(k, q, e) \in Unsigned BY <1>1, ModulusAssumption DEF Unsigned
  <2>2. QED BY <2>1, WrapIdentity
<1>6. Wrap((r.first + Offset(k, q, e)) + ShardSize(k, q, e)) = r.first + Offset(k + 1, q, e)
  <2>1. Offset(k + 1, q, e) = Offset(k, q, e) + ShardSize(k, q, e)
    <3>1. k \in Nat /\ k <= k OBVIOUS
    <3>2. QED BY <3>1, <1>1, OffsetFacts
  <2>2. ShardSize(k, q, e) \in Nat BY <1>1 DEF ShardSize
  <2>3. (r.first + Offset(k, q, e)) + ShardSize(k, q, e) = r.first + Offset(k + 1, q, e)
    BY <2>1, <2>2, <1>1
  <2>4. r.first + Offset(k + 1, q, e) \in Unsigned BY <1>1, ModulusAssumption DEF Unsigned
  <2>5. QED BY <2>3, <2>4, WrapIdentity
<1>7. Length(r) \div n = q /\ Length(r) % n = e BY DEF q, e, Base, Rest
<1>8. Shard(r, k, n) = [first |-> r.first + Offset(k, q, e), end |-> r.first + Offset(k + 1, q, e)]
  BY <1>2, <1>3, <1>4, <1>5, <1>6, <1>7 DEF Shard
<1>9. QED BY <1>8 DEF q, e

\* LauncherAgrees for every argument: the arithmetic of the launcher, in
\* integers, and that of the worker, modulo the width, give the same shard.
THEOREM SameShards ==
  ASSUME NEW r \in Ranges, NEW n \in Nat \ {0}, NEW k \in 0 .. n - 1
  PROVE  LauncherShard(r, k, n) = Shard(r, k, n)
<1> DEFINE q == Base(r, n)
           e == Rest(r, n)
<1>1. q \in Nat /\ e \in Nat /\ r.first \in Nat /\ k \in Nat /\ k * q \in Nat
  BY RangeOffsets
<1>2. Shard(r, k, n) = [first |-> r.first + Offset(k, q, e), end |-> r.first + Offset(k + 1, q, e)]
  BY ShardExact
<1>3. (r.end - r.first) \div n = q /\ (r.end - r.first) % n = e BY DEF q, e, Base, Rest, Length
<1> HIDE DEF q, e
<1>4. Offset(k + 1, q, e) = Offset(k, q, e) + ShardSize(k, q, e)
  <2>1. k <= k BY <1>1
  <2>2. QED BY <2>1, <1>1, OffsetFacts
<1>5. ExtraBefore(k, e) \in Nat BY <1>1 DEF ExtraBefore
<1>6. r.first + k * q + ExtraBefore(k, e) = r.first + Offset(k, q, e)
  BY <1>1, <1>5 DEF Offset
<1>7. (r.first + k * q + ExtraBefore(k, e)) + q + (IF k < e THEN 1 ELSE 0)
        = r.first + Offset(k + 1, q, e)
  BY <1>1, <1>4, <1>5 DEF Offset, ShardSize
<1>8. LauncherShard(r, k, n) =
        [first |-> r.first + k * q + ExtraBefore(k, e),
         end   |-> (r.first + k * q + ExtraBefore(k, e)) + q + (IF k < e THEN 1 ELSE 0)]
  BY <1>3 DEF LauncherShard, ExtraBefore
<1>9. QED BY <1>2, <1>6, <1>7, <1>8

\* A shard lies in the range.
LEMMA ShardInRange ==
  ASSUME NEW r \in Ranges, NEW n \in Nat \ {0}, NEW k \in 0 .. n - 1
  PROVE  /\ Shard(r, k, n).first \in Nat /\ Shard(r, k, n).end \in Nat
         /\ r.first <= Shard(r, k, n).first
         /\ Shard(r, k, n).first <= Shard(r, k, n).end
         /\ Shard(r, k, n).end <= r.end
         /\ r.first \in Nat /\ r.end \in Nat /\ r.end < Modulus
<1> DEFINE a == Offset(k, Base(r, n), Rest(r, n))
           b == Offset(k + 1, Base(r, n), Rest(r, n))
<1>1. /\ a \in Nat /\ b \in Nat /\ a <= b /\ b <= Length(r) /\ Length(r) \in Nat
      /\ r.first \in Nat /\ r.first + Length(r) = r.end /\ r.end < Modulus
  BY RangeOffsets
<1>2. Shard(r, k, n).first = r.first + a /\ Shard(r, k, n).end = r.first + b
  BY ShardExact
<1> HIDE DEF a, b
<1>3. QED BY <1>1, <1>2

\* Shards follow one another.
LEMMA ShardsOrdered ==
  ASSUME NEW r \in Ranges, NEW n \in Nat \ {0},
         NEW j \in 0 .. n - 1, NEW k \in 0 .. n - 1, j < k
  PROVE  Shard(r, j, n).end <= Shard(r, k, n).first
<1> DEFINE a == Offset(j + 1, Base(r, n), Rest(r, n))
           b == Offset(k, Base(r, n), Rest(r, n))
<1>1. Base(r, n) \in Nat /\ Rest(r, n) \in Nat /\ r.first \in Nat BY RangeOffsets
<1>2. a \in Nat /\ b \in Nat /\ a <= b
  <2>1. j + 1 \in Nat /\ k \in Nat /\ j + 1 <= k OBVIOUS
  <2>2. QED BY <1>1, <2>1, OffsetFacts
<1>3. Shard(r, j, n).end = r.first + a /\ Shard(r, k, n).first = r.first + b
  BY ShardExact
<1> HIDE DEF a, b
<1>4. QED BY <1>1, <1>2, <1>3

\* Every index of the range lies in some shard.
LEMMA ShardsCover ==
  ASSUME NEW r \in Ranges, NEW n \in Nat \ {0}, NEW x \in r.first .. r.end - 1
  PROVE  \E k \in 0 .. n - 1 : Shard(r, k, n).first <= x /\ x < Shard(r, k, n).end
<1>1. 0 \in 0 .. n - 1 OBVIOUS
<1>2. /\ Base(r, n) \in Nat /\ Rest(r, n) \in 0 .. n - 1 /\ Length(r) \in Nat
      /\ r.first \in Nat /\ r.first + Length(r) = r.end
      /\ Length(r) = n * Base(r, n) + Rest(r, n)
  BY <1>1, RangeOffsets
<1> DEFINE y == x - r.first
<1>3. y \in Nat /\ y < n * Base(r, n) + Rest(r, n) /\ x = r.first + y BY <1>2
<1> HIDE DEF y
<1>4. PICK k \in 0 .. n - 1 :
        /\ Offset(k, Base(r, n), Rest(r, n)) <= y
        /\ y < Offset(k + 1, Base(r, n), Rest(r, n))
  BY <1>2, <1>3, OffsetCover
<1> DEFINE a == Offset(k, Base(r, n), Rest(r, n))
           b == Offset(k + 1, Base(r, n), Rest(r, n))
<1>5. a \in Nat /\ b \in Nat BY RangeOffsets
<1>6. a <= y /\ y < b BY <1>4
<1>7. Shard(r, k, n).first = r.first + a /\ Shard(r, k, n).end = r.first + b
  BY ShardExact
<1> HIDE DEF a, b
<1>8. Shard(r, k, n).first <= x /\ x < Shard(r, k, n).end
  BY <1>2, <1>3, <1>5, <1>6, <1>7
<1>9. QED BY <1>8

-----------------------------------------------------------------------------
(* The inductive invariant: what a worker has searched is the stretch from *)
(* the start of its shard to its cursor.                                   *)

InShard ==
  \A k \in WorkerIds : cursor[k] \in MyShard(k).first .. MyShard(k).end

SearchedIsPrefix ==
  searched = {a \in Unsigned \X WorkerIds : MyShard(a[2]).first <= a[1] /\ a[1] < cursor[a[2]]}

IInv == TypeOK /\ InShard /\ SearchedIsPrefix

\* What TypeOK says of the arguments.
LEMMA Arguments ==
  ASSUME TypeOK
  PROVE  /\ range \in Ranges /\ workers \in Nat \ {0}
         /\ \A k \in WorkerIds :
              /\ MyShard(k).first \in Nat /\ MyShard(k).end \in Nat
              /\ range.first <= MyShard(k).first
              /\ MyShard(k).first <= MyShard(k).end
              /\ MyShard(k).end <= range.end
              /\ range.first \in Nat /\ range.end \in Nat /\ range.end < Modulus
<1>1. range \in Ranges /\ workers \in Nat \ {0}
  BY ModulusAssumption DEF TypeOK, Unsigned
<1>2. QED BY <1>1, ShardInRange DEF WorkerIds, MyShard

LEMMA InitInvariant == Init => IInv
<1> SUFFICES ASSUME Init PROVE IInv OBVIOUS
<1>1. range \in Ranges /\ workers \in Unsigned \ {0} /\ workers \in Nat \ {0}
  BY ModulusAssumption DEF Init, Unsigned
<1>2. \A k \in WorkerIds : /\ MyShard(k).first \in Nat /\ MyShard(k).end \in Nat
                           /\ MyShard(k).first <= MyShard(k).end
                           /\ MyShard(k).end <= range.end
                           /\ range.end \in Nat /\ range.end < Modulus
  BY <1>1, ShardInRange DEF WorkerIds, MyShard
<1>3. \A k \in WorkerIds : cursor[k] = MyShard(k).first /\ MyShard(k).first \in Unsigned
  BY <1>2, ModulusAssumption DEF Init, Unsigned
<1>4. cursor \in [WorkerIds -> Unsigned] BY <1>3 DEF Init
<1>5. TypeOK BY <1>1, <1>4 DEF TypeOK, Init
<1>6. InShard BY <1>2, <1>3 DEF InShard
<1>7. SearchedIsPrefix
  <2>1. \A a \in Unsigned \X WorkerIds : ~(MyShard(a[2]).first <= a[1] /\ a[1] < cursor[a[2]])
    <3>1. SUFFICES ASSUME NEW a \in Unsigned \X WorkerIds,
                          MyShard(a[2]).first <= a[1], a[1] < cursor[a[2]]
                   PROVE  FALSE
      OBVIOUS
    <3>2. a[1] \in Nat /\ a[2] \in WorkerIds BY ModulusAssumption DEF Unsigned
    <3>3. cursor[a[2]] = MyShard(a[2]).first /\ MyShard(a[2]).first \in Nat BY <3>2, <1>2, <1>3
    <3>4. QED BY <3>1, <3>2, <3>3
  <2>2. QED BY <2>1 DEF SearchedIsPrefix, Init
<1>8. QED BY <1>5, <1>6, <1>7 DEF IInv

LEMMA CompleteInvariant ==
  ASSUME IInv, NEW k \in WorkerIds, Complete(k)
  PROVE  IInv'
<1> DEFINE c == cursor[k]
<1>1. TypeOK /\ InShard /\ SearchedIsPrefix BY DEF IInv
<1>2. range' = range /\ workers' = workers /\ WorkerIds' = WorkerIds
      /\ \A j : MyShard(j)' = MyShard(j)
  BY DEF Complete, WorkerIds, MyShard
<1>3. /\ MyShard(k).first \in Nat /\ MyShard(k).end \in Nat
      /\ MyShard(k).end < Modulus
      /\ c \in MyShard(k).first .. MyShard(k).end /\ c # MyShard(k).end
  <2>1. MyShard(k).first \in Nat /\ MyShard(k).end \in Nat /\ MyShard(k).end < Modulus
    <3>1. /\ MyShard(k).first \in Nat /\ MyShard(k).end \in Nat
          /\ MyShard(k).end <= range.end
          /\ range.end \in Nat /\ range.end < Modulus
      BY <1>1, Arguments
    <3>2. QED BY <3>1, ModulusAssumption
  <2>2. QED BY <2>1, <1>1 DEF InShard, Complete
<1>4. c \in Nat /\ c < MyShard(k).end /\ MyShard(k).first <= c BY <1>3
<1>5. c + 1 \in Unsigned /\ c \in Unsigned BY <1>3, <1>4, ModulusAssumption DEF Unsigned
<1>6. Wrap(c + 1) = c + 1 BY <1>5, WrapIdentity
<1>7. cursor \in [WorkerIds -> Unsigned] BY <1>1 DEF TypeOK
<1>8. /\ cursor' = [cursor EXCEPT ![k] = c + 1]
      /\ searched' = searched \cup {<<c, k>>}
  BY <1>6 DEF Complete
<1>9. /\ cursor'[k] = c + 1
      /\ \A j \in WorkerIds : j # k => cursor'[j] = cursor[j]
  BY <1>7, <1>8
<1> HIDE DEF c
<1>10. TypeOK'
  <2>1. cursor' \in [WorkerIds -> Unsigned] BY <1>5, <1>7, <1>8
  <2>2. searched' \subseteq Unsigned \X WorkerIds BY <1>1, <1>5, <1>8 DEF TypeOK
  <2>3. QED BY <2>1, <2>2, <1>1, <1>2 DEF TypeOK
<1>11. InShard'
  <2>1. cursor'[k] \in MyShard(k).first .. MyShard(k).end BY <1>3, <1>4, <1>9
  <2>2. \A j \in WorkerIds : cursor'[j] \in MyShard(j).first .. MyShard(j).end
    BY <2>1, <1>1, <1>9 DEF InShard
  <2>3. QED BY <2>2, <1>2 DEF InShard
<1>12. SearchedIsPrefix'
  <2> DEFINE Before(a) == MyShard(a[2]).first <= a[1] /\ a[1] < cursor[a[2]]
             After(a)  == MyShard(a[2]).first <= a[1] /\ a[1] < cursor'[a[2]]
  <2>1. \A a \in Unsigned \X WorkerIds : After(a) <=> (Before(a) \/ a = <<c, k>>)
    <3> SUFFICES ASSUME NEW a \in Unsigned \X WorkerIds
                 PROVE  After(a) <=> (Before(a) \/ a = <<c, k>>)
      OBVIOUS
    <3>1. a[1] \in Nat /\ a[2] \in WorkerIds /\ a = <<a[1], a[2]>>
      BY ModulusAssumption DEF Unsigned
    <3>2. CASE a[2] = k
      <4>1. cursor[a[2]] = c /\ cursor'[a[2]] = c + 1 BY <3>2, <1>9 DEF c
      <4>2. a = <<c, k>> <=> a[1] = c BY <3>1, <3>2
      <4>3. QED BY <4>1, <4>2, <3>1, <3>2, <1>3, <1>4
    <3>3. CASE a[2] # k
      <4>1. cursor'[a[2]] = cursor[a[2]] BY <3>1, <3>3, <1>9
      <4>2. a # <<c, k>> BY <3>1, <3>3
      <4>3. QED BY <4>1, <4>2
    <3>4. QED BY <3>2, <3>3
  <2>2. searched = {a \in Unsigned \X WorkerIds : Before(a)}
    BY <1>1 DEF SearchedIsPrefix
  <2>3. <<c, k>> \in Unsigned \X WorkerIds BY <1>5
  <2>4. searched' = {a \in Unsigned \X WorkerIds : After(a)}
    <3> HIDE DEF Before, After
    <3>1. QED BY <2>1, <2>2, <2>3, <1>8
  <2>5. QED BY <2>4, <1>2 DEF SearchedIsPrefix
<1>13. QED BY <1>10, <1>11, <1>12 DEF IInv

LEMMA StutterInvariant == IInv /\ UNCHANGED vars => IInv'
BY DEF IInv, TypeOK, InShard, SearchedIsPrefix, WorkerIds, MyShard, vars

\* The invariant holds of every fleet.
THEOREM Invariant == Spec => []IInv
<1>1. Init => IInv BY InitInvariant
<1>2. IInv /\ [Next]_vars => IInv'
  <2> SUFFICES ASSUME IInv, [Next]_vars PROVE IInv' OBVIOUS
  <2>1. CASE Next BY <2>1, CompleteInvariant DEF Next
  <2>2. CASE UNCHANGED vars BY <2>2, StutterInvariant
  <2>3. QED BY <2>1, <2>2
<1>3. QED BY <1>1, <1>2, PTL DEF Spec

-----------------------------------------------------------------------------

\* SearchedOnce for every width, range and number of workers.
THEOREM SearchedByOneWorker == Spec => []SearchedOnce
<1>1. IInv => SearchedOnce
  <2> SUFFICES ASSUME IInv, NEW a \in searched, NEW b \in searched, a[1] = b[1]
               PROVE  a[2] = b[2]
    BY DEF SearchedOnce
  <2>1. TypeOK /\ InShard /\ SearchedIsPrefix BY DEF IInv
  <2>2. /\ a \in Unsigned \X WorkerIds /\ MyShard(a[2]).first <= a[1] /\ a[1] < cursor[a[2]]
        /\ b \in Unsigned \X WorkerIds /\ MyShard(b[2]).first <= b[1] /\ b[1] < cursor[b[2]]
    BY <2>1 DEF SearchedIsPrefix
  <2>3. a[1] \in Nat /\ a[2] \in WorkerIds /\ b[2] \in WorkerIds
    BY <2>2, ModulusAssumption DEF Unsigned
  <2>4. /\ range \in Ranges /\ workers \in Nat \ {0}
        /\ \A k \in WorkerIds : MyShard(k).first \in Nat /\ MyShard(k).end \in Nat
    BY <2>1, Arguments
  <2>5. \A k \in WorkerIds : cursor[k] \in Nat /\ cursor[k] <= MyShard(k).end
    BY <2>1, <2>4 DEF InShard
  <2>6. \A j, k \in WorkerIds : j < k => MyShard(j).end <= MyShard(k).first
    BY <2>4, ShardsOrdered DEF WorkerIds, MyShard
  <2>7. ~(a[2] < b[2]) BY <2>2, <2>3, <2>4, <2>5, <2>6
  <2>8. ~(b[2] < a[2]) BY <2>2, <2>3, <2>4, <2>5, <2>6
  <2>9. a[2] \in Int /\ b[2] \in Int BY <2>3 DEF WorkerIds
  <2>10. QED BY <2>7, <2>8, <2>9
<1>2. QED BY <1>1, Invariant, PTL

\* AllSearched for every width, range and number of workers.
THEOREM RangeCovered == Spec => []AllSearched
<1>1. IInv => AllSearched
  <2> SUFFICES ASSUME IInv, \A k \in WorkerIds : cursor[k] = MyShard(k).end
               PROVE  {a[1] : a \in searched} = range.first .. range.end - 1
    BY DEF AllSearched
  <2>1. TypeOK /\ InShard /\ SearchedIsPrefix BY DEF IInv
  <2>2. /\ range \in Ranges /\ workers \in Nat \ {0}
        /\ \A k \in WorkerIds :
              /\ MyShard(k).first \in Nat /\ MyShard(k).end \in Nat
              /\ range.first <= MyShard(k).first
              /\ MyShard(k).end <= range.end
    BY <2>1, Arguments
  <2>3. range.first \in Nat /\ range.end \in Nat /\ range.end < Modulus
    BY <2>2, ModulusAssumption DEF Ranges, Unsigned
  <2>4. ASSUME NEW a \in searched PROVE a[1] \in range.first .. range.end - 1
    <3>1. a \in Unsigned \X WorkerIds /\ MyShard(a[2]).first <= a[1] /\ a[1] < cursor[a[2]]
      BY <2>1, <2>4 DEF SearchedIsPrefix
    <3>2. a[1] \in Nat /\ a[2] \in WorkerIds BY <3>1, ModulusAssumption DEF Unsigned
    <3>3. cursor[a[2]] = MyShard(a[2]).end BY <3>2
    <3>4. QED BY <3>1, <3>2, <3>3, <2>2, <2>3
  <2>5. ASSUME NEW x \in range.first .. range.end - 1
        PROVE  \E a \in searched : x = a[1]
    <3>1. PICK k \in WorkerIds : MyShard(k).first <= x /\ x < MyShard(k).end
      BY <2>2, ShardsCover DEF WorkerIds, MyShard
    <3>2. x \in Unsigned BY <2>3, ModulusAssumption DEF Unsigned
    <3>3. <<x, k>> \in Unsigned \X WorkerIds /\ <<x, k>>[1] = x /\ <<x, k>>[2] = k BY <3>2
    <3>4. x < cursor[k] BY <3>1
    <3>5. <<x, k>> \in searched BY <3>1, <3>3, <3>4, <2>1 DEF SearchedIsPrefix
    <3>6. QED BY <3>3, <3>5
  <2>6. QED BY <2>4, <2>5
<1>2. QED BY <1>1, Invariant, PTL

\* LauncherAgrees for every width, range and number of workers.
THEOREM ManifestAgrees == Spec => []LauncherAgrees
<1>1. IInv => LauncherAgrees
  <2> SUFFICES ASSUME IInv, NEW k \in WorkerIds
               PROVE  LauncherShard(range, k, workers) = MyShard(k)
    BY DEF LauncherAgrees
  <2>1. range \in Ranges /\ workers \in Nat \ {0} BY Arguments DEF IInv
  <2>2. QED BY <2>1, SameShards DEF WorkerIds, MyShard
<1>2. QED BY <1>1, Invariant, PTL

-----------------------------------------------------------------------------
(* Launches.  No lock protects the run directory: what protects it, where  *)
(* the launchers at work are of one assignment, is an order of the files.  *)
(* The files of the search are of the command, the command is of the       *)
(* manifest, the manifest is of the provenance, and each is there only if  *)
(* the next one is.                                                        *)

LaunchStates ==
  {"idle", "authenticate", "retain", "copy", "look", "decide", "manifest", "command", "start"}

LauncherStates ==
  [pc : LaunchStates, options : Options \cup {Absent}, resume : BOOLEAN,
   build : Deployments \cup {Absent}]

Assignments == [deployment : Deployments \cup {Damaged}, options : Options]
Writers == Assignments \cup {Nobody}

LaunchTypes ==
  /\ deployed \in Deployments \cup {Damaged}
  /\ disk \in [provenance : Deployments \cup {Damaged, Absent},
               manifest : Writers, command : Writers,
               progress : Writers, checkpoint : Writers, certificate : Writers]
  /\ session \in [runs : Writers, asked : Writers]
  /\ launcher \in [Launchers -> LauncherStates]
  /\ \A l \in Launchers :
       /\ Busy(l) => launcher[l].options \in Options
       /\ AtWork(l) => launcher[l].build \in Deployments

FilesChained ==
  /\ disk.manifest # Nobody => disk.manifest.deployment = disk.provenance
  /\ disk.command \in {Nobody, disk.manifest}
  /\ {disk.progress, disk.checkpoint, disk.certificate} \subseteq {Nobody, disk.command}

\* What a launcher relies on when it writes or starts, whatever others do.
Relies(l) ==
  /\ launcher[l].pc = "copy" => disk.provenance \in {Absent, launcher[l].build}
  /\ launcher[l].pc \in {"look", "decide", "manifest", "command", "start"}
       => disk.provenance = launcher[l].build
  /\ launcher[l].pc = "manifest" => disk.manifest \in {Nobody, Assigned(l)}
  /\ launcher[l].pc \in {"command", "start"} => disk.manifest = Assigned(l)
  /\ launcher[l].pc = "start" => disk.command = Assigned(l)

SessionIsTheCommand ==
  Running => /\ session.runs = session.asked
             /\ session.runs = disk.command
             /\ disk.command # Nobody

LaunchInv ==
  /\ LaunchTypes
  /\ FilesChained
  /\ \A l \in Launchers : Relies(l)
  /\ SessionIsTheCommand

LEMMA AssignedIsSomebody ==
  ASSUME LaunchInv, NEW l \in Launchers, AtWork(l)
  PROVE  Assigned(l) \in Assignments /\ Assigned(l) # Nobody
  BY AbsentAssumption DEF LaunchInv, LaunchTypes, AtWork, Assigned, Assignments, Nobody,
     Absent, Damaged

LEMMA LaunchStart == LaunchInit => LaunchInv
<1> SUFFICES ASSUME LaunchInit PROVE LaunchInv
  OBVIOUS
<1> USE DEF LaunchInit, Idle, Quiet, EmptyDirectory
<1>1. LaunchTypes
  BY DEF LaunchTypes, LaunchStates, LauncherStates, Writers, Busy, AtWork
<1>2. FilesChained /\ SessionIsTheCommand
  BY DEF FilesChained, SessionIsTheCommand, Running
<1>3. \A l \in Launchers : Relies(l)
  BY DEF Relies
<1> QED
  BY <1>1, <1>2, <1>3 DEF LaunchInv

\* A launcher that only moves, with the files and the session as they were.
LEMMA LauncherMoves ==
  ASSUME LaunchInv, NEW l \in Launchers, UNCHANGED <<deployed, disk, session>>,
         NEW state \in LauncherStates,
         launcher' = [launcher EXCEPT ![l] = state],
         state.pc # "idle" => state.options \in Options,
         state.pc \notin {"idle", "authenticate"} => state.build \in Deployments,
         Relies(l)'
  PROVE  LaunchInv'
<1> USE DEF LaunchInv
<1>1. \A k \in Launchers : launcher'[k] = IF k = l THEN state ELSE launcher[k]
  BY DEF LaunchTypes
<1>2. LaunchTypes'
  <2>1. launcher' \in [Launchers -> LauncherStates]
    BY DEF LaunchTypes
  <2>2. \A k \in Launchers : /\ Busy(k)' => launcher'[k].options \in Options
                             /\ AtWork(k)' => launcher'[k].build \in Deployments
    BY <1>1 DEF LaunchTypes, Busy, AtWork
  <2> QED
    BY <2>1, <2>2 DEF LaunchTypes
<1>3. FilesChained' /\ SessionIsTheCommand'
  BY DEF FilesChained, SessionIsTheCommand, Running
<1>4. \A k \in Launchers : Relies(k)'
  BY <1>1 DEF Relies, Assigned
<1> QED
  BY <1>2, <1>3, <1>4

\* A launcher that gives up or dies.
LEMMA LauncherLeaves ==
  ASSUME LaunchInv, NEW l \in Launchers, Leaves(l), UNCHANGED <<deployed, disk, session>>
  PROVE  LaunchInv'
<1>1. Idle \in LauncherStates /\ Idle.pc = "idle"
  BY DEF Idle, LaunchStates, LauncherStates
<1>2. Relies(l)'
  BY <1>1 DEF LaunchInv, Leaves, Relies, LaunchTypes
<1> QED
  BY <1>1, <1>2, LauncherMoves DEF Leaves

\* A launcher at work that goes on: who is of which assignment stays.
LaunchersKept(l, where) ==
  /\ launcher' \in [Launchers -> LauncherStates]
  /\ launcher'[l].pc = where
  /\ launcher'[l].options = launcher[l].options
  /\ launcher'[l].build = launcher[l].build
  /\ \A k \in Launchers \ {l} : launcher'[k] = launcher[k]
  /\ \A k \in Launchers : Assigned(k)' = Assigned(k)
  /\ \A k \in Launchers : /\ Busy(k)' => launcher'[k].options \in Options
                          /\ AtWork(k)' => launcher'[k].build \in Deployments

LEMMA LauncherGoesOn ==
  ASSUME LaunchInv, NEW l \in Launchers, AtWork(l), NEW where \in LaunchStates, GoesTo(l, where)
  PROVE  LaunchersKept(l, where)
<1>1. /\ launcher \in [Launchers -> LauncherStates]
      /\ launcher[l] \in LauncherStates
      /\ launcher[l].options \in Options /\ launcher[l].build \in Deployments
  BY DEF LaunchInv, LaunchTypes, AtWork
<1>2. [launcher[l] EXCEPT !.pc = where] \in LauncherStates
  BY <1>1 DEF LauncherStates
<1>3. launcher' = [launcher EXCEPT ![l] = [launcher[l] EXCEPT !.pc = where]]
  BY DEF GoesTo
<1>4. /\ launcher' \in [Launchers -> LauncherStates]
      /\ launcher'[l] = [launcher[l] EXCEPT !.pc = where]
      /\ \A k \in Launchers \ {l} : launcher'[k] = launcher[k]
  BY <1>1, <1>2, <1>3
<1>5. /\ launcher'[l].pc = where /\ launcher'[l].options = launcher[l].options
      /\ launcher'[l].build = launcher[l].build
  BY <1>1, <1>4 DEF LauncherStates
<1>6. \A k \in Launchers : Assigned(k)' = Assigned(k)
  BY <1>4, <1>5 DEF Assigned
<1>7. \A k \in Launchers : /\ Busy(k)' => launcher'[k].options \in Options
                           /\ AtWork(k)' => launcher'[k].build \in Deployments
  BY <1>1, <1>4, <1>5 DEF LaunchInv, LaunchTypes, Busy, AtWork
<1> QED
  BY <1>4, <1>5, <1>6, <1>7 DEF LaunchersKept

LEMMA LauncherAdvances ==
  ASSUME LaunchInv, NEW l \in Launchers, AtWork(l), NEW where \in LaunchStates, GoesTo(l, where),
         UNCHANGED <<deployed, disk, session>>, Relies(l)'
  PROVE  LaunchInv'
<1>1. LaunchersKept(l, where)
  BY LauncherGoesOn
<1>2. LaunchTypes'
  BY <1>1 DEF LaunchInv, LaunchTypes, LaunchersKept
<1>3. FilesChained' /\ SessionIsTheCommand'
  BY DEF LaunchInv, FilesChained, SessionIsTheCommand, Running
<1>4. \A k \in Launchers \ {l} : Relies(k)'
  BY <1>1 DEF LaunchInv, LaunchersKept, Relies
<1> QED
  BY <1>2, <1>3, <1>4 DEF LaunchInv

Disks ==
  [provenance : Deployments \cup {Damaged, Absent}, manifest : Writers, command : Writers,
   progress : Writers, checkpoint : Writers, certificate : Writers]

\* The first steps of a launch.
LEMMA CallStart ==
  ASSUME LaunchInv, NEW l \in Launchers, NEW options \in Options, NEW resume \in BOOLEAN,
         Call(l, options, resume)
  PROVE  LaunchInv'
<1> DEFINE state == [Idle EXCEPT !.pc = "authenticate", !.options = options, !.resume = resume]
<1>1. state \in LauncherStates /\ state.pc = "authenticate" /\ state.options = options
  BY DEF LaunchStates, LauncherStates, Idle
<1>2. launcher' = [launcher EXCEPT ![l] = state] /\ UNCHANGED <<deployed, disk, session>>
  BY DEF Call
<1> HIDE DEF state
<1>3. Relies(l)'
  BY <1>1, <1>2 DEF Relies, LaunchInv, LaunchTypes
<1> QED
  BY <1>1, <1>2, <1>3, LauncherMoves

LEMMA AuthenticateStep ==
  ASSUME LaunchInv, NEW l \in Launchers, Authenticate(l) PROVE LaunchInv'
<1>1. CASE deployed = Damaged
  BY <1>1, LauncherLeaves DEF Authenticate
<1>2. CASE deployed # Damaged
  <2> DEFINE state == [launcher[l] EXCEPT !.pc = "retain", !.build = deployed]
  <2>1. launcher[l] \in LauncherStates /\ launcher[l].options \in Options
        /\ deployed \in Deployments
    BY <1>2 DEF LaunchInv, LaunchTypes, Authenticate, Busy
  <2>2. /\ state \in LauncherStates /\ state.pc = "retain"
        /\ state.options = launcher[l].options /\ state.build = deployed
    BY <2>1 DEF LauncherStates, LaunchStates
  <2>3. launcher' = [launcher EXCEPT ![l] = state] /\ UNCHANGED <<deployed, disk, session>>
    BY <1>2 DEF Authenticate, LaunchInv, LaunchTypes
  <2> HIDE DEF state
  <2>4. Relies(l)'
    BY <2>2, <2>3 DEF Relies, LaunchInv, LaunchTypes
  <2> QED
    BY <2>1, <2>2, <2>3, <2>4, LauncherMoves
<1> QED
  BY <1>1, <1>2

\* The looks of a launcher at the directory and at the session.
LEMMA LookStep ==
  ASSUME LaunchInv, NEW l \in Launchers, Retain(l) \/ Look(l) \/ Decide(l) PROVE LaunchInv'
<1>1. AtWork(l) /\ UNCHANGED <<deployed, disk, session>>
  BY DEF Retain, Look, Decide, AtWork, Busy
<1>2. /\ "copy" \in LaunchStates /\ "look" \in LaunchStates /\ "decide" \in LaunchStates
      /\ "manifest" \in LaunchStates /\ "start" \in LaunchStates
  BY DEF LaunchStates
<1>3. CASE Leaves(l)
  BY <1>1, <1>3, LauncherLeaves
<1>4. ASSUME NEW where \in LaunchStates, GoesTo(l, where),
             where = "copy" => disk.provenance \in {Absent, launcher[l].build},
             where \in {"look", "decide", "manifest", "start"}
               => disk.provenance = launcher[l].build,
             where = "manifest" => disk.manifest = Nobody,
             where = "start" => disk.manifest = Assigned(l) /\ disk.command = Assigned(l),
             where # "command"
      PROVE  LaunchInv'
  <2>1. LaunchersKept(l, where)
    BY <1>1, <1>4, LauncherGoesOn
  <2>2. Relies(l)'
    BY <1>1, <1>4, <2>1 DEF LaunchersKept, Relies
  <2> QED
    BY <1>1, <1>4, <2>2, LauncherAdvances
<1>5. CASE Retain(l)
  BY <1>2, <1>3, <1>4, <1>5 DEF Retain
<1>6. CASE Look(l)
  <2>1. disk.provenance = launcher[l].build
    BY <1>6 DEF Look, LaunchInv, Relies
  <2> QED
    BY <1>2, <1>3, <1>4, <1>6, <2>1 DEF Look
<1>7. CASE Decide(l)
  <2>1. disk.provenance = launcher[l].build
    BY <1>7 DEF Decide, LaunchInv, Relies
  <2>2. CASE MayResume(l) /\ GoesTo(l, "start")
    BY <1>2, <1>4, <2>1, <2>2 DEF MayResume, SameFiles
  <2>3. CASE disk.manifest = Nobody /\ GoesTo(l, "manifest")
    BY <1>2, <1>4, <2>1, <2>3
  <2> QED
    BY <1>3, <1>7, <2>2, <2>3 DEF Decide
<1> QED
  BY <1>5, <1>6, <1>7

\* Its writes.  Another launcher at work is of the same assignment, and finds
\* what it relies on.
LEMMA CopyStep ==
  ASSUME LaunchInv, OneAssignment, NEW l \in Launchers, Copy(l) PROVE LaunchInv'
<1>1. /\ GoesTo(l, "look") /\ "look" \in LaunchStates /\ AtWork(l)
      /\ UNCHANGED <<deployed, session>>
      /\ disk' = [disk EXCEPT !.provenance = launcher[l].build]
      /\ disk.provenance \in {Absent, launcher[l].build}
  BY DEF Copy, LaunchStates, AtWork, Busy, LaunchInv, Relies
<1>2. LaunchersKept(l, "look")
  BY <1>1, LauncherGoesOn
<1>3. disk \in Disks /\ launcher[l].build \in Deployments
  BY <1>1 DEF LaunchInv, LaunchTypes, Disks
<1>4. /\ disk' \in Disks
      /\ disk'.provenance = launcher[l].build /\ disk'.manifest = disk.manifest
      /\ disk'.command = disk.command /\ disk'.progress = disk.progress
      /\ disk'.checkpoint = disk.checkpoint /\ disk'.certificate = disk.certificate
  BY <1>1, <1>3 DEF Disks
\* A provenance that was not there had no manifest to describe.
<1>5. disk.provenance = Absent => disk.manifest = Nobody
  BY AbsentAssumption DEF LaunchInv, LaunchTypes, FilesChained, Writers, Assignments, Absent, Damaged
<1>6. FilesChained'
  BY <1>1, <1>4, <1>5 DEF LaunchInv, FilesChained
<1>7. LaunchTypes'
  BY <1>1, <1>2, <1>4 DEF LaunchInv, LaunchTypes, LaunchersKept, Disks
<1>8. \A k \in Launchers : AtWork(k) => launcher[k].build = launcher[l].build
  BY <1>1 DEF OneAssignment, Assigned
<1>9. Relies(l)'
  BY <1>2, <1>4 DEF LaunchersKept, Relies
<1>10. ASSUME NEW k \in Launchers \ {l} PROVE Relies(k)'
  <2>1. launcher'[k] = launcher[k] /\ Relies(k) /\ Assigned(k)' = Assigned(k)
    BY <1>2 DEF LaunchInv, LaunchersKept
  <2>2. launcher[k].pc \in {"copy", "look", "decide", "manifest", "command", "start"} => AtWork(k)
    BY DEF AtWork, Busy
  <2> QED
    BY <1>4, <1>8, <2>1, <2>2 DEF Relies
<1>11. SessionIsTheCommand'
  BY <1>1, <1>4 DEF LaunchInv, SessionIsTheCommand, Running
<1> QED
  BY <1>6, <1>7, <1>9, <1>10, <1>11 DEF LaunchInv

LEMMA WriteManifestStep ==
  ASSUME LaunchInv, OneAssignment, NEW l \in Launchers, WriteManifest(l) PROVE LaunchInv'
<1>1. /\ GoesTo(l, "command") /\ "command" \in LaunchStates /\ AtWork(l)
      /\ UNCHANGED <<deployed, session>> /\ disk' = [disk EXCEPT !.manifest = Assigned(l)]
      /\ disk.provenance = launcher[l].build /\ disk.manifest \in {Nobody, Assigned(l)}
  BY DEF WriteManifest, LaunchStates, AtWork, Busy, LaunchInv, Relies
<1>2. LaunchersKept(l, "command")
  BY <1>1, LauncherGoesOn
<1>3. disk \in Disks /\ Assigned(l) \in Writers
  BY <1>1, AssignedIsSomebody DEF LaunchInv, LaunchTypes, Disks, Writers
<1>4. /\ disk' \in Disks
      /\ disk'.provenance = disk.provenance /\ disk'.manifest = Assigned(l)
      /\ disk'.command = disk.command /\ disk'.progress = disk.progress
      /\ disk'.checkpoint = disk.checkpoint /\ disk'.certificate = disk.certificate
  BY <1>1, <1>3 DEF Disks
<1>5. FilesChained'
  <2>1. Assigned(l).deployment = launcher[l].build
    BY DEF Assigned
  <2> QED
    BY <1>1, <1>4, <2>1 DEF LaunchInv, FilesChained
<1>6. LaunchTypes'
  BY <1>1, <1>2, <1>4 DEF LaunchInv, LaunchTypes, LaunchersKept, Disks
<1>7. \A k \in Launchers : AtWork(k) => Assigned(k) = Assigned(l)
  BY <1>1 DEF OneAssignment
<1>8. Relies(l)'
  BY <1>1, <1>2, <1>4 DEF LaunchersKept, Relies
<1>9. ASSUME NEW k \in Launchers \ {l} PROVE Relies(k)'
  <2>1. launcher'[k] = launcher[k] /\ Relies(k) /\ Assigned(k)' = Assigned(k)
    BY <1>2 DEF LaunchInv, LaunchersKept
  <2>2. launcher[k].pc \in {"copy", "look", "decide", "manifest", "command", "start"} => AtWork(k)
    BY DEF AtWork, Busy
  <2> QED
    BY <1>4, <1>7, <2>1, <2>2 DEF Relies
<1>10. SessionIsTheCommand'
  BY <1>1, <1>4 DEF LaunchInv, SessionIsTheCommand, Running
<1> QED
  BY <1>5, <1>6, <1>8, <1>9, <1>10 DEF LaunchInv

LEMMA WriteCommandStep ==
  ASSUME LaunchInv, OneAssignment, NEW l \in Launchers, WriteCommand(l) PROVE LaunchInv'
<1>1. CASE disk.command # Nobody
  BY <1>1, LauncherLeaves DEF WriteCommand
<1>2. CASE disk.command = Nobody
  <2>1. /\ GoesTo(l, "start") /\ "start" \in LaunchStates /\ AtWork(l)
        /\ UNCHANGED <<deployed, session>> /\ disk' = [disk EXCEPT !.command = Assigned(l)]
        /\ disk.provenance = launcher[l].build /\ disk.manifest = Assigned(l)
    BY <1>2 DEF WriteCommand, LaunchStates, AtWork, Busy, LaunchInv, Relies
  <2>2. LaunchersKept(l, "start")
    BY <2>1, LauncherGoesOn
  <2>3. disk \in Disks /\ Assigned(l) \in Writers
    BY <2>1, AssignedIsSomebody DEF LaunchInv, LaunchTypes, Disks, Writers
  <2>4. /\ disk' \in Disks
        /\ disk'.provenance = disk.provenance /\ disk'.manifest = disk.manifest
        /\ disk'.command = Assigned(l) /\ disk'.progress = disk.progress
        /\ disk'.checkpoint = disk.checkpoint /\ disk'.certificate = disk.certificate
    BY <2>1, <2>3 DEF Disks
  <2>5. FilesChained'
    BY <1>2, <2>1, <2>4 DEF LaunchInv, FilesChained
  <2>6. LaunchTypes'
    BY <2>1, <2>2, <2>4 DEF LaunchInv, LaunchTypes, LaunchersKept, Disks
  <2>7. \A k \in Launchers : AtWork(k) => Assigned(k) = Assigned(l)
    BY <2>1 DEF OneAssignment
  <2>8. Relies(l)'
    BY <2>1, <2>2, <2>4 DEF LaunchersKept, Relies
  <2>9. ASSUME NEW k \in Launchers \ {l} PROVE Relies(k)'
    <3>1. launcher'[k] = launcher[k] /\ Relies(k) /\ Assigned(k)' = Assigned(k)
      BY <2>2 DEF LaunchInv, LaunchersKept
    <3>2. launcher[k].pc \in {"copy", "look", "decide", "manifest", "command", "start"}
            => AtWork(k)
      BY DEF AtWork, Busy
    <3> QED
      BY <2>4, <2>7, <3>1, <3>2 DEF Relies
  <2>10. SessionIsTheCommand'
    BY <1>2, <2>1 DEF LaunchInv, SessionIsTheCommand, Running
  <2> QED
    BY <2>5, <2>6, <2>8, <2>9, <2>10 DEF LaunchInv
<1> QED
  BY <1>1, <1>2

LEMMA StartStep ==
  ASSUME LaunchInv, NEW l \in Launchers, Start(l) PROVE LaunchInv'
<1>1. Leaves(l) /\ UNCHANGED <<deployed, disk>> /\ AtWork(l)
  BY DEF Start, AtWork, Busy
<1>2. CASE session # Quiet
  BY <1>1, <1>2, LauncherLeaves DEF Start
<1>3. CASE session = Quiet
  <2>1. /\ session' = [runs |-> disk.command, asked |-> Assigned(l)]
        /\ disk.command = Assigned(l) /\ Assigned(l) \in Writers /\ Assigned(l) # Nobody
    BY <1>1, <1>3, AssignedIsSomebody DEF Start, LaunchInv, Relies, Writers
  <2>2. SessionIsTheCommand'
    BY <1>1, <2>1 DEF SessionIsTheCommand
  <2>3. /\ Idle \in LauncherStates /\ Idle.pc = "idle"
        /\ launcher' \in [Launchers -> LauncherStates]
        /\ \A k \in Launchers : launcher'[k] = IF k = l THEN Idle ELSE launcher[k]
    <3>1. Idle \in LauncherStates /\ Idle.pc = "idle"
      BY DEF Idle, LaunchStates, LauncherStates
    <3> QED
      BY <1>1, <3>1 DEF Leaves, LaunchInv, LaunchTypes
  <2>4. \A k \in Launchers : /\ Busy(k)' => launcher'[k].options \in Options
                             /\ AtWork(k)' => launcher'[k].build \in Deployments
    BY <2>3 DEF Busy, AtWork, LaunchInv, LaunchTypes
  <2>5. LaunchTypes'
    BY <1>1, <2>1, <2>3, <2>4 DEF LaunchInv, LaunchTypes
  <2>6. \A k \in Launchers : Relies(k)'
    BY <1>1, <2>3 DEF LaunchInv, Relies, Assigned
  <2> QED
    BY <1>1, <2>2, <2>5, <2>6 DEF LaunchInv, FilesChained
<1> QED
  BY <1>2, <1>3

\* The search, the host and the operator.
LEMMA WritesStep ==
  ASSUME LaunchInv, NEW file \in {"progress", "checkpoint", "certificate"}, Writes(file)
  PROVE  LaunchInv'
<1> USE DEF LaunchInv
<1>1. /\ UNCHANGED <<deployed, session, launcher>> /\ session.runs = disk.command
      /\ disk' = [disk EXCEPT ![file] = disk.command]
  BY DEF Writes, SessionIsTheCommand
<1>2. /\ disk'.provenance = disk.provenance /\ disk'.manifest = disk.manifest
      /\ disk'.command = disk.command
      /\ \A f \in {"progress", "checkpoint", "certificate"} :
           disk'[f] \in {disk[f], disk.command}
  BY <1>1 DEF LaunchTypes
<1>3. LaunchTypes'
  BY <1>1 DEF LaunchTypes, Busy, AtWork
<1>4. FilesChained'
  BY <1>2 DEF FilesChained
<1>5. SessionIsTheCommand' /\ \A l \in Launchers : Relies(l)'
  BY <1>1, <1>2 DEF SessionIsTheCommand, Running, Relies, Assigned
<1> QED
  BY <1>3, <1>4, <1>5

LEMMA HostStep ==
  ASSUME LaunchInv,
         \/ SessionEnds \/ Reboot
         \/ \E build \in Deployments \cup {Damaged} : Deploy(build)
  PROVE  LaunchInv'
<1> USE DEF LaunchInv
<1>1. CASE SessionEnds
  <2>1. session' \in [runs : Writers, asked : Writers] /\ ~Running'
    BY <1>1 DEF SessionEnds, Quiet, Running, Writers
  <2> QED
    BY <1>1, <2>1 DEF SessionEnds, LaunchTypes, FilesChained, SessionIsTheCommand, Busy, AtWork,
       Relies, Assigned
<1>2. CASE Reboot
  <2>1. session' \in [runs : Writers, asked : Writers] /\ ~Running'
    BY <1>2 DEF Reboot, Quiet, Running, Writers
  <2>2. Idle \in LauncherStates /\ Idle.pc = "idle"
    BY DEF Idle, LaunchStates, LauncherStates
  <2>3. \A l \in Launchers : launcher'[l].pc = "idle"
    BY <1>2, <2>2 DEF Reboot
  <2>4. LaunchTypes'
    BY <1>2, <2>1, <2>2, <2>3 DEF Reboot, LaunchTypes, Busy, AtWork
  <2>5. SessionIsTheCommand' /\ \A l \in Launchers : Relies(l)'
    BY <2>1, <2>3 DEF SessionIsTheCommand, Relies
  <2> QED
    BY <1>2, <2>4, <2>5 DEF Reboot, FilesChained
<1>3. ASSUME NEW build \in Deployments \cup {Damaged}, Deploy(build) PROVE LaunchInv'
  BY <1>3 DEF Deploy, LaunchTypes, FilesChained, SessionIsTheCommand, Busy, AtWork, Relies,
     Assigned, Running
<1> QED
  BY <1>1, <1>2, <1>3

LEMMA LaunchStep == LaunchInv /\ OneAssignment /\ [LaunchNext]_launching => LaunchInv'
<1> SUFFICES ASSUME LaunchInv, OneAssignment, [LaunchNext]_launching PROVE LaunchInv'
  OBVIOUS
<1>1. ASSUME NEW l \in Launchers, LauncherStep(l) PROVE LaunchInv'
  <2>1. CASE LauncherDies(l)
    BY <2>1, LauncherLeaves DEF LauncherDies
  <2> QED
    BY <1>1, <2>1, CallStart, AuthenticateStep, LookStep, CopyStep, WriteManifestStep,
       WriteCommandStep, StartStep DEF LauncherStep
<1>2. CASE SearchWrites
  BY <1>2, WritesStep DEF SearchWrites
<1>3. CASE UNCHANGED launching
  BY <1>3 DEF launching, LaunchInv, LaunchTypes, FilesChained, SessionIsTheCommand, Busy,
     AtWork, Relies, Assigned, Running
<1> QED
  BY <1>1, <1>2, <1>3, HostStep DEF LaunchNext

(***************************************************************************)
(* For any launchers, builds and options, with launchers that die or are   *)
(* repeated anywhere, hosts that reboot and deployments at any moment: if  *)
(* launchers at work at the same time are of one assignment, which nothing *)
(* enforces, a session never continues the files of another assignment     *)
(* (remote_worker.py).                                                     *)
(***************************************************************************)
THEOREM ResumesOwnRun == LaunchSpec /\ []OneAssignment => []WorkerResumes
<1>1. LaunchInv => WorkerResumes
  BY DEF LaunchInv, WorkerResumes, SessionIsTheCommand, FilesChained
<1> QED
  BY <1>1, LaunchStart, LaunchStep, PTL DEF LaunchSpec

-----------------------------------------------------------------------------
(* Trusted files.  A hash that agrees says nothing of the moment before it *)
(* unless the file has been the same since.  So the invariant speaks of    *)
(* what was read and of what is there now: a worker between the load and   *)
(* the second hash, or a curve that has read a table, either has what it   *)
(* should, or the file is still wrong, or it was put back in between.      *)

Places == {"main", "inspect", "hash", "load", "rehash", "build", "digest", "identify",
           "begin", "run", "failed"}
Curves == [reads : SUBSET TableContents, restored : BOOLEAN]
TableIds == TableContents \cup {Missing}

Memory ==
  [at : Places, digest : BOOLEAN, engine : CacheContents, restored : BOOLEAN,
   cacheId : CacheContents, tableId : TableIds, launched : Nat, window : Seq(Curves)]

Checkpoints ==
  [exists : BOOLEAN, cacheId : CacheContents, tableId : TableIds, reports : Seq(Curves)]

EngineTrusted(m, content) ==
  /\ m.at = "rehash" => m.engine = Sound \/ content # Sound \/ m.restored
  /\ m.at = "digest" => m.engine = Sound
  /\ m.at \in {"identify", "begin", "run"} => m.engine = Sound \/ m.restored

CurvesTrusted(m, content) ==
  /\ m.at # "run" => m.window = <<>>
  /\ \A i \in DOMAIN m.window :
       m.window[i].reads \subseteq {m.tableId} \/ m.window[i].restored \/ content # m.tableId

SavedTrusted(s) ==
  /\ ~s.exists => s.reports = <<>>
  /\ \A i \in DOMAIN s.reports : s.reports[i].reads \subseteq {s.tableId} \/ s.reports[i].restored

Continues(m, s) == m.at \in {"begin", "run"} /\ s.exists => s.tableId = m.tableId

TrustInv ==
  /\ cache \in CacheContents /\ tables \in TableContents
  /\ process \in [Hosted -> Memory] /\ saved \in [Hosted -> Checkpoints]
  /\ \A w \in Hosted : /\ EngineTrusted(process[w], cache)
                       /\ CurvesTrusted(process[w], tables)
                       /\ SavedTrusted(saved[w])
                       /\ Continues(process[w], saved[w])

LEMMA StartedFacts ==
  /\ Started \in Memory /\ Started.at = "main" /\ Started.window = <<>>
  /\ Unsaved \in Checkpoints /\ Unsaved.reports = <<>> /\ ~Unsaved.exists
  BY DEF Started, Unsaved, Memory, Checkpoints, Places, CacheContents, TableIds

LEMMA TrustStart == TrustInit => TrustInv
<1> SUFFICES ASSUME TrustInit, NEW w \in Hosted
             PROVE  /\ EngineTrusted(Started, cache) /\ CurvesTrusted(Started, tables)
                    /\ SavedTrusted(Unsaved) /\ Continues(Started, Unsaved)
  BY StartedFacts DEF TrustInit, TrustInv
<1> QED
  BY StartedFacts DEF EngineTrusted, CurvesTrusted, SavedTrusted, Continues

\* A worker that changes its memory, and perhaps its checkpoint, alone.
LEMMA WorkerMoves ==
  ASSUME TrustInv, NEW w \in Hosted, NEW m \in Memory, NEW s \in Checkpoints,
         UNCHANGED <<cache, tables>>,
         process' = [process EXCEPT ![w] = m], saved' = [saved EXCEPT ![w] = s],
         EngineTrusted(m, cache), CurvesTrusted(m, tables), SavedTrusted(s), Continues(m, s)
  PROVE  TrustInv'
<1>1. \A v \in Hosted : /\ process'[v] = IF v = w THEN m ELSE process[v]
                        /\ saved'[v] = IF v = w THEN s ELSE saved[v]
  BY DEF TrustInv
<1>2. process' \in [Hosted -> Memory] /\ saved' \in [Hosted -> Checkpoints]
  BY DEF TrustInv
<1>3. ASSUME NEW v \in Hosted
      PROVE  /\ EngineTrusted(process'[v], cache') /\ CurvesTrusted(process'[v], tables')
             /\ SavedTrusted(saved'[v]) /\ Continues(process'[v], saved'[v])
  BY <1>1 DEF TrustInv
<1> QED
  BY <1>2, <1>3 DEF TrustInv

\* The same, when the checkpoint stays.
LEMMA MemoryMoves ==
  ASSUME TrustInv, NEW w \in Hosted, NEW m \in Memory, Becomes(w, m), UNCHANGED <<cache, saved>>,
         EngineTrusted(m, cache), CurvesTrusted(m, tables), Continues(m, saved[w])
  PROVE  TrustInv'
<1>1. saved' = [saved EXCEPT ![w] = saved[w]] /\ saved[w] \in Checkpoints /\ SavedTrusted(saved[w])
  BY DEF TrustInv
<1> QED
  BY <1>1, WorkerMoves DEF Becomes

LEMMA FailureMoves ==
  ASSUME TrustInv, NEW w \in Hosted, Fails(w) PROVE TrustInv'
<1> DEFINE m == [Started EXCEPT !.at = "failed"]
<1>1. m \in Memory /\ m.at = "failed" /\ m.window = <<>>
  BY StartedFacts DEF Memory, Places
<1>2. EngineTrusted(m, cache) /\ CurvesTrusted(m, tables) /\ Continues(m, saved[w])
  BY <1>1 DEF EngineTrusted, CurvesTrusted, Continues
<1> QED
  BY <1>1, <1>2, MemoryMoves DEF Fails

\* A worker before the tables are identified goes on to another place there.
LEMMA EarlyMoves ==
  ASSUME TrustInv, NEW w \in Hosted, process[w].at \notin {"begin", "run"},
         NEW m \in Memory, m.at \notin {"begin", "run"}, m.window = process[w].window,
         Becomes(w, m), UNCHANGED <<cache, saved>>, EngineTrusted(m, cache)
  PROVE  TrustInv'
<1>1. process[w].window = <<>>
  BY DEF TrustInv, CurvesTrusted
<1>2. CurvesTrusted(m, tables) /\ Continues(m, saved[w])
  BY <1>1 DEF CurvesTrusted, Continues
<1> QED
  BY <1>2, MemoryMoves

\* Loading and building the product cache.
LEMMA CacheStep ==
  ASSUME TrustInv, NEW w \in Hosted,
         \/ Preexists(w) \/ Inspect(w) \/ HashBefore(w) \/ Load(w) \/ HashAfter(w) \/ DigestBuilt(w)
  PROVE  TrustInv'
<1>1. process[w] \in Memory /\ EngineTrusted(process[w], cache) /\ cache \in CacheContents
  BY DEF TrustInv
<1>2. CASE Preexists(w)
  <2> DEFINE m == [process[w] EXCEPT !.at = "inspect", !.digest = (cache # Missing)]
  <2>1. m \in Memory /\ m.at = "inspect" /\ m.window = process[w].window
    BY <1>1 DEF Memory, Places
  <2> QED
    BY <1>2, <2>1, EarlyMoves DEF Preexists, At, EngineTrusted
<1>3. ASSUME NEW at \in {"build", "hash", "load"}, Moves(w, at),
             process[w].at \in {"inspect", "hash"}
      PROVE  TrustInv'
  <2> DEFINE m == [process[w] EXCEPT !.at = at]
  <2>1. m \in Memory /\ m.at = at /\ m.window = process[w].window
    BY <1>1, <1>3 DEF Memory, Places
  <2>2. process[w].at \notin {"begin", "run"} /\ m.at \notin {"begin", "run"}
    BY <1>3, <2>1
  <2>3. Becomes(w, m) /\ UNCHANGED <<cache, saved>>
    BY <1>3 DEF Moves
  <2>4. EngineTrusted(m, cache)
    BY <1>3, <2>1 DEF EngineTrusted
  <2> QED
    BY <2>1, <2>2, <2>3, <2>4, EarlyMoves
<1>4. CASE Inspect(w)
  BY <1>3, <1>4, FailureMoves DEF Inspect, At
<1>5. CASE HashBefore(w)
  BY <1>3, <1>5, FailureMoves DEF HashBefore, At
<1>6. CASE Load(w)
  <2> DEFINE m == [process[w] EXCEPT !.at = "rehash", !.engine = cache]
  <2>1. m \in Memory /\ m.at = "rehash" /\ m.engine = cache /\ m.window = process[w].window
    BY <1>1 DEF Memory, Places
  <2>2. EngineTrusted(m, cache)
    BY <2>1 DEF EngineTrusted
  <2> QED
    BY <1>6, <2>1, <2>2, EarlyMoves, FailureMoves DEF Load, At
<1>7. CASE HashAfter(w)
  <2> DEFINE m == [process[w] EXCEPT !.at = "identify", !.cacheId = Sound]
  <2>1. /\ m \in Memory /\ m.at = "identify" /\ m.engine = process[w].engine
        /\ m.restored = process[w].restored /\ m.window = process[w].window
    BY <1>1 DEF Memory, Places, CacheContents
  <2>2. StillSound(w) => EngineTrusted(m, cache)
    BY <1>1, <1>7, <2>1 DEF EngineTrusted, StillSound, HashAfter, At
  <2> QED
    BY <1>7, <2>1, <2>2, EarlyMoves, FailureMoves DEF HashAfter, At
<1>8. CASE DigestBuilt(w)
  <2> DEFINE m == [process[w] EXCEPT !.at = "identify", !.cacheId = cache]
  <2>1. m \in Memory /\ m.at = "identify" /\ m.engine = process[w].engine
        /\ m.window = process[w].window
    BY <1>1 DEF Memory, Places
  <2>2. EngineTrusted(m, cache)
    BY <1>1, <1>8, <2>1 DEF EngineTrusted, DigestBuilt, At
  <2> QED
    BY <1>8, <2>1, <2>2, EarlyMoves, FailureMoves DEF DigestBuilt, At
<1> QED
  BY <1>2, <1>4, <1>5, <1>6, <1>7, <1>8

\* The cache changes under every worker.
LEMMA CacheChanges ==
  ASSUME TrustInv, NEW content \in CacheContents, NEW v \in Hosted
  PROVE  /\ CacheBecomes(content)[v] \in Memory
         /\ EngineTrusted(CacheBecomes(content)[v], content)
         /\ CurvesTrusted(CacheBecomes(content)[v], tables)
         /\ Continues(CacheBecomes(content)[v], saved[v])
<1> DEFINE m == CacheBecomes(content)[v]
           back == content = Sound /\ process[v].at \in {"load", "rehash"}
<1>1. process[v] \in Memory /\ EngineTrusted(process[v], cache) /\ CurvesTrusted(process[v], tables)
      /\ Continues(process[v], saved[v])
  BY DEF TrustInv
<1>2. m = [process[v] EXCEPT !.restored = process[v].restored \/ back]
  BY DEF CacheBecomes
<1>3. /\ m \in Memory /\ m.at = process[v].at /\ m.window = process[v].window
      /\ m.tableId = process[v].tableId /\ m.engine = process[v].engine
      /\ m.restored = (process[v].restored \/ back)
  BY <1>1, <1>2 DEF Memory
<1>4. EngineTrusted(m, content)
  BY <1>1, <1>3 DEF EngineTrusted
<1>5. CurvesTrusted(m, tables) /\ Continues(m, saved[v])
  BY <1>1, <1>3 DEF CurvesTrusted, Continues
<1> QED
  BY <1>3, <1>4, <1>5

LEMMA CacheReplaced ==
  ASSUME TrustInv, NEW content \in CacheContents, ReplaceCache(content) PROVE TrustInv'
<1>1. process' = [v \in Hosted |-> CacheBecomes(content)[v]]
  BY DEF ReplaceCache, CacheBecomes
<1>2. \A v \in Hosted : process'[v] = CacheBecomes(content)[v]
  BY <1>1
<1>3. process' \in [Hosted -> Memory]
  BY <1>1, CacheChanges
<1>4. cache' = content /\ tables' = tables /\ saved' = saved
  BY DEF ReplaceCache
<1> QED
  BY <1>2, <1>3, <1>4, CacheChanges DEF TrustInv

LEMMA BuildStep ==
  ASSUME TrustInv, NEW w \in Hosted, BuildAndSave(w) PROVE TrustInv'
<1> DEFINE m == [CacheBecomes(Sound)[w] EXCEPT !.at = "digest", !.engine = Sound]
<1>1. Sound \in CacheContents
  BY DEF CacheContents
<1>2. CacheBecomes(Sound)[w] \in Memory
  BY <1>1, CacheChanges
<1>3. m \in Memory /\ m.at = "digest" /\ m.engine = Sound
      /\ m.window = CacheBecomes(Sound)[w].window
  BY <1>1, <1>2 DEF Memory, Places
<1>4. CacheBecomes(Sound)[w].window = process[w].window
  BY DEF CacheBecomes, TrustInv, Memory
<1>5. process[w].window = <<>>
  BY DEF TrustInv, CurvesTrusted, BuildAndSave, At
<1>6. EngineTrusted(m, Sound) /\ CurvesTrusted(m, tables) /\ Continues(m, saved[w])
  BY <1>3, <1>4, <1>5 DEF EngineTrusted, CurvesTrusted, Continues
<1>7. process' = [v \in Hosted |-> IF v = w THEN m ELSE CacheBecomes(Sound)[v]]
  BY DEF BuildAndSave, CacheBecomes
<1>8. process' \in [Hosted -> Memory]
  BY <1>1, <1>3, <1>7, CacheChanges
<1>9. cache' = Sound /\ tables' = tables /\ saved' = saved
  BY DEF BuildAndSave
<1>10. ASSUME NEW v \in Hosted
       PROVE  /\ EngineTrusted(process'[v], Sound) /\ CurvesTrusted(process'[v], tables)
              /\ Continues(process'[v], saved[v])
  <2>1. CASE v = w
    BY <1>6, <1>7, <2>1
  <2>2. CASE v # w
    BY <1>1, <1>7, <2>2, CacheChanges
  <2> QED
    BY <2>1, <2>2
<1> QED
  BY <1>1, <1>8, <1>9, <1>10 DEF TrustInv

\* A worker has its tables identified and begins: nothing has been read yet.
LEMMA IdentityStep ==
  ASSUME TrustInv, NEW w \in Hosted, Identify(w) \/ BeginRun(w) PROVE TrustInv'
<1>1. /\ process[w] \in Memory /\ EngineTrusted(process[w], cache)
      /\ CurvesTrusted(process[w], tables) /\ Continues(process[w], saved[w])
      /\ saved[w] \in Checkpoints /\ tables \in TableContents
  BY DEF TrustInv
<1>2. CASE Identify(w)
  <2> DEFINE m == [process[w] EXCEPT !.at = "begin", !.tableId = tables,
                                     !.launched = Len(saved[w].reports)]
  <2>1. Len(saved[w].reports) \in Nat
    BY <1>1 DEF Checkpoints
  <2>2. /\ m \in Memory /\ m.at = "begin" /\ m.tableId = tables
        /\ m.engine = process[w].engine /\ m.restored = process[w].restored
        /\ m.window = process[w].window
    BY <1>1, <2>1 DEF Memory, Places, TableIds
  <2>3. EngineTrusted(m, cache) /\ CurvesTrusted(m, tables)
    BY <1>1, <1>2, <2>2 DEF EngineTrusted, CurvesTrusted, Identify, At
  <2>5. \/ Fails(w)
        \/ /\ Becomes(w, m) /\ UNCHANGED <<cache, saved>>
           /\ saved[w].exists => saved[w].tableId = tables
    BY <1>2 DEF Identify
  <2>6. CASE Becomes(w, m) /\ UNCHANGED <<cache, saved>>
             /\ (saved[w].exists => saved[w].tableId = tables)
    <3>1. Continues(m, saved[w])
      BY <2>2, <2>6 DEF Continues
    <3> QED
      BY <2>2, <2>3, <2>6, <3>1, MemoryMoves
  <2> QED
    BY <2>5, <2>6, FailureMoves
<1>3. CASE BeginRun(w)
  <2> DEFINE m == [process[w] EXCEPT !.at = "run"]
  <2>1. /\ m \in Memory /\ m.at = "run" /\ m.tableId = process[w].tableId
        /\ m.engine = process[w].engine /\ m.restored = process[w].restored
        /\ m.window = process[w].window
    BY <1>1 DEF Memory, Places
  <2>2. EngineTrusted(m, cache) /\ CurvesTrusted(m, tables) /\ Continues(m, saved[w])
    BY <1>1, <1>3, <2>1 DEF EngineTrusted, CurvesTrusted, Continues, BeginRun, At
  <2> QED
    BY <1>3, <2>1, <2>2, MemoryMoves, FailureMoves DEF BeginRun, Moves
<1> QED
  BY <1>2, <1>3

\* A running worker that changes its window only.
LEMMA WindowMoves ==
  ASSUME TrustInv, NEW w \in Hosted, At(w, "run"), NEW m \in Memory,
         m.at = "run", m.tableId = process[w].tableId,
         m.engine = process[w].engine, m.restored = process[w].restored,
         Becomes(w, m), UNCHANGED <<cache, saved>>,
         \A i \in DOMAIN m.window : \/ m.window[i].reads \subseteq {m.tableId}
                                    \/ m.window[i].restored
                                    \/ tables # m.tableId
  PROVE  TrustInv'
<1>1. EngineTrusted(process[w], cache) /\ Continues(process[w], saved[w])
  BY DEF TrustInv
<1>2. EngineTrusted(m, cache) /\ CurvesTrusted(m, tables) /\ Continues(m, saved[w])
  BY <1>1 DEF EngineTrusted, CurvesTrusted, Continues, At
<1> QED
  BY <1>2, MemoryMoves

LEMMA LaunchCurve ==
  ASSUME TrustInv, NEW w \in Hosted, Launch(w) PROVE TrustInv'
<1> DEFINE window == Append(process[w].window, Unread)
           m == [process[w] EXCEPT !.launched = @ + 1, !.window = Append(@, Unread)]
<1>1. process[w] \in Memory /\ CurvesTrusted(process[w], tables)
  BY DEF TrustInv
<1>2. Unread \in Curves /\ Unread.reads = {}
  BY DEF Unread, Curves
<1>3. window \in Seq(Curves) /\ process[w].launched + 1 \in Nat
  BY <1>1, <1>2 DEF Memory
<1>4. \A i \in DOMAIN window : \/ window[i].reads \subseteq {process[w].tableId}
                               \/ window[i].restored
                               \/ tables # process[w].tableId
  BY <1>1, <1>2 DEF Memory, CurvesTrusted
<1>5. /\ m \in Memory /\ m.at = process[w].at /\ m.tableId = process[w].tableId
      /\ m.engine = process[w].engine /\ m.restored = process[w].restored /\ m.window = window
  BY <1>1, <1>3 DEF Memory
<1>6. CASE At(w, "run") /\ Becomes(w, m) /\ UNCHANGED <<cache, saved>>
  BY <1>4, <1>5, <1>6, WindowMoves DEF At
<1> QED
  BY <1>6, FailureMoves DEF Launch

\* What a curve thread reads is right, or the file is wrong now.
LEMMA OpenTable ==
  ASSUME TrustInv, NEW w \in Hosted, NEW i \in DOMAIN process[w].window, Open(w, i)
  PROVE  TrustInv'
<1> DEFINE old == process[w].window
           curve == [old[i] EXCEPT !.reads = @ \cup {tables}]
           window == [old EXCEPT ![i] = curve]
           m == [process[w] EXCEPT !.window[i].reads = @ \cup {tables}]
<1>1. process[w] \in Memory /\ CurvesTrusted(process[w], tables) /\ tables \in TableContents
  BY DEF TrustInv
<1>2. old \in Seq(Curves) /\ old[i] \in Curves
  BY <1>1 DEF Memory
<1>3. curve \in Curves /\ curve.reads = old[i].reads \cup {tables}
      /\ curve.restored = old[i].restored
  BY <1>1, <1>2 DEF Curves
<1>4. window \in Seq(Curves) /\ DOMAIN window = DOMAIN old
      /\ \A j \in DOMAIN old : window[j] = IF j = i THEN curve ELSE old[j]
  BY <1>2, <1>3
<1>5. \A j \in DOMAIN window : \/ window[j].reads \subseteq {process[w].tableId}
                               \/ window[j].restored
                               \/ tables # process[w].tableId
  BY <1>1, <1>3, <1>4 DEF CurvesTrusted
<1>6. m = [process[w] EXCEPT !.window = window]
  BY Zenon
<1>7. /\ m \in Memory /\ m.at = process[w].at /\ m.tableId = process[w].tableId
      /\ m.engine = process[w].engine /\ m.restored = process[w].restored /\ m.window = window
  <2> HIDE DEF m, window
  <2> QED
    BY <1>1, <1>4, <1>6 DEF Memory
<1>8. At(w, "run") /\ Becomes(w, m) /\ UNCHANGED <<cache, saved>>
  BY DEF Open
<1> HIDE DEF m, window
<1> QED
  BY <1>5, <1>7, <1>8, WindowMoves DEF At

\* A report is counted: the tables are those of the identity, so that what the
\* curve read was too, or was put back.
LEMMA RetireCurve ==
  ASSUME TrustInv, NEW w \in Hosted, Retire(w) PROVE TrustInv'
<1>1. /\ process[w] \in Memory /\ EngineTrusted(process[w], cache)
      /\ CurvesTrusted(process[w], tables) /\ Continues(process[w], saved[w])
      /\ saved[w] \in Checkpoints /\ SavedTrusted(saved[w])
  BY DEF TrustInv
<1>2. CASE ~Retires(w)
  BY <1>2, FailureMoves DEF Retire
<1>3. CASE Retires(w)
  <2> DEFINE old == process[w].window
             m == [process[w] EXCEPT !.window = Tail(@)]
             reports == Append(saved[w].reports, Head(old))
             s == [exists |-> TRUE, cacheId |-> process[w].cacheId,
                   tableId |-> process[w].tableId, reports |-> reports]
  <2>1. old \in Seq(Curves) /\ old # <<>> /\ process[w].at = "run"
    BY <1>1, <1>3 DEF Memory, Retire, At
  <2>2. Head(old) \in Curves /\ Tail(old) \in Seq(Curves) /\ Head(old) = old[1]
        /\ 1 \in DOMAIN old
        /\ \A i \in DOMAIN Tail(old) : i + 1 \in DOMAIN old /\ Tail(old)[i] = old[i + 1]
    BY <2>1
  <2>3. tables = process[w].tableId
    BY <1>3 DEF Retires, Manifest
  <2>4. Head(old).reads \subseteq {process[w].tableId} \/ Head(old).restored
    BY <1>1, <2>2, <2>3 DEF CurvesTrusted
  <2>5. saved[w].reports \in Seq(Curves)
    BY <1>1 DEF Checkpoints
  <2>6. s \in Checkpoints
    BY <1>1, <2>2, <2>5 DEF Checkpoints, Memory
  <2>7. SavedTrusted(s)
    <3>1. ASSUME NEW i \in DOMAIN reports
          PROVE  reports[i].reads \subseteq {process[w].tableId} \/ reports[i].restored
      <4>1. CASE i = Len(saved[w].reports) + 1
        BY <2>2, <2>4, <2>5, <4>1
      <4>2. CASE i # Len(saved[w].reports) + 1
        <5>1. i \in DOMAIN saved[w].reports /\ reports[i] = saved[w].reports[i]
          BY <2>2, <2>5, <4>2
        <5>2. saved[w].exists /\ saved[w].tableId = process[w].tableId
          BY <1>1, <2>1, <5>1 DEF SavedTrusted, Continues
        <5> QED
          BY <1>1, <5>1, <5>2 DEF SavedTrusted
      <4> QED
        BY <4>1, <4>2
    <3> QED
      BY <3>1 DEF SavedTrusted
  <2>8. /\ m \in Memory /\ m.at = "run" /\ m.tableId = process[w].tableId
        /\ m.engine = process[w].engine /\ m.restored = process[w].restored /\ m.window = Tail(old)
    BY <1>1, <2>1, <2>2 DEF Memory
  <2>9. EngineTrusted(m, cache) /\ CurvesTrusted(m, tables) /\ Continues(m, s)
    BY <1>1, <2>1, <2>2, <2>8 DEF EngineTrusted, CurvesTrusted, Continues
  <2>10. Becomes(w, m) /\ saved' = [saved EXCEPT ![w] = s] /\ UNCHANGED cache
    BY <1>3 DEF Retire
  <2> QED
    BY <2>6, <2>7, <2>8, <2>9, <2>10, WorkerMoves DEF Becomes
<1> QED
  BY <1>2, <1>3

LEMMA RestartStep ==
  ASSUME TrustInv, NEW w \in Hosted, Restart(w) PROVE TrustInv'
<1>1. EngineTrusted(Started, cache) /\ CurvesTrusted(Started, tables)
      /\ Continues(Started, saved[w]) /\ SavedTrusted(saved[w]) /\ saved[w] \in Checkpoints
      /\ saved' = [saved EXCEPT ![w] = saved[w]]
  BY StartedFacts DEF EngineTrusted, CurvesTrusted, Continues, TrustInv, Restart
<1> QED
  BY <1>1, StartedFacts, WorkerMoves DEF Restart

\* The tables change under every curve in flight.
LEMMA TablesReplaced ==
  ASSUME TrustInv, NEW content \in TableContents, ReplaceTables(content) PROVE TrustInv'
<1>1. ASSUME NEW v \in Hosted
      PROVE  /\ process'[v] \in Memory /\ EngineTrusted(process'[v], cache)
             /\ CurvesTrusted(process'[v], content) /\ Continues(process'[v], saved[v])
  <2> DEFINE old == process[v].window
             window == [i \in DOMAIN old |-> Noted(old[i], content = process[v].tableId)]
  <2>1. /\ process[v] \in Memory /\ EngineTrusted(process[v], cache)
        /\ CurvesTrusted(process[v], tables) /\ Continues(process[v], saved[v])
    BY DEF TrustInv
  <2>2. process'[v] = [process[v] EXCEPT !.window = window]
    BY Zenon DEF ReplaceTables
  <2>3. old \in Seq(Curves)
    BY <2>1 DEF Memory
  <2>4. \A i \in DOMAIN old :
          /\ window[i] \in Curves /\ window[i].reads = old[i].reads
          /\ window[i].restored = (old[i].restored \/ content = process[v].tableId)
    <3> SUFFICES ASSUME NEW i \in DOMAIN old
                 PROVE  /\ window[i] \in Curves /\ window[i].reads = old[i].reads
                        /\ window[i].restored = (old[i].restored \/ content = process[v].tableId)
      OBVIOUS
    <3> DEFINE back == old[i].restored \/ content = process[v].tableId
    <3>1. old[i] \in Curves /\ back \in BOOLEAN
      BY <2>3
    <3>2. window[i] = [old[i] EXCEPT !.restored = back]
      BY DEF Noted
    <3> HIDE DEF back, window
    <3>3. window[i] \in Curves /\ window[i].reads = old[i].reads /\ window[i].restored = back
      BY <3>1, <3>2 DEF Curves
    <3> QED
      BY <3>3 DEF back
  <2>5. DOMAIN old = 1 .. Len(old) /\ Len(old) \in Nat /\ DOMAIN window = DOMAIN old
    BY <2>3
  <2>6. window \in Seq(Curves)
    <3> HIDE DEF window
    <3>1. DOMAIN window = 1 .. Len(old) /\ \A i \in 1 .. Len(old) : window[i] \in Curves
      BY <2>4, <2>5
    <3>2. window = [i \in 1 .. Len(old) |-> window[i]]
      BY <3>1 DEF window
    <3> QED
      BY <2>5, <3>1, <3>2
  <2>7. old = <<>> => window = <<>>
    BY <2>5, <2>6
  <2>8. /\ process'[v] \in Memory /\ process'[v].at = process[v].at
        /\ process'[v].engine = process[v].engine /\ process'[v].restored = process[v].restored
        /\ process'[v].tableId = process[v].tableId /\ process'[v].window = window
    BY <2>1, <2>2, <2>6 DEF Memory
  <2>9. CurvesTrusted(process'[v], content)
    BY <2>1, <2>4, <2>5, <2>7, <2>8 DEF CurvesTrusted
  <2> QED
    BY <2>1, <2>8, <2>9 DEF EngineTrusted, Continues
<1>2. process' \in [Hosted -> Memory]
  BY <1>1 DEF ReplaceTables
<1>3. tables' = content /\ cache' = cache /\ saved' = saved
  BY DEF ReplaceTables
<1> QED
  BY <1>1, <1>2, <1>3 DEF TrustInv

LEMMA TrustStep == TrustInv /\ [Trust]_files => TrustInv'
<1> SUFFICES ASSUME TrustInv, [Trust]_files PROVE TrustInv'
  OBVIOUS
<1>1. ASSUME NEW w \in Hosted, WorkerStep(w) PROVE TrustInv'
  BY <1>1, CacheStep, BuildStep, IdentityStep, LaunchCurve, OpenTable, RetireCurve, RestartStep,
     FailureMoves DEF WorkerStep, OpenMalformed, Stop
<1>2. CASE UNCHANGED files
  BY <1>2 DEF files, TrustInv
<1> QED
  BY <1>1, <1>2, CacheReplaced, TablesReplaced DEF Trust

(***************************************************************************)
(* For any workers and any history of replacements, failures and restarts: *)
(* what a worker trusts is what the digest says, unless the file was put   *)
(* back between the two looks at it; a report counted under other tables   *)
(* never goes unnoticed (load_or_build, run_search_pipeline).              *)
(***************************************************************************)
THEOREM TrustKept == TrustSpec => []TrustedContent
<1>1. TrustInv => TrustedContent
  <2> SUFFICES ASSUME TrustInv, NEW w \in Hosted
               PROVE  /\ EngineTrusted(process[w], cache) /\ SavedTrusted(saved[w])
                      /\ TrustInv
    BY DEF TrustedContent, EngineTrusted, SavedTrusted
  <2> QED
    BY DEF TrustInv
<1> QED
  BY <1>1, TrustStart, TrustStep, PTL DEF TrustSpec

-----------------------------------------------------------------------------
(* The calls of the verifier.                                              *)

\* Where a thread holds the mutex.
Inside == {"start", "piped", "spawned", "waiting", "reading", "killing", "collecting"}

ThreadStates == {"ready"} \cup Inside \cup Returned

TypeInv ==
  /\ locked  \in BOOLEAN
  /\ stage   \in [Threads -> Stages]
  /\ pc      \in [Threads -> ThreadStates]
  /\ child   \in [Threads -> {"none", "running", "ended", "reaped"}]
  /\ code    \in [Threads -> Codes \cup {NoCode}]
  /\ output  \in [Threads -> Outputs]
  /\ DOMAIN writers = Threads

\* The mutex is held exactly while a call is under way, and there is one call.
OneCall ==
  /\ locked <=> \E t \in Threads : pc[t] \in Inside
  /\ \A t, u \in Threads : pc[t] \in Inside /\ pc[u] \in Inside => t = u

(* What a thread at each point of a call may find its child to be.  The    *)
(* child moves by itself from running to ended, and only its thread can    *)
(* take it from ended to reaped; so between the spawn and the wait that    *)
(* succeeds both states are possible, and once the kill has been delivered *)
(* only the second.  Of an abandoned child nothing is known.               *)
Unreaped(t)  == child[t] \in {"running", "ended"}
Collected(t) == child[t] \in {"none", "reaped"}

ChildOfCall(t) ==
  /\ pc[t] \in {"spawned", "waiting", "killing"} => Unreaped(t)
  /\ pc[t] = "collecting" => child[t] = "ended"
  /\ pc[t] \in {"reading", "accepted", "rejected"} => child[t] = "reaped"
  /\ pc[t] \in {"ready", "start", "piped", "failed"} => Collected(t)

\* The write end of a pipe is the process's own, from the pipe call to the close
\* after the spawn, and the child's of that very call, while it runs.
EndsOfCall(t) ==
  /\ writers[t] \subseteq {Parent(t), Child(t)}
  /\ Parent(t) \in writers[t] => pc[t] \in {"piped", "spawned"}
  /\ Child(t) \in writers[t] => child[t] = "running"

CallInv ==
  /\ TypeInv
  /\ OneCall
  /\ \A t \in Threads : ChildOfCall(t) /\ EndsOfCall(t)

-----------------------------------------------------------------------------

\* Parents and children are told apart, and each has its own end.
LEMMA EndsApart ==
  ASSUME NEW t \in Threads, NEW u \in Threads
  PROVE  /\ Parent(t) # Child(u)
         /\ Child(t) = Child(u) => t = u
         /\ Parent(t) = Parent(u) => t = u
  BY DEF Parent, Child

LEMMA CallInit == CallsInit => CallInv
<1> SUFFICES ASSUME CallsInit PROVE CallInv
  OBVIOUS
<1>1. TypeInv
  BY DEF CallsInit, TypeInv, ThreadStates, Stages, Codes, NoCode, Outputs
<1>2. OneCall
  BY DEF CallsInit, OneCall, Inside
<1>3. \A t \in Threads : ChildOfCall(t) /\ EndsOfCall(t)
  BY DEF CallsInit, ChildOfCall, EndsOfCall, Unreaped, Collected
<1> QED
  BY <1>1, <1>2, <1>3 DEF CallInv

LEMMA VerdictType ==
  ASSUME NEW t \in Threads PROVE Verdict(t) \in {"accepted", "rejected", "failed"}
  BY DEF Verdict

\* Every action of a thread is one of four kinds.
OwnMove(t) ==
  \/ pc[t] \in Inside /\ \E where \in Inside : Go(t, where)
  \/ pc[t] \in Inside /\ \E how \in Returned : Leave(t, how)
  \/ Enter(t)
  \/ NextCandidate(t)

LEMMA KindOfStep ==
  ASSUME NEW t \in Threads, Step(t) \/ Refused(t) \/ NextCandidate(t)
  PROVE  OwnMove(t)
<1>1. CASE Step(t)
  <2>1. CASE ReadEnd(t)
    BY <2>1, VerdictType DEF ReadEnd, OwnMove, Inside, Returned
  <2> QED
    BY <1>1, <2>1 DEF Step, OwnMove, Inside, Returned, OpenPipe, Spawn, CloseWrite, Reap, Kill,
       DeliverKill, Collect, ReadTooLong
<1>2. CASE Refused(t)
  BY <1>2 DEF Refused, OwnMove, Inside, Returned, Refuse, SpawnFails, WaitFails, KillFails,
     CollectFails, ReadFails
<1> QED
  BY <1>1, <1>2 DEF OwnMove

\* The lock is taken where it is free and given back on every way out.
LEMMA OneCallKept ==
  ASSUME CallInv, NEW t \in Threads, OwnMove(t)
  PROVE  OneCall' /\ pc' \in [Threads -> ThreadStates] /\ locked' \in BOOLEAN
<1> USE DEF CallInv, TypeInv
<1>1. CASE pc[t] \in Inside /\ \E where \in Inside : Go(t, where)
  <2>1. PICK where \in Inside : Go(t, where)
    BY <1>1
  <2>2. /\ locked' = locked
        /\ \A u \in Threads : pc'[u] = IF u = t THEN where ELSE pc[u]
        /\ pc' \in [Threads -> ThreadStates]
    BY <2>1 DEF Go, ThreadStates
  <2> QED
    BY <1>1, <2>2 DEF OneCall
<1>2. CASE pc[t] \in Inside /\ \E how \in Returned : Leave(t, how)
  <2>1. PICK how \in Returned : Leave(t, how)
    BY <1>2
  <2>2. /\ locked' = FALSE
        /\ \A u \in Threads : pc'[u] = IF u = t THEN how ELSE pc[u]
        /\ pc' \in [Threads -> ThreadStates]
    BY <2>1 DEF Leave, ThreadStates
  <2>3. how \notin Inside
    BY DEF Inside, Returned
  <2> QED
    BY <1>2, <2>2, <2>3 DEF OneCall
<1>3. CASE Enter(t)
  <2>1. /\ ~locked /\ locked' = TRUE
        /\ \A u \in Threads : pc'[u] = IF u = t THEN "start" ELSE pc[u]
        /\ pc' \in [Threads -> ThreadStates]
    BY <1>3 DEF Enter, ThreadStates, Inside
  <2>2. "start" \in Inside
    BY DEF Inside
  <2> QED
    BY <2>1, <2>2 DEF OneCall
<1>4. CASE NextCandidate(t)
  <2>1. /\ locked' = locked /\ pc[t] = "rejected"
        /\ \A u \in Threads : pc'[u] = IF u = t THEN "ready" ELSE pc[u]
        /\ pc' \in [Threads -> ThreadStates]
    BY <1>4 DEF NextCandidate, ThreadStates
  <2>2. "ready" \notin Inside /\ "rejected" \notin Inside
    BY DEF Inside
  <2> QED
    BY <2>1, <2>2 DEF OneCall
<1> QED
  BY <1>1, <1>2, <1>3, <1>4 DEF OwnMove

\* Another thread's call and child stay where they are, and none of its ends
\* passes to a new child: its process has no end open while this one is inside.
LEMMA OthersStay ==
  ASSUME CallInv, NEW t \in Threads, NEW u \in Threads, u # t,
         pc'[u] = pc[u], child'[u] = child[u], writers'[u] \subseteq writers[u]
  PROVE  ChildOfCall(u)' /\ EndsOfCall(u)'
  BY DEF CallInv, ChildOfCall, EndsOfCall, Unreaped, Collected

\* What a thread does to its own call.
LEMMA OwnCall ==
  ASSUME CallInv, NEW t \in Threads, Step(t) \/ Refused(t) \/ NextCandidate(t)
  PROVE  ChildOfCall(t)' /\ EndsOfCall(t)'
<1> USE DEF CallInv, TypeInv, ChildOfCall, EndsOfCall, Unreaped, Collected, Go, Leave, Ended
<1>1. CASE Enter(t) \/ NextCandidate(t) \/ Refuse(t)
  BY <1>1 DEF Enter, NextCandidate, Refuse, child_vars
<1>2. CASE OpenPipe(t)
  BY <1>2, EndsApart DEF OpenPipe
<1>3. CASE Spawn(t)
  <2>1. /\ pc[t] = "piped" /\ pc'[t] = "spawned" /\ child'[t] = "running"
        /\ writers'[t] \subseteq writers[t] \cup {Child(t)}
    BY <1>3 DEF Spawn
  <2> QED
    BY <2>1
<1>4. CASE SpawnFails(t)
  BY <1>4 DEF SpawnFails
<1>5. CASE CloseWrite(t)
  BY <1>5 DEF CloseWrite
<1>6. CASE Reap(t)
  BY <1>6 DEF Reap
<1>7. CASE Kill(t)
  BY <1>7 DEF Kill, child_vars
<1>8. CASE DeliverKill(t)
  BY <1>8, EndsApart DEF DeliverKill
<1>9. CASE WaitFails(t) \/ KillFails(t) \/ CollectFails(t)
  BY <1>9 DEF WaitFails, KillFails, CollectFails, child_vars
<1>10. CASE Collect(t)
  BY <1>10 DEF Collect
<1>11. CASE ReadEnd(t)
  BY <1>11, VerdictType DEF ReadEnd, child_vars
<1>12. CASE ReadTooLong(t) \/ ReadFails(t)
  BY <1>12 DEF ReadTooLong, ReadFails, child_vars
<1> QED
  BY <1>1, <1>2, <1>3, <1>4, <1>5, <1>6, <1>7, <1>8, <1>9, <1>10, <1>11, <1>12
     DEF Step, Refused

\* What it does to the data of the calls.
LEMMA CallData ==
  ASSUME CallInv, NEW t \in Threads, Step(t) \/ Refused(t) \/ NextCandidate(t)
  PROVE  /\ stage'  \in [Threads -> Stages]
         /\ child'  \in [Threads -> {"none", "running", "ended", "reaped"}]
         /\ code'   \in [Threads -> Codes \cup {NoCode}]
         /\ output' \in [Threads -> Outputs]
         /\ DOMAIN writers' = Threads
         /\ \A u \in Threads \ {t} : /\ pc'[u] = pc[u] /\ child'[u] = child[u]
                                     /\ writers'[u] \subseteq writers[u]
<1> USE DEF CallInv, TypeInv, Go, Leave, Ended
<1>1. CASE Enter(t) \/ NextCandidate(t) \/ Refuse(t)
  BY <1>1 DEF Enter, NextCandidate, Refuse, child_vars, Stages
<1>2. CASE OpenPipe(t)
  BY <1>2 DEF OpenPipe
<1>3. CASE Spawn(t)
  <2>1. ASSUME NEW u \in Threads \ {t} PROVE writers'[u] = writers[u]
    <3>1. pc[t] \in Inside /\ ("piped" \in Inside /\ "spawned" \in Inside)
      BY <1>3 DEF Spawn, Inside
    <3>2. pc[u] \notin {"piped", "spawned"}
      BY <3>1 DEF OneCall
    <3> QED
      BY <1>3, <3>2 DEF Spawn, EndsOfCall
  <2> QED
    BY <1>3, <2>1 DEF Spawn, Outputs, Codes
<1>4. CASE SpawnFails(t)
  BY <1>4 DEF SpawnFails
<1>5. CASE CloseWrite(t)
  BY <1>5 DEF CloseWrite
<1>6. CASE Reap(t)
  BY <1>6 DEF Reap
<1>7. CASE Kill(t)
  BY <1>7 DEF Kill, child_vars
<1>8. CASE DeliverKill(t)
  BY <1>8 DEF DeliverKill
<1>9. CASE WaitFails(t) \/ KillFails(t) \/ CollectFails(t)
  BY <1>9 DEF WaitFails, KillFails, CollectFails, child_vars
<1>10. CASE Collect(t)
  BY <1>10 DEF Collect
<1>11. CASE ReadEnd(t)
  BY <1>11 DEF ReadEnd, child_vars, Stages
<1>12. CASE ReadTooLong(t) \/ ReadFails(t)
  BY <1>12 DEF ReadTooLong, ReadFails, child_vars
<1> QED
  BY <1>1, <1>2, <1>3, <1>4, <1>5, <1>6, <1>7, <1>8, <1>9, <1>10, <1>11, <1>12
     DEF Step, Refused

LEMMA ThreadStep ==
  ASSUME CallInv, NEW t \in Threads, Step(t) \/ Refused(t) \/ NextCandidate(t)
  PROVE  CallInv'
<1>1. OneCall' /\ pc' \in [Threads -> ThreadStates] /\ locked' \in BOOLEAN
  BY KindOfStep, OneCallKept
<1>2. TypeInv'
  BY <1>1, CallData DEF TypeInv
<1>3. ASSUME NEW u \in Threads PROVE ChildOfCall(u)' /\ EndsOfCall(u)'
  <2>1. CASE u = t
    BY <2>1, OwnCall
  <2>2. CASE u # t
    <3>1. pc'[u] = pc[u] /\ child'[u] = child[u] /\ writers'[u] \subseteq writers[u]
      BY <2>2, CallData
    <3> QED
      BY <2>2, <3>1, OthersStay
  <2> QED
    BY <2>1, <2>2
<1> QED
  BY <1>1, <1>2, <1>3 DEF CallInv

\* What a child and the clock do: a child that ends was running.
LEMMA EnvironmentStep ==
  ASSUME CallInv, NEW t \in Threads, Write(t) \/ Exit(t) \/ Expire(t) PROVE CallInv'
<1> USE DEF CallInv, TypeInv
<1>1. CASE Write(t)
  BY <1>1 DEF Write, Outputs, OneCall, ChildOfCall, EndsOfCall, Unreaped, Collected
<1>2. CASE Exit(t)
  <2>1. TypeInv' /\ OneCall'
    BY <1>2 DEF Exit, Ended, OneCall
  <2>2. /\ pc' = pc
        /\ \A u \in Threads : /\ writers'[u] = writers[u] \ {Child(t)}
                              /\ child'[u] = IF u = t THEN "ended" ELSE child[u]
    BY <1>2 DEF Exit, Ended
  <2>3. ChildOfCall(t)' /\ EndsOfCall(t)'
    BY <1>2, <2>2 DEF Exit, ChildOfCall, EndsOfCall, Unreaped, Collected
  <2>4. ASSUME NEW u \in Threads, u # t PROVE ChildOfCall(u)' /\ EndsOfCall(u)'
    BY <2>2, <2>4, OthersStay
  <2> QED
    BY <2>1, <2>3, <2>4
<1>3. CASE Expire(t)
  BY <1>3 DEF Expire, OneCall, ChildOfCall, EndsOfCall, Unreaped, Collected
<1> QED
  BY <1>1, <1>2, <1>3

LEMMA CallStep == CallInv /\ [CallsNext]_calls => CallInv'
<1> SUFFICES ASSUME CallInv, [CallsNext]_calls PROVE CallInv'
  OBVIOUS
<1>1. CASE CallsNext
  BY <1>1, ThreadStep, EnvironmentStep DEF CallsNext
<1>2. CASE UNCHANGED calls
  BY <1>2 DEF calls, CallInv, TypeInv, OneCall, ChildOfCall, EndsOfCall, Unreaped, Collected
<1> QED
  BY <1>1, <1>2

(***************************************************************************)
(* For every set of threads and any number of certificates: a call that    *)
(* gives a verdict, or throws for any reason but that waitpid or kill      *)
(* failed, has reaped its child; where one of them did fail, the child     *)
(* that is left holds no other call's pipe; and a kill is sent only while  *)
(* the child is unreaped (wait_for_child).                                 *)
(***************************************************************************)
THEOREM NoChildLeft == CallsSpec => []ChildrenCollected
<1>1. CallInv => ChildrenCollected
  <2> SUFFICES ASSUME CallInv, NEW t \in Threads
               PROVE  /\ pc[t] \in {"accepted", "rejected"} => child[t] = "reaped"
                      /\ pc[t] = "failed" => child[t] \in {"none", "reaped"}
                      /\ pc[t] = "abandoned" =>
                           \A u \in Threads \ {t} : Child(t) \notin writers[u]
                      /\ pc[t] = "killing" => child[t] \in {"running", "ended"}
    BY DEF ChildrenCollected
  <2>1. ASSUME NEW u \in Threads \ {t} PROVE Child(t) \notin writers[u]
    BY EndsApart DEF CallInv, EndsOfCall
  <2> QED
    BY <2>1 DEF CallInv, ChildOfCall, Unreaped, Collected
<1> QED
  BY <1>1, CallInit, CallStep, PTL DEF CallsSpec

\* The safety that CallsReturn rests on: the mutex is held exactly while one
\* call is under way, so that nobody queues for a mutex that will not be given
\* back; and once a call reads, nobody holds the write end of its pipe, so that
\* reading without a deadline never waits.
CallsNeverStick ==
  /\ locked <=> \E t \in Threads : pc[t] \in Inside
  /\ \A t, u \in Threads : pc[t] \in Inside /\ pc[u] \in Inside => t = u
  /\ \A t \in Threads : pc[t] = "reading" => writers[t] = {}

\* Children inherit every write end that is open, but under the mutex only their
\* own call has one open; closed after the spawn, and gone with the child that
\* has been reaped, it leaves an empty pipe with an end to be read at once, also
\* after earlier calls have abandoned children that still run
\* (verify_with_canonical_voneshot, run_search_pipeline).
THEOREM ReadingNeverWaits == CallsSpec => []CallsNeverStick
<1>1. CallInv => CallsNeverStick
  <2> SUFFICES ASSUME CallInv PROVE \A t \in Threads : pc[t] = "reading" => writers[t] = {}
    BY DEF CallInv, OneCall, CallsNeverStick
  <2> QED
    BY DEF CallInv, ChildOfCall, EndsOfCall
<1> QED
  BY <1>1, CallInit, CallStep, PTL DEF CallsSpec

=============================================================================
