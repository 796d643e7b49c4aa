----------------------------- MODULE SearchFleet -----------------------------
(***************************************************************************)
(* A fleet of workers on one global range.  Every worker is given the same *)
(* range and computes its own shard in unsigned arithmetic                 *)
(* (partition_search_range); the launcher computes it a second time, in    *)
(* unbounded arithmetic, for its manifest (remote_worker.py).  Workers     *)
(* share nothing else: that no index is searched twice or by nobody rests  *)
(* on the partition alone.                                                 *)
(***************************************************************************)
EXTENDS Integers, FiniteSets

CONSTANT Modulus   \* 2^64 in the code

ASSUME ModulusAssumption == Modulus \in Nat \ {0, 1}

Unsigned == 0 .. Modulus - 1
Wrap(n) == n % Modulus

\* The extra indices handed to lower-numbered workers, one each.
ExtraBefore_All(worker, remainder) == remainder

ExtraBefore(worker, remainder) == IF worker < remainder THEN worker ELSE remainder

ShardSize_Rounded(worker, base, remainder) == base

ShardSize(worker, base, remainder) == base + (IF worker < remainder THEN 1 ELSE 0)

\* partition_search_range
Shard(range, worker, workers) ==
  LET count     == Wrap(range.end - range.first)
      base      == count \div workers
      remainder == count % workers
      offset    == Wrap(Wrap(worker * base) + ExtraBefore(worker, remainder))
      first     == Wrap(range.first + offset)
  IN [first |-> first, end |-> Wrap(first + ShardSize(worker, base, remainder))]

LauncherShard_NoExtra(range, worker, workers) ==
  LET count == range.end - range.first
      first == range.first + worker * (count \div workers)
  IN [first |-> first,
      end |-> first + count \div workers + (IF worker < count % workers THEN 1 ELSE 0)]

\* partition of remote_worker.py
LauncherShard(range, worker, workers) ==
  LET count == range.end - range.first
      width == count \div workers
      rest  == count % workers
      first == range.first + worker * width + (IF worker < rest THEN worker ELSE rest)
  IN [first |-> first, end |-> first + width + (IF worker < rest THEN 1 ELSE 0)]

VARIABLES
  range, workers, \* the arguments every worker is launched with
  cursor,         \* next_index of every worker
  searched        \* pairs of an index and the worker that completed it

vars == <<range, workers, cursor, searched>>

Ranges == {r \in [first : Unsigned, end : Unsigned] : r.first <= r.end}

WorkerIds == 0 .. workers - 1
MyShard(k) == Shard(range, k, workers)

Init ==
  /\ range \in Ranges
  /\ workers \in Unsigned \ {0}
  /\ cursor = [k \in WorkerIds |-> MyShard(k).first]
  /\ searched = {}

\* record_completed of one worker.
Complete(k) ==
  /\ cursor[k] # MyShard(k).end
  /\ searched' = searched \cup {<<cursor[k], k>>}
  /\ cursor' = [cursor EXCEPT ![k] = Wrap(@ + 1)]
  /\ UNCHANGED <<range, workers>>

Next == \E k \in WorkerIds : Complete(k)

Spec == Init /\ [][Next]_vars

-----------------------------------------------------------------------------
(* Properties.                                                             *)

TypeOK ==
  /\ range \in Ranges
  /\ workers \in Unsigned \ {0}
  /\ cursor \in [WorkerIds -> Unsigned]
  /\ searched \subseteq Unsigned \X WorkerIds

\* SearchedOnce: no index is searched by two workers.
SearchedOnce ==
  \A a, b \in searched : a[1] = b[1] => a[2] = b[2]

\* AllSearched: when every worker has completed its shard, every index of the
\* global range, and no other, has been searched.
AllSearched ==
  (\A k \in WorkerIds : cursor[k] = MyShard(k).end)
    => {a[1] : a \in searched} = range.first .. range.end - 1

\* LauncherAgrees: the assignment in a manifest, which is what a fetched result
\* is checked against, is the one the worker computed (remote_worker.py).
LauncherAgrees ==
  \A k \in WorkerIds : LauncherShard(range, k, workers) = MyShard(k)

=============================================================================
