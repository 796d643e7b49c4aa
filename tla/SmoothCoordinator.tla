------------------------- MODULE SmoothCoordinator -------------------------
(***************************************************************************)
(* ExactSmoothBatchCoordinator (exact_smooth.cpp): curve threads hand their*)
(* trace lists to one worker thread, which scans the smooth cache once for *)
(* as many waiting requests as fit under max_orders_per_batch and answers  *)
(* each through its own promise.  Anyone may cancel; the destructor        *)
(* cancels and joins the worker.                                           *)
(*                                                                         *)
(* What happens under the mutex is one step.  Telling the condition        *)
(* variable, and each set_value or set_exception, is a step of its own:    *)
(* the code does them after it has released the mutex.                     *)
(***************************************************************************)
EXTENDS Integers, FiniteSets, FiniteSetsExt, SequencesExt

CONSTANTS
  Clients,       \* curve threads that share this coordinator
  Sizes,         \* how many traces a request may carry
  Cap,           \* max_orders_per_batch
  CounterMax,    \* largest value of a telemetry counter
  MaxRequests,   \* bound: requests in a behaviour
  MaxFaults      \* bound: extractions that throw

ASSUME SizeAssumption == Sizes \subseteq Nat \ {0}
ASSUME BoundAssumption == Cap \in Nat \ {0} /\ CounterMax \in Nat
                            /\ MaxRequests \in Nat /\ MaxFaults \in Nat

VARIABLES
  requests,      \* every Request made, in the order it was queued
  promise,       \* what became of each: open, value, failed or cancelled
  answer,        \* the value of those that have one
  queue, accepting, scan_active,                 \* guarded by the mutex
  telemetry, scans,                              \* likewise
  worker, batch, results, settled,               \* the worker's own
  client, mine,                                  \* the callers
  owner, dropped,                                \* cancel() and the destructor
  faults

shared  == <<queue, accepting, scan_active, telemetry, scans>>
working == <<worker, batch, results, settled>>
callers == <<client, mine>>
owners  == <<owner, dropped>>
vars    == <<requests, promise, answer, shared, working, callers, owners, faults>>

-----------------------------------------------------------------------------
(* Extraction.  An order is named by its request and its place in it: two  *)
(* orders, curve and twist, for each trace.                                *)

OrdersOf(r) == [j \in 1 .. 2 * requests[r].size |-> <<r, j>>]

OrderCount(rs) == MapThenSumSet(LAMBDA k : 2 * requests[rs[k]].size, DOMAIN rs)

\* The chunks ExactSmoothEngine::extract makes of n orders.
ChunkSizes(n) ==
  [k \in 1 .. ((n + Cap - 1) \div Cap) |->
     IF Cap < n - (k - 1) * Cap THEN Cap ELSE n - (k - 1) * Cap]

Extract(orders) ==
  FlattenSeq([k \in DOMAIN ChunkSizes(Len(orders)) |->
                SubSeq(orders, (k - 1) * Cap + 1,
                       (k - 1) * Cap + ChunkSizes(Len(orders))[k])])

\* extract_curve_twist_groups: flatten, extract, cut at the group borders.
Groups_OffsetReset(rs) ==
  LET parts == Extract(FlattenSeq([k \in DOMAIN rs |-> OrdersOf(rs[k])]))
  IN [k \in DOMAIN rs |-> SubSeq(parts, 1, 2 * requests[rs[k]].size)]

Groups(rs) ==
  LET parts == Extract(FlattenSeq([k \in DOMAIN rs |-> OrdersOf(rs[k])]))
      offset(k) == OrderCount(SubSeq(rs, 1, k - 1))
  IN [k \in DOMAIN rs |->
        SubSeq(parts, offset(k) + 1, offset(k) + 2 * requests[rs[k]].size)]

-----------------------------------------------------------------------------
(* Promises.                                                               *)

OutcomeKinds == {"open", "value", "failed", "cancelled"}

\* set_value and set_exception
Settle(r, kind) == promise' = [promise EXCEPT ![r] = kind]

\* The telemetry: counters of requests, and the successful cache scans with
\* sizes[n], the histogram entry for chunks of n orders.
CounterNames == {"submitted", "orders", "batches", "completed", "failed",
                 "cancelled", "widest"}

NoTelemetry == [name \in CounterNames |-> 0]
NoScans == [count |-> 0, sizes |-> [n \in 1 .. Cap |-> 0]]

Counted(t, name, n) == [t EXCEPT ![name] = @ + n]

\* checked_telemetry_add
Fits(a, b) == a + b <= CounterMax

ChunksOf(n) == [c \in 1 .. Cap |->
                  Cardinality({k \in DOMAIN ChunkSizes(n) : ChunkSizes(n)[k] = c})]

-----------------------------------------------------------------------------
Init ==
  /\ requests = <<>> /\ promise = <<>> /\ answer = <<>>
  /\ queue = <<>> /\ accepting = TRUE /\ scan_active = FALSE
  /\ telemetry = NoTelemetry /\ scans = NoScans
  /\ worker = "check" /\ batch = <<>> /\ results = <<>> /\ settled = 0
  /\ client = [c \in Clients |-> "idle"] /\ mine = [c \in Clients |-> 0]
  /\ owner = [o \in {"canceller", "destructor"} |-> "idle"] /\ dropped = <<>>
  /\ faults = 0

-----------------------------------------------------------------------------
(* The callers: extract_curve_twist.                                       *)

Wake_Lost == UNCHANGED worker

\* notify_one
Wake == worker' = IF worker = "asleep" THEN "check" ELSE worker

\* Otherwise the call throws and leaves everything as it was.
Admissible(n) ==
  /\ accepting
  /\ Fits(telemetry["submitted"], 1)
  /\ Fits(telemetry["orders"], 2 * n)

Enqueued_Front(r) == <<r>> \o queue

Enqueued(r) == Append(queue, r)

StartsAtOnce == ~scan_active /\ queue = <<>>

Submit(c, n) ==
  /\ client[c] = "idle" /\ owner["destructor"] = "idle"
  /\ Len(requests) < MaxRequests
  /\ Admissible(n)
  /\ requests' = Append(requests, [size |-> n, immediate |-> StartsAtOnce])
  /\ promise' = Append(promise, "open")
  /\ answer' = Append(answer, <<>>)
  /\ queue' = Enqueued(Len(requests'))
  /\ telemetry' = Counted(Counted(telemetry, "submitted", 1), "orders", 2 * n)
  /\ scan_active' = TRUE
  /\ client' = [client EXCEPT ![c] = "notify"]
  /\ mine' = [mine EXCEPT ![c] = Len(requests')]
  /\ UNCHANGED <<accepting, scans, working, owners, faults>>

Notify(c) ==
  /\ client[c] = "notify"
  /\ Wake
  /\ client' = [client EXCEPT ![c] = "blocked"]
  /\ UNCHANGED <<requests, promise, answer, shared, batch, results, settled, mine,
                 owners, faults>>

\* future::get returns or rethrows.
Return(c) ==
  /\ client[c] = "blocked" /\ promise[mine[c]] # "open"
  /\ client' = [client EXCEPT ![c] = "idle"]
  /\ mine' = [mine EXCEPT ![c] = 0]
  /\ UNCHANGED <<requests, promise, answer, shared, working, owners, faults>>

-----------------------------------------------------------------------------
(* The worker: State::run.                                                 *)

\* ready.wait: the predicate is false, so the mutex is released and the
\* worker sleeps, in one step.
Sleep ==
  /\ worker = "check" /\ queue = <<>> /\ accepting
  /\ worker' = "asleep"
  /\ UNCHANGED <<requests, promise, answer, shared, batch, results, settled, callers,
                 owners, faults>>

SpuriousWakeup ==
  /\ worker = "asleep" /\ worker' = "check"
  /\ UNCHANGED <<requests, promise, answer, shared, batch, results, settled, callers,
                 owners, faults>>

Exit ==
  /\ worker = "check" /\ queue = <<>> /\ ~accepting
  /\ worker' = "exited"
  /\ UNCHANGED <<requests, promise, answer, shared, batch, results, settled, callers,
                 owners, faults>>

MayShare(n) ==
  /\ n <= Len(queue)
  /\ n > 1 => /\ ~requests[Head(queue)].immediate
              /\ OrderCount(SubSeq(queue, 1, n)) <= Cap

TakeBatch ==
  /\ worker = "check"
  /\ \E n \in 1 .. Len(queue) :
       /\ MayShare(n) /\ ~MayShare(n + 1)
       /\ batch' = SubSeq(queue, 1, n)
       /\ queue' = SubSeq(queue, n + 1, Len(queue))
       /\ telemetry' = [telemetry EXCEPT !["widest"] = IF n > @ THEN n ELSE @]
  /\ worker' = "begin"
  /\ UNCHANGED <<requests, promise, answer, accepting, scan_active, scans, results,
                 settled, callers, owners, faults>>

CountBatch ==
  /\ worker = "begin"
  /\ IF Fits(telemetry["batches"], 1)
       THEN /\ telemetry' = Counted(telemetry, "batches", 1)
            /\ worker' = "scan"
       ELSE worker' = "fail" /\ UNCHANGED telemetry
  /\ UNCHANGED <<requests, promise, answer, queue, accepting, scans, scan_active, batch,
                 results, settled, callers, owners, faults>>

Scan ==
  /\ worker = "scan"
  /\ results' = Groups(batch)
  /\ worker' = "complete"
  /\ UNCHANGED <<requests, promise, answer, shared, batch, settled, callers, owners,
                 faults>>

\* The callback or the extraction throws.
ScanThrows ==
  /\ worker = "scan" /\ faults < MaxFaults
  /\ worker' = "fail" /\ faults' = faults + 1
  /\ UNCHANGED <<requests, promise, answer, shared, batch, results, settled, callers,
                 owners>>

CountCompleted(t) == Counted(t, "completed", Len(batch))

\* Each chunk of the scan is counted once, and under its size.
CountScan(t) ==
  LET n == OrderCount(batch) IN
  [count |-> t.count + Len(ChunkSizes(n)),
   sizes |-> [c \in 1 .. Cap |-> t.sizes[c] + ChunksOf(n)[c]]]

\* The telemetry of a successful scan: all of it or, on overflow, none.
Complete ==
  /\ worker = "complete"
  /\ IF Fits(telemetry["completed"], Len(batch))
          /\ CountScan(scans).count <= CounterMax
       THEN /\ telemetry' = CountCompleted(telemetry)
            /\ scans' = CountScan(scans)
            /\ worker' = "answer"
       ELSE worker' = "fail" /\ UNCHANGED <<telemetry, scans>>
  /\ UNCHANGED <<requests, promise, answer, queue, accepting, scan_active, batch,
                 results, settled, callers, owners, faults>>

CountFailed_Once(t) == Counted(t, "failed", 1)

\* The catch block; an overflow here only replaces the exception.
CountFailed(t) ==
  IF Fits(t["failed"], Len(batch)) THEN Counted(t, "failed", Len(batch)) ELSE t

Fail ==
  /\ worker = "fail"
  /\ telemetry' = CountFailed(telemetry)
  /\ worker' = "reject"
  /\ UNCHANGED <<requests, promise, answer, queue, accepting, scans, scan_active, batch,
                 results, settled, callers, owners, faults>>

\* One set_value or set_exception after the other, in batch order.
Answer ==
  /\ worker \in {"answer", "reject"} /\ settled < Len(batch)
  /\ IF worker = "answer"
       THEN /\ Settle(batch[settled + 1], "value")
            /\ answer' = [answer EXCEPT ![batch[settled + 1]] =
                                            results[settled + 1]]
       ELSE Settle(batch[settled + 1], "failed") /\ UNCHANGED answer
  /\ settled' = settled + 1
  /\ UNCHANGED <<requests, shared, worker, batch, results, callers, owners,
                 faults>>

StillActive == queue # <<>> /\ scan_active

\* scan_active is cleared when nothing is queued; the next turn re-tests.
Rearm ==
  /\ worker \in {"answer", "reject"} /\ settled = Len(batch)
  /\ scan_active' = StillActive
  /\ worker' = "check" /\ batch' = <<>> /\ results' = <<>> /\ settled' = 0
  /\ UNCHANGED <<requests, promise, answer, queue, accepting, scans, telemetry, callers,
                 owners, faults>>

Worker == Sleep \/ Exit \/ TakeBatch \/ CountBatch \/ Scan \/ Complete \/ Fail
            \/ Answer \/ Rearm

-----------------------------------------------------------------------------
(* cancel() and the destructor, which calls it and then joins the worker.  *)

\* The destructor runs when no other call is in the coordinator.
MayStart(o) ==
  /\ owner[o] = "idle" /\ owner["destructor"] = "idle"
  /\ o = "destructor" => /\ \A c \in Clients : client[c] = "idle"
                         /\ owner["canceller"] \in {"idle", "done"}

AfterCancel(o) == IF o = "destructor" THEN "join" ELSE "done"

LeftInQueue_Copied == queue

\* cancelled.swap(queue)
LeftInQueue == <<>>

Cancel(o) ==
  /\ MayStart(o) /\ accepting
  /\ accepting' = FALSE
  /\ dropped' = queue /\ queue' = LeftInQueue
  /\ telemetry' = Counted(telemetry, "cancelled", Len(queue))
  /\ owner' = [owner EXCEPT ![o] = "settle"]
  /\ UNCHANGED <<requests, promise, answer, scan_active, scans, working, callers, faults>>

CancelAgain(o) ==
  /\ MayStart(o) /\ ~accepting
  /\ owner' = [owner EXCEPT ![o] = AfterCancel(o)]
  /\ UNCHANGED <<requests, promise, answer, shared, working, callers, dropped, faults>>

Drop(o) ==
  /\ owner[o] = "settle" /\ dropped # <<>>
  /\ Settle(Head(dropped), "cancelled")
  /\ dropped' = Tail(dropped)
  /\ UNCHANGED <<requests, answer, shared, working, callers, owner, faults>>

CancelNotify_Silent(o) ==
  /\ owner[o] = "settle" /\ dropped = <<>>
  /\ owner' = [owner EXCEPT ![o] = AfterCancel(o)]
  /\ UNCHANGED <<requests, promise, answer, shared, working, callers, dropped, faults>>

CancelNotify(o) ==
  /\ owner[o] = "settle" /\ dropped = <<>>
  /\ Wake
  /\ owner' = [owner EXCEPT ![o] = AfterCancel(o)]
  /\ UNCHANGED <<requests, promise, answer, shared, batch, results, settled, callers,
                 dropped, faults>>

Join ==
  /\ owner["destructor"] = "join" /\ worker = "exited"
  /\ owner' = [owner EXCEPT !["destructor"] = "gone"]
  /\ UNCHANGED <<requests, promise, answer, shared, working, callers, dropped, faults>>

Owner(o) == Cancel(o) \/ CancelAgain(o) \/ Drop(o) \/ CancelNotify(o)

-----------------------------------------------------------------------------
Next ==
  \/ \E c \in Clients : (\E n \in Sizes : Submit(c, n)) \/ Notify(c) \/ Return(c)
  \/ Worker \/ SpuriousWakeup \/ ScanThrows
  \/ \E o \in {"canceller", "destructor"} : Owner(o)
  \/ Join

Spec == Init /\ [][Next]_vars

\* Every thread that can run runs; nobody has to submit, cancel or destroy,
\* and no wakeup is owed but the notified ones.
FairSpec ==
  /\ Spec
  /\ WF_vars(Worker) /\ WF_vars(Join)
  /\ \A c \in Clients : WF_vars(Notify(c)) /\ WF_vars(Return(c))
  /\ \A o \in {"canceller", "destructor"} :
       WF_vars(Drop(o)) /\ WF_vars(CancelNotify(o))

-----------------------------------------------------------------------------
(* Properties.                                                             *)

Ids == 1 .. Len(requests)

Settled(k) == {r \in Ids : promise[r] = k}

Busy == worker \in {"begin", "scan", "complete", "fail", "answer", "reject"}

\* Requests taken off the queue and not yet counted as completed or failed.
Underway == IF worker \in {"begin", "scan", "complete", "fail"} THEN Len(batch)
                                                               ELSE 0

\* OneAccount: every request is counted in exactly one place.  This is also
\* why only a submission can overflow a counter: neither the worker's sums
\* nor cancel()'s can pass submitted_requests (telemetry of State::run and
\* cancel), so the destructor's fallback for an overflowing cancel() is dead.
OneAccount ==
  telemetry["submitted"] =
    Len(queue) + Underway
      + telemetry["completed"] + telemetry["failed"] + telemetry["cancelled"]

\* Who still has to settle which requests.
InHand  == {batch[k] : k \in (settled + 1) .. Len(batch)}
Doomed  == {dropped[k] : k \in DOMAIN dropped}
Waiting == {queue[k] : k \in DOMAIN queue}

Ascending(s) == \A j, k \in DOMAIN s : j < k => s[j] < s[k]

\* SettledOnce: the open promises are exactly those somebody still owes, and
\* each is owed by one party once, so no promise is ever set twice (which
\* would end the process) and none is forgotten, whatever cancel() interrupts.
SettledOnce ==
  /\ InHand \cup Doomed \cup Waiting = Settled("open")
  /\ InHand \cap Doomed = {} /\ InHand \cap Waiting = {} /\ Doomed \cap Waiting = {}
  /\ Ascending(batch) /\ Ascending(dropped) /\ Ascending(queue)

\* OwnAnswer: a caller gets the parts of its own orders, all of them and in
\* its own order, however requests were grouped and cut into chunks
\* (extract_curve_twist_groups, promise.set_value(results[index])).
OwnAnswer ==
  \A r \in Settled("value") : answer[r] = OrdersOf(r)

\* FirstComeFirstServed: no request is answered or failed while an earlier
\* one is still waiting ("Requests arriving during that scan remain in FIFO
\* order", exact_smooth.hpp).
FirstComeFirstServed ==
  \A r, s \in Ids :
    r < s /\ promise[s] \in {"value", "failed"} => promise[r] # "open"

\* Served: whoever waits in extract_curve_twist gets out of it.
Served == \A c \in Clients : client[c] # "idle" ~> client[c] = "idle"

\* DestructorReturns: the destructor's join always succeeds.
DestructorReturns == owner["destructor"] # "idle" ~> owner["destructor"] = "gone"

=============================================================================
