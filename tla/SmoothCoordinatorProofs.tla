----------------------- MODULE SmoothCoordinatorProofs -----------------------
(***************************************************************************)
(* Proofs about SmoothCoordinator, for any number of callers, any request  *)
(* sizes, any batch cap and any counter width.                             *)
(***************************************************************************)
EXTENDS SmoothCoordinator, SequenceTheorems, DataLemmas

-----------------------------------------------------------------------------
(* Accounting.  OneAccount needs to know that the counters involved are    *)
(* naturals held in one record, and that submitted fits its width: then no *)
(* counter it bounds can overflow, which is what the failing path needs.   *)

CountersInv ==
  /\ telemetry \in [CounterNames -> Nat]
  /\ telemetry["submitted"] <= CounterMax
  /\ queue \in Seq(Nat) /\ batch \in Seq(Nat)

AccountInv == CountersInv /\ OneAccount

\* The names the counters go by.
LEMMA NamesFacts ==
  /\ "submitted" \in CounterNames /\ "orders" \in CounterNames
  /\ "batches" \in CounterNames /\ "completed" \in CounterNames
  /\ "failed" \in CounterNames /\ "cancelled" \in CounterNames
  /\ "widest" \in CounterNames
BY DEF CounterNames

LEMMA AccountInit == Init => AccountInv
  BY BoundAssumption DEF Init, AccountInv, CountersInv, OneAccount, Underway, NoTelemetry,
     CounterNames

LEMMA AccountStep == AccountInv /\ [Next]_vars => AccountInv'
<1> SUFFICES ASSUME AccountInv, [Next]_vars PROVE AccountInv'
  OBVIOUS
<1>0. /\ telemetry \in [CounterNames -> Nat]
      /\ telemetry["submitted"] \in Nat /\ telemetry["completed"] \in Nat
      /\ telemetry["failed"] \in Nat /\ telemetry["cancelled"] \in Nat
      /\ telemetry["submitted"] <= CounterMax
  BY NamesFacts DEF AccountInv, CountersInv
<1>a. /\ queue \in Seq(Nat) /\ Len(queue) \in Nat
      /\ batch \in Seq(Nat) /\ Len(batch) \in Nat
  BY DEF AccountInv, CountersInv
<1>b. Underway \in Nat
  BY <1>a DEF Underway
<1>c. telemetry["submitted"] = Len(queue) + Underway + telemetry["completed"]
                                 + telemetry["failed"] + telemetry["cancelled"]
  BY DEF AccountInv, OneAccount
<1> USE BoundAssumption, SizeAssumption, NamesFacts
<1>1. ASSUME NEW c \in Clients, NEW n \in Sizes, Submit(c, n) PROVE AccountInv'
  <2>1. n \in Nat /\ 2 * n \in Nat /\ Len(requests') \in Nat
    BY <1>1 DEF Submit
  <2>2. queue' \in Seq(Nat) /\ Len(queue') = Len(queue) + 1
    BY <1>0, <1>a, <1>b, <1>c, <1>1, <2>1, AppendProperties DEF Submit, Enqueued
  <2> DEFINE t == Counted(telemetry, "submitted", 1)
  <2>3. /\ t \in [CounterNames -> Nat]
        /\ t["submitted"] = telemetry["submitted"] + 1
        /\ t["completed"] = telemetry["completed"]
        /\ t["failed"] = telemetry["failed"]
        /\ t["cancelled"] = telemetry["cancelled"]
    BY <1>0, <1>a, <1>b, <1>c DEF Counted, CounterNames
  <2>4. telemetry' = Counted(t, "orders", 2 * n)
    BY <1>1 DEF Submit
  <2> HIDE DEF t
  <2>5. /\ telemetry' \in [CounterNames -> Nat]
        /\ telemetry'["submitted"] = telemetry["submitted"] + 1
        /\ telemetry'["completed"] = telemetry["completed"]
        /\ telemetry'["failed"] = telemetry["failed"]
        /\ telemetry'["cancelled"] = telemetry["cancelled"]
    BY <2>1, <2>3, <2>4 DEF Counted, CounterNames
  <2>6. telemetry["submitted"] + 1 <= CounterMax /\ worker' = worker /\ batch' = batch
    BY <1>1 DEF Submit, Admissible, Fits, working
  <2> QED
    <3>1. CountersInv'
      BY <1>0, <1>a, <1>b, <1>c, <2>2, <2>5, <2>6 DEF CountersInv
    <3>2. Underway' = Underway
      BY <1>0, <1>a, <1>b, <1>c, <2>6 DEF Underway
    <3>3. OneAccount'
      <4>1. /\ Underway' \in Nat /\ Underway' = Underway
            /\ telemetry'["submitted"] = telemetry["submitted"] + 1
            /\ telemetry'["completed"] = telemetry["completed"]
            /\ telemetry'["failed"] = telemetry["failed"]
            /\ telemetry'["cancelled"] = telemetry["cancelled"]
            /\ Len(queue') = Len(queue) + 1
        BY <1>b, <2>2, <2>5, <3>2
      <4>2. telemetry["submitted"] + 1
              = (Len(queue) + 1) + Underway + telemetry["completed"]
                  + telemetry["failed"] + telemetry["cancelled"]
        <5> DEFINE s == telemetry["submitted"]
                   q == Len(queue)
                   u == Underway
                   x == telemetry["completed"]
                   y == telemetry["failed"]
                   z == telemetry["cancelled"]
        <5>1. s \in Nat /\ q \in Nat /\ u \in Nat /\ x \in Nat /\ y \in Nat /\ z \in Nat
          BY <1>0, <1>a, <1>b
        <5>2. s = q + u + x + y + z
          BY <1>c
        <5> HIDE DEF s, q, u, x, y, z
        <5>3. s + 1 = (q + 1) + u + x + y + z
          BY <5>1, <5>2
        <5> QED
          BY <5>3 DEF s, q, u, x, y, z
      <4> QED
        BY <4>1, <4>2 DEF OneAccount
    <3> QED
      BY <3>1, <3>3 DEF AccountInv
<1>2. ASSUME NEW c \in Clients, Notify(c) \/ Return(c) PROVE AccountInv'
  BY <1>0, <1>a, <1>b, <1>c, <1>2 DEF Notify, Return, Wake, shared, working,
     AccountInv, CountersInv, OneAccount, Underway
<1>3. CASE Sleep \/ SpuriousWakeup \/ Exit
  BY <1>0, <1>a, <1>b, <1>c, <1>3 DEF AccountInv, CountersInv, OneAccount, Underway,
     Sleep, SpuriousWakeup, Exit, shared
<1>4. CASE TakeBatch
  <2>1. PICK n \in 1 .. Len(queue) :
          /\ batch' = SubSeq(queue, 1, n)
          /\ queue' = SubSeq(queue, n + 1, Len(queue))
          /\ telemetry' = [telemetry EXCEPT !["widest"] = IF n > @ THEN n ELSE @]
    BY <1>4 DEF TakeBatch
  <2>2. \A i \in 1 .. Len(queue) : queue[i] \in Nat
    BY <1>a
  <2>3. batch' \in Seq(Nat) /\ Len(batch') = n
    <3>1. \A i \in 1 .. n : queue[i] \in Nat
      BY <1>a, <2>2
    <3> QED
      BY <1>0, <1>a, <1>b, <1>c, <2>1, <3>1, SubSeqProperties
  <2>4. queue' \in Seq(Nat) /\ Len(queue') = Len(queue) - n
    <3> DEFINE m == n + 1
    <3>1. /\ m \in Int /\ Len(queue) \in Int /\ m <= Len(queue) + 1
          /\ \A i \in m .. Len(queue) : queue[i] \in Nat
      BY <1>a, <2>2
    <3>2. queue' = SubSeq(queue, m, Len(queue))
      BY <2>1
    <3> HIDE DEF m
    <3>3. /\ queue' \in Seq(Nat)
          /\ Len(queue') = IF m <= Len(queue) THEN Len(queue) - m + 1 ELSE 0
      BY <3>1, <3>2, SubSeqProperties
    <3> QED
      BY <1>0, <1>a, <1>b, <1>c, <3>1, <3>3 DEF m
  <2>5. /\ telemetry' \in [CounterNames -> Nat]
        /\ telemetry'["submitted"] = telemetry["submitted"]
        /\ telemetry'["completed"] = telemetry["completed"]
        /\ telemetry'["failed"] = telemetry["failed"]
        /\ telemetry'["cancelled"] = telemetry["cancelled"]
    BY <1>0, <2>1 DEF CounterNames
  <2>6. worker = "check" /\ worker' = "begin"
    BY <1>4 DEF TakeBatch
  <2> QED
    BY <1>0, <1>a, <1>b, <1>c, <2>3, <2>4, <2>5, <2>6 DEF AccountInv, CountersInv, OneAccount, Underway, CounterNames
<1>5. CASE CountBatch
  <2>1. CASE worker' = "fail" /\ telemetry' = telemetry
    BY <1>0, <1>a, <1>b, <1>c, <1>5, <2>1 DEF CountBatch, AccountInv, CountersInv, OneAccount, Underway
  <2>2. CASE worker' = "scan" /\ telemetry' = Counted(telemetry, "batches", 1)
    <3>1. /\ telemetry' \in [CounterNames -> Nat]
          /\ telemetry'["submitted"] = telemetry["submitted"]
          /\ telemetry'["completed"] = telemetry["completed"]
          /\ telemetry'["failed"] = telemetry["failed"]
          /\ telemetry'["cancelled"] = telemetry["cancelled"]
      BY <1>0, <1>a, <1>b, <1>c, <2>2 DEF Counted, CounterNames
    <3> QED
      BY <1>0, <1>a, <1>b, <1>c, <1>5, <2>2, <3>1 DEF CountBatch, AccountInv, CountersInv, OneAccount,
         Underway, CounterNames
  <2> QED
    BY <1>5, <2>1, <2>2 DEF CountBatch
<1>6. CASE Scan \/ ScanThrows
  BY <1>0, <1>a, <1>b, <1>c, <1>6 DEF AccountInv, CountersInv, OneAccount, Underway,
     Scan, ScanThrows, shared
<1>7. CASE Complete
  <2>1. CASE worker' = "fail" /\ telemetry' = telemetry
    BY <1>0, <1>a, <1>b, <1>c, <1>7, <2>1 DEF Complete, AccountInv, CountersInv, OneAccount, Underway
  <2>2. CASE worker' = "answer" /\ telemetry' = CountCompleted(telemetry)
    <3>1. /\ telemetry' \in [CounterNames -> Nat]
          /\ telemetry'["submitted"] = telemetry["submitted"]
          /\ telemetry'["completed"] = telemetry["completed"] + Len(batch)
          /\ telemetry'["failed"] = telemetry["failed"]
          /\ telemetry'["cancelled"] = telemetry["cancelled"]
      BY <1>0, <1>a, <1>b, <1>c, <2>2 DEF CountCompleted, Counted, CounterNames
    <3> QED
      BY <1>0, <1>a, <1>b, <1>c, <1>7, <2>2, <3>1 DEF Complete, AccountInv, CountersInv, OneAccount,
         Underway, CounterNames
  <2> QED
    BY <1>7, <2>1, <2>2 DEF Complete
<1>8. CASE Fail
  <2>1. /\ worker = "fail" /\ worker' = "reject" /\ telemetry' = CountFailed(telemetry)
        /\ queue' = queue /\ batch' = batch
    BY <1>8 DEF Fail
  <2>2. Fits(telemetry["failed"], Len(batch))
    BY <1>0, <1>a, <1>b, <1>c, <2>1 DEF Fits, Underway
  <2>3. telemetry' = Counted(telemetry, "failed", Len(batch))
    BY <2>1, <2>2 DEF CountFailed
  <2>4. /\ telemetry' \in [CounterNames -> Nat]
        /\ telemetry'["submitted"] = telemetry["submitted"]
        /\ telemetry'["completed"] = telemetry["completed"]
        /\ telemetry'["failed"] = telemetry["failed"] + Len(batch)
        /\ telemetry'["cancelled"] = telemetry["cancelled"]
    BY <1>0, <1>a, <1>b, <1>c, <2>3 DEF Counted, CounterNames
  <2> QED
    BY <1>0, <1>a, <1>b, <1>c, <2>1, <2>4 DEF AccountInv, CountersInv, OneAccount, Underway, CounterNames
<1>9. CASE Answer
  BY <1>0, <1>a, <1>b, <1>c, <1>9 DEF AccountInv, CountersInv, OneAccount, Underway,
     Answer, shared
<1>10. CASE Rearm
  <2>1. telemetry' = telemetry /\ queue' = queue /\ batch' = <<>>
    BY <1>10 DEF Rearm
  <2>2. Underway' = 0 /\ Underway = 0
    BY <1>10 DEF Rearm, Underway
  <2>3. CountersInv'
    BY <1>0, <1>a, <2>1 DEF CountersInv
  <2>4. OneAccount'
    BY <1>c, <2>1, <2>2 DEF OneAccount
  <2> QED
    BY <2>3, <2>4 DEF AccountInv
<1>11. ASSUME NEW o \in {"canceller", "destructor"}, Cancel(o) PROVE AccountInv'
  <2>1. /\ telemetry' = Counted(telemetry, "cancelled", Len(queue))
        /\ queue' = <<>> /\ worker' = worker /\ batch' = batch
    BY <1>11 DEF Cancel, LeftInQueue, working
  <2>2. /\ telemetry' \in [CounterNames -> Nat]
        /\ telemetry'["submitted"] = telemetry["submitted"]
        /\ telemetry'["completed"] = telemetry["completed"]
        /\ telemetry'["failed"] = telemetry["failed"]
        /\ telemetry'["cancelled"] = telemetry["cancelled"] + Len(queue)
    BY <1>0, <1>a, <1>b, <1>c, <2>1 DEF Counted, CounterNames
  <2>3. queue' \in Seq(Nat) /\ Len(queue') = 0
    BY <2>1
  <2> QED
    <3>1. CountersInv'
      BY <1>0, <1>a, <1>b, <1>c, <2>1, <2>2, <2>3 DEF CountersInv
    <3>2. Underway' = Underway
      BY <1>0, <1>a, <1>b, <1>c, <2>1 DEF Underway
    <3>3. OneAccount'
      <4>1. /\ Underway' \in Nat /\ Underway' = Underway
            /\ telemetry'["submitted"] = telemetry["submitted"]
            /\ telemetry'["completed"] = telemetry["completed"]
            /\ telemetry'["failed"] = telemetry["failed"]
            /\ telemetry'["cancelled"] = telemetry["cancelled"] + Len(queue)
            /\ Len(queue') = 0
        BY <1>b, <2>2, <2>3, <3>2
      <4> QED
        BY <1>0, <1>a, <1>b, <1>c, <4>1 DEF OneAccount
    <3> QED
      BY <3>1, <3>3 DEF AccountInv
<1>12. ASSUME NEW o \in {"canceller", "destructor"},
              CancelAgain(o) \/ Drop(o) \/ CancelNotify(o)
       PROVE  AccountInv'
  BY <1>0, <1>a, <1>b, <1>c, <1>12 DEF AccountInv, CountersInv, OneAccount, Underway,
     CancelAgain, Drop, CancelNotify, Wake, shared, working
<1>13. CASE Join
  BY <1>0, <1>a, <1>b, <1>c, <1>13 DEF AccountInv, CountersInv, OneAccount, Underway,
     Join, shared, working
<1>14. CASE UNCHANGED vars
  BY <1>0, <1>a, <1>b, <1>c, <1>14 DEF AccountInv, CountersInv, OneAccount, Underway,
     vars, shared, working
<1> QED
  BY <1>1, <1>2, <1>3, <1>4, <1>5, <1>6, <1>7, <1>8, <1>9, <1>10, <1>11,
     <1>12, <1>13, <1>14 DEF Next, Worker, Owner

\* Every request is in exactly one account (the telemetry of State::run and
\* cancel), for any traffic, any failures and any cancellation.
THEOREM Accounting == Spec => []OneAccount
<1>1. AccountInv => OneAccount
  BY DEF AccountInv
<1> QED
  BY AccountInit, AccountStep, <1>1, PTL DEF Spec

\* cancel() never overflows its counter, so the destructor's catch block, which
\* would settle the queue a second way, cannot be entered (~State, cancel).
THEOREM CancelFits == Spec => [](Fits(telemetry["cancelled"], Len(queue)))
<1>1. AccountInv => Fits(telemetry["cancelled"], Len(queue))
  <2> SUFFICES ASSUME AccountInv PROVE Fits(telemetry["cancelled"], Len(queue))
    OBVIOUS
  <2>1. /\ telemetry["submitted"] \in Nat /\ telemetry["completed"] \in Nat
        /\ telemetry["failed"] \in Nat /\ telemetry["cancelled"] \in Nat
        /\ Len(queue) \in Nat /\ Len(batch) \in Nat
    BY DEF AccountInv, CountersInv, CounterNames
  <2> QED
    BY <2>1, BoundAssumption DEF AccountInv, CountersInv, OneAccount, Underway, Fits
<1> QED
  BY AccountInit, AccountStep, <1>1, PTL DEF Spec

-----------------------------------------------------------------------------
(* Order.  SettledOnce and FirstComeFirstServed together need the shape of *)
(* the three lists (each ascending; after a cancellation nothing is queued *)
(* any more; a worker between two batches holds none) and that what is in  *)
(* the worker's hand is older than everything else still owed.             *)

Told == Settled("value") \cup Settled("failed")

ShapeInv ==
  /\ requests \in Seq([size : Sizes, immediate : BOOLEAN])
  /\ promise \in Seq(OutcomeKinds) /\ Len(promise) = Len(requests)
  /\ queue \in Seq(Nat) /\ batch \in Seq(Nat) /\ dropped \in Seq(Nat)
  /\ settled \in Nat /\ settled <= Len(batch)
  /\ accepting \in BOOLEAN
  /\ worker \notin {"answer", "reject"} => settled = 0
  /\ worker \in {"check", "asleep", "exited"} => batch = <<>>
  /\ dropped # <<>> => ~accepting
  /\ ~accepting => queue = <<>>
  /\ Ascending(batch) /\ Ascending(dropped) /\ Ascending(queue)

OrderInv ==
  /\ InHand \cup Doomed \cup Waiting = Settled("open")
  /\ \A r \in InHand : \A d \in Doomed \cup Waiting : r < d
  /\ \A r \in Settled("open") : \A s \in Told : s < r

LineInv == ShapeInv /\ OrderInv

LEMMA LineInit == Init => LineInv
<1> SUFFICES ASSUME Init PROVE LineInv
  OBVIOUS
<1>1. ShapeInv
  BY DEF Init, ShapeInv, Ascending
<1>2. /\ Ids = {} /\ InHand = {} /\ Doomed = {} /\ Waiting = {}
  BY DEF Init, Ids, InHand, Doomed, Waiting
<1>3. OrderInv
  BY <1>2 DEF OrderInv, Settled, Told
<1> QED
  BY <1>1, <1>3 DEF LineInv

\* Setting promise h moves h alone between the sets of promises.
LEMMA SettleFacts ==
  ASSUME ShapeInv, NEW h \in Ids, promise[h] = "open", requests' = requests,
         NEW k \in OutcomeKinds \ {"open"}, Settle(h, k)
  PROVE  /\ promise' \in Seq(OutcomeKinds) /\ Len(promise') = Len(requests')
         /\ Settled("open")' = Settled("open") \ {h}
         /\ Told' = Told \cup (IF k = "cancelled" THEN {} ELSE {h})
<1>1. /\ Len(promise) = Len(requests) /\ Len(requests) \in Nat
      /\ promise \in Seq(OutcomeKinds) /\ promise' = [promise EXCEPT ![h] = k]
      /\ Ids' = Ids /\ Ids = 1 .. Len(promise)
  BY DEF ShapeInv, Settle, Ids
<1>2. /\ promise' \in Seq(OutcomeKinds) /\ Len(promise') = Len(promise)
      /\ \A r \in Ids : promise'[r] = IF r = h THEN k ELSE promise[r]
  BY <1>1, ExceptSeq
<1>3. Settled("open")' = Settled("open") \ {h}
  BY <1>1, <1>2 DEF Settled, OutcomeKinds
<1>4. Told' = Told \cup (IF k = "cancelled" THEN {} ELSE {h})
  BY <1>1, <1>2 DEF Told, Settled, OutcomeKinds
<1> QED
  BY <1>1, <1>2, <1>3, <1>4

\* Steps that touch neither promises nor lists.
LEMMA LineKept ==
  ASSUME LineInv, UNCHANGED <<requests, promise, queue, batch, dropped, settled>>,
         accepting' = accepting,
         worker' \notin {"answer", "reject"} => settled = 0,
         worker' \in {"check", "asleep", "exited"} => batch = <<>>
  PROVE  LineInv'
<1>1. ShapeInv'
  BY DEF LineInv, ShapeInv, Ascending
<1>2. /\ InHand' = InHand /\ Doomed' = Doomed /\ Waiting' = Waiting
      /\ Settled("open")' = Settled("open") /\ Told' = Told
  BY DEF InHand, Doomed, Waiting, Settled, Told, Ids
<1>3. OrderInv'
  BY <1>2 DEF LineInv, OrderInv
<1> QED
  BY <1>1, <1>3 DEF LineInv

LEMMA LineSubmit ==
  ASSUME LineInv, NEW c \in Clients, NEW n \in Sizes, Submit(c, n)
  PROVE  LineInv'
<1> DEFINE new == Len(requests) + 1
<1>1. /\ requests \in Seq([size : Sizes, immediate : BOOLEAN])
      /\ promise \in Seq(OutcomeKinds) /\ Len(promise) = Len(requests)
      /\ queue \in Seq(Nat) /\ Len(requests) \in Nat /\ new \in Nat
      /\ Len(queue) \in Nat
  BY DEF LineInv, ShapeInv
<1>2. /\ requests' \in Seq([size : Sizes, immediate : BOOLEAN])
      /\ Len(requests') = new
  <2>1. [size |-> n, immediate |-> StartsAtOnce] \in [size : Sizes, immediate : BOOLEAN]
    BY DEF StartsAtOnce
  <2> QED
    BY <1>1, <2>1, AppendProperties DEF Submit
<1>3. /\ promise' \in Seq(OutcomeKinds) /\ Len(promise') = new
      /\ \A r \in 1 .. Len(requests) : promise'[r] = promise[r]
      /\ promise'[new] = "open"
  <2>1. "open" \in OutcomeKinds
    BY DEF OutcomeKinds
  <2> QED
    BY <1>1, <2>1, AppendProperties DEF Submit
<1>4. /\ queue' \in Seq(Nat) /\ Len(queue') = Len(queue) + 1
      /\ \A k \in 1 .. Len(queue) : queue'[k] = queue[k]
      /\ queue'[Len(queue) + 1] = new
  BY <1>1, <1>2, AppendProperties DEF Submit, Enqueued
<1>5. /\ UNCHANGED <<batch, dropped, settled, worker, accepting>> /\ accepting
  BY DEF Submit, working, owners, Admissible
<1>6. /\ InHand' = InHand /\ Doomed' = Doomed
      /\ DOMAIN queue = 1 .. Len(queue) /\ DOMAIN queue' = 1 .. Len(queue')
  BY <1>1, <1>4, <1>5, LenProperties DEF InHand, Doomed
<1>7. Waiting' = Waiting \cup {new}
  BY <1>1, <1>4, <1>6 DEF Waiting
<1>8. /\ Settled("open")' = Settled("open") \cup {new} /\ Told' = Told
      /\ Settled("open") \subseteq 1 .. Len(requests)
      /\ Told \subseteq 1 .. Len(requests)
  BY <1>1, <1>2, <1>3 DEF Settled, Told, Ids
<1>9. InHand \subseteq 1 .. Len(requests) /\ Waiting \subseteq 1 .. Len(requests)
  BY <1>8 DEF LineInv, OrderInv
<1>10. Ascending(queue')
  <2>1. ASSUME NEW k \in 1 .. Len(queue) PROVE queue[k] < new /\ queue[k] \in Nat
    <3>1. queue[k] \in Waiting
      BY <1>6 DEF Waiting
    <3> QED
      BY <1>1, <1>9, <3>1
  <2>2. \A j, k \in 1 .. Len(queue) : j < k => queue[j] < queue[k]
    BY <1>6 DEF LineInv, ShapeInv, Ascending
  <2>3. ASSUME NEW j \in 1 .. Len(queue'), NEW k \in 1 .. Len(queue'), j < k
        PROVE  queue'[j] < queue'[k]
    <3>1. j \in 1 .. Len(queue) /\ queue'[j] = queue[j]
      BY <1>1, <1>4, <2>3
    <3>2. CASE k = Len(queue) + 1
      BY <1>4, <2>1, <3>1, <3>2
    <3>3. CASE k # Len(queue) + 1
      <4>1. k \in 1 .. Len(queue) /\ queue'[k] = queue[k]
        BY <1>1, <1>4, <3>3
      <4> QED
        BY <2>2, <2>3, <3>1, <4>1
    <3> QED
      BY <3>2, <3>3
  <2> QED
    BY <1>6, <2>3 DEF Ascending
<1>11. ShapeInv'
  BY <1>2, <1>3, <1>4, <1>5, <1>10 DEF LineInv, ShapeInv, Ascending
<1>12. OrderInv'
  <2>1. (InHand \cup Doomed \cup Waiting)' = Settled("open")'
    BY <1>6, <1>7, <1>8 DEF LineInv, OrderInv
  <2>2. \A r \in InHand : \A d \in Doomed \cup (Waiting \cup {new}) : r < d
    BY <1>1, <1>9 DEF LineInv, OrderInv
  <2>3. \A r \in Settled("open") \cup {new} : \A t \in Told : t < r
    BY <1>1, <1>8 DEF LineInv, OrderInv
  <2> QED
    BY <1>6, <1>7, <1>8, <2>1, <2>2, <2>3 DEF OrderInv
<1> QED
  BY <1>11, <1>12 DEF LineInv

LEMMA LineTakeBatch ==
  ASSUME LineInv, TakeBatch
  PROVE  LineInv'
<1>1. PICK n \in 1 .. Len(queue) : /\ batch' = SubSeq(queue, 1, n)
                                  /\ queue' = SubSeq(queue, n + 1, Len(queue))
  BY DEF TakeBatch
<1>2. /\ queue \in Seq(Nat) /\ Len(queue) \in Nat /\ n \in Nat /\ n <= Len(queue)
      /\ batch = <<>> /\ settled = 0 /\ dropped = <<>> /\ queue # <<>>
      /\ worker = "check" /\ worker' = "begin"
      /\ UNCHANGED <<requests, promise, dropped, settled, accepting>>
  BY DEF LineInv, ShapeInv, TakeBatch, owners
<1>3. \A k \in 1 .. Len(queue) : queue[k] \in Nat
  BY <1>2
<1>4. /\ batch' \in Seq(Nat) /\ Len(batch') = n
      /\ \A k \in 1 .. n : batch'[k] = queue[k]
  <2>1. \A k \in 1 .. n : queue[k] \in Nat
    BY <1>2, <1>3
  <2> QED
    BY <1>1, <1>2, <2>1, SubSeqProperties
<1>5. /\ queue' \in Seq(Nat) /\ Len(queue') = Len(queue) - n
      /\ \A k \in 1 .. (Len(queue) - n) : queue'[k] = queue[n + k]
  <2> DEFINE m == n + 1
  <2>1. /\ m \in Int /\ Len(queue) \in Int /\ m <= Len(queue) + 1
        /\ \A k \in m .. Len(queue) : queue[k] \in Nat
    BY <1>2, <1>3
  <2>2. queue' = SubSeq(queue, m, Len(queue))
    BY <1>1
  <2> HIDE DEF m
  <2>3. /\ queue' \in Seq(Nat)
        /\ Len(queue') = IF m <= Len(queue) THEN Len(queue) - m + 1 ELSE 0
        /\ \A k \in 1 .. (Len(queue) - m + 1) : queue'[k] = queue[m + k - 1]
    BY <2>1, <2>2, SubSeqProperties
  <2> QED
    BY <1>2, <2>1, <2>3 DEF m
<1>6. /\ DOMAIN queue = 1 .. Len(queue) /\ DOMAIN queue' = 1 .. Len(queue')
      /\ DOMAIN batch' = 1 .. n /\ Len(batch) = 0
  BY <1>2, <1>4, <1>5, LenProperties
<1>7. Ascending(queue)
  BY DEF LineInv, ShapeInv
<1>8. Ascending(batch') /\ Ascending(queue') /\ Ascending(dropped')
  <2>1. Ascending(batch')
    BY <1>2, <1>4, <1>6, <1>7 DEF Ascending
  <2>2. Ascending(queue')
    <3>1. ASSUME NEW j \in 1 .. (Len(queue) - n), NEW k \in 1 .. (Len(queue) - n), j < k
          PROVE  queue'[j] < queue'[k]
      <4>1. /\ n + j \in DOMAIN queue /\ n + k \in DOMAIN queue /\ n + j < n + k
            /\ queue'[j] = queue[n + j] /\ queue'[k] = queue[n + k]
        BY <1>2, <1>5, <1>6, <3>1
      <4> QED
        BY <1>7, <4>1 DEF Ascending
    <3> QED
      BY <1>5, <1>6, <3>1 DEF Ascending
  <2> QED
    BY <1>2, <2>1, <2>2 DEF Ascending, LineInv, ShapeInv
<1>9. ShapeInv'
  BY <1>2, <1>4, <1>5, <1>8 DEF LineInv, ShapeInv
<1>10. InHand = {} /\ Doomed = {} /\ Doomed' = {}
  BY <1>2, <1>6 DEF InHand, Doomed
<1>11. InHand' \cup Waiting' = Waiting
  <2>1. InHand' \subseteq Waiting
    BY <1>2, <1>4, <1>6 DEF InHand, Waiting
  <2>2. ASSUME NEW r \in Waiting' PROVE r \in Waiting
    <3>1. PICK k \in 1 .. (Len(queue) - n) : r = queue[n + k]
      BY <1>5, <1>6 DEF Waiting
    <3>2. n + k \in DOMAIN queue
      BY <1>2, <1>6, <3>1
    <3> QED
      BY <3>1, <3>2 DEF Waiting
  <2>3. ASSUME NEW r \in Waiting PROVE r \in InHand' \cup Waiting'
    <3>1. PICK k \in 1 .. Len(queue) : r = queue[k]
      BY <1>6 DEF Waiting
    <3>2. CASE k <= n
      BY <1>2, <1>4, <1>6, <3>1, <3>2 DEF InHand
    <3>3. CASE k > n
      <4>1. k - n \in 1 .. Len(queue') /\ queue'[k - n] = queue[k]
        BY <1>2, <1>5, <3>1, <3>3
      <4> QED
        BY <1>6, <3>1, <4>1 DEF Waiting
    <3> QED
      BY <1>2, <3>2, <3>3
  <2> QED
    BY <2>1, <2>2, <2>3
<1>12. \A r \in InHand' : \A d \in Waiting' : r < d
  <2> SUFFICES ASSUME NEW r \in InHand', NEW d \in Waiting' PROVE r < d
    OBVIOUS
  <2>1. PICK j \in 1 .. n : r = queue[j]
    BY <1>2, <1>4, <1>6 DEF InHand
  <2>2. PICK k \in 1 .. (Len(queue) - n) : d = queue[n + k]
    BY <1>5, <1>6 DEF Waiting
  <2>3. j \in DOMAIN queue /\ n + k \in DOMAIN queue /\ j < n + k
    BY <1>2, <1>6, <2>1, <2>2
  <2> QED
    BY <1>7, <2>1, <2>2, <2>3 DEF Ascending
<1>13. Settled("open")' = Settled("open") /\ Told' = Told
  BY <1>2 DEF Settled, Told, Ids
<1>14. OrderInv'
  BY <1>10, <1>11, <1>12, <1>13 DEF LineInv, OrderInv
<1> QED
  BY <1>9, <1>14 DEF LineInv

LEMMA LineAnswer ==
  ASSUME LineInv, Answer
  PROVE  LineInv'
<1> DEFINE h == batch[settled + 1]
<1>1. /\ batch \in Seq(Nat) /\ Len(batch) \in Nat /\ settled \in Nat
      /\ settled < Len(batch) /\ settled' = settled + 1
      /\ worker \in {"answer", "reject"}
      /\ UNCHANGED <<requests, queue, accepting, worker, batch, dropped>>
  BY DEF LineInv, ShapeInv, Answer, shared, owners
<1>2. DOMAIN batch = 1 .. Len(batch)
  BY <1>1, LenProperties
<1>3. h \in InHand
  BY <1>1 DEF InHand
<1>4. h \in Ids /\ promise[h] = "open"
  BY <1>3 DEF LineInv, OrderInv, Settled
<1>5. PICK k \in {"value", "failed"} : Settle(h, k)
  BY DEF Answer
<1>6. /\ promise' \in Seq(OutcomeKinds) /\ Len(promise') = Len(requests')
      /\ Settled("open")' = Settled("open") \ {h}
      /\ Told' = Told \cup {h}
  <2>1. k \in OutcomeKinds \ {"open"} /\ k # "cancelled"
    BY <1>5 DEF OutcomeKinds
  <2> QED
    BY <1>1, <1>4, <1>5, <2>1, SettleFacts DEF LineInv
<1>7. InHand' = InHand \ {h} /\ \A r \in InHand' : h < r
  <2>1. \A j, m \in 1 .. Len(batch) : j < m => batch[j] < batch[m]
    BY <1>2 DEF LineInv, ShapeInv, Ascending
  <2>2. \A m \in 1 .. Len(batch) : batch[m] \in Nat
    BY <1>1
  <2>3. ASSUME NEW r \in InHand' PROVE r \in InHand /\ h < r /\ r \in Nat /\ h \in Nat
    <3>1. PICK m \in (settled + 2) .. Len(batch) : r = batch[m]
      BY <1>1 DEF InHand
    <3>2. /\ m \in 1 .. Len(batch) /\ m \in (settled + 1) .. Len(batch)
          /\ settled + 1 \in 1 .. Len(batch) /\ settled + 1 < m
      BY <1>1, <3>1
    <3> QED
      BY <2>1, <2>2, <3>1, <3>2 DEF InHand
  <2>4. ASSUME NEW r \in InHand, r # h PROVE r \in InHand'
    <3>1. PICK m \in (settled + 1) .. Len(batch) : r = batch[m]
      BY DEF InHand
    <3>2. m \in (settled' + 1) .. Len(batch')
      BY <1>1, <2>4, <3>1
    <3> QED
      BY <1>1, <3>1, <3>2 DEF InHand
  <2>5. \A r \in InHand' : r # h
    BY <2>3
  <2> QED
    BY <2>3, <2>4, <2>5
<1>8. Doomed' = Doomed /\ Waiting' = Waiting
  BY <1>1 DEF Doomed, Waiting
<1>9. ShapeInv'
  BY <1>1, <1>6 DEF LineInv, ShapeInv, Ascending
<1>10. OrderInv'
  <2>1. h \notin Doomed /\ h \notin Waiting /\ h \in Nat
    <3>1. \A d \in Doomed \cup Waiting : h < d
      BY <1>3 DEF LineInv, OrderInv
    <3>2. h \in Nat
      BY <1>4 DEF Ids
    <3> QED
      BY <3>1, <3>2
  <2>2. (InHand \cup Doomed \cup Waiting)' = Settled("open")'
    BY <1>3, <1>6, <1>7, <1>8, <2>1 DEF LineInv, OrderInv
  <2>3. \A r \in InHand' : \A d \in (Doomed \cup Waiting)' : r < d
    BY <1>7, <1>8 DEF LineInv, OrderInv
  <2>4. \A r \in Settled("open")' : h < r
    BY <1>3, <1>7, <1>8, <2>2 DEF LineInv, OrderInv
  <2>5. \A r \in Settled("open")' : \A t \in Told' : t < r
    BY <1>6, <2>4 DEF LineInv, OrderInv
  <2> QED
    BY <2>2, <2>3, <2>5 DEF OrderInv
<1> QED
  BY <1>9, <1>10 DEF LineInv

LEMMA LineRearm ==
  ASSUME LineInv, Rearm
  PROVE  LineInv'
<1>1. /\ batch \in Seq(Nat) /\ Len(batch) \in Nat /\ settled = Len(batch)
      /\ batch' = <<>> /\ settled' = 0 /\ worker' = "check"
      /\ UNCHANGED <<requests, promise, queue, accepting, dropped>>
  BY DEF LineInv, ShapeInv, Rearm, owners
<1>2. InHand = {} /\ InHand' = {} /\ Doomed' = Doomed /\ Waiting' = Waiting
  BY <1>1 DEF InHand, Doomed, Waiting
<1>3. Settled("open")' = Settled("open") /\ Told' = Told
  BY <1>1 DEF Settled, Told, Ids
<1>4. ShapeInv'
  BY <1>1 DEF LineInv, ShapeInv, Ascending
<1>5. OrderInv'
  BY <1>2, <1>3 DEF LineInv, OrderInv
<1> QED
  BY <1>4, <1>5 DEF LineInv

LEMMA LineCancel ==
  ASSUME LineInv, NEW o \in {"canceller", "destructor"}, Cancel(o)
  PROVE  LineInv'
<1>1. /\ accepting /\ accepting' = FALSE /\ dropped = <<>> /\ dropped' = queue
      /\ queue' = <<>>
      /\ UNCHANGED <<requests, promise, worker, batch, settled>>
  BY DEF LineInv, ShapeInv, Cancel, LeftInQueue, working
<1>2. /\ InHand' = InHand /\ Doomed = {} /\ Doomed' = Waiting /\ Waiting' = {}
  BY <1>1 DEF InHand, Doomed, Waiting
<1>3. Settled("open")' = Settled("open") /\ Told' = Told
  BY <1>1 DEF Settled, Told, Ids
<1>4. ShapeInv'
  <2>1. Ascending(dropped') /\ Ascending(queue') /\ Ascending(batch')
    BY <1>1 DEF LineInv, ShapeInv, Ascending
  <2>2. dropped' \in Seq(Nat) /\ queue' \in Seq(Nat)
    BY <1>1 DEF LineInv, ShapeInv
  <2>3. /\ requests' \in Seq([size : Sizes, immediate : BOOLEAN])
        /\ promise' \in Seq(OutcomeKinds) /\ Len(promise') = Len(requests')
        /\ batch' \in Seq(Nat) /\ settled' \in Nat /\ settled' <= Len(batch')
        /\ worker' \notin {"answer", "reject"} => settled' = 0
        /\ worker' \in {"check", "asleep", "exited"} => batch' = <<>>
    BY <1>1 DEF LineInv, ShapeInv
  <2>4. accepting' \in BOOLEAN /\ ~accepting'
    BY <1>1
  <2> QED
    BY <1>1, <2>1, <2>2, <2>3, <2>4 DEF ShapeInv
<1>5. OrderInv'
  BY <1>2, <1>3 DEF LineInv, OrderInv
<1> QED
  BY <1>4, <1>5 DEF LineInv

LEMMA LineDrop ==
  ASSUME LineInv, NEW o \in {"canceller", "destructor"}, Drop(o)
  PROVE  LineInv'
<1> DEFINE h == Head(dropped)
<1>1. /\ dropped \in Seq(Nat) /\ dropped # <<>> /\ dropped' = Tail(dropped)
      /\ Settle(h, "cancelled")
      /\ queue = <<>> /\ ~accepting
      /\ UNCHANGED <<requests, queue, accepting, worker, batch, settled>>
  BY DEF LineInv, ShapeInv, Drop, shared, working
<1>2. /\ Len(dropped) \in Nat /\ Len(dropped) >= 1 /\ h = dropped[1]
      /\ dropped' \in Seq(Nat) /\ Len(dropped') = Len(dropped) - 1
      /\ \A k \in 1 .. Len(dropped') : dropped'[k] = dropped[k + 1]
      /\ DOMAIN dropped = 1 .. Len(dropped) /\ DOMAIN dropped' = 1 .. Len(dropped')
  BY <1>1, HeadTailProperties, LenProperties, EmptySeq
<1>3. h \in Doomed /\ h \in Ids /\ promise[h] = "open"
  <2>1. h \in Doomed
    BY <1>2 DEF Doomed
  <2> QED
    BY <2>1 DEF LineInv, OrderInv, Settled
<1>4. /\ promise' \in Seq(OutcomeKinds) /\ Len(promise') = Len(requests')
      /\ Settled("open")' = Settled("open") \ {h}
      /\ Told' = Told
  <2>1. "cancelled" \in OutcomeKinds \ {"open"}
    BY DEF OutcomeKinds
  <2> QED
    BY <1>1, <1>3, <2>1, SettleFacts DEF LineInv
<1>5. \A j, m \in 1 .. Len(dropped) : j < m => dropped[j] < dropped[m]
  BY <1>2 DEF LineInv, ShapeInv, Ascending
<1>6. \A m \in 1 .. Len(dropped) : dropped[m] \in Nat
  BY <1>1
<1>7. Doomed' = Doomed \ {h}
  <2>1. ASSUME NEW r \in Doomed' PROVE r \in Doomed /\ r # h
    <3>1. PICK m \in 1 .. Len(dropped') : r = dropped[m + 1]
      BY <1>2 DEF Doomed
    <3>2. m + 1 \in 1 .. Len(dropped) /\ 1 \in 1 .. Len(dropped) /\ 1 < m + 1
      BY <1>2, <3>1
    <3>3. h < r /\ h \in Nat /\ r \in Nat
      BY <1>2, <1>5, <1>6, <3>1, <3>2
    <3>4. r \in Doomed
      BY <1>2, <3>1, <3>2 DEF Doomed
    <3> QED
      BY <3>3, <3>4
  <2>2. ASSUME NEW r \in Doomed, r # h PROVE r \in Doomed'
    <3>1. PICK m \in 1 .. Len(dropped) : r = dropped[m]
      BY <1>2 DEF Doomed
    <3>2. m - 1 \in 1 .. Len(dropped') /\ dropped'[m - 1] = dropped[m]
      BY <1>2, <2>2, <3>1
    <3> QED
      BY <1>2, <3>1, <3>2 DEF Doomed
  <2> QED
    BY <2>1, <2>2
<1>8. Ascending(dropped')
  <2>1. ASSUME NEW j \in 1 .. Len(dropped'), NEW k \in 1 .. Len(dropped'), j < k
        PROVE  dropped'[j] < dropped'[k]
    <3>1. j + 1 \in 1 .. Len(dropped) /\ k + 1 \in 1 .. Len(dropped) /\ j + 1 < k + 1
      BY <1>2, <2>1
    <3> QED
      BY <1>2, <1>5, <3>1
  <2> QED
    BY <1>2, <2>1 DEF Ascending
<1>9. ShapeInv'
  BY <1>1, <1>2, <1>4, <1>8 DEF LineInv, ShapeInv, Ascending
<1>10. InHand' = InHand /\ Waiting' = Waiting /\ Waiting = {}
  BY <1>1 DEF InHand, Waiting
<1>11. OrderInv'
  <2>1. h \notin InHand
    <3>1. \A r \in InHand : r < h
      BY <1>3 DEF LineInv, OrderInv
    <3>2. h \in Nat
      BY <1>3 DEF Ids
    <3> QED
      BY <3>1, <3>2
  <2> QED
    BY <1>3, <1>4, <1>7, <1>10, <2>1 DEF LineInv, OrderInv
<1> QED
  BY <1>9, <1>11 DEF LineInv

LEMMA LineStep == LineInv /\ [Next]_vars => LineInv'
<1> SUFFICES ASSUME LineInv, [Next]_vars PROVE LineInv'
  OBVIOUS
<1>0. /\ worker \notin {"answer", "reject"} => settled = 0
      /\ worker \in {"check", "asleep", "exited"} => batch = <<>>
  BY DEF LineInv, ShapeInv
<1>1. ASSUME NEW c \in Clients, NEW n \in Sizes, Submit(c, n) PROVE LineInv'
  BY <1>1, LineSubmit
<1>2. ASSUME NEW c \in Clients, Notify(c) \/ Return(c) PROVE LineInv'
  BY <1>0, <1>2, LineKept DEF Notify, Return, Wake, shared, working, owners
<1>3. CASE Sleep \/ SpuriousWakeup \/ Exit
  BY <1>0, <1>3, LineKept DEF Sleep, SpuriousWakeup, Exit, shared, owners
<1>4. CASE TakeBatch
  BY <1>4, LineTakeBatch
<1>5. CASE CountBatch \/ Complete \/ Fail
  BY <1>0, <1>5, LineKept DEF CountBatch, Complete, Fail, owners
<1>6. CASE Scan \/ ScanThrows
  BY <1>0, <1>6, LineKept DEF Scan, ScanThrows, shared, owners
<1>7. CASE Answer
  BY <1>7, LineAnswer
<1>8. CASE Rearm
  BY <1>8, LineRearm
<1>9. ASSUME NEW o \in {"canceller", "destructor"}, Owner(o) PROVE LineInv'
  <2>1. CASE Cancel(o)
    BY <2>1, LineCancel
  <2>2. CASE Drop(o)
    BY <2>2, LineDrop
  <2>3. CASE CancelAgain(o) \/ CancelNotify(o)
    BY <1>0, <2>3, LineKept DEF CancelAgain, CancelNotify, Wake, shared, working
  <2> QED
    BY <1>9, <2>1, <2>2, <2>3 DEF Owner
<1>10. CASE Join
  BY <1>0, <1>10, LineKept DEF Join, shared, working
<1>11. CASE UNCHANGED vars
  BY <1>0, <1>11, LineKept DEF vars, shared, working, owners
<1> QED
  BY <1>1, <1>2, <1>3, <1>4, <1>5, <1>6, <1>7, <1>8, <1>9, <1>10, <1>11
     DEF Next, Worker

\* No promise is set twice or forgotten (promise.set_value, set_exception).
THEOREM NoDoubleSettlement == Spec => []SettledOnce
<1>1. LineInv => SettledOnce
  <2> SUFFICES ASSUME LineInv PROVE SettledOnce
    OBVIOUS
  <2>1. InHand \cap Doomed = {} /\ InHand \cap Waiting = {}
    <3>1. \A r \in InHand : r \in Nat
      BY DEF LineInv, OrderInv, Settled, Ids
    <3> QED
      BY <3>1 DEF LineInv, OrderInv
  <2>2. Doomed \cap Waiting = {}
    <3>1. queue = <<>> \/ dropped = <<>>
      BY DEF LineInv, ShapeInv
    <3>2. Waiting = {} \/ Doomed = {}
      BY <3>1 DEF Waiting, Doomed
    <3> QED
      BY <3>2
  <2> QED
    BY <2>1, <2>2 DEF SettledOnce, LineInv, ShapeInv, OrderInv
<1> QED
  BY LineInit, LineStep, <1>1, PTL DEF Spec

\* Requests are answered in the order they were queued (the deque of State).
THEOREM Fifo == Spec => []FirstComeFirstServed
<1>1. LineInv => FirstComeFirstServed
  <2> SUFFICES ASSUME LineInv, NEW r \in Ids, NEW s \in Ids, r < s,
                      promise[s] \in {"value", "failed"}, promise[r] = "open"
               PROVE  FALSE
    BY DEF FirstComeFirstServed
  <2>1. r \in Settled("open") /\ s \in Told /\ r \in Nat /\ s \in Nat
    BY DEF Settled, Told, Ids
  <2>2. s < r
    BY <2>1 DEF LineInv, OrderInv
  <2> QED
    BY <2>1, <2>2
<1> QED
  BY LineInit, LineStep, <1>1, PTL DEF Spec

-----------------------------------------------------------------------------
(* Wakeups.  Served and DestructorReturns need fairness; what keeps them   *)
(* from failing whatever the fairness is that nobody waits for a thread    *)
(* that waits too.  A sleeping worker that has something to do is owed a   *)
(* wakeup by a thread that is on its way to the condition variable.        *)

Owners == {"canceller", "destructor"}

WakeupOwed ==
  \/ \E c \in Clients : client[c] = "notify"
  \/ \E o \in Owners : owner[o] = "settle"

PlacesInv ==
  /\ client \in [Clients -> {"idle", "notify", "blocked"}]
  /\ mine \in [Clients -> Nat]
  /\ owner \in [Owners -> {"idle", "settle", "done", "join", "gone"}]
  /\ worker \in {"check", "asleep", "exited", "begin", "scan", "complete", "fail",
                 "answer", "reject"}

\* A destroyed coordinator has no callers left, and a caller always waits
\* for a request that was made.
OwnersInv ==
  /\ \A o \in Owners : owner[o] # "idle" => ~accepting
  /\ dropped # <<>> => \E o \in Owners : owner[o] = "settle"
  /\ owner["destructor"] # "idle"
       => /\ owner["canceller"] \in {"idle", "done"}
          /\ \A c \in Clients : client[c] = "idle"
  /\ \A c \in Clients : client[c] # "idle" => mine[c] \in Ids

WakeInv ==
  /\ LineInv /\ PlacesInv /\ OwnersInv
  /\ worker = "asleep" /\ (queue # <<>> \/ ~accepting) => WakeupOwed
  /\ worker = "exited" => ~accepting

\* The worker has a step to take.
WorkerMoves ==
  \/ worker = "check" /\ queue = <<>>
  \/ worker = "check" /\ \E n \in 1 .. Len(queue) : MayShare(n) /\ ~MayShare(n + 1)
  \/ worker \in {"begin", "scan", "complete", "fail"}
  \/ worker \in {"answer", "reject"} /\ settled <= Len(batch)

\* Whoever is in extract_curve_twist can go on, or waits for a party that can:
\* the worker, or a thread about to tell the condition variable, or cancel().
NobodyStranded ==
  \A c \in Clients :
    \/ client[c] \in {"idle", "notify"}
    \/ promise[mine[c]] # "open"
    \/ WorkerMoves
    \/ WakeupOwed

\* When the destructor joins, the worker is awake, will find the queue empty
\* and cannot go to sleep again.
JoinIsMet ==
  owner["destructor"] = "join"
    => queue = <<>> /\ ~accepting /\ (worker = "exited" \/ WorkerMoves)

LEMMA WakeInit == Init => WakeInv
<1> SUFFICES ASSUME Init PROVE WakeInv
  OBVIOUS
<1>1. PlacesInv /\ OwnersInv
  BY DEF Init, PlacesInv, OwnersInv, Owners
<1> QED
  BY <1>1, LineInit DEF Init, WakeInv

\* Requests are only ever added.
LEMMA IdsGrow ==
  ASSUME WakeInv, [Next]_vars
  PROVE  Ids \subseteq Ids'
<1>1. /\ requests \in Seq([size : Sizes, immediate : BOOLEAN]) /\ Len(requests) \in Nat
  BY DEF WakeInv, LineInv, ShapeInv
<1>2. ASSUME NEW c \in Clients, NEW n \in Sizes, Submit(c, n) PROVE Ids \subseteq Ids'
  <2>1. Len(requests') = Len(requests) + 1
    BY <1>1, <1>2 DEF Submit
  <2> QED
    BY <1>1, <2>1 DEF Ids
<1>3. requests' = requests => Ids' = Ids
  BY DEF Ids
<1> QED
  BY <1>2, <1>3 DEF Next, Worker, Owner, Notify, Return, Sleep, Exit, TakeBatch, CountBatch,
     Scan, Complete, Fail, Answer, Rearm, SpuriousWakeup, ScanThrows, Cancel, CancelAgain,
     Drop, CancelNotify, Join, vars

\* The callers: a submission leaves its caller on the way to the condition
\* variable.
LEMMA WakeCallers ==
  ASSUME WakeInv, Ids \subseteq Ids', LineInv', NEW c \in Clients,
         (\E n \in Sizes : Submit(c, n)) \/ Notify(c) \/ Return(c)
  PROVE  WakeInv'
<1> USE DEF WakeInv, PlacesInv, OwnersInv, WakeupOwed, Owners
<1>1. CASE \E n \in Sizes : Submit(c, n)
  <2>1. PICK n \in Sizes : Submit(c, n)
    BY <1>1
  <2>2. Len(requests') \in Nat /\ Len(requests') \in Ids'
    <3>1. /\ requests \in Seq([size : Sizes, immediate : BOOLEAN])
      BY DEF LineInv, ShapeInv
    <3>2. Len(requests') = Len(requests) + 1 /\ Len(requests) \in Nat
      BY <2>1, <3>1 DEF Submit
    <3> QED
      BY <3>2 DEF Ids
  <2>3. /\ client[c] = "idle" /\ owner["destructor"] = "idle" /\ accepting
        /\ client' = [client EXCEPT ![c] = "notify"]
        /\ mine' = [mine EXCEPT ![c] = Len(requests')]
        /\ UNCHANGED <<accepting, owner, dropped, worker>>
    BY <2>1 DEF Submit, Admissible, working, owners
  <2>4. \A d \in Clients : client'[d] # "idle" => mine'[d] \in Ids'
    <3> SUFFICES ASSUME NEW d \in Clients, client'[d] # "idle" PROVE mine'[d] \in Ids'
      OBVIOUS
    <3>1. CASE d = c
      BY <2>2, <2>3, <3>1
    <3>2. CASE d # c
      BY <2>3, <3>2
    <3> QED
      BY <3>1, <3>2
  <2>5. PlacesInv'
    BY <2>2, <2>3
  <2>6. OwnersInv'
    BY <2>3, <2>4
  <2>7. WakeupOwed'
    BY <2>3
  <2> QED
    BY <2>3, <2>5, <2>6, <2>7
<1>2. CASE Notify(c)
  <2>1. /\ client[c] = "notify" /\ client' = [client EXCEPT ![c] = "blocked"]
        /\ worker' = (IF worker = "asleep" THEN "check" ELSE worker)
        /\ UNCHANGED <<queue, accepting, mine, owner, dropped, requests>>
    BY <1>2 DEF Notify, Wake, shared, owners
  <2>2. PlacesInv'
    BY <2>1
  <2>3. OwnersInv'
    BY <2>1
  <2> QED
    BY <2>1, <2>2, <2>3
<1>3. CASE Return(c)
  <2>1. /\ client[c] = "blocked" /\ client' = [client EXCEPT ![c] = "idle"]
        /\ mine' = [mine EXCEPT ![c] = 0]
        /\ UNCHANGED <<queue, accepting, worker, owner, dropped, requests>>
    BY <1>3 DEF Return, working, shared, owners
  <2>2. PlacesInv'
    BY <2>1
  <2>3. OwnersInv'
    BY <2>1
  <2>4. \A d \in Clients : client[d] = "notify" => client'[d] = "notify"
    BY <2>1
  <2> QED
    BY <2>1, <2>2, <2>3, <2>4
<1> QED
  BY <1>1, <1>2, <1>3

\* The worker: it goes to sleep only with nothing to do.
LEMMA WakeWorker ==
  ASSUME WakeInv, Ids \subseteq Ids', LineInv', Worker \/ SpuriousWakeup \/ ScanThrows
  PROVE  WakeInv'
<1>1. UNCHANGED <<accepting, callers, owners>>
  BY DEF Worker, Sleep, Exit, TakeBatch, CountBatch, Scan, Complete, Fail, Answer, Rearm,
     SpuriousWakeup, ScanThrows, shared
<1>2. /\ worker' = "asleep" => queue' = <<>> /\ accepting'
      /\ worker' = "exited" => ~accepting'
      /\ worker' \in {"check", "asleep", "exited", "begin", "scan", "complete", "fail",
                      "answer", "reject"}
  BY DEF Worker, Sleep, Exit, TakeBatch, CountBatch, Scan, Complete, Fail, Answer, Rearm,
     SpuriousWakeup, ScanThrows, shared, WakeInv, PlacesInv
<1>3. PlacesInv' /\ OwnersInv'
  BY <1>1, <1>2 DEF WakeInv, PlacesInv, OwnersInv, callers, owners, Owners
<1> QED
  BY <1>1, <1>2, <1>3 DEF WakeInv

\* cancel() and the destructor: whoever stops the queue owes a wakeup until
\* it has given it.
LEMMA WakeOwner ==
  ASSUME WakeInv, Ids \subseteq Ids', LineInv', NEW o \in Owners, Owner(o)
  PROVE  WakeInv'
<1> USE DEF WakeInv, PlacesInv, OwnersInv, WakeupOwed, Owners
<1>1. CASE Cancel(o)
  <2>1. /\ MayStart(o) /\ accepting /\ accepting' = FALSE /\ queue' = <<>>
        /\ owner' = [owner EXCEPT ![o] = "settle"]
        /\ UNCHANGED <<worker, client, mine, requests>>
    BY <1>1 DEF Cancel, LeftInQueue, working, callers
  <2>2. PlacesInv'
    BY <2>1
  <2>3. OwnersInv' /\ WakeupOwed'
    BY <2>1 DEF MayStart
  <2> QED
    BY <2>1, <2>2, <2>3
<1>2. CASE CancelAgain(o)
  <2>1. /\ MayStart(o) /\ ~accepting /\ owner[o] = "idle"
        /\ owner' = [owner EXCEPT ![o] = AfterCancel(o)]
        /\ AfterCancel(o) \in {"join", "done"}
        /\ o # "destructor" => AfterCancel(o) = "done"
        /\ UNCHANGED <<worker, client, mine, requests, dropped, accepting, queue>>
    BY <1>2 DEF CancelAgain, MayStart, AfterCancel, working, callers, shared
  <2>2. PlacesInv'
    BY <2>1
  <2>3. \A p \in Owners : owner[p] = "settle" => owner'[p] = "settle"
    BY <2>1
  <2>4. OwnersInv'
    BY <2>1, <2>3 DEF MayStart
  <2> QED
    BY <2>1, <2>2, <2>3, <2>4
<1>3. CASE Drop(o)
  <2>1. UNCHANGED <<worker, client, mine, owner, requests, accepting, queue>> /\ owner[o] = "settle"
    BY <1>3 DEF Drop, working, callers, shared
  <2>2. PlacesInv'
    BY <2>1
  <2>3. OwnersInv'
    BY <2>1
  <2> QED
    BY <2>1, <2>2, <2>3
<1>4. CASE CancelNotify(o)
  <2>1. /\ owner[o] = "settle" /\ dropped = <<>>
        /\ worker' = (IF worker = "asleep" THEN "check" ELSE worker)
        /\ owner' = [owner EXCEPT ![o] = AfterCancel(o)]
        /\ AfterCancel(o) \in {"join", "done"}
        /\ o # "destructor" => AfterCancel(o) = "done"
        /\ UNCHANGED <<client, mine, requests, dropped, accepting, queue>>
    BY <1>4 DEF CancelNotify, AfterCancel, Wake, callers, shared
  <2>2. PlacesInv'
    BY <2>1
  <2>3. OwnersInv'
    BY <2>1
  <2> QED
    BY <2>1, <2>2, <2>3
<1> QED
  BY <1>1, <1>2, <1>3, <1>4 DEF Owner

LEMMA WakeStep == WakeInv /\ [Next]_vars => WakeInv'
<1> SUFFICES ASSUME WakeInv, [Next]_vars PROVE WakeInv'
  OBVIOUS
<1>0. Ids \subseteq Ids' /\ LineInv'
  BY IdsGrow, LineStep DEF WakeInv
<1>1. ASSUME NEW c \in Clients, (\E n \in Sizes : Submit(c, n)) \/ Notify(c) \/ Return(c)
      PROVE  WakeInv'
  BY <1>0, <1>1, WakeCallers
<1>2. CASE Worker \/ SpuriousWakeup \/ ScanThrows
  BY <1>0, <1>2, WakeWorker
<1>3. ASSUME NEW o \in Owners, Owner(o) PROVE WakeInv'
  BY <1>0, <1>3, WakeOwner
<1>4. CASE Join
  <2>1. /\ owner["destructor"] = "join" /\ owner' = [owner EXCEPT !["destructor"] = "gone"]
        /\ UNCHANGED <<worker, client, mine, requests, dropped, accepting, queue>>
    BY <1>4 DEF Join, working, callers, shared
  <2>2. PlacesInv' /\ \A p \in Owners : owner[p] = "settle" => owner'[p] = "settle"
    BY <2>1 DEF WakeInv, PlacesInv, Owners
  <2>3. OwnersInv'
    BY <2>1, <2>2 DEF WakeInv, OwnersInv, PlacesInv, Owners
  <2> QED
    BY <1>0, <2>1, <2>2, <2>3 DEF WakeInv, WakeupOwed
<1>5. CASE UNCHANGED vars
  BY <1>0, <1>5 DEF vars, shared, working, callers, owners, WakeInv, PlacesInv, OwnersInv,
     WakeupOwed
<1> QED
  BY <1>1, <1>2, <1>3, <1>4, <1>5 DEF Next, Owners

\* A batch can be cut from any queue that has a request: there is a largest
\* number of requests that may share a scan.
LEMMA BatchExists ==
  ASSUME Len(queue) \in Nat, Len(queue) # 0
  PROVE  \E n \in 1 .. Len(queue) : MayShare(n) /\ ~MayShare(n + 1)
<1> DEFINE shareable == {n \in Nat : MayShare(n + 1)}
<1> SUFFICES ASSUME \A n \in 1 .. Len(queue) : MayShare(n) => MayShare(n + 1) PROVE FALSE
  OBVIOUS
<1>1. 0 \in shareable
  BY DEF MayShare
<1>2. ASSUME NEW n \in shareable PROVE n + 1 \in shareable
  <2>1. MayShare(n + 1) /\ n + 1 <= Len(queue)
    BY DEF MayShare
  <2>2. n + 1 \in 1 .. Len(queue)
    BY <2>1
  <2> QED
    BY <2>1, <2>2
<1>3. Len(queue) \in shareable
  <2>1. shareable \in SUBSET Nat
    OBVIOUS
  <2> HIDE DEF shareable
  <2> QED
    BY <1>1, <1>2, <2>1, NaturalInduction
<1> QED
  BY <1>3 DEF MayShare

\* An awake worker has a step to take.
LEMMA AwakeMoves ==
  ASSUME WakeInv, worker \notin {"asleep", "exited"}
  PROVE  WorkerMoves
<1>1. queue \in Seq(Nat) /\ Len(queue) \in Nat /\ (Len(queue) = 0 => queue = <<>>)
  BY EmptySeq DEF WakeInv, LineInv, ShapeInv
<1>2. settled <= Len(batch)
  BY DEF WakeInv, LineInv, ShapeInv
<1>3. CASE worker = "check"
  BY <1>1, <1>3, BatchExists DEF WorkerMoves
<1>4. CASE worker # "check"
  BY <1>2, <1>4 DEF WakeInv, PlacesInv, WorkerMoves
<1> QED
  BY <1>3, <1>4

\* No caller is left behind by a lost wakeup, a worker that went away or a
\* cancel() that came in between: for every open promise somebody who will
\* settle it has a step to take (extract_curve_twist, State::run, cancel).
THEOREM NoLostWakeup == Spec => []NobodyStranded
<1>1. WakeInv => NobodyStranded
  <2> SUFFICES ASSUME WakeInv, NEW c \in Clients, client[c] = "blocked",
                      promise[mine[c]] = "open", ~WorkerMoves
               PROVE  WakeupOwed
    BY DEF NobodyStranded, WakeInv, PlacesInv
  <2>1. worker \in {"asleep", "exited"}
    BY AwakeMoves
  <2>2. mine[c] \in InHand \cup Doomed \cup Waiting
    BY DEF WakeInv, OwnersInv, LineInv, OrderInv, Settled
  <2>3. InHand = {}
    BY <2>1, EmptySeq DEF WakeInv, LineInv, ShapeInv, InHand
  <2>4. CASE mine[c] \in Doomed
    <3>1. dropped # <<>>
      BY <2>4 DEF Doomed
    <3> QED
      BY <3>1 DEF WakeInv, OwnersInv, WakeupOwed
  <2>5. CASE mine[c] \in Waiting
    <3>1. queue # <<>> /\ accepting
      BY <2>5 DEF Waiting, WakeInv, LineInv, ShapeInv
    <3> QED
      BY <2>1, <3>1 DEF WakeInv
  <2> QED
    BY <2>2, <2>3, <2>4, <2>5
<1> QED
  BY WakeInit, WakeStep, <1>1, PTL DEF Spec

\* The destructor never joins a sleeping worker: every wakeup it depends on
\* has been given by the time it waits (~State).
THEOREM JoinNotStuck == Spec => []JoinIsMet
<1>1. WakeInv => JoinIsMet
  <2> SUFFICES ASSUME WakeInv, owner["destructor"] = "join" PROVE JoinIsMet
    BY DEF JoinIsMet
  <2>1. ~accepting /\ queue = <<>>
    BY DEF WakeInv, OwnersInv, Owners, LineInv, ShapeInv
  <2>2. ~WakeupOwed
    BY DEF WakeInv, OwnersInv, WakeupOwed, Owners
  <2>3. worker # "asleep"
    BY <2>1, <2>2 DEF WakeInv
  <2> QED
    BY <2>1, <2>3, AwakeMoves DEF JoinIsMet
<1> QED
  BY WakeInit, WakeStep, <1>1, PTL DEF Spec

-----------------------------------------------------------------------------
(* Joining and cutting sequences.                                          *)

\* The recursive function FlattenSeq joins the sequences with.
Joins(f, seqs) ==
  f = [i \in 1 .. Len(seqs) |-> IF i = 1 THEN seqs[i] ELSE f[i - 1] \o seqs[i]]

\* FlattenSeq picks such a function and takes its last value.
LEMMA FlattenUnfolds ==
  ASSUME NEW seqs, Len(seqs) # 0
  PROVE  FlattenSeq(seqs) = (CHOOSE f : Joins(f, seqs))[Len(seqs)]
  BY Zenon DEF FlattenSeq, Joins

\* There is such a function.
LEMMA JoinsExists ==
  ASSUME NEW V, NEW n \in Nat, NEW seqs \in [1 .. n -> Seq(V)]
  PROVE  \E f : Joins(f, seqs)
<1> DEFINE Chain(f, m) ==
             \A i \in 1 .. m : f[i] = IF i = 1 THEN seqs[i] ELSE f[i - 1] \o seqs[i]
           reached == {m \in Nat : m <= n => \E f \in [1 .. m -> Seq(V)] : Chain(f, m)}
<1>1. 0 \in reached
  <2> DEFINE f == [i \in 1 .. 0 |-> <<>>]
  <2>1. f \in [1 .. 0 -> Seq(V)] /\ Chain(f, 0)
    OBVIOUS
  <2> QED
    BY <2>1
<1>2. ASSUME NEW m \in reached PROVE m + 1 \in reached
  <2> HIDE DEF Chain
  <2> SUFFICES ASSUME m + 1 <= n PROVE \E f \in [1 .. (m + 1) -> Seq(V)] : Chain(f, m + 1)
    OBVIOUS
  <2>1. PICK f \in [1 .. m -> Seq(V)] : Chain(f, m)
    OBVIOUS
  <2> USE DEF Chain
  <2> DEFINE last == IF m = 0 THEN seqs[1] ELSE f[m] \o seqs[m + 1]
             g == [i \in 1 .. (m + 1) |-> IF i = m + 1 THEN last ELSE f[i]]
  <2>2. last \in Seq(V)
    <3>1. CASE m = 0
      BY <3>1
    <3>2. CASE m # 0
      <4>1. m \in 1 .. m /\ m + 1 \in 1 .. n
        BY <3>2
      <4>2. f[m] \in Seq(V) /\ seqs[m + 1] \in Seq(V)
        BY <2>1, <4>1
      <4> QED
        BY <3>2, <4>2, ConcatProperties
    <3> QED
      BY <3>1, <3>2
  <2>3. g \in [1 .. (m + 1) -> Seq(V)]
    <3> HIDE DEF last
    <3> QED
      BY <2>1, <2>2
  <2>4. ASSUME NEW i \in 1 .. (m + 1)
        PROVE  g[i] = IF i = 1 THEN seqs[i] ELSE g[i - 1] \o seqs[i]
    <3>1. CASE i = m + 1
      <4>1. m # 0 => m \in 1 .. (m + 1) /\ m # m + 1
        OBVIOUS
      <4>2. g[i] = last /\ (m # 0 => g[m] = f[m])
        <5> HIDE DEF last
        <5> QED
          BY <3>1, <4>1
      <4> HIDE DEF g
      <4> QED
        BY <3>1, <4>2
    <3>2. CASE i # m + 1
      <4>1. i \in 1 .. m /\ (i # 1 => i - 1 \in 1 .. m /\ i - 1 \in 1 .. (m + 1) /\ i - 1 # m + 1)
        BY <3>2
      <4>2. g[i] = f[i] /\ (i # 1 => g[i - 1] = f[i - 1])
        <5> HIDE DEF last
        <5> QED
          BY <3>2, <4>1
      <4> HIDE DEF g
      <4> QED
        BY <2>1, <4>1, <4>2
    <3> QED
      BY <3>1, <3>2
  <2> HIDE DEF g
  <2> QED
    BY <2>3, <2>4
<1>3. reached = Nat
  <2>1. reached \in SUBSET Nat
    OBVIOUS
  <2> HIDE DEF reached
  <2> QED
    BY <1>1, <1>2, <2>1, NaturalInduction
<1>4. PICK f \in [1 .. n -> Seq(V)] : Chain(f, n)
  <2>1. n \in reached
    BY <1>3
  <2> QED
    BY <2>1
<1>5. Len(seqs) = n
  BY LenProperties
<1>6. f = [i \in 1 .. n |-> IF i = 1 THEN seqs[i] ELSE f[i - 1] \o seqs[i]]
  BY <1>4
<1> QED
  BY <1>5, <1>6 DEF Joins

\* FlattenSeq puts each sequence after all that come before it: P[k] is where
\* sequence k ends.
Borders(P, w, seqs, n, V) ==
  /\ n \in Nat /\ n > 0 /\ seqs \in [1 .. n -> Seq(V)]
  /\ \A k \in 1 .. n : w[k] = Len(seqs[k])
  /\ PrefixSums(P, w, n)

Joined(s, P, seqs, n, V) ==
  /\ s \in Seq(V) /\ Len(s) = P[n]
  /\ \A k \in 1 .. n : \A j \in 1 .. Len(seqs[k]) : s[P[k - 1] + j] = seqs[k][j]

\* Where each place of the joined sequence comes from.
LEMMA FlattenFacts ==
  ASSUME NEW P, NEW w, NEW seqs, NEW n, NEW V, Borders(P, w, seqs, n, V)
  PROVE  Joined(FlattenSeq(seqs), P, seqs, n, V)
<1>0. /\ n \in Nat /\ n > 0 /\ seqs \in [1 .. n -> Seq(V)]
      /\ \A k \in 1 .. n : w[k] = Len(seqs[k])
      /\ PrefixSums(P, w, n)
  BY DEF Borders
<1> USE <1>0
<1>1. Len(seqs) = n
  BY LenProperties
<1> DEFINE f == CHOOSE f : Joins(f, seqs)
<1>2. Joins(f, seqs)
  BY JoinsExists
<1>3. FlattenSeq(seqs) = f[n]
  BY <1>1, FlattenUnfolds
<1> HIDE DEF f
<1>4. \A i \in 1 .. n : f[i] = IF i = 1 THEN seqs[i] ELSE f[i - 1] \o seqs[i]
  BY <1>1, <1>2 DEF Joins
<1>5. /\ P[0] = 0 /\ \A k \in 0 .. n : P[k] \in Nat
      /\ \A k \in 1 .. n : P[k] = P[k - 1] + Len(seqs[k]) /\ Len(seqs[k]) \in Nat
  <2>1. \A k \in 1 .. n : Len(seqs[k]) \in Nat
    BY LenProperties
  <2> QED
    BY <2>1 DEF PrefixSums
<1>6. \A i, k \in 0 .. n : i <= k => P[i] <= P[k]
  <2>1. \A j \in 1 .. n : w[j] \in Nat
    BY <1>5
  <2> QED
    BY <2>1, PrefixSumsGrow
<1> DEFINE Placed(i) == /\ f[i] \in Seq(V) /\ Len(f[i]) = P[i]
                        /\ \A k \in 1 .. i : \A j \in 1 .. Len(seqs[k]) :
                             f[i][P[k - 1] + j] = seqs[k][j]
           T == {i \in Nat : i \in 1 .. n => Placed(i)}
<1>7. 0 \in T
  OBVIOUS
<1>8. ASSUME NEW i \in T PROVE i + 1 \in T
  <2> SUFFICES ASSUME i + 1 \in 1 .. n PROVE Placed(i + 1)
    OBVIOUS
  <2>1. CASE i = 0
    <3>1. f[1] = seqs[1] /\ P[1] = Len(seqs[1]) /\ P[0] = 0 /\ Len(seqs[1]) \in Nat
      BY <1>4, <1>5, <2>1
    <3> QED
      BY <2>1, <3>1
  <2>2. CASE i # 0
    <3>1. i \in 1 .. n /\ i \in 0 .. n /\ (i + 1) - 1 = i /\ i + 1 # 1
      BY <2>2
    <3>2. Placed(i)
      BY <3>1
    <3>3. f[i + 1] = f[i] \o seqs[i + 1] /\ P[i + 1] = P[i] + Len(seqs[i + 1])
      BY <1>4, <1>5, <3>1
    <3>4. seqs[i + 1] \in Seq(V) /\ P[i] \in Nat /\ Len(seqs[i + 1]) \in Nat
      BY <1>5, <3>1
    <3>5. /\ f[i + 1] \in Seq(V) /\ Len(f[i + 1]) = P[i + 1]
          /\ \A x \in 1 .. P[i + 1] :
               f[i + 1][x] = IF x <= P[i] THEN f[i][x] ELSE seqs[i + 1][x - P[i]]
      <4>1. f[i] \in Seq(V) /\ Len(f[i]) = P[i]
        BY <3>2
      <4> DEFINE a == f[i]
                 b == seqs[i + 1]
      <4> HIDE DEF a, b
      <4>2. a \in Seq(V) /\ b \in Seq(V) /\ Len(a) = P[i] /\ P[i + 1] = P[i] + Len(b)
            /\ f[i + 1] = a \o b
        BY <3>3, <3>4, <4>1 DEF a, b
      <4>3. /\ a \o b \in Seq(V) /\ Len(a \o b) = Len(a) + Len(b)
            /\ \A x \in 1 .. Len(a) + Len(b) :
                 (a \o b)[x] = IF x <= Len(a) THEN a[x] ELSE b[x - Len(a)]
        BY <4>2, ConcatProperties
      <4> QED
        BY <4>2, <4>3 DEF a, b
    <3>6. ASSUME NEW k \in 1 .. (i + 1), NEW j \in 1 .. Len(seqs[k])
          PROVE  f[i + 1][P[k - 1] + j] = seqs[k][j]
      <4>1. CASE k = i + 1
        <5>1. P[i] + j \in 1 .. P[i + 1] /\ ~(P[i] + j <= P[i]) /\ (P[i] + j) - P[i] = j
          BY <3>3, <3>4, <4>1
        <5> QED
          BY <3>1, <3>5, <4>1, <5>1
      <4>2. CASE k # i + 1
        <5>1. k \in 1 .. i /\ k \in 1 .. n /\ k \in 0 .. n /\ k - 1 \in 0 .. n /\ k <= i
          BY <3>1, <4>2
        <5>2. P[k] = P[k - 1] + Len(seqs[k]) /\ P[k - 1] \in Nat /\ Len(seqs[k]) \in Nat
              /\ P[k] <= P[i]
          BY <1>5, <1>6, <3>1, <5>1
        <5> DEFINE x == P[k - 1] + j
        <5>3. x \in 1 .. P[i + 1] /\ x <= P[i]
          <6> HIDE DEF T
          <6>1. j \in Nat /\ 1 <= j /\ j <= Len(seqs[k])
            BY <5>2
          <6>2. P[i + 1] \in Nat /\ P[i] <= P[i + 1]
            BY <3>3, <3>4
          <6>3. P[k] \in Nat /\ x \in Nat /\ 1 <= x /\ x <= P[k]
            BY <5>2, <6>1
          <6> HIDE DEF x
          <6> QED
            BY <3>4, <5>2, <6>2, <6>3
        <5>4. f[i][x] = seqs[k][j]
          BY <3>2, <5>1
        <5> HIDE DEF x
        <5>5. f[i + 1][x] = seqs[k][j]
          BY <3>5, <5>3, <5>4
        <5> QED
          BY <5>5 DEF x
      <4> QED
        BY <4>1, <4>2
    <3> QED
      BY <3>5, <3>6
  <2> QED
    BY <2>1, <2>2
<1>9. T = Nat
  <2>1. T \in SUBSET Nat
    OBVIOUS
  <2> HIDE DEF T
  <2> QED
    BY <1>7, <1>8, <2>1, NaturalInduction
<1>10. Placed(n)
  <2>1. n \in T
    <3> HIDE DEF T
    <3> QED
      BY <1>9
  <2>2. n \in 1 .. n
    OBVIOUS
  <2> HIDE DEF Placed
  <2> QED
    BY <2>1, <2>2
<1> QED
  BY <1>3, <1>10 DEF Joined

\* The chunks of n orders: all but the last are full, and they cut 1 .. n up.
ChunkStart(k) == (k - 1) * Cap

\* Chunks start Cap apart.
LEMMA StartFacts ==
  /\ ChunkStart(1) = 0
  /\ \A k \in Int : ChunkStart(k) \in Int /\ ChunkStart(k + 1) = ChunkStart(k) + Cap
  /\ \A j, k \in Int : j <= k => ChunkStart(j) <= ChunkStart(k)
<1> USE BoundAssumption
<1>1. ChunkStart(1) = 0
  BY DEF ChunkStart
<1>2. ASSUME NEW k \in Int
      PROVE  ChunkStart(k) \in Int /\ ChunkStart(k + 1) = ChunkStart(k) + Cap
  <2>1. (k + 1) - 1 = (k - 1) + 1
    OBVIOUS
  <2> QED
    BY <2>1 DEF ChunkStart
<1>3. ASSUME NEW j \in Int, NEW k \in Int, j <= k PROVE ChunkStart(j) <= ChunkStart(k)
  <2>1. (k - 1) * Cap = (j - 1) * Cap + (k - j) * Cap
    OBVIOUS
  <2>2. (k - j) * Cap >= 0
    BY <1>3
  <2>3. (k - 1) * Cap \in Int /\ (j - 1) * Cap \in Int /\ (k - j) * Cap \in Int
    OBVIOUS
  <2> QED
    BY <2>1, <2>2, <2>3 DEF ChunkStart
<1> QED
  BY <1>1, <1>2, <1>3

\* The prefix sums of the chunk sizes are where the chunks start, and every
\* order is in one of them.
Chunked(n, last, P) ==
  /\ last > 0 /\ DOMAIN ChunkSizes(n) = 1 .. last
  /\ \A k \in 1 .. last : /\ ChunkSizes(n)[k] \in Nat \ {0}
                          /\ ChunkStart(k) + ChunkSizes(n)[k] <= n
                          /\ ChunkStart(k) \in Nat
  /\ PrefixSums(P, ChunkSizes(n), last) /\ P[last] = n
  /\ \A k \in 1 .. last : P[k - 1] = ChunkStart(k)
  /\ \A x \in 1 .. n : \E k \in 1 .. last : \E j \in 1 .. ChunkSizes(n)[k] :
       x = ChunkStart(k) + j

\* There are such chunks.
LEMMA ChunkFacts ==
  ASSUME NEW n \in Nat, n > 0
  PROVE  \E last \in Nat : \E P \in [0 .. last -> Nat] : Chunked(n, last, P)
<1> USE BoundAssumption
<1> DEFINE c == ChunkSizes(n)
           last == (n + Cap - 1) \div Cap
<1>1. n + Cap - 1 \in Nat /\ Cap \in Nat /\ Cap > 0
  OBVIOUS
<1>2. PICK r \in 0 .. Cap - 1 : n + Cap - 1 = Cap * last + r /\ last \in Nat
  <2> DEFINE m == n + Cap - 1
  <2>1. m \in Nat /\ last = m \div Cap
    OBVIOUS
  <2> HIDE DEF m, last
  <2>2. m \div Cap \in Nat /\ m % Cap \in 0 .. Cap - 1 /\ m = Cap * (m \div Cap) + (m % Cap)
    BY <1>1, <2>1, DivFacts, Zenon
  <2> QED
    BY <2>1, <2>2 DEF m
<1>3. /\ DOMAIN c = 1 .. last
      /\ \A k \in 1 .. last : c[k] = IF Cap < n - ChunkStart(k) THEN Cap ELSE n - ChunkStart(k)
  BY DEF ChunkSizes, ChunkStart
<1> HIDE DEF c, last
<1>4. ChunkStart(last) + r + 1 = n /\ ChunkStart(last + 1) >= n
  <2>1. Cap * last = ChunkStart(last) + Cap /\ ChunkStart(last) \in Int
    BY <1>2 DEF ChunkStart
  <2>2. ChunkStart(last + 1) = ChunkStart(last) + Cap
    BY <1>2, StartFacts
  <2> QED
    BY <1>1, <1>2, <2>1, <2>2
<1>5. last > 0
  <2>1. last = 0 => Cap * last = 0
    OBVIOUS
  <2> QED
    BY <1>1, <1>2, <2>1
<1>6. ASSUME NEW k \in 1 .. last
      PROVE  /\ ChunkStart(k) \in Nat
             /\ k < last => c[k] = Cap /\ ChunkStart(k + 1) < n
             /\ k = last => c[k] = r + 1
  <2>1. ChunkStart(k) \in Int /\ ChunkStart(k) >= 0 /\ ChunkStart(k + 1) = ChunkStart(k) + Cap
    <3>1. 1 \in Int /\ k \in Int /\ 1 <= k
      BY <1>2
    <3>2. ChunkStart(1) <= ChunkStart(k)
      BY <3>1, StartFacts, Zenon
    <3> QED
      BY <3>1, <3>2, StartFacts
  <2>2. ASSUME k < last PROVE c[k] = Cap /\ ChunkStart(k + 1) < n
    <3>1. k + 1 <= last /\ k + 1 \in Int /\ last \in Int
      BY <1>2, <2>2
    <3>2. ChunkStart(k + 1) <= ChunkStart(last) /\ ChunkStart(last) \in Int
      BY <3>1, StartFacts
    <3> QED
      BY <1>2, <1>3, <1>4, <2>1, <3>2
  <2>3. ASSUME k = last PROVE c[k] = r + 1
    BY <1>2, <1>3, <1>4, <2>1, <2>3
  <2> QED
    BY <2>1, <2>2, <2>3
<1>7. ASSUME NEW k \in 1 .. last
      PROVE  c[k] \in Nat \ {0} /\ ChunkStart(k) + c[k] <= n
  <2>1. CASE k = last
    BY <1>2, <1>4, <1>6, <2>1
  <2>2. CASE k < last
    <3>1. ChunkStart(k + 1) = ChunkStart(k) + Cap /\ ChunkStart(k) \in Int
      BY StartFacts
    <3> QED
      BY <1>1, <1>6, <2>2, <3>1
  <2> QED
    BY <1>2, <2>1, <2>2
<1> DEFINE P == [k \in 0 .. last |-> IF k < last THEN ChunkStart(k + 1) ELSE n]
<1>8. ASSUME NEW k \in 1 .. last PROVE P[k - 1] = ChunkStart(k)
  <2>1. k - 1 \in 0 .. last /\ k - 1 < last /\ (k - 1) + 1 = k
    BY <1>2
  <2> QED
    BY <2>1
<1>9. P[last] = n
  BY <1>2
<1>10. PrefixSums(P, c, last)
  <2>1. P \in [0 .. last -> Nat]
    <3>1. ASSUME NEW k \in 0 .. last, k < last PROVE ChunkStart(k + 1) \in Nat
      <4>1. k + 1 \in 1 .. last
        BY <1>2, <3>1
      <4> QED
        BY <1>6, <4>1
    <3> QED
      BY <3>1
  <2>2. P[0] = 0
    BY <1>2, <1>5, StartFacts
  <2>3. ASSUME NEW j \in 1 .. last PROVE P[j] = P[j - 1] + c[j]
    <3>1. P[j - 1] = ChunkStart(j) /\ ChunkStart(j) \in Nat /\ c[j] \in Nat
      BY <1>6, <1>7, <1>8
    <3>2. CASE j < last
      <4>1. P[j] = ChunkStart(j + 1) /\ ChunkStart(j + 1) = ChunkStart(j) + Cap
        BY <3>2, StartFacts
      <4> HIDE DEF P
      <4> QED
        BY <1>6, <3>1, <3>2, <4>1
    <3>3. CASE j = last
      <4> HIDE DEF P
      <4> QED
        BY <1>2, <1>4, <1>6, <1>9, <3>1, <3>3
    <3> QED
      BY <1>2, <3>2, <3>3
  <2> HIDE DEF P
  <2> QED
    BY <2>1, <2>2, <2>3 DEF PrefixSums
<1>11. ASSUME NEW x \in 1 .. n
       PROVE  \E k \in 1 .. last : \E j \in 1 .. c[k] : x = ChunkStart(k) + j
  <2>1. x - 1 \in Nat
    OBVIOUS
  <2>2. PICK q \in Nat, s \in 0 .. Cap - 1 : x - 1 = Cap * q + s
    <3> DEFINE y == x - 1
    <3> HIDE DEF y
    <3>1. y \in Nat
      BY <2>1 DEF y
    <3>2. y \div Cap \in Nat /\ y % Cap \in 0 .. Cap - 1 /\ y = Cap * (y \div Cap) + (y % Cap)
      BY <1>1, <3>1, DivFacts, Zenon
    <3> QED
      BY <3>2 DEF y
  <2>3. Cap * q = ChunkStart(q + 1) /\ ChunkStart(q + 1) \in Int
    BY DEF ChunkStart
  <2>4. x = ChunkStart(q + 1) + (s + 1)
    BY <2>2, <2>3
  <2>5. q + 1 <= last
    <3> SUFFICES ASSUME last + 1 <= q + 1 PROVE FALSE
      BY <1>2
    <3>1. ChunkStart(last + 1) <= ChunkStart(q + 1) /\ ChunkStart(last + 1) \in Int
      <4>1. last + 1 \in Int /\ q + 1 \in Int
        BY <1>2
      <4> QED
        BY <4>1, StartFacts, Zenon
    <3> QED
      BY <1>4, <2>3, <2>4, <3>1
  <2>6. q + 1 \in 1 .. last
    BY <1>2, <2>5
  <2>7. s + 1 \in 1 .. c[q + 1]
    <3>1. CASE q + 1 < last
      BY <1>1, <1>6, <2>6, <3>1
    <3>2. CASE q + 1 = last
      BY <1>2, <1>4, <1>6, <2>3, <2>4, <2>6, <3>2
    <3> QED
      BY <1>2, <2>5, <3>1, <3>2
  <2> QED
    BY <2>4, <2>6, <2>7
<1> HIDE DEF P
<1>12. Chunked(n, last, P)
  BY <1>2, <1>3, <1>5, <1>6, <1>7, <1>8, <1>9, <1>10, <1>11 DEF c, Chunked
<1>13. last \in Nat /\ P \in [0 .. last -> Nat]
  BY <1>2, <1>10 DEF PrefixSums
<1> HIDE DEF last
<1> QED
  BY <1>12, <1>13

\* A function on 1 .. n is a sequence of length n.
LEMMA FunctionIsSeq ==
  ASSUME NEW V, NEW n \in Nat, NEW s \in [1 .. n -> V]
  PROVE  s \in Seq(V) /\ Len(s) = n /\ DOMAIN s = 1 .. n
OBVIOUS

\* A stretch of a sequence.
IsStretch(t, s, from, l, V) ==
  t \in Seq(V) /\ Len(t) = l /\ \A j \in 1 .. l : t[j] = s[from + j]

\* SubSeq cuts out a stretch.
LEMMA StretchFacts ==
  ASSUME NEW V, NEW s \in Seq(V), NEW from \in Nat, NEW l \in Nat, l > 0, from + l <= Len(s)
  PROVE  IsStretch(SubSeq(s, from + 1, from + l), s, from, l, V)
<1> DEFINE a == from + 1
           b == from + l
<1>1. a \in Int /\ b \in Int /\ a <= b /\ b - a + 1 = l /\ Len(s) \in Nat
  BY LenProperties
<1>2. \A x \in a .. b : s[x] \in V
  <2>1. \A x \in a .. b : x \in 1 .. Len(s)
    BY <1>1
  <2> QED
    BY <2>1, ElementOfSeq
<1>3. \A j \in 1 .. l : a + j - 1 = from + j
  OBVIOUS
<1> HIDE DEF a, b
<1>4. /\ SubSeq(s, a, b) \in Seq(V)
      /\ Len(SubSeq(s, a, b)) = IF a <= b THEN b - a + 1 ELSE 0
      /\ \A i \in 1 .. b - a + 1 : SubSeq(s, a, b)[i] = s[a + i - 1]
  BY <1>1, <1>2, SubSeqProperties
<1>5. /\ SubSeq(s, a, b) \in Seq(V) /\ Len(SubSeq(s, a, b)) = l
      /\ \A j \in 1 .. l : SubSeq(s, a, b)[j] = s[from + j]
  BY <1>1, <1>3, <1>4
<1> QED
  BY <1>5 DEF a, b, IsStretch

\* Extracting chunk by chunk gives what extracting at once gives.
LEMMA ExtractsAll ==
  ASSUME NEW V, NEW s \in Seq(V), Len(s) > 0
  PROVE  Extract(s) = s
<1> DEFINE n == Len(s)
           c == ChunkSizes(n)
<1>1. n \in Nat /\ n > 0 /\ DOMAIN s = 1 .. n /\ \A x \in 1 .. n : s[x] \in V
  BY LenProperties, ElementOfSeq
<1>a. PICK last \in Nat : \E P \in [0 .. last -> Nat] : Chunked(n, last, P)
  <2> HIDE DEF n
  <2> QED
    BY <1>1, ChunkFacts
<1>b. PICK P \in [0 .. last -> Nat] : Chunked(n, last, P)
  BY <1>a
<1>2. /\ last > 0 /\ DOMAIN c = 1 .. last
      /\ \A k \in 1 .. last : /\ c[k] \in Nat \ {0}
                              /\ ChunkStart(k) + c[k] <= n
                              /\ ChunkStart(k) \in Nat
      /\ PrefixSums(P, c, last) /\ P[last] = n
      /\ \A k \in 1 .. last : P[k - 1] = ChunkStart(k)
      /\ \A x \in 1 .. n : \E k \in 1 .. last : \E j \in 1 .. c[k] :
           x = ChunkStart(k) + j
  BY <1>b DEF Chunked
<1> DEFINE chunks == [k \in 1 .. last |-> SubSeq(s, ChunkStart(k) + 1, ChunkStart(k) + c[k])]
<1>3. Extract(s) = FlattenSeq(chunks)
  BY <1>2 DEF Extract, ChunkStart
<1> HIDE DEF n, c
<1>4. ASSUME NEW k \in 1 .. last
      PROVE  /\ chunks[k] \in Seq(V) /\ Len(chunks[k]) = c[k]
             /\ \A j \in 1 .. c[k] : chunks[k][j] = s[ChunkStart(k) + j]
  <2>1. /\ ChunkStart(k) \in Nat /\ c[k] \in Nat /\ c[k] > 0
        /\ ChunkStart(k) + c[k] <= Len(s)
    BY <1>2 DEF n
  <2>2. chunks[k] = SubSeq(s, ChunkStart(k) + 1, ChunkStart(k) + c[k])
    OBVIOUS
  <2> DEFINE from == ChunkStart(k)
             l == c[k]
  <2> HIDE DEF from, l
  <2>3. from \in Nat /\ l \in Nat /\ l > 0 /\ from + l <= Len(s)
    BY <2>1 DEF from, l
  <2>4. IsStretch(SubSeq(s, from + 1, from + l), s, from, l, V)
    BY <2>3, StretchFacts, Zenon
  <2> HIDE DEF chunks
  <2> QED
    BY <2>2, <2>4 DEF from, l, IsStretch
<1>5. chunks \in [1 .. last -> Seq(V)] /\ \A k \in 1 .. last : c[k] = Len(chunks[k])
  BY <1>4
<1> HIDE DEF chunks
<1>6. Joined(FlattenSeq(chunks), P, chunks, last, V)
  <2>1. Borders(P, c, chunks, last, V)
    BY <1>2, <1>5 DEF Borders
  <2> QED
    BY <2>1, FlattenFacts, Zenon
<1>7. ASSUME NEW x \in 1 .. n PROVE FlattenSeq(chunks)[x] = s[x]
  <2>1. PICK k \in 1 .. last : \E j \in 1 .. c[k] : x = ChunkStart(k) + j
    BY <1>2
  <2>2. PICK j \in 1 .. c[k] : x = ChunkStart(k) + j
    BY <2>1
  <2>3. FlattenSeq(chunks)[P[k - 1] + j] = chunks[k][j]
    BY <1>5, <1>6 DEF Joined
  <2> QED
    BY <1>2, <1>4, <2>2, <2>3
<1>8. FlattenSeq(chunks) = s
  <2>1. FlattenSeq(chunks) \in Seq(V) /\ Len(FlattenSeq(chunks)) = n
    BY <1>2, <1>6 DEF Joined
  <2> QED
    BY <1>7, <2>1, SeqEqual DEF n
<1> QED
  BY <1>3, <1>8

-----------------------------------------------------------------------------
(* How many orders a list of requests has.                                 *)

OrderSums(f, rs) ==
  f = [s \in SUBSET DOMAIN rs |->
         IF s = {} THEN 0 ELSE 2 * requests[rs[Pick(s)]].size + f[Others(s)]]

\* OrderCount picks the sum over the requests of a batch.
LEMMA OrderCountUnfolds ==
  ASSUME NEW rs
  PROVE  OrderCount(rs) = (CHOOSE f : OrderSums(f, rs))[DOMAIN rs]
  BY Zenon DEF OrderCount, MapThenSumSet, MapThenFoldSet, OrderSums, Pick, Others

\* It is the sum of what each of them has.
Weighs(w, rs, n) ==
  /\ DOMAIN rs = 1 .. n
  /\ \A j \in 1 .. n : w[j] \in Nat /\ w[j] = 2 * requests[rs[j]].size

\* So it is the prefix sum of the weights.
LEMMA OrderCountAdds ==
  ASSUME NEW n \in Nat, NEW rs, NEW w, Weighs(w, rs, n),
         NEW m \in Nat, n <= m, NEW P, PrefixSums(P, w, m)
  PROVE  OrderCount(rs) = P[n]
<1>0. /\ DOMAIN rs = 1 .. n
      /\ \A j \in 1 .. n : w[j] \in Nat /\ w[j] = 2 * requests[rs[j]].size
  BY DEF Weighs
<1> DEFINE sum == CHOOSE f : OrderSums(f, rs)
<1>1. ASSUME NEW S, S = DOMAIN rs, IsFiniteSet(S), NEW v \in [S -> Nat],
             \A j \in S : v[j] = 2 * requests[rs[j]].size
      PROVE  IsSum(sum, v, S)
  <2>1. PICK g \in [SUBSET S -> Nat] : IsSum(g, v, S)
    <3>1. \A u \in [S -> Nat] : \E g \in [SUBSET S -> Nat] : IsSum(g, u, S)
      BY <1>1, SumExists
    <3> QED
      BY <3>1
  <2>2. \A s \in SUBSET S : s # {} => Pick(s) \in S
    BY DEF Pick
  <2>3. OrderSums(g, rs)
    <3>1. ASSUME NEW s \in SUBSET S
          PROVE  g[s] = IF s = {} THEN 0 ELSE 2 * requests[rs[Pick(s)]].size + g[Others(s)]
      BY <1>1, <2>1, <2>2 DEF IsSum, SumStep
    <3>2. g = [s \in SUBSET S |->
                 IF s = {} THEN 0 ELSE 2 * requests[rs[Pick(s)]].size + g[Others(s)]]
      BY <3>1
    <3> QED
      BY <1>1, <3>2 DEF OrderSums
  <2>4. OrderSums(sum, rs)
    BY <2>3
  <2> HIDE DEF sum
  <2>5. \A s \in SUBSET S :
          sum[s] = IF s = {} THEN 0 ELSE 2 * requests[rs[Pick(s)]].size + sum[Others(s)]
    BY <1>1, <2>4 DEF OrderSums
  <2> QED
    BY <1>1, <2>2, <2>5 DEF IsSum, SumStep
<1>2. OrderCount(rs) = sum[1 .. n]
  BY <1>0, OrderCountUnfolds
<1> HIDE DEF sum
<1> DEFINE v == [j \in 1 .. n |-> w[j]]
<1>3. v \in [1 .. n -> Nat] /\ \A j \in 1 .. n : v[j] = 2 * requests[rs[j]].size /\ v[j] = w[j]
  BY <1>0
<1>4. IsFiniteSet(1 .. n)
  BY FS_Interval
<1> HIDE DEF v
<1>5. IsSum(sum, v, 1 .. n)
  BY <1>0, <1>1, <1>3, <1>4
<1>6. Accumulates(sum, v, n)
  <2>1. v \in [1 .. n -> Nat]
    BY <1>3
  <2> QED
    BY <1>4, <1>5, <2>1, IntervalSum, Zenon
<1> DEFINE F == [j \in 0 .. n |-> sum[1 .. j]]
<1>7. F[0] = 0 /\ \A j \in 1 .. n : F[j] = F[j - 1] + w[j]
  BY <1>3, <1>6 DEF Accumulates
<1>8. F[n] = sum[1 .. n]
  OBVIOUS
<1> HIDE DEF F
<1>9. F[n] = P[n]
  <2>1. n \in 0 .. m
    OBVIOUS
  <2> QED
    BY <1>7, <2>1, PrefixSumIsOnly
<1> QED
  BY <1>2, <1>8, <1>9

-----------------------------------------------------------------------------
(* A scan.                                                                 *)

\* Every request of the batch gets the parts of its own orders.
LEMMA GroupsAreOwn ==
  ASSUME NEW rs \in Seq(Nat), requests \in Seq([size : Sizes, immediate : BOOLEAN]),
         \A k \in DOMAIN rs : rs[k] \in Ids
  PROVE  Groups(rs) = [k \in DOMAIN rs |-> OrdersOf(rs[k])]
<1> DEFINE n == Len(rs)
           V == Nat \X Nat
           w == [k \in 1 .. n |-> 2 * requests[rs[k]].size]
           seqs == [k \in 1 .. n |-> OrdersOf(rs[k])]
           parts == FlattenSeq(seqs)
           offset(k) == OrderCount(SubSeq(rs, 1, k - 1))
<1>1. n \in Nat /\ DOMAIN rs = 1 .. n /\ \A k \in 1 .. n : rs[k] \in Nat
  BY LenProperties, ElementOfSeq
<1>2. \A k \in 1 .. n : requests[rs[k]].size \in Nat \ {0}
  <2> SUFFICES ASSUME NEW k \in 1 .. n PROVE requests[rs[k]].size \in Nat \ {0}
    OBVIOUS
  <2>1. rs[k] \in 1 .. Len(requests)
    BY <1>1 DEF Ids
  <2>2. requests[rs[k]] \in [size : Sizes, immediate : BOOLEAN]
    BY <2>1, ElementOfSeq
  <2> QED
    BY <2>2, SizeAssumption
<1>3. ASSUME NEW k \in 1 .. n
      PROVE  /\ OrdersOf(rs[k]) \in Seq(V) /\ Len(OrdersOf(rs[k])) = w[k] /\ w[k] \in Nat \ {0}
             /\ DOMAIN OrdersOf(rs[k]) = 1 .. w[k]
             /\ w[k] = 2 * requests[rs[k]].size
  <2>1. w[k] = 2 * requests[rs[k]].size /\ w[k] \in Nat \ {0}
    BY <1>2
  <2>2. OrdersOf(rs[k]) = [j \in 1 .. w[k] |-> <<rs[k], j>>]
    BY <2>1 DEF OrdersOf
  <2> HIDE DEF w
  <2>3. OrdersOf(rs[k]) \in [1 .. w[k] -> V]
    BY <1>1, <2>1, <2>2
  <2> HIDE DEF V
  <2> QED
    BY <2>1, <2>3, FunctionIsSeq
<1>4. Groups(rs) = [k \in 1 .. n |->
                      SubSeq(Extract(parts), offset(k) + 1,
                             offset(k) + 2 * requests[rs[k]].size)]
  BY <1>1 DEF Groups
<1> DEFINE P == CHOOSE Q : PrefixSums(Q, w, n)
<1>5. PrefixSums(P, w, n)
  <2>1. w \in [1 .. n -> Nat]
    BY <1>3
  <2> HIDE DEF w, n
  <2>2. \E Q : PrefixSums(Q, w, n)
    BY <1>1, <2>1, PrefixSumsExist
  <2> QED
    BY <2>2
<1> HIDE DEF w, n, V, parts, offset, P
<1>6. ASSUME NEW k \in 1 .. n PROVE offset(k) = P[k - 1]
  <2>1. k - 1 \in Nat /\ k - 1 <= n /\ k - 1 \in 0 .. n
    BY <1>1
  <2> DEFINE m == k - 1
             front == SubSeq(rs, 1, m)
  <2>2. /\ front \in Seq(Nat) /\ Len(front) = m
        /\ \A i \in 1 .. m : front[i] = rs[i]
    <3> HIDE DEF m
    <3>1. m \in Int /\ m >= 0 /\ \A i \in 1 .. m : rs[i] \in Nat
      BY <1>1, <2>1 DEF m
    <3> QED
      BY <3>1, SubSeqProperties
  <2>3. DOMAIN front = 1 .. m
    BY <2>2, LenProperties
  <2>4. \A j \in 1 .. m : w[j] \in Nat /\ w[j] = 2 * requests[front[j]].size
    BY <1>1, <1>3, <2>2
  <2>5. offset(k) = OrderCount(front)
    BY DEF offset
  <2> HIDE DEF front
  <2>6. Weighs(w, front, m) /\ m \in Nat /\ m <= n
    BY <2>1, <2>3, <2>4 DEF Weighs
  <2> HIDE DEF m
  <2>7. OrderCount(front) = P[m]
    BY <1>1, <1>5, <2>6, OrderCountAdds, Zenon
  <2> QED
    BY <2>5, <2>7 DEF m
<1>7. ASSUME n > 0, NEW k \in 1 .. n
      PROVE  SubSeq(Extract(parts), offset(k) + 1, offset(k) + 2 * requests[rs[k]].size)
               = OrdersOf(rs[k])
  <2>1. seqs \in [1 .. n -> Seq(V)] /\ \A i \in 1 .. n : w[i] = Len(seqs[i])
    BY <1>3
  <2>2. /\ parts \in Seq(V) /\ Len(parts) = P[n]
        /\ \A i \in 1 .. n : \A j \in 1 .. w[i] : parts[P[i - 1] + j] = OrdersOf(rs[i])[j]
    <3> HIDE DEF seqs
    <3>1. Borders(P, w, seqs, n, V)
      BY <1>1, <1>5, <1>7, <2>1 DEF Borders
    <3>2. Joined(parts, P, seqs, n, V)
      BY <3>1, FlattenFacts, Zenon DEF parts
    <3>3. \A i \in 1 .. n : seqs[i] = OrdersOf(rs[i])
      BY DEF seqs
    <3> QED
      BY <2>1, <3>2, <3>3 DEF Joined
  <2>3. /\ P[k] = P[k - 1] + w[k] /\ P[k - 1] \in Nat /\ P[k] \in Nat /\ P[k] <= P[n]
        /\ w[k] \in Nat \ {0} /\ P[n] \in Nat
    <3>1. \A j \in 1 .. n : w[j] \in Nat
      BY <1>3
    <3>2. P[k] <= P[n]
      BY <1>1, <1>5, <3>1, PrefixSumsGrow
    <3> QED
      BY <1>1, <1>3, <1>5, <3>2 DEF PrefixSums
  <2>4. Extract(parts) = parts
    BY <2>2, <2>3, ExtractsAll
  <2> DEFINE own == SubSeq(parts, P[k - 1] + 1, P[k - 1] + w[k])
  <2>5. P[k - 1] + w[k] <= Len(parts) /\ w[k] > 0 /\ w[k] \in Nat
    BY <2>2, <2>3
  <2>6. /\ own \in Seq(V) /\ Len(own) = w[k]
        /\ \A j \in 1 .. w[k] : own[j] = parts[P[k - 1] + j]
    <3> DEFINE from == P[k - 1]
               l == w[k]
    <3> HIDE DEF from, l
    <3>1. from \in Nat /\ l \in Nat /\ l > 0 /\ from + l <= Len(parts) /\ parts \in Seq(V)
      BY <2>2, <2>3, <2>5 DEF from, l
    <3>2. IsStretch(SubSeq(parts, from + 1, from + l), parts, from, l, V)
      BY <3>1, StretchFacts, Zenon
    <3> QED
      BY <3>2 DEF from, l, IsStretch
  <2> HIDE DEF own
  <2>7. own = OrdersOf(rs[k])
    <3>1. \A j \in 1 .. w[k] : own[j] = OrdersOf(rs[k])[j]
      BY <2>2, <2>6
    <3> DEFINE o == OrdersOf(rs[k])
    <3>2. o \in Seq(V) /\ Len(o) = w[k] /\ \A j \in 1 .. w[k] : own[j] = o[j]
      BY <1>3, <3>1
    <3> HIDE DEF o
    <3>3. own = o
      BY <2>6, <3>2, SeqEqual
    <3> QED
      BY <3>3 DEF o
  <2> QED
    BY <1>3, <1>6, <2>4, <2>7 DEF own
<1>8. \A k \in 1 .. n :
        SubSeq(Extract(parts), offset(k) + 1, offset(k) + 2 * requests[rs[k]].size)
          = OrdersOf(rs[k])
  BY <1>1, <1>7
<1> QED
  BY <1>1, <1>4, <1>8
-----------------------------------------------------------------------------
(* OwnAnswer.  The invariant adds what the worker has in hand: its batch   *)
(* names requests, and from the scan to the last answer its results are    *)
(* the parts of their orders.                                              *)

HandInv ==
  /\ \A k \in DOMAIN batch : batch[k] \in Ids
  /\ worker \in {"complete", "answer"}
       => results = [k \in DOMAIN batch |-> OrdersOf(batch[k])]

AnswerInv ==
  /\ LineInv
  /\ answer \in Seq(Seq(Nat \X Nat)) /\ Len(answer) = Len(requests)
  /\ HandInv /\ OwnAnswer

\* Nothing has been asked or answered.
LEMMA AnswerInit == Init => AnswerInv
<1> SUFFICES ASSUME Init PROVE AnswerInv
  OBVIOUS
<1>1. LineInv
  BY LineInit
<1>2. answer \in Seq(Seq(Nat \X Nat)) /\ Len(answer) = Len(requests)
  BY EmptySeq DEF Init
<1>3. HandInv
  BY DEF Init, HandInv
<1>4. OwnAnswer
  BY DEF Init, OwnAnswer, Settled, Ids
<1> QED
  BY <1>1, <1>2, <1>3, <1>4 DEF AnswerInv

\* The orders of a request are a sequence of orders.
LEMMA OrdersTyped ==
  ASSUME LineInv, NEW r \in Ids
  PROVE  OrdersOf(r) \in Seq(Nat \X Nat)
<1> DEFINE n == 2 * requests[r].size
<1>1. requests \in Seq([size : Sizes, immediate : BOOLEAN]) /\ r \in 1 .. Len(requests)
  BY DEF LineInv, ShapeInv, Ids
<1>2. requests[r] \in [size : Sizes, immediate : BOOLEAN]
  BY <1>1, ElementOfSeq
<1>3. n \in Nat /\ r \in Nat
  <2>1. requests[r].size \in Nat
    BY <1>2, SizeAssumption
  <2>2. r \in Nat
    BY <1>1, LenProperties
  <2> QED
    BY <2>1, <2>2
<1>4. OrdersOf(r) = [j \in 1 .. n |-> <<r, j>>]
  BY DEF OrdersOf
<1> HIDE DEF n
<1>5. OrdersOf(r) \in [1 .. n -> Nat \X Nat]
  BY <1>3, <1>4
<1> QED
  BY <1>3, <1>5, FunctionIsSeq

\* Steps that touch neither answers nor what the worker has in hand.
LEMMA AnswerKept ==
  ASSUME AnswerInv, LineInv', UNCHANGED <<requests, answer, batch, results>>,
         Settled("value")' = Settled("value"),
         worker' \in {"complete", "answer"} => worker \in {"complete", "answer"}
  PROVE  AnswerInv'
<1>1. answer' \in Seq(Seq(Nat \X Nat)) /\ Len(answer') = Len(requests')
  BY DEF AnswerInv
<1>2. HandInv'
  BY DEF AnswerInv, HandInv, OrdersOf, Ids
<1>3. OwnAnswer'
  BY DEF AnswerInv, OwnAnswer, OrdersOf
<1> QED
  BY <1>1, <1>2, <1>3 DEF AnswerInv

\* The same when no promise moves either.
LEMMA AnswerUntouched ==
  ASSUME AnswerInv, LineInv', UNCHANGED <<requests, promise, answer, batch, results>>,
         worker' \in {"complete", "answer"} => worker \in {"complete", "answer"}
  PROVE  AnswerInv'
<1>1. Settled("value")' = Settled("value")
  BY DEF Settled, Ids
<1> QED
  BY <1>1, AnswerKept

\* A submission: earlier requests, their answers and the batch are as before.
LEMMA AnswerSubmit ==
  ASSUME AnswerInv, LineInv', NEW c \in Clients, NEW n \in Sizes, Submit(c, n)
  PROVE  AnswerInv'
<1> DEFINE new == Len(requests) + 1
<1>1. /\ requests \in Seq([size : Sizes, immediate : BOOLEAN])
      /\ promise \in Seq(OutcomeKinds) /\ Len(promise) = Len(requests)
      /\ answer \in Seq(Seq(Nat \X Nat)) /\ Len(answer) = Len(requests)
      /\ Len(requests) \in Nat
  BY DEF AnswerInv, LineInv, ShapeInv
<1>2. /\ Len(requests') = new
      /\ \A r \in Ids : requests'[r] = requests[r]
  <2>1. [size |-> n, immediate |-> StartsAtOnce] \in [size : Sizes, immediate : BOOLEAN]
    BY DEF StartsAtOnce
  <2> QED
    BY <1>1, <2>1, AppendProperties DEF Submit, Ids
<1>3. promise'[new] = "open" /\ \A r \in Ids : promise'[r] = promise[r]
  <2>1. promise' = Append(promise, "open") /\ "open" \in OutcomeKinds
    BY DEF Submit, OutcomeKinds
  <2> QED
    BY <1>1, <2>1, AppendProperties DEF Ids
<1>4. /\ answer' \in Seq(Seq(Nat \X Nat)) /\ Len(answer') = new
      /\ \A r \in Ids : answer'[r] = answer[r]
  <2>1. answer' = Append(answer, <<>>) /\ <<>> \in Seq(Nat \X Nat)
    BY EmptySeq DEF Submit
  <2> QED
    BY <1>1, <2>1, AppendProperties DEF Ids
<1>5. Ids' = Ids \cup {new} /\ new \notin Ids
  BY <1>1, <1>2 DEF Ids
<1>6. \A r \in Ids : OrdersOf(r)' = OrdersOf(r)
  BY <1>2 DEF OrdersOf
<1>7. Settled("value")' = Settled("value")
  BY <1>3, <1>5 DEF Settled
<1>8. UNCHANGED <<worker, batch, results>>
  BY DEF Submit, working
<1>9. HandInv'
  <2>1. \A k \in DOMAIN batch' : batch'[k] \in Ids'
    BY <1>5, <1>8 DEF AnswerInv, HandInv
  <2>2. ASSUME worker' \in {"complete", "answer"}
        PROVE  results' = [k \in DOMAIN batch |-> OrdersOf(batch[k])]'
    <3>1. results = [k \in DOMAIN batch |-> OrdersOf(batch[k])]
      BY <1>8, <2>2 DEF AnswerInv, HandInv
    <3>2. \A k \in DOMAIN batch : OrdersOf(batch[k])' = OrdersOf(batch[k])
      BY <1>2, <1>8 DEF AnswerInv, HandInv, OrdersOf
    <3> QED
      BY <1>8, <3>1, <3>2
  <2> QED
    BY <2>1, <2>2 DEF HandInv
<1>10. OwnAnswer'
  <2>1. \A r \in Settled("value") : r \in Ids
    BY DEF Settled
  <2> QED
    BY <1>4, <1>6, <1>7, <2>1 DEF AnswerInv, OwnAnswer
<1> QED
  BY <1>2, <1>4, <1>9, <1>10 DEF AnswerInv

\* A batch is taken from the queue, so it names requests.
LEMMA AnswerTakeBatch ==
  ASSUME AnswerInv, LineInv', TakeBatch
  PROVE  AnswerInv'
<1>1. PICK n \in 1 .. Len(queue) : batch' = SubSeq(queue, 1, n)
  BY DEF TakeBatch
<1>2. /\ queue \in Seq(Nat) /\ Len(queue) \in Nat /\ worker' = "begin"
      /\ UNCHANGED <<requests, promise, answer>>
  BY DEF AnswerInv, LineInv, ShapeInv, TakeBatch
<1>3. \A k \in 1 .. Len(queue) : queue[k] \in Ids
  <2>1. \A k \in 1 .. Len(queue) : queue[k] \in Waiting
    BY <1>2, LenProperties DEF Waiting
  <2> QED
    BY <2>1 DEF AnswerInv, LineInv, OrderInv, Settled
<1>4. \A k \in DOMAIN batch' : batch'[k] \in Ids
  <2>1. \A k \in 1 .. n : queue[k] \in Ids
    BY <1>2, <1>3
  <2>2. /\ batch' \in Seq(Ids)
    BY <1>1, <1>2, <2>1, SubSeqProperties
  <2> QED
    BY <2>2, LenProperties, ElementOfSeq
<1>5. HandInv'
  BY <1>2, <1>4 DEF HandInv, Ids
<1>6. OwnAnswer'
  BY <1>2 DEF AnswerInv, OwnAnswer, OrdersOf, Settled, Ids
<1> QED
  BY <1>2, <1>5, <1>6 DEF AnswerInv

\* The scan gives each request of the batch its own parts.
LEMMA AnswerScan ==
  ASSUME AnswerInv, LineInv', Scan
  PROVE  AnswerInv'
<1>1. /\ results' = Groups(batch) /\ UNCHANGED <<requests, promise, answer, batch>>
      /\ requests \in Seq([size : Sizes, immediate : BOOLEAN]) /\ batch \in Seq(Nat)
      /\ \A k \in DOMAIN batch : batch[k] \in Ids
  BY DEF AnswerInv, LineInv, ShapeInv, HandInv, Scan
<1>2. results' = [k \in DOMAIN batch |-> OrdersOf(batch[k])]
  BY <1>1, GroupsAreOwn
<1>3. HandInv'
  BY <1>1, <1>2 DEF HandInv, Ids, OrdersOf
<1>4. OwnAnswer'
  BY <1>1 DEF AnswerInv, OwnAnswer, OrdersOf, Settled, Ids
<1> QED
  BY <1>1, <1>3, <1>4 DEF AnswerInv

\* The worker settles the next request of its batch.
LEMMA AnswerAnswer ==
  ASSUME AnswerInv, LineInv', Answer
  PROVE  AnswerInv'
<1> DEFINE k == settled + 1
           h == batch[k]
<1>1. /\ batch \in Seq(Nat) /\ settled \in Nat /\ settled < Len(batch) /\ Len(batch) \in Nat
      /\ worker \in {"answer", "reject"}
      /\ UNCHANGED <<requests, worker, batch, results>>
      /\ promise \in Seq(OutcomeKinds) /\ Len(promise) = Len(requests)
      /\ answer \in Seq(Seq(Nat \X Nat)) /\ Len(answer) = Len(requests)
  BY DEF AnswerInv, LineInv, ShapeInv, Answer
<1>2. k \in DOMAIN batch /\ h \in Ids /\ h \in InHand
  <2>1. k \in DOMAIN batch
    BY <1>1, LenProperties
  <2>2. h \in InHand
    BY <1>1 DEF InHand
  <2> QED
    BY <2>1, <2>2 DEF AnswerInv, HandInv
<1>3. promise[h] = "open"
  BY <1>2 DEF AnswerInv, LineInv, OrderInv, Settled
<1>4. ASSUME NEW kind \in OutcomeKinds, Settle(h, kind)
      PROVE  \A r \in Ids : promise'[r] = IF r = h THEN kind ELSE promise[r]
  BY <1>1, <1>2, <1>4, ExceptSeq DEF Settle, Ids
<1>5. HandInv'
  BY <1>1 DEF AnswerInv, HandInv, OrdersOf, Ids
<1>6. CASE worker = "answer"
  <2>1. Settle(h, "value") /\ answer' = [answer EXCEPT ![h] = results[k]]
    BY <1>6 DEF Answer
  <2>2. results[k] = OrdersOf(h)
    BY <1>2, <1>6 DEF AnswerInv, HandInv
  <2>3. OrdersOf(h) \in Seq(Nat \X Nat)
    BY <1>2, OrdersTyped DEF AnswerInv
  <2>4. /\ answer' \in Seq(Seq(Nat \X Nat)) /\ Len(answer') = Len(answer)
        /\ \A r \in Ids : answer'[r] = IF r = h THEN OrdersOf(h) ELSE answer[r]
    BY <1>1, <1>2, <2>1, <2>2, <2>3, ExceptSeq DEF Ids
  <2>5. Settled("value")' = Settled("value") \cup {h}
    <3>1. \A r \in Ids : promise'[r] = IF r = h THEN "value" ELSE promise[r]
      BY <1>4, <2>1 DEF OutcomeKinds
    <3>2. Ids' = Ids
      BY <1>1 DEF Ids
    <3> QED
      BY <1>2, <3>1, <3>2 DEF Settled
  <2>6. OwnAnswer'
    <3>1. \A r \in Settled("value") : r \in Ids
      BY DEF Settled
    <3>2. \A r \in Ids : OrdersOf(r)' = OrdersOf(r)
      BY <1>1 DEF OrdersOf
    <3>3. \A r \in Settled("value") \cup {h} : answer'[r] = OrdersOf(r)'
      BY <1>2, <2>4, <3>1, <3>2 DEF AnswerInv, OwnAnswer
    <3> QED
      BY <2>5, <3>3 DEF OwnAnswer
  <2> QED
    BY <1>1, <1>5, <2>4, <2>6 DEF AnswerInv
<1>7. CASE worker = "reject"
  <2>1. Settle(h, "failed") /\ answer' = answer
    BY <1>7 DEF Answer
  <2>2. \A r \in Ids : promise'[r] = IF r = h THEN "failed" ELSE promise[r]
    BY <1>4, <2>1 DEF OutcomeKinds
  <2>3. Settled("value")' = Settled("value")
    BY <1>1, <1>3, <2>2 DEF Settled, Ids
  <2> QED
    BY <1>1, <1>7, <2>1, <2>3, AnswerKept
<1> QED
  BY <1>1, <1>6, <1>7

\* The worker has nothing in hand any more.
LEMMA AnswerRearm ==
  ASSUME AnswerInv, LineInv', Rearm
  PROVE  AnswerInv'
<1>1. /\ batch' = <<>> /\ worker' = "check" /\ UNCHANGED <<requests, promise, answer>>
  BY DEF Rearm
<1>2. HandInv'
  BY <1>1 DEF HandInv
<1>3. OwnAnswer'
  BY <1>1 DEF AnswerInv, OwnAnswer, OrdersOf, Settled, Ids
<1> QED
  BY <1>1, <1>2, <1>3 DEF AnswerInv

\* cancel() settles a request without an answer.
LEMMA AnswerDrop ==
  ASSUME AnswerInv, LineInv', NEW o \in {"canceller", "destructor"}, Drop(o)
  PROVE  AnswerInv'
<1> DEFINE h == Head(dropped)
<1>1. /\ dropped \in Seq(Nat) /\ dropped # <<>> /\ Settle(h, "cancelled")
      /\ UNCHANGED <<requests, answer, worker, batch, results>>
      /\ promise \in Seq(OutcomeKinds) /\ Len(promise) = Len(requests)
  BY DEF AnswerInv, LineInv, ShapeInv, Drop, working
<1>2. h \in Doomed
  BY <1>1, HeadTailProperties, LenProperties, EmptySeq DEF Doomed
<1>3. h \in Ids /\ promise[h] = "open"
  BY <1>2 DEF AnswerInv, LineInv, OrderInv, Settled
<1>4. \A r \in Ids : promise'[r] = IF r = h THEN "cancelled" ELSE promise[r]
  <2>1. "cancelled" \in OutcomeKinds
    BY DEF OutcomeKinds
  <2> QED
    BY <1>1, <1>3, <2>1, ExceptSeq DEF Settle, Ids
<1>5. Settled("value")' = Settled("value")
  BY <1>1, <1>3, <1>4 DEF Settled, Ids
<1> QED
  BY <1>1, <1>5, AnswerKept

\* Every step of the coordinator.
LEMMA AnswerStep == AnswerInv /\ [Next]_vars => AnswerInv'
<1> SUFFICES ASSUME AnswerInv, [Next]_vars PROVE AnswerInv'
  OBVIOUS
<1>0. LineInv'
  BY LineStep DEF AnswerInv
<1>1. ASSUME NEW c \in Clients, NEW n \in Sizes, Submit(c, n) PROVE AnswerInv'
  BY <1>0, <1>1, AnswerSubmit
<1>2. ASSUME NEW c \in Clients, Notify(c) \/ Return(c) PROVE AnswerInv'
  BY <1>0, <1>2, AnswerUntouched DEF Notify, Return, Wake, working
<1>3. CASE Sleep \/ SpuriousWakeup \/ Exit
  BY <1>0, <1>3, AnswerUntouched DEF Sleep, SpuriousWakeup, Exit
<1>4. CASE TakeBatch
  BY <1>0, <1>4, AnswerTakeBatch
<1>5. CASE CountBatch \/ ScanThrows \/ Fail
  BY <1>0, <1>5, AnswerUntouched DEF CountBatch, ScanThrows, Fail
<1>6. CASE Scan
  BY <1>0, <1>6, AnswerScan
<1>7. CASE Complete
  BY <1>0, <1>7, AnswerUntouched DEF Complete
<1>8. CASE Answer
  BY <1>0, <1>8, AnswerAnswer
<1>9. CASE Rearm
  BY <1>0, <1>9, AnswerRearm
<1>10. ASSUME NEW o \in {"canceller", "destructor"}, Owner(o) PROVE AnswerInv'
  <2>1. CASE Drop(o)
    BY <1>0, <2>1, AnswerDrop
  <2>2. CASE Cancel(o) \/ CancelAgain(o) \/ CancelNotify(o)
    BY <1>0, <2>2, AnswerUntouched DEF Cancel, CancelAgain, CancelNotify, Wake, working
  <2> QED
    BY <1>10, <2>1, <2>2 DEF Owner
<1>11. CASE Join
  BY <1>0, <1>11, AnswerUntouched DEF Join, working
<1>12. CASE UNCHANGED vars
  BY <1>0, <1>12, AnswerUntouched DEF vars, working
<1> QED
  BY <1>1, <1>2, <1>3, <1>4, <1>5, <1>6, <1>7, <1>8, <1>9, <1>10, <1>11, <1>12
     DEF Next, Worker

\* Every answered request has the parts of its own orders, in its own order,
\* for any batch cap, request sizes and arrivals: grouping requests, cutting
\* them into chunks and cutting the parts apart again are inverse to each
\* other (extract_curve_twist_groups, State::run).
THEOREM OwnAnswers == Spec => []OwnAnswer
<1>1. AnswerInv => OwnAnswer
  BY DEF AnswerInv
<1> QED
  BY AnswerInit, AnswerStep, <1>1, PTL DEF Spec


=============================================================================
