---------------------------- MODULE VerifierCalls ----------------------------
(***************************************************************************)
(* The canonical verifier as the curve threads call it: one call at a time *)
(* under verifier_mutex, and in it an authentication probe and then the    *)
(* verifier, each a child process whose standard output is a pipe that is  *)
(* read after the child has ended (verify_with_canonical_voneshot,         *)
(* authenticate_python3_interpreter, wait_for_child).  The pipes are not   *)
(* close-on-exec: a child keeps every write end that is open when it is    *)
(* spawned.                                                                *)
(***************************************************************************)
EXTENDS Integers, FiniteSets

CONSTANTS
  Threads,        \* curve threads with certificates to verify
  MaxCandidates   \* certificates one curve may offer, by max_certificate_candidates

Stages  == {"probe", "verifier"}
Outputs == {"none", "yes", "no", "long", "flood"}
Codes   == {0, 1, 2}
NoCode  == -1       \* terminated by a signal

\* Ends of pipes: a thread of the search, or the child of a thread.
Parent(t) == <<"thread", t>>
Child(t)  == <<"child", t>>

VARIABLES
  locked,     \* verifier_mutex
  offered,    \* certificates every thread has offered
  stage, pc,  \* of every thread
  expired,    \* its deadline has passed
  child,      \* its child: none, running, ended (a zombie) or reaped
  code,       \* exit code of the child
  output,     \* what the child has written to the pipe
  writers     \* who holds the write end of the pipe of a thread

calls == <<locked, offered, stage, pc, expired, child, code, output, writers>>
child_vars == <<expired, child, code, output, writers>>

\* A call that throws has "failed", or it has "abandoned" its child because the
\* system refused to wait for the child or to kill it.
Returned == {"accepted", "rejected", "failed", "abandoned"}

CallsInit ==
  /\ locked  = FALSE
  /\ offered = [t \in Threads |-> 1]
  /\ stage   = [t \in Threads |-> "probe"]
  /\ pc      = [t \in Threads |-> "ready"]
  /\ expired = [t \in Threads |-> FALSE]
  /\ child   = [t \in Threads |-> "none"]
  /\ code    = [t \in Threads |-> NoCode]
  /\ output  = [t \in Threads |-> "none"]
  /\ writers = [t \in Threads |-> {}]

\* Within a call.
Go(t, where) ==
  /\ pc' = [pc EXCEPT ![t] = where]
  /\ UNCHANGED <<locked, offered>>

\* Unlocking by hand, where an exception passes it by.
Leave_ByHand(t, how) ==
  /\ pc' = [pc EXCEPT ![t] = how]
  /\ locked' = (locked /\ how \in {"failed", "abandoned"})
  /\ UNCHANGED <<offered, stage>>

\* A return or an exception: the lock_guard goes out of scope.
Leave(t, how) ==
  /\ pc' = [pc EXCEPT ![t] = how]
  /\ locked' = FALSE
  /\ UNCHANGED <<offered, stage>>

Enter(t) ==
  /\ pc[t] = "ready" /\ ~locked
  /\ locked' = TRUE
  /\ pc' = [pc EXCEPT ![t] = "start"]
  /\ UNCHANGED <<offered, stage, child_vars>>

\* After a rejection the curve offers its next certificate, if it has one.
NextCandidate(t) ==
  /\ pc[t] = "rejected" /\ offered[t] < MaxCandidates
  /\ offered' = [offered EXCEPT ![t] = @ + 1]
  /\ stage' = [stage EXCEPT ![t] = "probe"]
  /\ pc' = [pc EXCEPT ![t] = "ready"]
  /\ UNCHANGED <<locked, child_vars>>

-----------------------------------------------------------------------------
(* The child and its pipe.                                                 *)

\* A changed or missing file, or no pipe to be had.
Refuse(t) ==
  /\ pc[t] = "start"
  /\ Leave(t, "failed")
  /\ UNCHANGED child_vars

OpenPipe(t) ==
  /\ pc[t] = "start"
  /\ writers' = [writers EXCEPT ![t] = {Parent(t)}]
  /\ Go(t, "piped")
  /\ UNCHANGED <<stage, expired, child, code, output>>

\* posix_spawn: the child inherits every write end the process has open.
Spawn(t) ==
  /\ pc[t] = "piped"
  /\ child' = [child EXCEPT ![t] = "running"]
  /\ output' = [output EXCEPT ![t] = "none"]
  /\ code' = [code EXCEPT ![t] = NoCode]
  /\ expired' = [expired EXCEPT ![t] = FALSE]
  /\ writers' = [u \in Threads |->
       IF Parent(u) \in writers[u] THEN writers[u] \cup {Child(t)} ELSE writers[u]]
  /\ Go(t, "spawned")
  /\ UNCHANGED stage

\* Nothing is spawned, and both ends are closed.
SpawnFails(t) ==
  /\ pc[t] = "piped"
  /\ writers' = [writers EXCEPT ![t] = @ \ {Parent(t)}]
  /\ Leave(t, "failed")
  /\ UNCHANGED <<expired, child, code, output>>

CloseWrite(t) ==
  /\ pc[t] = "spawned"
  /\ writers' = [writers EXCEPT ![t] = @ \ {Parent(t)}]
  /\ Go(t, "waiting")
  /\ UNCHANGED <<stage, expired, child, code, output>>

-----------------------------------------------------------------------------
(* wait_for_child.                                                         *)

\* waitpid without hanging finds the child ended.
Reap(t) ==
  /\ pc[t] = "waiting" /\ child[t] = "ended"
  /\ child' = [child EXCEPT ![t] = "reaped"]
  /\ Go(t, "reading")
  /\ UNCHANGED <<stage, expired, code, output, writers>>

\* waitpid fails, with another error than EINTR: an exception at once.
WaitFails(t) ==
  /\ pc[t] = "waiting"
  /\ Leave(t, "abandoned")
  /\ UNCHANGED child_vars

\* The child goes, and with it every end it holds.
Ended(t) ==
  /\ child' = [child EXCEPT ![t] = "ended"]
  /\ writers' = [u \in Threads |-> writers[u] \ {Child(t)}]

\* waitpid found it running; the deadline has passed by the next line.  The
\* child may have ended between the two.
Kill(t) ==
  /\ pc[t] = "waiting" /\ child[t] = "running" /\ expired[t]
  /\ Go(t, "killing")
  /\ UNCHANGED <<stage, child_vars>>

DeliverKill(t) ==
  /\ pc[t] = "killing"
  /\ IF child[t] = "running" THEN Ended(t) ELSE UNCHANGED <<child, writers>>
  /\ Go(t, "collecting")
  /\ UNCHANGED <<stage, expired, code, output>>

\* kill fails, with another error than ESRCH: an exception at once.
KillFails(t) ==
  /\ pc[t] = "killing"
  /\ Leave(t, "abandoned")
  /\ UNCHANGED child_vars

Collect_Skipped(t) ==
  /\ pc[t] = "collecting"
  /\ Leave(t, "failed")
  /\ UNCHANGED child_vars

\* The blocking waitpid, then the exception.
Collect(t) ==
  /\ pc[t] = "collecting" /\ child[t] = "ended"
  /\ child' = [child EXCEPT ![t] = "reaped"]
  /\ Leave(t, "failed")
  /\ UNCHANGED <<expired, code, output, writers>>

\* It fails, with another error than EINTR: the same exception.
CollectFails(t) ==
  /\ pc[t] = "collecting"
  /\ Leave(t, "abandoned")
  /\ UNCHANGED child_vars

-----------------------------------------------------------------------------
(* The pipe is read to its end; the status and the output decide.          *)

\* The probe succeeded, and the verifier is next in the same call.
Authenticated(t) == stage[t] = "probe" /\ code[t] = 0 /\ output[t] = "yes"

Verdict(t) ==
  IF stage[t] = "verifier" /\ code[t] = 0 /\ output[t] = "yes" THEN "accepted"
  ELSE IF stage[t] = "verifier" /\ code[t] = 1 /\ output[t] = "no" THEN "rejected"
  ELSE "failed"

\* The end of the file comes when nobody holds the write end any more.
ReadEnd(t) ==
  /\ pc[t] = "reading" /\ writers[t] = {}
  /\ \/ /\ Authenticated(t) /\ Go(t, "start")
        /\ stage' = [stage EXCEPT ![t] = "verifier"]
     \/ ~Authenticated(t) /\ Leave(t, Verdict(t))
  /\ UNCHANGED child_vars

\* Too much output ends the reading of the verifier's answer at once.
ReadTooLong(t) ==
  /\ pc[t] = "reading" /\ stage[t] = "verifier" /\ output[t] = "long"
  /\ Leave(t, "failed")
  /\ UNCHANGED child_vars

ReadFails(t) ==
  /\ pc[t] = "reading"
  /\ Leave(t, "failed")
  /\ UNCHANGED child_vars

-----------------------------------------------------------------------------
(* The children and the clock.                                             *)

Write(t) ==
  /\ child[t] = "running" /\ output[t] = "none"
  /\ \E o \in Outputs \ {"none"} : output' = [output EXCEPT ![t] = o]
  /\ UNCHANGED <<locked, offered, stage, pc, expired, child, code, writers>>

\* A flood fills the pipe, which nobody reads yet: that child cannot exit until
\* the reading end is closed.
Exit(t) ==
  /\ child[t] = "running" /\ (output[t] = "flood" => pc[t] = "abandoned")
  /\ Ended(t)
  /\ \E c \in Codes \cup {NoCode} : code' = [code EXCEPT ![t] = c]
  /\ UNCHANGED <<locked, offered, stage, pc, expired, output>>

Expire(t) ==
  /\ pc[t] = "waiting" /\ ~expired[t]
  /\ expired' = [expired EXCEPT ![t] = TRUE]
  /\ UNCHANGED <<locked, offered, stage, pc, child, code, output, writers>>

\* What a call does.
Step(t) ==
  \/ Enter(t) \/ OpenPipe(t) \/ Spawn(t) \/ CloseWrite(t)
  \/ Reap(t) \/ Kill(t) \/ DeliverKill(t) \/ Collect(t)
  \/ ReadEnd(t) \/ ReadTooLong(t)

\* What it does when the system refuses something.
Refused(t) ==
  \/ Refuse(t) \/ SpawnFails(t)
  \/ WaitFails(t) \/ KillFails(t) \/ CollectFails(t) \/ ReadFails(t)

CallsNext ==
  \E t \in Threads :
    Step(t) \/ Refused(t) \/ NextCandidate(t) \/ Write(t) \/ Exit(t) \/ Expire(t)

\* Threads are scheduled and time passes; the system need not refuse anything,
\* and a child may hang.
Fairness == \A t \in Threads : WF_calls(Step(t)) /\ WF_calls(Expire(t))

CallsSpec == CallsInit /\ [][CallsNext]_calls /\ Fairness

-----------------------------------------------------------------------------
(* Properties.                                                             *)

\* ChildrenCollected: a call that gives a verdict has reaped its child, and so
\* has one that throws, except where waitpid or kill itself failed: that child
\* may run on or stay a zombie, but it holds the end of no other call's pipe and
\* so delays nobody.  A kill is sent only while the child is unreaped, and cannot
\* meet a process that was given its number (wait_for_child).
ChildrenCollected ==
  \A t \in Threads :
    /\ pc[t] \in {"accepted", "rejected"} => child[t] = "reaped"
    /\ pc[t] = "failed" => child[t] \in {"none", "reaped"}
    /\ pc[t] = "abandoned" => \A u \in Threads \ {t} : Child(t) \notin writers[u]
    /\ pc[t] = "killing" => child[t] \in {"running", "ended"}

\* CallsReturn: every verification ends, however the threads queue for the
\* mutex and whatever the children do, although the reading has no deadline of
\* its own: children may hang, flood the pipe or be left behind.
CallsReturn == \A t \in Threads : []<>(pc[t] \in Returned)

=============================================================================
