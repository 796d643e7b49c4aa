------------------------------- MODULE MCFleet -------------------------------
(***************************************************************************)
(* The workers of a fleet for TLC: the partition of a range among them,    *)
(* the launches of one of them on its host, and the files a host's workers *)
(* trust.  The three share no state: a behaviour is of one of them.  The    *)
(* launches are those in which OneAssignment holds.                        *)
(***************************************************************************)
EXTENDS SearchFleet, WorkerLaunch, TrustedFiles

\* One worker computes; the other, whose range is empty, shares the cache.
MCCurveCount == [w1 |-> 2, w2 |-> 0]

VARIABLE concern

NoFleet ==
  /\ range = [first |-> 0, end |-> 0]
  /\ workers = 1
  /\ cursor = [k \in WorkerIds |-> 0]
  /\ searched = {}

FleetInit ==
  /\ concern \in {"partition", "launch", "trust"}
  /\ IF concern = "partition" THEN Init ELSE NoFleet
  /\ IF concern = "launch" THEN LaunchInit ELSE NoLaunch
  /\ IF concern = "trust" THEN TrustInit ELSE NoTrust

FleetNext ==
  /\ \/ concern = "partition" /\ Next /\ UNCHANGED <<launching, files>>
     \/ concern = "launch" /\ LaunchNext /\ OneAssignment' /\ UNCHANGED <<vars, files>>
     \/ concern = "trust" /\ Trust /\ UNCHANGED <<vars, launching>>
  /\ UNCHANGED concern

FleetSpec == FleetInit /\ [][FleetNext]_<<concern, vars, launching, files>>

=============================================================================
