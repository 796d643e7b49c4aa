----------------------------- MODULE WorkerLaunch -----------------------------
(***************************************************************************)
(* Launches and resumes of one worker on its host (remote_worker.py): the  *)
(* launcher retains the provenance of the deployment, looks for a running  *)
(* session, decides from the files of the run directory, writes what is    *)
(* missing and starts the session on the command file.  A launcher may die *)
(* between two steps, its call may be repeated while it still runs (the    *)
(* same call of send-command), the host may reboot, and a deployment may   *)
(* come at any moment: a launcher resolves current/ once.                  *)
(*                                                                         *)
(* Nothing locks the run directory, and nothing keeps launches of one      *)
(* worker with different arguments from overlapping.  What is claimed is   *)
(* claimed where they do not (OneAssignment), which is up to the operator. *)
(***************************************************************************)
EXTENDS Naturals

CONSTANTS
  Launchers,    \* launcher processes
  Deployments,  \* builds that may be installed under current/
  Options       \* the other arguments of a launch

Absent  == "absent"
Damaged == "damaged"  \* a deployment whose digests no longer agree

\* A build that is installed is there.
ASSUME AbsentAssumption == Absent \notin Deployments

\* The writer of a file that is not there.
Nobody == [deployment |-> Absent, options |-> Absent]

VARIABLES
  deployed,   \* what current/ holds
  disk,       \* who wrote each file of the run directory
  session,    \* the command the session runs and the launch that started it
  launcher    \* the state of every launcher

launching == <<deployed, disk, session, launcher>>

Quiet == [runs |-> Nobody, asked |-> Nobody]
Idle == [pc |-> "idle", options |-> Absent, resume |-> FALSE, build |-> Absent]

EmptyDirectory ==
  [provenance |-> Absent, manifest |-> Nobody, command |-> Nobody,
   progress |-> Nobody, checkpoint |-> Nobody, certificate |-> Nobody]

LaunchInit ==
  /\ deployed \in Deployments
  /\ disk = EmptyDirectory
  /\ session = Quiet
  /\ launcher = [l \in Launchers |-> Idle]

NoLaunch ==
  /\ deployed = Damaged
  /\ disk = EmptyDirectory
  /\ session = Quiet
  /\ launcher = [l \in Launchers |-> [Idle EXCEPT !.pc = "none"]]

Assigned(l) == [deployment |-> launcher[l].build, options |-> launcher[l].options]

Busy(l) == launcher[l].pc \notin {"idle", "none"}

\* It has authenticated its deployment, and writes to the run directory.
AtWork(l) == Busy(l) /\ launcher[l].pc # "authenticate"

GoesTo(l, pc) == launcher' = [launcher EXCEPT ![l].pc = pc]

\* fail(), an exception or the end of the call.
Leaves(l) == launcher' = [launcher EXCEPT ![l] = Idle]

-----------------------------------------------------------------------------
(* The launcher, one action per look at the world.                         *)

Call(l, options, resume) ==
  /\ launcher[l].pc = "idle"
  /\ launcher' = [launcher EXCEPT ![l] =
       [Idle EXCEPT !.pc = "authenticate", !.options = options, !.resume = resume]]
  /\ UNCHANGED <<deployed, disk, session>>

\* current/ is resolved, once; the build manifest, the binary, the environment
\* and the cache are rehashed.
Authenticate(l) ==
  /\ launcher[l].pc = "authenticate"
  /\ IF deployed = Damaged THEN Leaves(l)
     ELSE launcher' = [launcher EXCEPT ![l].pc = "retain", ![l].build = deployed]
  /\ UNCHANGED <<deployed, disk, session>>

\* copy_authenticated: a copy kept from an earlier launch must not differ.
Retain(l) ==
  /\ launcher[l].pc = "retain"
  /\ \/ disk.provenance = Absent /\ GoesTo(l, "copy")
     \/ disk.provenance = launcher[l].build /\ GoesTo(l, "look")
     \/ disk.provenance \notin {Absent, launcher[l].build} /\ Leaves(l)
  /\ UNCHANGED <<deployed, disk, session>>

\* A rename over the copy, whoever made one meanwhile.
Copy(l) ==
  /\ launcher[l].pc = "copy"
  /\ disk' = [disk EXCEPT !.provenance = launcher[l].build]
  /\ GoesTo(l, "look")
  /\ UNCHANGED <<deployed, session>>

\* tmux has-session
Look(l) ==
  /\ launcher[l].pc = "look"
  /\ IF session # Quiet THEN Leaves(l) ELSE GoesTo(l, "decide")
  /\ UNCHANGED <<deployed, disk, session>>

SameFiles_Manifestless(l) == disk.command # Nobody

\* Every field of the manifest, and the command file, are those of this launch.
SameFiles(l) == disk.manifest = Assigned(l) /\ disk.command = Assigned(l)

MayResume(l) ==
  /\ launcher[l].resume
  /\ disk.checkpoint # Nobody
  /\ disk.certificate = Nobody
  /\ SameFiles(l)

MayStart(l) ==
  /\ ~launcher[l].resume
  /\ disk.checkpoint = Nobody /\ disk.progress = Nobody /\ disk.certificate = Nobody

Decide(l) ==
  /\ launcher[l].pc = "decide"
  /\ \/ disk.manifest # Nobody /\ MayResume(l) /\ GoesTo(l, "start")
     \/ disk.manifest # Nobody /\ ~MayResume(l) /\ Leaves(l)
     \/ disk.manifest = Nobody /\ MayStart(l) /\ GoesTo(l, "manifest")
     \/ disk.manifest = Nobody /\ ~MayStart(l) /\ Leaves(l)
  /\ UNCHANGED <<deployed, disk, session>>

\* A rename over the manifest, whoever wrote one meanwhile.
WriteManifest(l) ==
  /\ launcher[l].pc = "manifest"
  /\ disk' = [disk EXCEPT !.manifest = Assigned(l)]
  /\ GoesTo(l, "command")
  /\ UNCHANGED <<deployed, session>>

\* open("x"): only one launcher makes the command file.
WriteCommand(l) ==
  /\ launcher[l].pc = "command"
  /\ IF disk.command = Nobody
     THEN GoesTo(l, "start") /\ disk' = [disk EXCEPT !.command = Assigned(l)]
     ELSE Leaves(l) /\ UNCHANGED disk
  /\ UNCHANGED <<deployed, session>>

\* tmux new-session fails when there is one of that name.
Start(l) ==
  /\ launcher[l].pc = "start"
  /\ Leaves(l)
  /\ session' = IF session = Quiet
                THEN [runs |-> disk.command, asked |-> Assigned(l)] ELSE session
  /\ UNCHANGED <<deployed, disk>>

-----------------------------------------------------------------------------
(* The search in the session, and the environment.                         *)

Running == session # Quiet

Writes(file) ==
  /\ Running
  /\ disk' = [disk EXCEPT ![file] = session.runs]
  /\ UNCHANGED <<deployed, session, launcher>>

\* The search starts its log, saves a checkpoint or publishes a certificate.
SearchWrites ==
  \/ Writes("progress")
  \/ Writes("checkpoint")
  \/ disk.checkpoint # Nobody /\ Writes("certificate")

SessionEnds ==
  /\ Running
  /\ session' = Quiet
  /\ UNCHANGED <<deployed, disk, launcher>>

LauncherDies(l) == Busy(l) /\ Leaves(l) /\ UNCHANGED <<deployed, disk, session>>

Reboot ==
  /\ session' = Quiet
  /\ launcher' = [l \in Launchers |-> Idle]
  /\ UNCHANGED <<deployed, disk>>

Deploy(build) ==
  /\ build # deployed
  /\ deployed' = build
  /\ UNCHANGED <<disk, session, launcher>>

LauncherStep(l) ==
  \/ \E options \in Options, resume \in BOOLEAN : Call(l, options, resume)
  \/ Authenticate(l) \/ Retain(l) \/ Copy(l) \/ Look(l) \/ Decide(l)
  \/ WriteManifest(l) \/ WriteCommand(l) \/ Start(l)
  \/ LauncherDies(l)

LaunchNext ==
  \/ \E l \in Launchers : LauncherStep(l)
  \/ SearchWrites \/ SessionEnds \/ Reboot
  \/ \E build \in Deployments \cup {Damaged} : Deploy(build)

LaunchSpec == LaunchInit /\ [][LaunchNext]_launching

\* Launchers at work at the same time are of one assignment.  No code sees to
\* that: it is the condition under which WorkerResumes is claimed.
OneAssignment ==
  \A k, l \in Launchers : AtWork(k) /\ AtWork(l) => Assigned(k) = Assigned(l)

-----------------------------------------------------------------------------
(* Properties.                                                             *)

\* WorkerResumes: as long as launchers at work at the same time are of one
\* assignment (OneAssignment), a session runs exactly what the launch that
\* reported it was asked for, and every file of the run directory is of that
\* assignment: its manifest and provenance describe the run, and the checkpoint
\* or certificate there was not made under other options (remote_worker.py).
WorkerResumes ==
  Running =>
    /\ session.runs = session.asked
    /\ disk.manifest = session.runs
    /\ disk.command = session.runs
    /\ disk.provenance = session.runs.deployment
    /\ {disk.progress, disk.checkpoint, disk.certificate} \subseteq {Nobody, session.runs}

=============================================================================
