--------------------------- MODULE SearchPipeline ---------------------------
(***************************************************************************)
(* run_search_pipeline (search_pipeline.cpp) run again and again over the  *)
(* same three durable files by the search command (main.cpp): a rolling    *)
(* window of curve threads computes reports speculatively, one coordinator *)
(* thread retires them in index order, and a certificate is published by   *)
(* the sequence anchor checkpoint, certificate, metadata, checkpoint.      *)
(*                                                                         *)
(* A file is replaced by rename and becomes durable when its directory is  *)
(* synced.  Between the two, a process crash keeps the new file and a      *)
(* power loss may bring back the old one.  "disk" is the set of images of  *)
(* the files a power loss may leave: on a journaling file system the       *)
(* renames survive in the order they were made (OrderedRenames); POSIX     *)
(* alone lets each file keep or lose its last renames independently.       *)
(***************************************************************************)
EXTENDS SearchState, Sequences

CONSTANTS
  Fates,            \* statuses the curves of this instance may end with
  SkipIncomplete,   \* --skip-incomplete-curves
  CurveThreads,     \* --curve-threads
  CheckpointEvery,  \* --checkpoint-every
  MaxCurves,        \* --max-curves: budget of one run
  OrderedRenames,   \* the file system keeps renames in order
  NoFile, NoReport,
  MaxFaults,        \* bound: exceptions and crashes in a behaviour
  MaxPowerLosses    \* bound: power losses in a behaviour

ASSUME ConfigAssumption ==
  /\ Fates \subseteq Statuses
  /\ SkipIncomplete \in BOOLEAN /\ OrderedRenames \in BOOLEAN
  /\ CurveThreads \in Nat \ {0} /\ CheckpointEvery \in Nat \ {0}
  /\ MaxCurves \in Nat /\ MaxFaults \in Nat /\ MaxPowerLosses \in Nat

VARIABLES
  fate,            \* what process_search_curve computes: a function of the index
  \* --- one run of the process (lost when it ends) ---
  pc,              \* where the coordinator thread stands
  state,           \* SearchState
  next_to_launch, launch_end,
  pending,         \* the futures, oldest first, by index
  worker,          \* status of the curve thread of an index
  report,          \* index of the report taken off the window
  processed,       \* curves_processed
  exit,            \* how the current or last run ended
  \* --- the files ---
  visible,         \* what a process that opens a file now reads
  disk,            \* the images of the files a power loss may leave
  log,             \* indices with a line in the progress file
  faults, power_losses

run   == <<pc, state, next_to_launch, launch_end, pending, worker, report,
           processed, exit>>
files == <<visible, disk, log>>
vars  == <<fate, run, files, faults, power_losses>>

-----------------------------------------------------------------------------
(* Files.                                                                  *)

Files == {"checkpoint", "certificate", "metadata"}

\* A certificate is named by the index it was found at; the metadata binds
\* an index to the certificate file's contents.
Bindings == [index : Nat, certificate : Indices]

IsImage(v) ==
  /\ v = [f \in Files |-> v[f]]
  /\ v["checkpoint"] \in States \cup {NoFile}
  /\ v["certificate"] \in Indices \cup {NoFile}
  /\ v["metadata"] \in Bindings \cup {NoFile}

ASSUME NoFileAssumption ==
  NoFile \notin Indices /\ NoFile \notin Bindings /\ NoFile \notin States

Exists(f) == visible[f] # NoFile

NoFiles == [f \in Files |-> NoFile]

\* Replacing file f by c: the directory change may or may not survive.
Replace(f, c) ==
  /\ visible' = [visible EXCEPT ![f] = c]
  /\ disk' = disk \cup IF OrderedRenames THEN {visible'}
                       ELSE {[image EXCEPT ![f] = c] : image \in disk}

SyncDirectory_Forgotten == UNCHANGED <<visible, disk>>

\* The four paths default to one directory: its fsync makes every earlier
\* rename durable.
SyncDirectory == disk' = {visible} /\ UNCHANGED visible

\* The saves of the coordinator: which file each replaces, and where it goes
\* on.  Every save is a rename followed by a directory sync.
RenamePcs == {"stop_rename", "anchor_rename", "cert_rename", "meta_rename",
              "save_rename", "recover_rename"}
SyncPcs   == {"stop_sync", "anchor_sync", "cert_sync", "meta_sync",
              "save_sync", "recover_sync"}

SaveOf(p) == CASE p = "cert_rename" -> "certificate"
               [] p = "meta_rename" -> "metadata"
               [] OTHER             -> "checkpoint"

After(p) == CASE p = "stop_rename"    -> "stop_sync"
              [] p = "stop_sync"      -> "stop_log"
              [] p = "anchor_rename"  -> "anchor_sync"
              [] p = "anchor_sync"    -> "cert_rename"
              [] p = "cert_rename"    -> "cert_sync"
              [] p = "cert_sync"      -> "meta_rename"
              [] p = "meta_rename"    -> "meta_sync"
              [] p = "meta_sync"      -> "record"
              [] p = "save_rename"    -> "save_sync"
              [] p = "save_sync"      -> "log"
              [] p = "recover_rename" -> "recover_sync"
              [] p = "recover_sync"   -> "drain"

ContentsFor_NewestLaunched(f) ==
  CASE f = "checkpoint"  -> state
    [] f = "certificate" -> report
    [] f = "metadata"    -> [index |-> next_to_launch - 1,
                             certificate |-> visible["certificate"]]

ContentsFor(f) ==
  CASE f = "checkpoint"  -> state
    [] f = "certificate" -> report
    [] f = "metadata"    -> [index |-> state.next,
                             certificate |-> visible["certificate"]]

Pcs == {"down", "launch", "retire", "record", "log", "stop_log", "drain"}
         \cup RenamePcs \cup SyncPcs

Incomplete(i) == fate[i] \in IncompleteStatuses
Winner(i)     == fate[i] = "verified_certificate"

-----------------------------------------------------------------------------
Init ==
  /\ fate \in [Indices -> Fates]
  /\ pc = "down" /\ state = FreshState
  /\ next_to_launch = First /\ launch_end = First
  /\ pending = <<>> /\ worker = [i \in Indices |-> "idle"]
  /\ report = NoReport /\ processed = 0 /\ exit = "none"
  /\ visible = NoFiles /\ disk = {NoFiles}
  /\ log = {}
  /\ faults = 0 /\ power_losses = 0

-----------------------------------------------------------------------------
(* Run entry: the command loads the checkpoint and the pipeline decides    *)
(* from the files it finds.                                                *)

Loaded == IF Exists("checkpoint") THEN visible["checkpoint"] ELSE FreshState

BoundIndex == IF Found(Loaded) = 0 THEN Loaded.next ELSE Loaded.next - 1

Paired == Exists("certificate") /\ Exists("metadata")

\* The sidecar is the one this search would have written, and the
\* certificate passes the native and the canonical check.
PairAccepted ==
  /\ visible["metadata"] = [index |-> BoundIndex,
                            certificate |-> visible["certificate"]]
  /\ Winner(visible["certificate"])

\* A run that ends at its entry leaves only its exit status.
EndAtEntry(how) ==
  /\ pc = "down"
  /\ exit' = how
  /\ UNCHANGED <<fate, pc, state, next_to_launch, launch_end, pending, worker,
                 report, processed, files, faults, power_losses>>

\* The three exceptions of the recovery block.
Refuse ==
  /\ \/ Exists("metadata") /\ ~Exists("certificate")
     \/ Paired /\ ~PairAccepted
     \/ ~Paired /\ Found(Loaded) # 0
  /\ EndAtEntry("refused")

\* The certificate was published and already recorded (or the range is over).
ResumeVerified ==
  /\ Paired /\ PairAccepted
  /\ Found(Loaded) # 0 \/ Complete(Loaded)
  /\ EndAtEntry("verified")

\* The crash window: published, not yet recorded.  Record it and save.
RecoverCertificate ==
  /\ pc = "down"
  /\ Paired /\ PairAccepted
  /\ Found(Loaded) = 0 /\ ~Complete(Loaded)
  /\ state' = Recorded(Loaded, OutcomeOf("verified_certificate"))
  /\ pc' = "recover_rename" /\ exit' = "running"
  /\ UNCHANGED <<fate, next_to_launch, launch_end, pending, worker, report,
                 processed, files, faults, power_losses>>

\* Neither file, or a certificate without metadata, which is ignored here
\* and overwritten later.
Unpaired == ~Exists("metadata") /\ Found(Loaded) = 0

NothingLeft ==
  /\ Unpaired
  /\ Complete(Loaded) \/ MaxCurves = 0
  /\ EndAtEntry("ended")

LaunchEnd_Unclipped(s) == s.next + MaxCurves

\* first_index + min(max_curves, range.end - first_index)
LaunchEnd(s) == IF MaxCurves < End - s.next THEN s.next + MaxCurves ELSE End

BeginSearch ==
  /\ pc = "down"
  /\ Unpaired
  /\ ~Complete(Loaded) /\ MaxCurves # 0
  /\ state' = Loaded
  /\ next_to_launch' = Loaded.next
  /\ launch_end' = LaunchEnd(Loaded)
  /\ pc' = "launch" /\ exit' = "running"
  /\ UNCHANGED <<fate, pending, worker, report, processed, files, faults,
                 power_losses>>

Start == Refuse \/ ResumeVerified \/ RecoverCertificate \/ NothingLeft
           \/ BeginSearch

-----------------------------------------------------------------------------
(* The rolling window.                                                     *)

WindowOpen == next_to_launch < launch_end /\ Len(pending) < CurveThreads

LaunchCurve ==
  /\ pc = "launch" /\ WindowOpen
  /\ next_to_launch' = next_to_launch + 1
  /\ pending' = Append(pending, next_to_launch)
  /\ worker' = [worker EXCEPT ![next_to_launch] = "running"]
  /\ UNCHANGED <<fate, pc, state, launch_end, report, processed, exit, files,
                 faults, power_losses>>

WindowFull ==
  /\ pc = "launch" /\ ~WindowOpen
  /\ IF pending = <<>> THEN pc' = "drain" /\ exit' = "ended"
                       ELSE pc' = "retire" /\ UNCHANGED exit
  /\ UNCHANGED <<fate, state, next_to_launch, launch_end, pending, worker,
                 report, processed, files, faults, power_losses>>

\* process_search_curve returns its report, or throws at its resource bound.
Finished(i) == IF fate[i] = "candidate_limit" THEN "failed" ELSE "done"

FinishCurve(i) ==
  /\ worker[i] = "running"
  /\ worker' = [worker EXCEPT ![i] = Finished(i)]
  /\ UNCHANGED <<fate, pc, state, next_to_launch, launch_end, pending, report,
                 processed, exit, files, faults, power_losses>>

\* A transient exception in a curve thread: verifier timeout, table read.
CurveThrows(i) ==
  /\ worker[i] = "running" /\ faults < MaxFaults
  /\ worker' = [worker EXCEPT ![i] = "failed"]
  /\ faults' = faults + 1
  /\ UNCHANGED <<fate, pc, state, next_to_launch, launch_end, pending, report,
                 processed, exit, files, power_losses>>

-----------------------------------------------------------------------------
(* Retirement, in window order.                                            *)

RetireTo_IncompleteRetired(i) ==
  IF i # state.next THEN "drain"
  ELSE IF Winner(i) THEN "anchor_rename" ELSE "record"

RetireTo_WinnerUnpublished(i) ==
  IF i # state.next THEN "drain"
  ELSE IF Incomplete(i) /\ ~SkipIncomplete THEN "stop_rename" ELSE "record"

RetireTo_NoAnchor(i) ==
  IF i # state.next THEN "drain"
  ELSE IF Incomplete(i) /\ ~SkipIncomplete THEN "stop_rename"
  ELSE IF Winner(i) THEN "cert_rename" ELSE "record"

\* Where the coordinator goes with the report of index i in hand.
RetireTo(i) ==
  IF i # state.next THEN "drain"
  ELSE IF Incomplete(i) /\ ~SkipIncomplete THEN "stop_rename"
  ELSE IF Winner(i) THEN "anchor_rename"
  ELSE "record"

TakeReport ==
  /\ pc = "retire"
  /\ LET i == Head(pending) IN
       /\ worker[i] = "done"
       /\ pending' = Tail(pending)
       /\ worker' = [worker EXCEPT ![i] = "idle"]
       /\ report' = i
       /\ pc' = RetireTo(i)
       /\ exit' = IF i # state.next THEN "disordered" ELSE exit
  /\ UNCHANGED <<fate, state, next_to_launch, launch_end, processed, files,
                 faults, power_losses>>

\* future::get rethrows what the curve thread threw.
RethrowFailure ==
  /\ pc = "retire"
  /\ worker[Head(pending)] = "failed"
  /\ pending' = Tail(pending)
  /\ worker' = [worker EXCEPT ![Head(pending)] = "idle"]
  /\ pc' = "drain" /\ exit' = "error"
  /\ UNCHANGED <<fate, state, next_to_launch, launch_end, report, processed,
                 files, faults, power_losses>>

\* save_search_checkpoint / save_text_atomic up to the rename.
Rename ==
  /\ pc \in RenamePcs
  /\ Replace(SaveOf(pc), ContentsFor(SaveOf(pc)))
  /\ pc' = After(pc)
  /\ UNCHANGED <<fate, state, next_to_launch, launch_end, pending, worker,
                 report, processed, exit, log, faults, power_losses>>

\* ... and its directory fsync.
Sync ==
  /\ pc \in SyncPcs
  /\ SyncDirectory
  /\ pc' = After(pc)
  /\ exit' = IF pc = "recover_sync" THEN "verified" ELSE exit
  /\ UNCHANGED <<fate, state, next_to_launch, launch_end, pending, worker,
                 report, processed, log, faults, power_losses>>

AfterRecord_IntervalOnly(n, s) ==
  IF n % CheckpointEvery = 0 \/ Found(s) # 0 THEN "save_rename" ELSE "log"

AfterRecord_UnsavedUnlogged(n, s) ==
  IF n % CheckpointEvery = 0 \/ Complete(s) \/ Winner(report)
    THEN "save_rename" ELSE "launch"

\* should_checkpoint, after n curves of this run and with cursor state s.
AfterRecord(n, s) ==
  IF n % CheckpointEvery = 0 \/ Complete(s) \/ Winner(report)
    THEN "save_rename" ELSE "log"

\* record_completed (which validates first), then the decision whether to
\* save a checkpoint.
Record ==
  /\ pc = "record"
  /\ LET outcome == RetiredOutcome(fate[report]) IN
       IF CanRecord(state, report, outcome)
         THEN /\ state' = Recorded(state, outcome)
              /\ processed' = processed + 1
              /\ pc' = AfterRecord(processed', state')
              /\ UNCHANGED exit
         ELSE /\ pc' = "drain" /\ exit' = "invalid"
              /\ UNCHANGED <<state, processed>>
  /\ UNCHANGED <<fate, next_to_launch, launch_end, pending, worker, report,
                 files, faults, power_losses>>

AfterAppend_KeepsGoing(i) ==
  IF pc = "stop_log" THEN <<"drain", "incomplete">> ELSE <<"launch", exit>>

\* Where the loop goes once index i is reported, and with which exit status.
AfterAppend(i) ==
  IF pc = "stop_log" THEN <<"drain", "incomplete">>
  ELSE IF Winner(i) THEN <<"drain", "verified">>
  ELSE <<"launch", exit>>

\* append_line, then leave the loop or refill the window.
AppendProgress ==
  /\ pc \in {"log", "stop_log"}
  /\ log' = log \cup {report}
  /\ pc' = AfterAppend(report)[1] /\ exit' = AfterAppend(report)[2]
  /\ UNCHANGED <<fate, state, next_to_launch, launch_end, pending, worker,
                 report, processed, visible, disk, faults, power_losses>>

\* The memory of a process that no longer runs.
Forgotten ==
  /\ pc' = "down" /\ state' = FreshState
  /\ next_to_launch' = First /\ launch_end' = First
  /\ pending' = <<>> /\ worker' = [i \in Indices |-> "idle"]
  /\ report' = NoReport /\ processed' = 0

\* Destroying the window joins every curve thread still in flight.
Join ==
  /\ pc = "drain"
  /\ \A i \in Indices : worker[i] # "running"
  /\ Forgotten
  /\ UNCHANGED <<fate, exit, files, faults, power_losses>>

-----------------------------------------------------------------------------
(* Failures.                                                               *)

\* An exception on the coordinator thread: a changed Weber table at launch
\* or retirement, a failed write, rename, directory sync or append.  A save
\* that fails before its rename removes the temporary file.
CoordinatorThrows ==
  /\ pc \in Pcs \ {"down", "record", "drain"}
  /\ faults < MaxFaults
  /\ faults' = faults + 1
  /\ pc' = "drain" /\ exit' = "error"
  /\ UNCHANGED <<fate, state, next_to_launch, launch_end, pending, worker,
                 report, processed, files, power_losses>>

Kill ==
  /\ pc # "down" /\ faults < MaxFaults
  /\ faults' = faults + 1
  /\ Forgotten /\ exit' = "killed"
  /\ UNCHANGED <<fate, files, power_losses>>

\* The files come back as one of the images that may have survived; the
\* progress file is never synced and may lose lines.
PowerLoss ==
  /\ power_losses < MaxPowerLosses
  /\ power_losses' = power_losses + 1
  /\ visible' \in disk
  /\ disk' = {visible'}
  /\ log' \in SUBSET log
  /\ Forgotten /\ exit' = "killed"
  /\ UNCHANGED <<fate, faults>>

-----------------------------------------------------------------------------
Coordinator == LaunchCurve \/ WindowFull \/ TakeReport \/ RethrowFailure
                 \/ Rename \/ Sync \/ Record \/ AppendProgress \/ Join

Next ==
  \/ Start
  \/ Coordinator
  \/ \E i \in Indices : FinishCurve(i) \/ CurveThrows(i)
  \/ CoordinatorThrows \/ Kill \/ PowerLoss

Spec == Init /\ [][Next]_vars

\* The scheduler runs every thread that can run, and the operator (or the
\* fleet script) starts the same command again after it ended.
FairSpec ==
  /\ Spec
  /\ WF_vars(Start) /\ WF_vars(Coordinator)
  /\ \A i \in Indices : WF_vars(FinishCurve(i))

-----------------------------------------------------------------------------
(* Properties.                                                             *)

\* TypeOK: the type invariant.
TypeOK ==
  /\ fate \in [Indices -> Fates]
  /\ pc \in Pcs
  /\ state \in States
  /\ next_to_launch \in First .. End /\ launch_end \in First .. End
  /\ pending \in Seq(Indices)
  /\ worker \in [Indices -> {"idle", "running", "done", "failed"}]
  /\ report \in Indices \cup {NoReport}
  /\ processed \in Nat
  /\ exit \in {"none", "running", "ended", "incomplete", "verified", "error",
               "killed", "refused", "disordered", "invalid"}
  /\ \A image \in disk : IsImage(image)
  /\ visible \in disk
  /\ log \subseteq Indices
  /\ faults \in Nat /\ power_losses \in Nat

Retirable(i) ==
  fate[i] \in RetirableStatuses \cup IF SkipIncomplete THEN IncompleteStatuses
                                                       ELSE {}

\* A state is truthful when it is what a sequential pass over its prefix
\* gives: every index retirable, the counters those of the prefix, and no
\* winner below the last index.
Truthful(s) ==
  /\ \A i \in First .. (s.next - 1) : Retirable(i)
  /\ \A i \in First .. (s.next - 2) : ~Winner(i)
  /\ s.counters = Tally(fate, s.next)

Survivors(f) == {image[f] : image \in disk} \ {NoFile}

\* CheckpointsTruthful: whatever crash, exception or power loss happens, and
\* however the speculative window reorders the work, every checkpoint that
\* may ever be loaded skips no index and counts exactly the prefix it claims
\* (save_search_checkpoint, record_completed, the commit loop).
CheckpointsTruthful == \A s \in Survivors("checkpoint") : Truthful(s)

\* LowestWinnerPublished: a sidecar on disk names the lowest winning index
\* of the range and binds the certificate found there, although later
\* indices may have finished first (the commit loop, certificate_metadata).
LowestWinnerPublished ==
  \A m \in Survivors("metadata") :
    /\ m.certificate = m.index /\ m.index \in Indices /\ Winner(m.index)
    /\ \A j \in First .. (m.index - 1) : Retirable(j) /\ ~Winner(j)

\* ArtifactsPrecedeCursor: a checkpoint that records a certificate can only
\* survive together with the certificate and its metadata ("the canonical
\* certificate line is atomically published before the cursor advances").
ArtifactsPrecedeCursor ==
  \A image \in disk :
    image["checkpoint"] # NoFile /\ Found(image["checkpoint"]) # 0
      => image["certificate"] # NoFile /\ image["metadata"] # NoFile

\* SyncsOrderPublication: on a file system that keeps no order, the directory
\* syncs between the saves are enough for that, whatever power losses interrupt
\* them, until a process dies between a rename and its sync (save_text_atomic).
SyncsOrderPublication == faults = 0 => ArtifactsPrecedeCursor

\* RecoveryUnambiguous: no run refuses the files an earlier run, crash or
\* power loss left behind, no report leaves index order, and no report is
\* rejected by the counter validation (the exceptions of the recovery block,
\* "left deterministic index order", validate_counters).
RecoveryUnambiguous == exit \notin {"refused", "disordered", "invalid"}

\* OneLineLostPerFault: as long as power stays up, the progress file lacks at
\* most one line per crash or exception for the indices below the checkpoint
\* cursor (append_line after save_search_checkpoint).
OneLineLostPerFault ==
  power_losses = 0 /\ Exists("checkpoint") /\ pc \notin {"save_sync", "log",
                                                        "recover_sync"}
    => Cardinality((First .. (visible["checkpoint"].next - 1)) \ log) <= faults

Cursor(c) == IF c = NoFile THEN First ELSE c.next

\* Nothing is left to gain by running again.  The exception of a candidate
\* limit saves nothing, so the cursor may stay up to one checkpoint interval
\* below such a curve; an incomplete curve stops with the cursor at it.
Settled ==
  LET s == Loaded IN
  \/ Complete(s) \/ Found(s) # 0
  \/ ~Retirable(s.next)
  \/ \E i \in Indices : /\ fate[i] = "candidate_limit"
                      /\ s.next <= i /\ i < s.next + CheckpointEvery

\* SearchSettles: repeated with the identical command, the search gets to its
\* end: the range is exhausted, a certificate is recorded, or the cursor
\* stands at a curve this build cannot finish ("A capped run can be resumed
\* with the identical command", docs/search_pipeline.md:171).
SearchSettles == <>[]Settled

\* The abstract view: the surviving state with the least cursor, and the
\* certificate once both its files are sure to survive.
Guaranteed ==
  LET image == CHOOSE i \in disk :
                 \A j \in disk : Cursor(i["checkpoint"]) <= Cursor(j["checkpoint"])
  IN IF image["checkpoint"] = NoFile THEN FreshState ELSE image["checkpoint"]

PublishedCertificate ==
  IF \A image \in disk : image["certificate"] # NoFile /\ image["metadata"] # NoFile
    THEN visible["metadata"].index ELSE NoFile

Abstract == INSTANCE SequentialSearch
              WITH saved <- Guaranteed, certificate <- PublishedCertificate

\* ImplementsSequential: seen through what is guaranteed to survive, the
\* concurrent, crashing pipeline is the sequential search.
ImplementsSequential == Abstract!Spec

=============================================================================
