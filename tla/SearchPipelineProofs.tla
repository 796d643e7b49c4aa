------------------------ MODULE SearchPipelineProofs ------------------------
(***************************************************************************)
(* Proofs about SearchPipeline, for every range, window size, checkpoint   *)
(* interval, budget and number of faults, on every kind of file system.    *)
(***************************************************************************)
EXTENDS SearchPipeline, DataLemmas

(***************************************************************************)
(* The inductive invariant.  TypeOK alone is not inductive: the save steps *)
(* use the report in hand and the certificate just written, and the next   *)
(* window step takes the head of the window.                               *)
(***************************************************************************)
StopPcs    == {"stop_rename", "stop_sync", "stop_log"}
PublishPcs == {"anchor_rename", "anchor_sync", "cert_rename", "cert_sync",
               "meta_rename", "meta_sync"}
SavePcs    == {"save_rename", "save_sync", "log"}
RecoverPcs == {"recover_rename", "recover_sync"}
SearchPcs  == {"launch", "retire", "record"} \cup StopPcs \cup PublishPcs

NoWinnerBelow(n)  == \A i \in First .. (n - 1) : ~Winner(i)
RetirableBelow(n) == \A i \in First .. (n - 1) : Retirable(i)

\* What the coordinator knows at each step about the report in hand.
ReportInv ==
  /\ pc = "retire" => pending # <<>>
  /\ pc \in StopPcs \cup PublishPcs \cup SavePcs \cup {"record"} => report \in Indices
  /\ pc \in PublishPcs \cup {"record"} => report = state.next /\ Retirable(report)
  /\ pc \in PublishPcs => Winner(report)
  /\ pc \in {"cert_sync", "meta_rename", "meta_sync"} => visible["certificate"] = report
  /\ pc \in SavePcs => state.next = report + 1
  /\ \A i \in Indices : worker[i] = "done" => fate[i] # "candidate_limit"

IndInv == TypeOK /\ ReportInv

-----------------------------------------------------------------------------
(* Facts about the cursor state.                                           *)

\* A fresh state is a state.
LEMMA FreshStateType == FreshState \in States
BY RangeAssumption DEF FreshState, States, Counters

\* What a run loads is a state.
LEMMA LoadedType == ASSUME TypeOK PROVE Loaded \in States
BY FreshStateType DEF TypeOK, IsImage, Loaded, Exists

\* Recording an outcome below the end of the range gives a state again.
LEMMA RecordedType ==
  ASSUME NEW s \in States, NEW o, s.next < End
  PROVE  Recorded(s, o) \in States
<1>1. s.next + 1 \in First .. End
  BY RangeAssumption DEF States
<1>2. \A c \in CounterNames : s.counters[c] + (IF c \in Bumps(o) THEN 1 ELSE 0) \in Nat
  BY DEF States, Counters
<1> QED
  BY <1>1, <1>2 DEF Recorded, States, Counters

-----------------------------------------------------------------------------
(* Type correctness.                                                       *)

LEMMA InitIndInv == Init => IndInv
<1> SUFFICES ASSUME Init PROVE IndInv
  OBVIOUS
<1> USE RangeAssumption DEF Init
<1>1. IsImage(NoFiles)
  BY DEF IsImage, NoFiles, Files
<1>2. TypeOK
  BY <1>1, FreshStateType DEF TypeOK, Pcs
<1>3. ReportInv
  BY DEF ReportInv, StopPcs, PublishPcs, SavePcs
<1> QED
  BY <1>2, <1>3 DEF IndInv

\* Steps that end a process leave a state the invariant says nothing about.
LEMMA ForgottenInv ==
  ASSUME IndInv, Forgotten, fate' = fate,
         exit' \in {"ended", "incomplete", "verified", "error", "killed",
                   "refused", "disordered", "invalid", "none", "running"},
         \A image \in disk' : IsImage(image), visible' \in disk',
         log' \subseteq Indices, faults' \in Nat, power_losses' \in Nat
  PROVE  IndInv'
<1>1. TypeOK'
  BY RangeAssumption, FreshStateType DEF IndInv, TypeOK, Forgotten, Pcs
<1>2. ReportInv'
  BY DEF Forgotten, ReportInv, StopPcs, PublishPcs, SavePcs
<1> QED
  BY <1>1, <1>2 DEF IndInv

LEMMA StartInv == ASSUME IndInv, Start PROVE IndInv'
<1> USE DEF IndInv
<1>1. CASE Refuse \/ ResumeVerified \/ NothingLeft
  BY <1>1 DEF Refuse, ResumeVerified, NothingLeft, EndAtEntry, TypeOK, files,
              ReportInv, StopPcs, PublishPcs, SavePcs, IsImage
<1>2. CASE RecoverCertificate
  <2>1. state' \in States
    BY <1>2, LoadedType, RecordedType, RangeAssumption
       DEF RecoverCertificate, Complete, States
  <2> QED
    BY <1>2, <2>1 DEF RecoverCertificate, TypeOK, files, Pcs, RenamePcs,
                      ReportInv, StopPcs, PublishPcs, SavePcs, IsImage
<1>3. CASE BeginSearch
  <2>1. Loaded.next \in First .. End
    BY LoadedType DEF States
  <2>2. launch_end' \in First .. End
    BY <1>3, <2>1, RangeAssumption, ConfigAssumption DEF BeginSearch, LaunchEnd
  <2> QED
    BY <1>3, <2>1, <2>2, LoadedType
       DEF BeginSearch, TypeOK, files, Pcs, ReportInv, StopPcs, PublishPcs,
           SavePcs, IsImage
<1> QED
  BY <1>1, <1>2, <1>3 DEF Start

\* Steps of the window: launching, finishing and taking reports.
LEMMA WindowInv ==
  ASSUME IndInv,
         \/ LaunchCurve \/ WindowFull \/ TakeReport \/ RethrowFailure
         \/ \E i \in Indices : FinishCurve(i) \/ CurveThrows(i)
  PROVE  IndInv'
<1> USE DEF IndInv
<1>1. CASE LaunchCurve
  <2>1. next_to_launch \in Indices /\ next_to_launch + 1 \in First .. End
    BY <1>1, RangeAssumption DEF LaunchCurve, WindowOpen, TypeOK, Indices
  <2> QED
    BY <1>1, <2>1 DEF LaunchCurve, TypeOK, files, ReportInv, StopPcs,
                      PublishPcs, SavePcs, IsImage
<1>2. CASE WindowFull
  BY <1>2 DEF WindowFull, TypeOK, files, Pcs, ReportInv, StopPcs, PublishPcs,
              SavePcs, IsImage
<1>3. CASE TakeReport
  <2>1. Head(pending) \in Indices /\ Tail(pending) \in Seq(Indices)
    BY <1>3 DEF TakeReport, TypeOK, ReportInv
  <2>2. RetireTo(Head(pending)) \in {"drain", "stop_rename", "anchor_rename", "record"}
    BY DEF RetireTo
  <2>3. RetireTo(Head(pending)) \in {"stop_rename", "anchor_rename", "record"}
          => Head(pending) = state.next
    BY DEF RetireTo
  <2>4. TypeOK'
    BY <1>3, <2>1, <2>2 DEF TakeReport, TypeOK, files, Pcs, RenamePcs, IsImage
  <2>5. RetireTo(Head(pending)) = "anchor_rename" => Winner(Head(pending))
    BY DEF RetireTo
  <2>6. fate[Head(pending)] \in Statuses \ {"candidate_limit"}
    BY <1>3, <2>1, ConfigAssumption DEF TakeReport, TypeOK, ReportInv
  <2>7. RetireTo(Head(pending)) \in {"anchor_rename", "record"}
          => Retirable(Head(pending))
    BY <2>6 DEF RetireTo, Retirable, Incomplete, Statuses
  <2> QED
    BY <1>3, <2>1, <2>2, <2>3, <2>4, <2>5, <2>7
       DEF TakeReport, ReportInv, StopPcs, PublishPcs, SavePcs, Winner, Retirable,
           TypeOK
<1>4. CASE RethrowFailure
  <2>1. Head(pending) \in Indices /\ Tail(pending) \in Seq(Indices)
    BY <1>4 DEF RethrowFailure, TypeOK, ReportInv
  <2> QED
    BY <1>4, <2>1 DEF RethrowFailure, TypeOK, files, Pcs, ReportInv, StopPcs,
                      PublishPcs, SavePcs, IsImage
<1>5. CASE \E i \in Indices : FinishCurve(i) \/ CurveThrows(i)
  BY <1>5 DEF FinishCurve, CurveThrows, Finished, TypeOK, files, ReportInv,
              StopPcs, PublishPcs, SavePcs, Winner, Retirable, IsImage
<1> QED
  BY <1>1, <1>2, <1>3, <1>4, <1>5

\* What each save writes, and that the images stay images.
LEMMA ContentsType ==
  ASSUME IndInv, pc \in RenamePcs
  PROVE  LET f == SaveOf(pc)  c == ContentsFor(f) IN
           /\ f \in Files
           /\ f = "checkpoint"  => c \in States
           /\ f = "certificate" => c \in Indices
           /\ f = "metadata"    => c \in Bindings
           /\ f = "certificate" => c = report
<1>1. CASE SaveOf(pc) = "checkpoint"
  BY <1>1 DEF IndInv, TypeOK, ContentsFor, Files
<1>2. CASE SaveOf(pc) = "certificate"
  BY <1>2 DEF IndInv, TypeOK, ReportInv, SaveOf, ContentsFor, Files, PublishPcs
<1>3. CASE SaveOf(pc) = "metadata"
  <2>1. pc = "meta_rename"
    BY <1>3 DEF SaveOf
  <2>2. visible["certificate"] \in Indices
    BY <2>1 DEF IndInv, ReportInv, PublishPcs
  <2>3. state.next \in Nat
    BY RangeAssumption DEF IndInv, TypeOK, States
  <2> QED
    BY <1>3, <2>2, <2>3 DEF ContentsFor, Bindings, Files
<1> QED
  BY <1>1, <1>2, <1>3 DEF SaveOf

LEMMA ReplaceImages ==
  ASSUME TypeOK, NEW f \in Files, NEW c, Replace(f, c),
         f = "checkpoint"  => c \in States,
         f = "certificate" => c \in Indices,
         f = "metadata"    => c \in Bindings
  PROVE  /\ \A image \in disk' : IsImage(image)
         /\ visible' \in disk'
         /\ \A g \in Files : visible'[g] = IF g = f THEN c ELSE visible[g]
<1>1. \A image \in disk : IsImage([image EXCEPT ![f] = c])
  BY DEF TypeOK, IsImage, Files
<1>2. visible \in disk /\ visible' = [visible EXCEPT ![f] = c]
  BY DEF TypeOK, Replace
<1>3. \A g \in Files : visible'[g] = IF g = f THEN c ELSE visible[g]
  BY <1>2 DEF TypeOK, IsImage
<1> QED
  BY <1>1, <1>2, <1>3 DEF TypeOK, Replace

LEMMA SaveInv == ASSUME IndInv, Rename \/ Sync PROVE IndInv'
<1> USE DEF IndInv
<1>1. CASE Rename
  <2> DEFINE f == SaveOf(pc)
             c == ContentsFor(f)
  <2>1. /\ pc \in RenamePcs
        /\ Replace(f, c)
        /\ pc' = After(pc)
        /\ UNCHANGED <<fate, state, next_to_launch, launch_end, pending, worker,
                       report, processed, exit, log, faults, power_losses>>
    BY <1>1 DEF Rename
  <2>2. /\ f \in Files
        /\ f = "checkpoint"  => c \in States
        /\ f = "certificate" => c \in Indices /\ c = report
        /\ f = "metadata"    => c \in Bindings
    BY <2>1, ContentsType
  <2> HIDE DEF c
  <2>3. /\ \A image \in disk' : IsImage(image)
        /\ visible' \in disk'
        /\ \A g \in Files : visible'[g] = IF g = f THEN c ELSE visible[g]
    BY <2>1, <2>2, ReplaceImages
  <2>4. TypeOK'
    BY <2>1, <2>3 DEF TypeOK, Pcs, RenamePcs, SyncPcs, After
  <2>5. ReportInv'
    BY <2>1, <2>2, <2>3 DEF ReportInv, RenamePcs, After, StopPcs, PublishPcs,
          SavePcs, Winner, Retirable, SaveOf, Files
  <2> QED
    BY <2>4, <2>5
<1>2. CASE Sync
  BY <1>2 DEF Sync, SyncDirectory, TypeOK, Pcs, RenamePcs, SyncPcs, After,
              ReportInv, StopPcs, PublishPcs, SavePcs, Winner, Retirable, IsImage
<1> QED
  BY <1>1, <1>2

LEMMA RecordInv == ASSUME IndInv, Record PROVE IndInv'
<1> USE DEF IndInv
<1> DEFINE outcome == RetiredOutcome(fate[report])
<1>1. CASE CanRecord(state, report, outcome)
  <2>1. state.next < End /\ report = state.next
    BY <1>1, RangeAssumption DEF CanRecord, Complete, ValidState, TypeOK, States
  <2>2. state' \in States /\ state'.next = report + 1
    BY <1>1, <2>1, RecordedType DEF Record, TypeOK, Recorded
  <2>3. AfterRecord(processed', state') \in {"save_rename", "log"}
    BY DEF AfterRecord
  <2> QED
    BY <1>1, <2>1, <2>2, <2>3
       DEF Record, TypeOK, files, Pcs, RenamePcs, ReportInv, StopPcs,
           PublishPcs, SavePcs, Winner, Retirable, IsImage
<1>2. CASE ~CanRecord(state, report, outcome)
  BY <1>2 DEF Record, TypeOK, files, Pcs, ReportInv, StopPcs, PublishPcs,
              SavePcs, IsImage
<1> QED
  BY <1>1, <1>2

LEMMA AppendInv == ASSUME IndInv, AppendProgress PROVE IndInv'
<1> USE DEF IndInv
<1>1. AfterAppend(report)[1] \in {"drain", "launch"}
      /\ AfterAppend(report)[2] \in {"incomplete", "verified", exit}
  BY DEF AfterAppend
<1>2. report \in Indices
  BY DEF AppendProgress, ReportInv, StopPcs, SavePcs
<1> QED
  BY <1>1, <1>2 DEF AppendProgress, TypeOK, Pcs, ReportInv, StopPcs,
                    PublishPcs, SavePcs, IsImage

LEMMA EndInv ==
  ASSUME IndInv, Join \/ CoordinatorThrows \/ Kill \/ PowerLoss
  PROVE  IndInv'
<1> USE DEF IndInv
<1>1. CASE Join
  BY <1>1, ForgottenInv DEF Join, files, TypeOK, IsImage
<1>2. CASE CoordinatorThrows
  BY <1>2 DEF CoordinatorThrows, TypeOK, files, Pcs, ReportInv, StopPcs,
              PublishPcs, SavePcs, IsImage
<1>3. CASE Kill
  BY <1>3, ForgottenInv DEF Kill, files, TypeOK, IsImage
<1>4. CASE PowerLoss
  BY <1>4, ForgottenInv DEF PowerLoss, TypeOK, IsImage
<1> QED
  BY <1>1, <1>2, <1>3, <1>4

LEMMA NextIndInv == IndInv /\ [Next]_vars => IndInv'
<1> SUFFICES ASSUME IndInv, [Next]_vars PROVE IndInv'
  OBVIOUS
<1>1. CASE Start
  BY <1>1, StartInv
<1>2. CASE Coordinator
  BY <1>2, WindowInv, SaveInv, RecordInv, AppendInv, EndInv DEF Coordinator
<1>3. CASE \E i \in Indices : FinishCurve(i) \/ CurveThrows(i)
  BY <1>3, WindowInv
<1>4. CASE CoordinatorThrows \/ Kill \/ PowerLoss
  BY <1>4, EndInv
<1>5. CASE UNCHANGED vars
  BY <1>5 DEF vars, run, files, IndInv, TypeOK, ReportInv, StopPcs, PublishPcs,
              SavePcs, Winner, Retirable, IsImage
<1> QED
  BY <1>1, <1>2, <1>3, <1>4, <1>5 DEF Next

(***************************************************************************)
(* The type invariant of the pipeline holds in every reachable state: the  *)
(* window, the report in hand and every image of the files a crash or a    *)
(* power loss may leave are well formed.                                   *)
(***************************************************************************)
THEOREM Typing == Spec => []TypeOK
<1>1. Spec => []IndInv
  BY InitIndInv, NextIndInv, PTL DEF Spec
<1>2. IndInv => TypeOK
  BY DEF IndInv
<1> QED
  BY <1>1, <1>2, PTL

-----------------------------------------------------------------------------
(* The counters of a prefix.                                               *)

\* Status by status, the outcome the pipeline retires feeds the counters the
\* reference table names.
LEMMA BumpsAreFed ==
  ASSUME NEW status \in RetirableStatuses \cup IncompleteStatuses,
         NEW c \in CounterNames
  PROVE  c \in Bumps(RetiredOutcome(status)) <=> c \in FedBy(status)
<1> USE DEF Bumps, RetiredOutcome, OutcomeOf, FedBy, Counted, Screened,
            CounterNames, Stages
<1>1. CASE status \in IncompleteStatuses
  BY <1>1 DEF IncompleteStatuses
<1>2. CASE status \in RetirableStatuses
  BY <1>2 DEF RetirableStatuses, IncompleteStatuses
<1> QED
  BY <1>1, <1>2

\* Counting one more index.
LEMMA TallyStep ==
  ASSUME NEW f, NEW n \in Nat, n >= First, NEW c \in CounterNames
  PROVE  /\ Tally(f, n)[c] \in Nat
         /\ Tally(f, n + 1)[c] = Tally(f, n)[c] + IF c \in FedBy(f[n]) THEN 1 ELSE 0
<1> DEFINE Prefix(m) == {i \in First .. (m - 1) : c \in FedBy(f[i])}
<1>1. IsFiniteSet(Prefix(n)) /\ Cardinality(Prefix(n)) \in Nat
  <2>1. First \in Int /\ n - 1 \in Int
    BY RangeAssumption
  <2>2. IsFiniteSet(First .. (n - 1))
    BY <2>1, FS_Interval
  <2>3. IsFiniteSet(Prefix(n))
    BY <2>2, FS_Subset
  <2> QED
    BY <2>3, FS_CardinalityType
<1>2. n \notin Prefix(n)
  BY RangeAssumption
<1>3. Prefix(n + 1) = IF c \in FedBy(f[n]) THEN Prefix(n) \cup {n} ELSE Prefix(n)
  BY RangeAssumption
<1>4. Cardinality(Prefix(n) \cup {n}) = Cardinality(Prefix(n)) + 1
  BY <1>1, <1>2, FS_AddElement
<1>5. \A m \in Int : Tally(f, m)[c] = Cardinality(Prefix(m))
  BY DEF Tally
<1> HIDE DEF Prefix
<1> QED
  BY <1>1, <1>3, <1>4, <1>5

\* An empty prefix counts nothing.
LEMMA TallyStart ==
  ASSUME NEW f PROVE Tally(f, First) = [c \in CounterNames |-> 0]
<1>1. \A c \in CounterNames : {i \in First .. (First - 1) : c \in FedBy(f[i])} = {}
  BY RangeAssumption
<1> QED
  BY <1>1, FS_EmptySet DEF Tally

LEMMA FreshTruthful == Truthful(FreshState) /\ NoWinnerBelow(First)
BY TallyStart, RangeAssumption DEF Truthful, FreshState, NoWinnerBelow

\* Recording the next index keeps a state truthful.
LEMMA RecordTruthful ==
  ASSUME TypeOK, NEW s \in States, Truthful(s), s.next < End,
         NoWinnerBelow(s.next), Retirable(s.next)
  PROVE  LET r == Recorded(s, RetiredOutcome(fate[s.next])) IN
           /\ Truthful(r)
           /\ ~Winner(s.next) => NoWinnerBelow(r.next)
<1> DEFINE r == Recorded(s, RetiredOutcome(fate[s.next]))
<1>1. s.next \in Nat /\ s.next >= First /\ r.next = s.next + 1
  BY RangeAssumption DEF States, Recorded
<1>2. fate[s.next] \in RetirableStatuses \cup IncompleteStatuses
  BY DEF Retirable
<1>3. ASSUME NEW c \in CounterNames
      PROVE  r.counters[c] = Tally(fate, s.next + 1)[c]
  BY <1>1, <1>2, BumpsAreFed, TallyStep DEF Recorded, Truthful
<1>4. r.counters = Tally(fate, r.next)
  BY <1>1, <1>3 DEF Recorded, Tally
<1>5. RetirableBelow(r.next)
  BY <1>1 DEF Truthful, RetirableBelow
<1>6. \A i \in First .. (r.next - 2) : ~Winner(i)
  BY <1>1 DEF NoWinnerBelow
<1>7. ~Winner(s.next) => NoWinnerBelow(r.next)
  BY <1>1 DEF NoWinnerBelow
<1> HIDE DEF r
<1>8. Truthful(r)
  BY <1>4, <1>5, <1>6 DEF Truthful, RetirableBelow
<1> QED
  BY <1>7, <1>8 DEF r

\* No certificate counted: no winner passed.
LEMMA NothingFound ==
  ASSUME TypeOK, NEW s \in States, Truthful(s), Found(s) = 0
  PROVE  NoWinnerBelow(s.next)
<1> DEFINE Won == {i \in First .. (s.next - 1) :
                     "verified_certificate_found" \in FedBy(fate[i])}
<1>1. IsFiniteSet(Won) /\ Cardinality(Won) = 0
  <2>1. IsFiniteSet(First .. (s.next - 1))
    BY RangeAssumption, FS_Interval DEF States
  <2>2. IsFiniteSet(Won)
    BY <2>1, FS_Subset
  <2> QED
    BY <2>2 DEF Truthful, Found, Tally, CounterNames, Stages
<1>2. Won = {}
  BY <1>1, FS_EmptySet
<1>3. ASSUME NEW i \in First .. (s.next - 1), Winner(i) PROVE FALSE
  BY <1>2, <1>3 DEF Winner, FedBy, Counted
<1> QED
  BY <1>3 DEF NoWinnerBelow

\* What a run loads is truthful.
LEMMA LoadedTruthful ==
  ASSUME TypeOK, CheckpointsTruthful PROVE Truthful(Loaded)
BY FreshTruthful DEF TypeOK, CheckpointsTruthful, Survivors, Loaded, Exists

-----------------------------------------------------------------------------
(* The durable state tells the truth.                                      *)

\* Besides the two properties: the state in memory is truthful while a run
\* is under way, and no winner has been passed while it still searches.
TruthInv ==
  /\ CheckpointsTruthful
  /\ LowestWinnerPublished
  /\ pc \in SearchPcs \cup SavePcs \cup RecoverPcs => Truthful(state)
  /\ pc \in SearchPcs => NoWinnerBelow(state.next)
  /\ pc \in SavePcs /\ ~Winner(report) => NoWinnerBelow(state.next)

\* The part of it that only the files and the fates matter to.
FilesTruthful == CheckpointsTruthful /\ LowestWinnerPublished

\* The file properties survive every step that writes none of the files.
LEMMA FilesKept ==
  ASSUME FilesTruthful, fate' = fate, disk' \subseteq disk
  PROVE  FilesTruthful'
<1>1. CheckpointsTruthful'
  BY DEF FilesTruthful, CheckpointsTruthful, Survivors, Truthful, Retirable, Winner
<1>2. LowestWinnerPublished'
  BY DEF FilesTruthful, LowestWinnerPublished, Survivors, Retirable, Winner
<1> QED
  BY <1>1, <1>2 DEF FilesTruthful

\* A replaced file may come back with its old contents or with the new ones.
LEMMA ReplaceSurvivors ==
  ASSUME TypeOK, NEW f \in Files, NEW c, Replace(f, c), NEW g \in Files
  PROVE  Survivors(g)' \subseteq Survivors(g) \cup (IF g = f THEN {c} ELSE {})
<1>1. visible \in disk /\ visible' = [visible EXCEPT ![f] = c]
  BY DEF TypeOK, Replace
<1>2. ASSUME NEW image \in disk
      PROVE  [image EXCEPT ![f] = c][g] = IF g = f THEN c ELSE image[g]
  BY DEF TypeOK, IsImage
<1>3. \A new \in disk' : \E old \in disk :
        new[g] = old[g] \/ (g = f /\ new[g] = c)
  BY <1>1, <1>2 DEF Replace
<1> QED
  BY <1>3 DEF Survivors

LEMMA InitTruth == Init => TruthInv
BY DEF Init, NoFiles, Files, TruthInv, CheckpointsTruthful,
       LowestWinnerPublished, Survivors, SearchPcs, StopPcs, PublishPcs,
       SavePcs, RecoverPcs

LEMMA StartTruth == ASSUME IndInv, TruthInv, Start PROVE TruthInv'
<1> USE DEF IndInv
<1>1. FilesTruthful /\ fate' = fate /\ disk' = disk
  BY DEF TruthInv, FilesTruthful, Start, Refuse, ResumeVerified, NothingLeft,
         EndAtEntry, RecoverCertificate, BeginSearch, files
<1>2. FilesTruthful'
  BY <1>1, FilesKept
<1>3. Loaded \in States /\ Truthful(Loaded)
  BY LoadedType, LoadedTruthful DEF TruthInv
<1>4. CASE Refuse \/ ResumeVerified \/ NothingLeft
  BY <1>2, <1>4 DEF Refuse, ResumeVerified, NothingLeft, EndAtEntry, TruthInv,
     FilesTruthful, SearchPcs, StopPcs, PublishPcs, SavePcs, RecoverPcs
<1>5. CASE RecoverCertificate
  <2>1. /\ Loaded.next < End /\ Found(Loaded) = 0
        /\ state' = Recorded(Loaded, OutcomeOf("verified_certificate"))
        /\ pc' = "recover_rename"
    BY <1>3, <1>5, RangeAssumption DEF RecoverCertificate, Complete, States
  <2>2. NoWinnerBelow(Loaded.next)
    BY <1>3, <2>1, NothingFound
  <2>3. Winner(Loaded.next)
    <3>1. visible["metadata"] # NoFile /\ visible["metadata"].index = Loaded.next
      BY <1>5, <2>1 DEF RecoverCertificate, Paired, Exists, PairAccepted, BoundIndex
    <3>2. visible["metadata"] \in Survivors("metadata")
      BY <3>1 DEF Survivors, TypeOK
    <3> QED
      BY <3>1, <3>2 DEF TruthInv, LowestWinnerPublished
  <2>4. OutcomeOf("verified_certificate") = RetiredOutcome(fate[Loaded.next])
    BY <2>3 DEF Winner, RetiredOutcome, IncompleteStatuses
  <2>5. Retirable(Loaded.next)
    BY <2>3 DEF Winner, Retirable, RetirableStatuses
  <2>6. Truthful(state')
    BY <1>3, <2>1, <2>2, <2>4, <2>5, RecordTruthful
  <2>7. Truthful(state)'
    BY <1>1, <2>6 DEF Truthful, Retirable, Winner
  <2> QED
    BY <1>2, <2>1, <2>7 DEF TruthInv, FilesTruthful, SearchPcs, StopPcs,
       PublishPcs, SavePcs, RecoverPcs
<1>6. CASE BeginSearch
  <2>1. state' = Loaded /\ pc' = "launch" /\ Found(Loaded) = 0
    BY <1>6 DEF BeginSearch, Unpaired
  <2>2. NoWinnerBelow(Loaded.next)
    BY <1>3, <2>1, NothingFound
  <2>3. Truthful(state)' /\ NoWinnerBelow(state.next)'
    BY <1>1, <1>3, <2>1, <2>2 DEF Truthful, NoWinnerBelow, Retirable, Winner
  <2> QED
    BY <1>2, <2>1, <2>3 DEF TruthInv, FilesTruthful, SearchPcs, StopPcs,
       PublishPcs, SavePcs, RecoverPcs
<1> QED
  BY <1>4, <1>5, <1>6 DEF Start

\* Steps that leave the cursor state, the fates and the files alone and do
\* not go from elsewhere into the search.
LEMMA QuietTruth ==
  ASSUME TruthInv, UNCHANGED <<fate, state, disk>>,
         pc' \in SearchPcs => pc \in SearchPcs,
         pc' \in SavePcs \cup RecoverPcs => pc' = pc,
         pc' \in SavePcs => report' = report
  PROVE  TruthInv'
<1>1. FilesTruthful'
  BY FilesKept DEF TruthInv, FilesTruthful
<1>2. \A n : NoWinnerBelow(n) = NoWinnerBelow(n)'
  BY DEF NoWinnerBelow, Winner
<1>3. Truthful(state) = Truthful(state)'
  BY DEF Truthful, Retirable, Winner
<1> QED
  BY <1>1, <1>2, <1>3 DEF TruthInv, FilesTruthful, Winner, NoWinnerBelow

LEMMA WindowTruth ==
  ASSUME IndInv, TruthInv,
         \/ LaunchCurve \/ WindowFull \/ TakeReport \/ RethrowFailure
         \/ \E i \in Indices : FinishCurve(i) \/ CurveThrows(i)
  PROVE  TruthInv'
<1> USE DEF SearchPcs, StopPcs, PublishPcs, SavePcs, RecoverPcs, files
<1>1. CASE LaunchCurve
  BY <1>1, QuietTruth DEF LaunchCurve
<1>2. CASE WindowFull
  BY <1>2, QuietTruth DEF WindowFull
<1>3. CASE TakeReport
  BY <1>3, QuietTruth DEF TakeReport, RetireTo
<1>4. CASE RethrowFailure
  BY <1>4, QuietTruth DEF RethrowFailure
<1>5. CASE \E i \in Indices : FinishCurve(i) \/ CurveThrows(i)
  BY <1>5, QuietTruth DEF FinishCurve, CurveThrows
<1> QED
  BY <1>1, <1>2, <1>3, <1>4, <1>5

\* Whatever a save writes is the truth.
LEMMA RenameTruth == ASSUME IndInv, TruthInv, Rename PROVE TruthInv'
<1> DEFINE f == SaveOf(pc)
           c == ContentsFor(f)
<1>1. /\ pc \in RenamePcs /\ pc' = After(pc)
      /\ Replace(f, c)
      /\ UNCHANGED <<fate, state, report>>
  BY DEF Rename
<1>2. f \in Files
  BY DEF SaveOf, Files
<1>3. Survivors("checkpoint")' \subseteq
        Survivors("checkpoint") \cup (IF f = "checkpoint" THEN {c} ELSE {})
  BY <1>1, <1>2, ReplaceSurvivors DEF IndInv, Files
<1>4. Survivors("metadata")' \subseteq
        Survivors("metadata") \cup (IF f = "metadata" THEN {c} ELSE {})
  BY <1>1, <1>2, ReplaceSurvivors DEF IndInv, Files
<1>5. Truthful(state)
  BY <1>1 DEF TruthInv, RenamePcs, SearchPcs, StopPcs, PublishPcs, SavePcs, RecoverPcs
<1>6. CheckpointsTruthful'
  <2>1. f = "checkpoint" => c = state
    BY DEF ContentsFor
  <2>2. \A s \in Survivors("checkpoint")' : Truthful(s)
    BY <1>3, <1>5, <2>1 DEF TruthInv, CheckpointsTruthful
  <2> QED
    BY <1>1, <2>2 DEF CheckpointsTruthful, Survivors, Truthful, Retirable, Winner
<1>7. LowestWinnerPublished'
  <2>1. ASSUME f = "metadata"
        PROVE  /\ c.index = state.next /\ c.certificate = report
               /\ report \in Indices /\ report = state.next /\ Winner(report)
               /\ RetirableBelow(state.next) /\ NoWinnerBelow(state.next)
    <3>1. pc = "meta_rename"
      BY <2>1 DEF SaveOf
    <3>2. c = [index |-> state.next, certificate |-> visible["certificate"]]
      BY <2>1 DEF ContentsFor
    <3> QED
      BY <1>5, <3>1, <3>2 DEF IndInv, ReportInv, PublishPcs, TruthInv,
         SearchPcs, Truthful, RetirableBelow
  <2>2. \A m \in Survivors("metadata")' :
          /\ m.certificate = m.index /\ m.index \in Indices /\ Winner(m.index)
          /\ \A j \in First .. (m.index - 1) : Retirable(j) /\ ~Winner(j)
    BY <1>4, <2>1 DEF TruthInv, LowestWinnerPublished, RetirableBelow, NoWinnerBelow
  <2> QED
    BY <1>1, <2>2 DEF LowestWinnerPublished, Survivors, Retirable, Winner
<1>8. Truthful(state)' /\ (NoWinnerBelow(state.next) => NoWinnerBelow(state.next)')
  BY <1>1, <1>5 DEF Truthful, NoWinnerBelow, Retirable, Winner
<1> QED
  BY <1>1, <1>6, <1>7, <1>8
     DEF TruthInv, RenamePcs, After, SearchPcs, StopPcs, PublishPcs, SavePcs,
         RecoverPcs, Winner

LEMMA SyncTruth == ASSUME IndInv, TruthInv, Sync PROVE TruthInv'
<1>1. /\ pc \in SyncPcs /\ pc' = After(pc) /\ disk' = {visible}
      /\ UNCHANGED <<fate, state, report>>
  BY DEF Sync, SyncDirectory
<1>2. FilesTruthful'
  BY <1>1, FilesKept DEF TruthInv, FilesTruthful, IndInv, TypeOK
<1>3. Truthful(state) => Truthful(state)'
  BY <1>1 DEF Truthful, Retirable, Winner
<1>4. NoWinnerBelow(state.next) => NoWinnerBelow(state.next)'
  BY <1>1 DEF NoWinnerBelow, Winner
<1> QED
  BY <1>1, <1>2, <1>3, <1>4
     DEF TruthInv, FilesTruthful, SyncPcs, After, SearchPcs, StopPcs,
         PublishPcs, SavePcs, RecoverPcs, Winner

LEMMA RecordStepTruth == ASSUME IndInv, TruthInv, Record PROVE TruthInv'
<1> DEFINE outcome == RetiredOutcome(fate[report])
<1>1. CASE CanRecord(state, report, outcome)
  <2>1. /\ state.next < End /\ report = state.next
        /\ state' = Recorded(state, RetiredOutcome(fate[state.next]))
        /\ pc' \in {"save_rename", "log"}
        /\ UNCHANGED <<fate, report, disk>>
    BY <1>1, RangeAssumption
       DEF Record, CanRecord, Complete, ValidState, IndInv, TypeOK, States,
           AfterRecord, files
  <2>2. Truthful(state) /\ NoWinnerBelow(state.next) /\ Retirable(state.next)
    BY DEF Record, TruthInv, SearchPcs, IndInv, ReportInv
  <2>3. Truthful(state') /\ (~Winner(report) => NoWinnerBelow(state'.next))
    BY <2>1, <2>2, RecordTruthful DEF IndInv, TypeOK
  <2>4. FilesTruthful'
    BY <2>1, FilesKept DEF TruthInv, FilesTruthful
  <2>5. Truthful(state)' /\ (~Winner(report)' => NoWinnerBelow(state.next)')
    BY <2>1, <2>3 DEF Truthful, NoWinnerBelow, Retirable, Winner
  <2> QED
    BY <2>1, <2>4, <2>5 DEF TruthInv, FilesTruthful, SearchPcs, StopPcs,
       PublishPcs, SavePcs, RecoverPcs
<1>2. CASE ~CanRecord(state, report, outcome)
  BY <1>2, QuietTruth DEF Record, files, SearchPcs, StopPcs, PublishPcs,
     SavePcs, RecoverPcs
<1> QED
  BY <1>1, <1>2

LEMMA AppendTruth == ASSUME IndInv, TruthInv, AppendProgress PROVE TruthInv'
<1>1. CASE pc = "log" /\ ~Winner(report)
  <2>1. Truthful(state) /\ NoWinnerBelow(state.next)
    BY <1>1 DEF TruthInv, SavePcs
  <2>2. UNCHANGED <<fate, state, disk>> /\ pc' = "launch"
    BY <1>1 DEF AppendProgress, AfterAppend
  <2>3. FilesTruthful'
    BY <2>2, FilesKept DEF TruthInv, FilesTruthful
  <2> QED
    BY <2>1, <2>2, <2>3 DEF TruthInv, FilesTruthful, Truthful, NoWinnerBelow,
       Retirable, Winner, SavePcs
<1>2. CASE ~(pc = "log" /\ ~Winner(report))
  BY <1>2, QuietTruth DEF AppendProgress, AfterAppend, SearchPcs, StopPcs,
     PublishPcs, SavePcs, RecoverPcs
<1> QED
  BY <1>1, <1>2

LEMMA EndTruth ==
  ASSUME IndInv, TruthInv, Join \/ CoordinatorThrows \/ Kill \/ PowerLoss
  PROVE  TruthInv'
<1>1. pc' \in {"down", "drain"} /\ fate' = fate /\ disk' \subseteq disk
  BY DEF Join, CoordinatorThrows, Kill, PowerLoss, Forgotten, files
<1>2. FilesTruthful'
  BY <1>1, FilesKept DEF TruthInv, FilesTruthful
<1> QED
  BY <1>1, <1>2 DEF TruthInv, FilesTruthful, SearchPcs, StopPcs, PublishPcs,
     SavePcs, RecoverPcs

LEMMA NextTruth == IndInv /\ TruthInv /\ [Next]_vars => TruthInv'
<1> SUFFICES ASSUME IndInv, TruthInv, [Next]_vars PROVE TruthInv'
  OBVIOUS
<1>1. CASE Start
  BY <1>1, StartTruth
<1>2. CASE Coordinator
  BY <1>2, WindowTruth, RenameTruth, SyncTruth, RecordStepTruth, AppendTruth,
     EndTruth DEF Coordinator
<1>3. CASE \E i \in Indices : FinishCurve(i) \/ CurveThrows(i)
  BY <1>3, WindowTruth
<1>4. CASE CoordinatorThrows \/ Kill \/ PowerLoss
  BY <1>4, EndTruth
<1>5. CASE UNCHANGED vars
  BY <1>5, QuietTruth DEF vars, run, files
<1> QED
  BY <1>1, <1>2, <1>3, <1>4, <1>5 DEF Next

LEMMA TruthInvariant == Spec => [](IndInv /\ TruthInv)
BY InitIndInv, NextIndInv, InitTruth, NextTruth, PTL DEF Spec

(***************************************************************************)
(* Every checkpoint that may ever be loaded skips no index and counts      *)
(* exactly the prefix it claims: no crash, exception, power loss or        *)
(* out-of-order completion in the window can make the search pass over a   *)
(* curve or miscount it.                                                   *)
(***************************************************************************)
THEOREM CheckpointTruth == Spec => []CheckpointsTruthful
<1>1. TruthInv => CheckpointsTruthful
  BY DEF TruthInv
<1> QED
  BY <1>1, TruthInvariant, PTL

(***************************************************************************)
(* A certificate sidecar that may ever be found names the lowest winning   *)
(* index of the range and the certificate of that index, although curves   *)
(* are computed concurrently and may win in any order.                     *)
(***************************************************************************)
THEOREM LowestWinner == Spec => []LowestWinnerPublished
<1>1. TruthInv => LowestWinnerPublished
  BY DEF TruthInv
<1> QED
  BY <1>1, TruthInvariant, PTL

-----------------------------------------------------------------------------
(***************************************************************************)
(* What the files a stopped search leaves behind are good for: recovery    *)
(* properties, and the refinement of SequentialSearch.  They build on the  *)
(* two invariants shown above, IndInv and TruthInv.                        *)
(***************************************************************************)
ActivePcs == SearchPcs \cup SavePcs \cup RecoverPcs

USE DEF ActivePcs, SearchPcs, StopPcs, PublishPcs, SavePcs, RecoverPcs

-----------------------------------------------------------------------------
(* Inside a run: the window, the cursor states and the checkpoint below it.*)

\* The window holds consecutive indices from n on, up to the next to launch.
WindowFrom(n) ==
  /\ next_to_launch = n + Len(pending)
  /\ \A k \in 1 .. Len(pending) : pending[k] = n + k - 1

WindowInOrder ==
  /\ pc = "down" => pending = <<>>
  /\ pc \in {"launch", "retire"} \cup SavePcs => WindowFrom(state.next)
  /\ pc \in {"record"} \cup StopPcs \cup PublishPcs => WindowFrom(state.next + 1)
  /\ pc \in StopPcs => report = state.next

\* Every cursor state that can be recorded, saved or loaded is valid.
StatesValid ==
  /\ \A s \in Survivors("checkpoint") : ValidState(s)
  /\ pc \in ActivePcs => ValidState(state)

\* The checkpoint on disk never overtakes the cursor in memory.
CursorBehind ==
  /\ pc \in ActivePcs => Cursor(visible["checkpoint"]) <= state.next
  /\ pc = "save_rename" => Cursor(visible["checkpoint"]) <= report

OrderlyExit == exit \notin {"disordered", "invalid"}

RunInv == WindowInOrder /\ StatesValid /\ CursorBehind /\ OrderlyExit

-----------------------------------------------------------------------------
(* validate_counters and validate_outcome never reject.                    *)

LEMMA FreshValid == ValidState(FreshState)
BY RangeAssumption DEF ValidState, FreshState, StageTotal, CounterNames, Stages

LEMMA OutcomeValid ==
  ASSUME NEW status \in RetirableStatuses \cup IncompleteStatuses
  PROVE  RetiredOutcome(status) \in Outcomes /\ ValidOutcome(RetiredOutcome(status))
<1> USE DEF RetiredOutcome, OutcomeOf, Outcomes, Stages, ValidOutcome
<1>1. CASE status \in IncompleteStatuses
  BY <1>1 DEF IncompleteStatuses
<1>2. CASE status \in RetirableStatuses
  BY <1>2 DEF RetirableStatuses, IncompleteStatuses
<1> QED
  BY <1>1, <1>2

\* Recording a valid outcome keeps a state valid.
LEMMA RecordedValid ==
  ASSUME NEW s \in States, ValidState(s), s.next < End,
         NEW o \in Outcomes, ValidOutcome(o)
  PROVE  ValidState(Recorded(s, o))
<1> DEFINE r == Recorded(s, o)
<1>1. r.next = s.next + 1 /\ s.next \in First .. End
  BY DEF Recorded, States
<1>2. \A c \in CounterNames :
        s.counters[c] \in Nat
          /\ r.counters[c] = s.counters[c] + IF c \in Bumps(o) THEN 1 ELSE 0
  BY DEF Recorded, States, Counters
<1>3. o.stage \in Stages /\ o.full \in BOOLEAN /\ o.smooth \in BOOLEAN
  BY DEF Outcomes
<1>4. \A c \in Stages : c \in Bumps(o) <=> c = o.stage
  BY DEF Bumps, Stages
<1>5. /\ "curves_attempted" \in Bumps(o)
      /\ "full_point_counts_completed" \in Bumps(o) <=> o.full
      /\ "candidates_reaching_smoothness" \in Bumps(o) <=> o.smooth
  BY <1>3 DEF Bumps, Stages
<1>6. r.counters["curves_attempted"] = r.next - First
  BY <1>1, <1>2, <1>5, RangeAssumption DEF ValidState, CounterNames
<1>7. StageTotal(r.counters) = StageTotal(s.counters) + 1
  BY <1>2, <1>3, <1>4 DEF StageTotal, Stages, CounterNames
<1>8. ASSUME NEW m \in {"full_point_counts_completed", "candidates_reaching_smoothness"}
      PROVE  /\ r.counters[m] <= r.counters["curves_attempted"]
             /\ r.counters["verified_certificate_found"] <= r.counters[m]
             /\ r.counters["rejected_certificate_assembly"] <= r.counters[m]
  <2>1. m \in CounterNames
    BY DEF CounterNames
  <2>2. o.stage \in {"verified_certificate_found", "rejected_certificate_assembly"}
          => m \in Bumps(o)
    BY <1>5 DEF ValidOutcome
  <2> QED
    BY <1>2, <1>4, <1>5, <2>1, <2>2 DEF ValidState, CounterNames, Stages
<1>9. StageTotal(r.counters) = r.counters["curves_attempted"]
  BY <1>2, <1>5, <1>7 DEF ValidState, CounterNames
<1> HIDE DEF r
<1>10. r.next \in First .. End
  BY <1>1, RangeAssumption
<1>11. ValidState(r)
  BY <1>6, <1>8, <1>9, <1>10 DEF ValidState
<1> QED
  BY <1>11 DEF r

\* So the report in hand can always be recorded.
LEMMA RecordAccepted ==
  ASSUME IndInv, RunInv, pc = "record"
  PROVE  /\ CanRecord(state, report, RetiredOutcome(fate[report]))
         /\ report = state.next /\ state.next < End
<1>1. report = state.next /\ report \in Indices /\ Retirable(report)
  BY DEF IndInv, ReportInv
<1>2. fate[report] \in RetirableStatuses \cup IncompleteStatuses
  BY <1>1 DEF Retirable
<1>3. state.next < End /\ state \in States
  BY <1>1, RangeAssumption DEF Indices, IndInv, TypeOK
<1>4. ValidState(state)
  BY DEF RunInv, StatesValid
<1> DEFINE outcome == RetiredOutcome(fate[report])
<1>5. outcome \in Outcomes /\ ValidOutcome(outcome)
  BY <1>2, OutcomeValid
<1> HIDE DEF outcome
<1>6. ValidState(Recorded(state, outcome))
  BY <1>3, <1>4, <1>5, RecordedValid
<1>7. CanRecord(state, report, outcome)
  BY <1>1, <1>3, <1>4, <1>5, <1>6, RangeAssumption DEF CanRecord, Complete, States
<1> QED
  BY <1>1, <1>3, <1>7 DEF outcome

-----------------------------------------------------------------------------
(* The steps inside a run.                                                 *)

LEMMA InitRun == Init => RunInv
BY DEF Init, NoFiles, Files, RunInv, WindowInOrder, StatesValid, CursorBehind,
       OrderlyExit, Survivors

\* What a run loads is valid and is where the checkpoint stands.
LEMMA LoadedValid ==
  ASSUME IndInv, RunInv
  PROVE  /\ ValidState(Loaded) /\ Loaded \in States
         /\ Loaded.next = Cursor(visible["checkpoint"])
<1>1. Loaded \in States
  BY LoadedType DEF IndInv
<1>2. ValidState(Loaded)
  BY FreshValid DEF Loaded, Exists, IndInv, TypeOK, RunInv, StatesValid, Survivors
<1>3. Loaded.next = Cursor(visible["checkpoint"])
  BY DEF Loaded, Exists, Cursor, FreshState
<1> QED
  BY <1>1, <1>2, <1>3

LEMMA StartRun == ASSUME IndInv, RunInv, Start PROVE RunInv'
<1> USE DEF IndInv
<1>1. UNCHANGED <<pending, visible, disk, report>> /\ pc = "down"
  BY DEF Start, Refuse, ResumeVerified, NothingLeft, EndAtEntry,
         RecoverCertificate, BeginSearch, files
<1>2. Survivors("checkpoint")' = Survivors("checkpoint")
  BY <1>1 DEF Survivors
<1>3. CASE Refuse \/ ResumeVerified \/ NothingLeft
  BY <1>1, <1>2, <1>3 DEF Refuse, ResumeVerified, NothingLeft, EndAtEntry, RunInv,
     WindowInOrder, StatesValid, CursorBehind, OrderlyExit
<1>4. CASE RecoverCertificate
  <2>1. /\ pc' = "recover_rename" /\ exit' = "running" /\ ~Complete(Loaded)
        /\ state' = Recorded(Loaded, OutcomeOf("verified_certificate"))
    BY <1>4 DEF RecoverCertificate
  <2>2. /\ OutcomeOf("verified_certificate") = RetiredOutcome("verified_certificate")
        /\ "verified_certificate" \in RetirableStatuses
    BY DEF RetiredOutcome, IncompleteStatuses, RetirableStatuses
  <2>3. ValidState(state')
    BY <2>1, <2>2, LoadedValid, OutcomeValid, RecordedValid, RangeAssumption
       DEF Complete, States
  <2>4. state'.next = Loaded.next + 1 /\ Loaded.next \in Nat
    BY <2>1, LoadedValid, RangeAssumption DEF Recorded, States
  <2>5. Cursor(visible["checkpoint"])' <= state'.next
    BY <1>1, <2>4, LoadedValid DEF Cursor
  <2> QED
    BY <1>1, <1>2, <2>1, <2>3, <2>5
       DEF RunInv, WindowInOrder, StatesValid, CursorBehind, OrderlyExit
<1>5. CASE BeginSearch
  <2>1. /\ pc' = "launch" /\ exit' = "running" /\ state' = Loaded
        /\ next_to_launch' = Loaded.next
    BY <1>5 DEF BeginSearch
  <2>2. pending' = <<>> /\ Loaded.next \in Nat
    BY <1>1, LoadedValid, RangeAssumption DEF RunInv, WindowInOrder, States
  <2>3. WindowFrom(state.next)'
    BY <2>1, <2>2 DEF WindowFrom
  <2>4. Cursor(visible["checkpoint"])' <= state'.next
    BY <1>1, <2>1, <2>2, LoadedValid DEF Cursor
  <2> QED
    BY <1>1, <1>2, <2>1, <2>3, <2>4, LoadedValid
       DEF RunInv, WindowInOrder, StatesValid, CursorBehind, OrderlyExit
<1> QED
  BY <1>3, <1>4, <1>5 DEF Start

\* Taking the oldest report off a window leaves a window behind it.
LEMMA WindowStep ==
  ASSUME NEW n \in Nat, TypeOK, WindowFrom(n)
  PROVE  /\ LaunchCurve => WindowFrom(n)'
         /\ pending # <<>> => Head(pending) = n
         /\ pending # <<>> /\ pending' = Tail(pending)
              /\ next_to_launch' = next_to_launch => WindowFrom(n + 1)'
<1>1. pending \in Seq(Indices) /\ Len(pending) \in Nat
  BY DEF TypeOK
<1>2. ASSUME LaunchCurve PROVE WindowFrom(n)'
  <2>1. pending' = Append(pending, next_to_launch)
        /\ next_to_launch' = next_to_launch + 1
    BY <1>2 DEF LaunchCurve
  <2>2. next_to_launch \in Indices
    BY <1>2, RangeAssumption DEF LaunchCurve, WindowOpen, TypeOK, Indices
  <2>3. Len(pending') = Len(pending) + 1
    BY <1>1, <2>1, <2>2
  <2>4. \A k \in 1 .. (Len(pending) + 1) :
          pending'[k] = IF k = Len(pending) + 1 THEN next_to_launch ELSE pending[k]
    BY <1>1, <2>1, <2>2
  <2> QED
    BY <1>1, <2>1, <2>3, <2>4 DEF WindowFrom
<1>3. ASSUME pending # <<>> PROVE Head(pending) = n
  BY <1>1, <1>3 DEF WindowFrom
<1>4. ASSUME pending # <<>>, pending' = Tail(pending),
             next_to_launch' = next_to_launch
      PROVE  WindowFrom(n + 1)'
  <2>1. Len(pending') = Len(pending) - 1
        /\ \A k \in 1 .. (Len(pending) - 1) : pending'[k] = pending[k + 1]
    BY <1>1, <1>4
  <2> QED
    BY <1>1, <1>4, <2>1 DEF WindowFrom
<1> QED
  BY <1>2, <1>3, <1>4

LEMMA WindowRun ==
  ASSUME IndInv, RunInv,
         \/ LaunchCurve \/ WindowFull \/ TakeReport \/ RethrowFailure
         \/ \E i \in Indices : FinishCurve(i) \/ CurveThrows(i)
  PROVE  RunInv'
<1> USE DEF IndInv, files
<1>1. UNCHANGED <<state, visible, disk>> /\ state.next \in Nat
  BY RangeAssumption DEF LaunchCurve, WindowFull, TakeReport, RethrowFailure,
     FinishCurve, CurveThrows, TypeOK, States
<1>2. /\ Survivors("checkpoint")' = Survivors("checkpoint")
      /\ Cursor(visible["checkpoint"])' = Cursor(visible["checkpoint"])
  BY <1>1 DEF Survivors, Cursor
<1>3. ASSUME pc' \in ActivePcs => pc \in ActivePcs, pc' # "save_rename"
      PROVE  StatesValid' /\ CursorBehind'
  BY <1>1, <1>2, <1>3 DEF RunInv, StatesValid, CursorBehind
<1>4. CASE LaunchCurve
  BY <1>1, <1>3, <1>4, WindowStep
     DEF LaunchCurve, RunInv, WindowInOrder, OrderlyExit
<1>5. CASE WindowFull
  BY <1>1, <1>3, <1>5 DEF WindowFull, RunInv, WindowInOrder, WindowFrom, OrderlyExit
<1>6. CASE TakeReport
  <2>1. WindowFrom(state.next) /\ pending # <<>>
    BY <1>6 DEF TakeReport, RunInv, WindowInOrder, ReportInv
  <2>2. report' = state.next /\ exit' = exit /\ WindowFrom(state.next + 1)'
    BY <1>1, <1>6, <2>1, WindowStep DEF TakeReport
  <2>3. pc' \in {"stop_rename", "anchor_rename", "record"}
    BY <1>1, <1>6, <2>1, WindowStep DEF TakeReport, RetireTo
  <2>5. StatesValid' /\ CursorBehind'
    BY <1>3, <1>6, <2>3 DEF TakeReport
  <2> QED
    BY <1>1, <2>2, <2>3, <2>5 DEF RunInv, WindowInOrder, OrderlyExit, WindowFrom
<1>7. CASE RethrowFailure
  BY <1>1, <1>3, <1>7 DEF RethrowFailure, RunInv, WindowInOrder, OrderlyExit
<1>8. CASE \E i \in Indices : FinishCurve(i) \/ CurveThrows(i)
  BY <1>1, <1>2, <1>8 DEF FinishCurve, CurveThrows, RunInv, WindowInOrder,
     WindowFrom, StatesValid, CursorBehind, OrderlyExit
<1> QED
  BY <1>4, <1>5, <1>6, <1>7, <1>8

\* A save leaves every survivor of its file as it was or as it wrote it.
LEMMA RenameRun == ASSUME IndInv, RunInv, Rename PROVE RunInv'
<1> DEFINE f == SaveOf(pc)
           c == ContentsFor(f)
<1>1. /\ pc \in RenamePcs /\ pc' = After(pc) /\ Replace(f, c)
      /\ UNCHANGED <<state, report, pending, next_to_launch, exit>>
  BY DEF Rename
<1>2. f \in Files /\ (f = "checkpoint" => c = state)
  BY DEF SaveOf, Files, ContentsFor
<1>3. Survivors("checkpoint")' \subseteq Survivors("checkpoint") \cup {state}
  BY <1>1, <1>2, ReplaceSurvivors DEF IndInv, Files
<1>4. ValidState(state)
  BY <1>1 DEF RenamePcs, RunInv, StatesValid
<1>5. visible'["checkpoint"] \in {visible["checkpoint"], state}
  BY <1>1, <1>2 DEF Replace, IndInv, TypeOK, IsImage, Files
<1>6. state.next \in Nat
  BY RangeAssumption DEF IndInv, TypeOK, States
<1>7. Cursor(visible["checkpoint"])' <= state.next
  BY <1>1, <1>5, <1>6, RangeAssumption
     DEF RenamePcs, RunInv, CursorBehind, Cursor, IndInv, TypeOK, States
<1>8. StatesValid' /\ CursorBehind'
  BY <1>1, <1>3, <1>4, <1>7 DEF RenamePcs, After, RunInv, StatesValid, CursorBehind
<1>9. WindowInOrder'
  BY <1>1 DEF RenamePcs, After, RunInv, WindowInOrder, WindowFrom
<1> QED
  BY <1>1, <1>8, <1>9 DEF RunInv, OrderlyExit

LEMMA SyncRun == ASSUME IndInv, RunInv, Sync PROVE RunInv'
<1>1. /\ pc \in SyncPcs /\ pc' = After(pc) /\ disk' = {visible}
      /\ UNCHANGED <<state, report, pending, next_to_launch, visible>>
      /\ exit' \in {exit, "verified"}
  BY DEF Sync, SyncDirectory
<1>2. Survivors("checkpoint")' \subseteq Survivors("checkpoint")
  BY <1>1 DEF Survivors, IndInv, TypeOK
<1>3. Cursor(visible["checkpoint"])' = Cursor(visible["checkpoint"])
  BY <1>1 DEF Cursor
<1>4. StatesValid' /\ CursorBehind'
  BY <1>1, <1>2, <1>3 DEF SyncPcs, After, RunInv, StatesValid, CursorBehind
<1>5. WindowInOrder'
  BY <1>1 DEF SyncPcs, After, RunInv, WindowInOrder, WindowFrom
<1> QED
  BY <1>1, <1>4, <1>5 DEF RunInv, OrderlyExit

LEMMA RecordRun == ASSUME IndInv, RunInv, Record PROVE RunInv'
<1> DEFINE outcome == RetiredOutcome(fate[report])
<1>1. CanRecord(state, report, outcome) /\ report = state.next
  BY RecordAccepted DEF Record
<1>2. /\ state' = Recorded(state, outcome) /\ pc' \in {"save_rename", "log"}
      /\ UNCHANGED <<report, pending, next_to_launch, visible, disk, exit>>
  BY <1>1 DEF Record, AfterRecord, files
<1>3. ValidState(state') /\ state'.next = state.next + 1 /\ state.next \in Nat
  BY <1>1, <1>2, RangeAssumption DEF CanRecord, Recorded, IndInv, TypeOK, States
<1>4. /\ Survivors("checkpoint")' = Survivors("checkpoint")
      /\ Cursor(visible["checkpoint"])' = Cursor(visible["checkpoint"])
  BY <1>2 DEF Survivors, Cursor
<1>5. Cursor(visible["checkpoint"]) <= state.next /\ Cursor(visible["checkpoint"]) \in Int
  BY RangeAssumption DEF Record, RunInv, CursorBehind, Cursor, IndInv, TypeOK,
     IsImage, States
<1>6. StatesValid' /\ CursorBehind'
  BY <1>1, <1>2, <1>3, <1>4, <1>5 DEF RunInv, StatesValid, CursorBehind
<1>7. WindowInOrder'
  BY <1>2, <1>3 DEF Record, RunInv, WindowInOrder, WindowFrom
<1> QED
  BY <1>2, <1>6, <1>7 DEF RunInv, OrderlyExit

LEMMA AppendRun == ASSUME IndInv, RunInv, AppendProgress PROVE RunInv'
<1>1. /\ pc' \in {"drain", "launch"} /\ (pc' = "launch" => pc = "log")
      /\ exit' \in {"incomplete", "verified", exit}
      /\ UNCHANGED <<state, report, pending, next_to_launch, visible, disk>>
  BY DEF AppendProgress, AfterAppend
<1>2. /\ Survivors("checkpoint")' = Survivors("checkpoint")
      /\ Cursor(visible["checkpoint"])' = Cursor(visible["checkpoint"])
  BY <1>1 DEF Survivors, Cursor
<1> QED
  BY <1>1, <1>2 DEF RunInv, WindowInOrder, WindowFrom, StatesValid, CursorBehind,
     OrderlyExit

LEMMA EndRun ==
  ASSUME IndInv, RunInv, Join \/ CoordinatorThrows \/ Kill \/ PowerLoss
  PROVE  RunInv'
<1>1. /\ pc' = "drain" \/ (pc' = "down" /\ pending' = <<>>)
      /\ disk' \subseteq disk
      /\ exit' \in {exit, "error", "killed"}
  BY DEF Join, CoordinatorThrows, Kill, PowerLoss, Forgotten, files
<1>2. Survivors("checkpoint")' \subseteq Survivors("checkpoint")
  BY <1>1 DEF Survivors
<1> QED
  BY <1>1, <1>2 DEF RunInv, WindowInOrder, StatesValid, CursorBehind, OrderlyExit

LEMMA NextRun == IndInv /\ RunInv /\ [Next]_vars => RunInv'
<1> SUFFICES ASSUME IndInv, RunInv, [Next]_vars PROVE RunInv'
  OBVIOUS
<1>1. CASE Start
  BY <1>1, StartRun
<1>2. CASE Coordinator
  BY <1>2, WindowRun, RenameRun, SyncRun, RecordRun, AppendRun, EndRun
     DEF Coordinator
<1>3. CASE \E i \in Indices : FinishCurve(i) \/ CurveThrows(i)
  BY <1>3, WindowRun
<1>4. CASE CoordinatorThrows \/ Kill \/ PowerLoss
  BY <1>4, EndRun
<1>5. CASE UNCHANGED vars
  BY <1>5 DEF vars, run, files, RunInv, WindowInOrder, WindowFrom, StatesValid,
     CursorBehind, OrderlyExit, Survivors, Cursor
<1> QED
  BY <1>1, <1>2, <1>3, <1>4, <1>5 DEF Next

(***************************************************************************)
(* Reports leave the window in index order and validate_counters never     *)
(* rejects one: two of the pipeline's exceptions ("left deterministic      *)
(* index order", the counter checks of record_completed) are unreachable,  *)
(* on every file system and whatever fails.                                *)
(***************************************************************************)
THEOREM OrderlyRetirement == Spec => [](exit \notin {"disordered", "invalid"})
<1>1. Spec => []RunInv
  BY InitIndInv, NextIndInv, InitRun, NextRun, PTL DEF Spec
<1>2. RunInv => exit \notin {"disordered", "invalid"}
  BY DEF RunInv, OrderlyExit
<1> QED
  BY <1>1, <1>2, PTL

-----------------------------------------------------------------------------
(* The files.  They stay coherent as long as the file system keeps renames *)
(* in order or no process dies between a rename and its sync; what is      *)
(* visible does as long as power stays up.                                 *)

Orderly == OrderedRenames \/ faults = 0
Kept    == Orderly \/ power_losses = 0

\* The certificate is the lowest winner and stands at the cursor or just
\* below it; the metadata comes after the certificate, and a cursor that
\* counts the certificate after both.
Coherent(v) ==
  /\ v["certificate"] # NoFile =>
       /\ Winner(v["certificate"]) /\ NoWinnerBelow(v["certificate"])
       /\ v["checkpoint"] # NoFile
       /\ \/ v["checkpoint"].next = v["certificate"]
          \/ v["checkpoint"].next = v["certificate"] + 1 /\ v["metadata"] # NoFile
  /\ v["metadata"] # NoFile =>
       /\ v["certificate"] # NoFile
       /\ v["metadata"] = [index |-> v["certificate"],
                           certificate |-> v["certificate"]]
  /\ v["checkpoint"] # NoFile /\ Found(v["checkpoint"]) # 0 =>
       v["certificate"] # NoFile /\ v["metadata"] # NoFile

\* Between the start of a run and the certificate's rename.
Unpublished ==
  \/ pc \in {"launch", "retire"} \cup StopPcs
              \cup {"anchor_rename", "anchor_sync", "cert_rename"}
  \/ pc = "record" /\ ~Winner(report)

\* How the files stand to the report in hand.
InHand ==
  /\ Unpublished =>
       /\ visible["metadata"] = NoFile
       /\ visible["certificate"] # NoFile => visible["certificate"] = state.next
  /\ pc \in SavePcs /\ ~Winner(report) =>
       visible["certificate"] = NoFile /\ visible["metadata"] = NoFile
  /\ pc \in {"cert_sync", "meta_rename"} => visible["metadata"] = NoFile
  /\ pc \in {"meta_sync"} \/ (pc \in {"record"} \cup SavePcs /\ Winner(report)) =>
       visible["certificate"] = report /\ visible["metadata"] # NoFile
  /\ pc \in PublishPcs \ {"anchor_rename"} => visible["checkpoint"] = state
  /\ pc \in {"record", "save_rename"} /\ Winner(report) =>
       visible["checkpoint"] # NoFile /\ visible["checkpoint"].next = report
  /\ pc = "recover_sync" \/ (pc \in {"save_sync", "log"} /\ Winner(report)) =>
       visible["checkpoint"] = state
  /\ pc \in RecoverPcs =>
       /\ visible["certificate"] # NoFile /\ visible["metadata"] # NoFile
       /\ state.next = visible["certificate"] + 1

FilesInv ==
  /\ faults = 0 /\ pc \notin SyncPcs => disk = {visible}
  /\ Orderly => \A image \in disk : Coherent(image)
  /\ Kept => Coherent(visible) /\ InHand /\ exit # "refused"

\* A prefix without a winner counts no certificate.
LEMMA NothingWon ==
  ASSUME NEW n, NoWinnerBelow(n)
  PROVE  Tally(fate, n)["verified_certificate_found"] = 0
<1>1. \A i \in First .. (n - 1) :
        "verified_certificate_found" \notin FedBy(fate[i])
  BY DEF NoWinnerBelow, Winner, FedBy, Counted, Screened
<1>2. {i \in First .. (n - 1) :
         "verified_certificate_found" \in FedBy(fate[i])} = {}
  BY <1>1
<1>3. Tally(fate, n)["verified_certificate_found"]
        = Cardinality({i \in First .. (n - 1) :
                         "verified_certificate_found" \in FedBy(fate[i])})
  BY DEF Tally, CounterNames, Stages
<1> QED
  BY <1>2, <1>3, FS_EmptySet

\* A truthful state counts a certificate exactly if it has passed a winner.
LEMMA FoundWinner ==
  ASSUME TypeOK, NEW s \in States, Truthful(s)
  PROVE  Found(s) = 0 <=> NoWinnerBelow(s.next)
BY NothingWon, NothingFound DEF Truthful, Found

\* Every image's checkpoint is a truthful state.
LEMMA ImageState ==
  ASSUME IndInv, TruthInv, NEW v \in disk, v["checkpoint"] # NoFile
  PROVE  /\ v["checkpoint"] \in States /\ Truthful(v["checkpoint"])
         /\ v["checkpoint"].next \in First .. End
BY DEF IndInv, TypeOK, IsImage, TruthInv, CheckpointsTruthful, Survivors, States

\* In a coherent image the cursor counts the certificate exactly if it stands
\* behind it.
LEMMA CoherentCursor ==
  ASSUME IndInv, TruthInv, NEW v \in disk, Coherent(v)
  PROVE  /\ v["certificate"] # NoFile =>
              /\ v["certificate"] \in Indices
              /\ Found(v["checkpoint"]) # 0
                   <=> v["checkpoint"].next = v["certificate"] + 1
         /\ v["certificate"] = NoFile /\ v["checkpoint"] # NoFile =>
              Found(v["checkpoint"]) = 0
<1>1. ASSUME v["certificate"] # NoFile
      PROVE  /\ v["certificate"] \in Indices
             /\ Found(v["checkpoint"]) # 0
                  <=> v["checkpoint"].next = v["certificate"] + 1
  <2>1. v["certificate"] \in Indices
    BY <1>1 DEF IndInv, TypeOK, IsImage
  <2>2. Found(v["checkpoint"]) = 0 <=> NoWinnerBelow(v["checkpoint"].next)
    BY <1>1, ImageState, FoundWinner DEF Coherent, IndInv
  <2>3. Winner(v["certificate"]) /\ NoWinnerBelow(v["certificate"])
        /\ v["checkpoint"].next \in {v["certificate"], v["certificate"] + 1}
    BY <1>1 DEF Coherent
  <2>4. v["checkpoint"].next = v["certificate"] + 1 => ~NoWinnerBelow(v["checkpoint"].next)
    BY <2>1, <2>3, RangeAssumption DEF NoWinnerBelow, Indices
  <2> QED
    BY <2>1, <2>2, <2>3, <2>4, RangeAssumption DEF Indices
<1> QED
  BY <1>1 DEF Coherent

\* An orderly file system, or one that no process has left in the middle of
\* a save, can only come back with the files as they were before or after
\* the last rename.
LEMMA OrderlyReplace ==
  ASSUME IndInv, FilesInv, Orderly, pc \in RenamePcs, NEW f, NEW c, Replace(f, c)
  PROVE  disk' = disk \cup {visible'}
<1>1. CASE OrderedRenames
  BY <1>1 DEF Replace
<1>2. CASE ~OrderedRenames
  <2>1. disk = {visible}
    BY <1>2 DEF Orderly, FilesInv, RenamePcs, SyncPcs
  <2>2. {[image EXCEPT ![f] = c] : image \in disk} = {[visible EXCEPT ![f] = c]}
    BY <2>1
  <2> QED
    BY <1>2, <2>2 DEF Replace
<1> QED
  BY <1>1, <1>2

\* What a rename in each place does to coherent files.
LEMMA RenameCoherent ==
  ASSUME IndInv, TruthInv, RunInv, Coherent(visible), InHand, Rename
  PROVE  Coherent(visible)' /\ InHand'
<1> DEFINE f == SaveOf(pc)
           c == ContentsFor(f)
<1> USE DEF IndInv
<1>1. /\ pc \in RenamePcs /\ pc' = After(pc) /\ Replace(f, c)
      /\ UNCHANGED <<fate, state, report>>
  BY DEF Rename
<1>2. /\ f \in Files
      /\ f = "checkpoint"  => c \in States /\ c = state
      /\ f = "certificate" => c \in Indices /\ c = report
      /\ f = "metadata"    => c \in Bindings
                                /\ c = [index |-> state.next,
                                        certificate |-> visible["certificate"]]
  BY <1>1, ContentsType DEF ContentsFor
<1> HIDE DEF c
<1>3. \A g \in Files : visible'[g] = IF g = f THEN c ELSE visible[g]
  BY <1>1, <1>2, ReplaceImages
<1>4. \A n : (Winner(n)' <=> Winner(n)) /\ (NoWinnerBelow(n)' <=> NoWinnerBelow(n))
  BY <1>1 DEF Winner, NoWinnerBelow
<1>5. state \in States /\ state.next \in Nat /\ state # NoFile /\ Truthful(state)
  BY <1>1, RangeAssumption, NoFileAssumption
     DEF TypeOK, States, TruthInv, RenamePcs
<1>6. Found(state) = 0 <=> NoWinnerBelow(state.next)
  BY <1>5, FoundWinner
<1>7. CASE pc \in {"stop_rename", "anchor_rename"}
  <2>1. f = "checkpoint" /\ pc' \in {"stop_sync", "anchor_sync"}
    BY <1>1, <1>7 DEF SaveOf, After
  <2>2. visible'["checkpoint"] = state /\ visible'["metadata"] = visible["metadata"]
        /\ visible'["certificate"] = visible["certificate"]
    BY <1>2, <1>3, <2>1 DEF Files
  <2>3. Found(state) = 0
    BY <1>6, <1>7 DEF TruthInv
  <2>4. /\ visible["metadata"] = NoFile
        /\ visible["certificate"] # NoFile => visible["certificate"] = state.next
    BY <1>7 DEF InHand, Unpublished
  <2>5. Coherent(visible)'
    BY <1>4, <1>5, <2>2, <2>3, <2>4 DEF Coherent
  <2>6. InHand'
    BY <1>1, <2>1, <2>2, <2>4 DEF InHand, Unpublished
  <2> QED
    BY <2>5, <2>6
<1>8. CASE pc = "cert_rename"
  <2>1. f = "certificate" /\ pc' = "cert_sync"
    BY <1>1, <1>8 DEF SaveOf, After
  <2>2. visible'["checkpoint"] = visible["checkpoint"]
        /\ visible'["certificate"] = report /\ report \in Indices
        /\ visible'["metadata"] = visible["metadata"]
    BY <1>2, <1>3, <2>1 DEF Files
  <2>3. report = state.next /\ Winner(report) /\ NoWinnerBelow(report)
    BY <1>8 DEF ReportInv, TruthInv
  <2>4. visible["metadata"] = NoFile /\ visible["checkpoint"] = state
    BY <1>8 DEF InHand, Unpublished
  <2>5. Found(state) = 0
    BY <1>6, <2>3
  <2>6. Coherent(visible)'
    BY <1>4, <1>5, <2>2, <2>3, <2>4, <2>5 DEF Coherent
  <2>7. InHand'
    BY <1>1, <2>1, <2>2, <2>4 DEF InHand, Unpublished
  <2> QED
    BY <2>6, <2>7
<1>9. CASE pc = "meta_rename"
  <2>1. f = "metadata" /\ pc' = "meta_sync"
    BY <1>1, <1>9 DEF SaveOf, After
  <2>2. visible["certificate"] = report /\ report = state.next /\ report \in Indices
    BY <1>9 DEF ReportInv
  <2>3. visible'["checkpoint"] = visible["checkpoint"]
        /\ visible'["certificate"] = visible["certificate"]
        /\ visible'["metadata"] = [index |-> report, certificate |-> report]
    BY <1>2, <1>3, <2>1, <2>2 DEF Files
  <2>4. visible'["metadata"] # NoFile /\ visible["certificate"] # NoFile
    BY <1>2, <1>3, <2>1, <2>2, NoFileAssumption DEF Files
  <2>5. Coherent(visible)'
    BY <1>4, <2>2, <2>3, <2>4 DEF Coherent
  <2>6. InHand'
    BY <1>1, <1>9, <2>1, <2>2, <2>3, <2>4 DEF InHand, Unpublished
  <2> QED
    BY <2>5, <2>6
<1>10. CASE pc = "save_rename"
  <2>1. f = "checkpoint" /\ pc' = "save_sync"
    BY <1>1, <1>10 DEF SaveOf, After
  <2>2. visible'["checkpoint"] = state /\ visible'["metadata"] = visible["metadata"]
        /\ visible'["certificate"] = visible["certificate"]
    BY <1>2, <1>3, <2>1 DEF Files
  <2>3. state.next = report + 1 /\ (Winner(report)' <=> Winner(report))
    BY <1>1, <1>10 DEF ReportInv, Winner
  <2>4. CASE Winner(report)
    <3>1. visible["certificate"] = report /\ visible["metadata"] # NoFile
      BY <1>10, <2>4 DEF InHand
    <3>2. Coherent(visible)'
      BY <1>4, <1>5, <2>2, <2>3, <3>1 DEF Coherent
    <3>3. InHand'
      BY <1>1, <2>1, <2>2, <2>3, <2>4, <3>1 DEF InHand, Unpublished
    <3> QED
      BY <3>2, <3>3
  <2>5. CASE ~Winner(report)
    <3>1. visible["certificate"] = NoFile /\ visible["metadata"] = NoFile
      BY <1>10, <2>5 DEF InHand
    <3>2. Found(state) = 0
      BY <1>6, <1>10, <2>5 DEF TruthInv
    <3>3. Coherent(visible)'
      BY <1>4, <1>5, <2>2, <3>1, <3>2 DEF Coherent
    <3>4. InHand'
      BY <1>1, <2>1, <2>2, <2>3, <2>5, <3>1 DEF InHand, Unpublished
    <3> QED
      BY <3>3, <3>4
  <2> QED
    BY <2>4, <2>5
<1>11. CASE pc = "recover_rename"
  <2>1. f = "checkpoint" /\ pc' = "recover_sync"
    BY <1>1, <1>11 DEF SaveOf, After
  <2>2. visible'["checkpoint"] = state /\ visible'["metadata"] = visible["metadata"]
        /\ visible'["certificate"] = visible["certificate"]
    BY <1>2, <1>3, <2>1 DEF Files
  <2>3. /\ visible["certificate"] # NoFile /\ visible["metadata"] # NoFile
        /\ state.next = visible["certificate"] + 1
    BY <1>11 DEF InHand
  <2>4. Coherent(visible)'
    BY <1>4, <1>5, <2>2, <2>3 DEF Coherent
  <2>5. InHand'
    BY <1>1, <2>1, <2>2, <2>3 DEF InHand, Unpublished
  <2> QED
    BY <2>4, <2>5
<1> QED
  BY <1>1, <1>7, <1>8, <1>9, <1>10, <1>11 DEF RenamePcs

\* No fault heals a file system.
LEMMA OrderlyBefore ==
  ASSUME IndInv, [Next]_vars
  PROVE  /\ fate' = fate /\ (Orderly' => Orderly) /\ (Kept' => Kept)
         /\ faults' = 0 => faults = 0
         /\ power_losses' = 0 => power_losses = 0
<1>1. fate' = fate /\ faults' \in {faults, faults + 1}
      /\ power_losses' \in {power_losses, power_losses + 1}
  BY DEF Next, Start, Refuse, ResumeVerified, NothingLeft, EndAtEntry,
     RecoverCertificate, BeginSearch, Coordinator, LaunchCurve, WindowFull,
     TakeReport, RethrowFailure, Rename, Sync, Record, AppendProgress, Join,
     FinishCurve, CurveThrows, CoordinatorThrows, Kill, PowerLoss, vars
<1> QED
  BY <1>1 DEF Orderly, Kept, IndInv, TypeOK

\* Steps that write no file and leave the cursor state alone.
LEMMA QuietFiles ==
  ASSUME IndInv, FilesInv, [Next]_vars, UNCHANGED <<state, visible, disk>>,
         pc \in SyncPcs => pc' = pc \/ faults' # 0,
         Kept /\ InHand => InHand',
         Kept => exit' # "refused"
  PROVE  FilesInv'
<1>1. fate' = fate /\ (Orderly' => Orderly) /\ (Kept' => Kept)
      /\ (faults' = 0 => faults = 0)
  BY OrderlyBefore
<1>2. \A n : (Winner(n)' <=> Winner(n)) /\ (NoWinnerBelow(n)' <=> NoWinnerBelow(n))
  BY <1>1 DEF Winner, NoWinnerBelow
<1>3. (Orderly => \A image \in disk : Coherent(image))'
  BY <1>1, <1>2 DEF FilesInv, Coherent
<1>4. Kept => Coherent(visible)'
  BY <1>2 DEF FilesInv, Coherent
<1> QED
  BY <1>1, <1>3, <1>4 DEF FilesInv

LEMMA InitFiles == Init => FilesInv
BY DEF Init, NoFiles, Files, FilesInv, Coherent, InHand, Unpublished, SyncPcs

\* Coherent files are never refused.
LEMMA NeverRefused ==
  ASSUME IndInv, TruthInv, Coherent(visible) PROVE ~Refuse
<1> USE DEF IndInv
<1>1. visible \in disk
  BY DEF TypeOK
<1>2. ~(Exists("metadata") /\ ~Exists("certificate"))
  BY DEF Exists, Coherent
<1>3. ASSUME Paired PROVE PairAccepted
  <2>1. /\ visible["certificate"] # NoFile /\ visible["checkpoint"] # NoFile
        /\ visible["metadata"] = [index |-> visible["certificate"],
                                  certificate |-> visible["certificate"]]
        /\ Winner(visible["certificate"])
    BY <1>3 DEF Paired, Exists, Coherent
  <2>2. Loaded = visible["checkpoint"]
    BY <2>1 DEF Loaded, Exists
  <2>3. visible["certificate"] \in Nat
    BY <1>1, <2>1, CoherentCursor, RangeAssumption DEF Indices
  <2>4. BoundIndex = visible["certificate"]
    BY <1>1, <2>1, <2>2, <2>3, CoherentCursor DEF BoundIndex, Coherent
  <2> QED
    BY <2>1, <2>4 DEF PairAccepted
<1>4. ASSUME ~Paired PROVE Found(Loaded) = 0
  BY <1>4 DEF Paired, Exists, Coherent, Loaded, FreshState, Found, CounterNames, Stages
<1> QED
  BY <1>2, <1>3, <1>4 DEF Refuse

LEMMA StartFiles ==
  ASSUME IndInv, TruthInv, FilesInv, Start PROVE FilesInv'
<1> USE DEF IndInv
<1>1. UNCHANGED <<fate, visible, disk, faults, power_losses, report>> /\ pc = "down"
  BY DEF Start, Refuse, ResumeVerified, NothingLeft, EndAtEntry,
         RecoverCertificate, BeginSearch, files
<1>2. \A n : (Winner(n)' <=> Winner(n)) /\ (NoWinnerBelow(n)' <=> NoWinnerBelow(n))
  BY <1>1 DEF Winner, NoWinnerBelow
<1>3. /\ (Orderly => \A image \in disk : Coherent(image))'
      /\ (Kept => Coherent(visible))'
      /\ Kept' => Kept
      /\ faults' = 0 => disk' = {visible'}
  BY <1>1, <1>2 DEF FilesInv, Coherent, Orderly, Kept, SyncPcs
<1>4. ASSUME Kept PROVE InHand' /\ exit' # "refused"
  <2>1. Coherent(visible) /\ visible \in disk
    BY <1>4 DEF FilesInv, TypeOK
  <2>2. ~Refuse
    BY <2>1, NeverRefused
  <2>3. CASE ResumeVerified \/ NothingLeft
    BY <1>1, <2>3 DEF ResumeVerified, NothingLeft, EndAtEntry, InHand, Unpublished
  <2>4. CASE RecoverCertificate
    <3>1. /\ visible["certificate"] # NoFile /\ visible["metadata"] # NoFile
          /\ visible["metadata"].index = Loaded.next
          /\ state' = Recorded(Loaded, OutcomeOf("verified_certificate"))
          /\ pc' = "recover_rename" /\ exit' = "running"
      BY <2>4 DEF RecoverCertificate, Paired, PairAccepted, BoundIndex, Exists
    <3>2. visible["metadata"].index = visible["certificate"]
      BY <2>1, <3>1 DEF Coherent
    <3>3. state'.next = visible["certificate"] + 1
      BY <3>1, <3>2 DEF Recorded
    <3> QED
      BY <1>1, <3>1, <3>3 DEF InHand, Unpublished
  <2>5. CASE BeginSearch
    <3>1. /\ visible["metadata"] = NoFile
          /\ state' = Loaded /\ pc' = "launch" /\ exit' = "running"
      BY <2>5 DEF BeginSearch, Unpaired, Exists
    <3>2. visible["certificate"] # NoFile => Loaded.next = visible["certificate"]
      BY <2>1, <3>1 DEF Coherent, Loaded, Exists
    <3> QED
      BY <1>1, <3>1, <3>2 DEF InHand, Unpublished
  <2> QED
    BY <2>2, <2>3, <2>4, <2>5 DEF Start
<1> QED
  BY <1>1, <1>3, <1>4 DEF FilesInv

LEMMA WindowFiles ==
  ASSUME IndInv, TruthInv, RunInv, FilesInv, [Next]_vars,
         \/ LaunchCurve \/ WindowFull \/ TakeReport \/ RethrowFailure
         \/ \E i \in Indices : FinishCurve(i) \/ CurveThrows(i)
  PROVE  FilesInv'
<1> USE DEF files
<1>1. UNCHANGED <<fate, state, visible, disk>>
  BY DEF LaunchCurve, WindowFull, TakeReport, RethrowFailure, FinishCurve, CurveThrows
<1>2. \A n : Winner(n)' <=> Winner(n)
  BY <1>1 DEF Winner
<1>3. CASE LaunchCurve \/ WindowFull
  <2>1. Kept /\ InHand => InHand'
    BY <1>1, <1>2, <1>3 DEF LaunchCurve, WindowFull, InHand, Unpublished
  <2> QED
    BY <1>1, <1>3, <2>1, QuietFiles DEF LaunchCurve, WindowFull, FilesInv, SyncPcs
<1>4. CASE TakeReport
  <2>1. WindowFrom(state.next) /\ pending # <<>> /\ state.next \in Nat
    BY <1>4, RangeAssumption
       DEF TakeReport, RunInv, WindowInOrder, IndInv, ReportInv, TypeOK, States
  <2>2. Head(pending) = state.next /\ report' = state.next /\ exit' = exit
    BY <1>4, <2>1, WindowStep DEF TakeReport, IndInv
  <2>3. pc' = RetireTo(state.next)
    BY <1>4, <2>2 DEF TakeReport
  <2>4. pc' \in {"stop_rename", "anchor_rename", "record"}
        /\ (Winner(state.next) => pc' = "anchor_rename")
    BY <2>3 DEF RetireTo, Winner, Incomplete, IncompleteStatuses
  <2>5. Kept /\ InHand => InHand'
    BY <1>1, <1>2, <1>4, <2>2, <2>4 DEF TakeReport, InHand, Unpublished
  <2> QED
    BY <1>1, <1>4, <2>2, <2>5, QuietFiles DEF TakeReport, FilesInv, SyncPcs
<1>5. CASE RethrowFailure
  BY <1>1, <1>5, QuietFiles DEF RethrowFailure, InHand, Unpublished, SyncPcs
<1>6. CASE \E i \in Indices : FinishCurve(i) \/ CurveThrows(i)
  <2>1. UNCHANGED <<pc, report, exit>>
    BY <1>6 DEF FinishCurve, CurveThrows
  <2>2. Kept /\ InHand => InHand'
    BY <1>1, <1>2, <2>1 DEF InHand, Unpublished
  <2> QED
    BY <1>1, <2>1, <2>2, QuietFiles DEF FilesInv
<1> QED
  BY <1>3, <1>4, <1>5, <1>6

LEMMA RenameFiles ==
  ASSUME IndInv, TruthInv, RunInv, FilesInv, [Next]_vars, Rename PROVE FilesInv'
<1>1. /\ pc \in RenamePcs /\ pc' = After(pc)
      /\ Replace(SaveOf(pc), ContentsFor(SaveOf(pc)))
      /\ UNCHANGED <<fate, exit, faults>>
  BY DEF Rename
<1>2. (Orderly' => Orderly) /\ (Kept' => Kept) /\ (Orderly => Kept)
  BY OrderlyBefore DEF Kept
<1>3. \A n : (Winner(n)' <=> Winner(n)) /\ (NoWinnerBelow(n)' <=> NoWinnerBelow(n))
  BY <1>1 DEF Winner, NoWinnerBelow
<1>4. Kept => Coherent(visible)' /\ InHand' /\ exit' # "refused"
  BY <1>1, RenameCoherent DEF FilesInv
<1>5. Orderly => disk' = disk \cup {visible'}
  BY <1>1, OrderlyReplace
<1>6. Orderly => \A image \in disk : Coherent(image)
  BY DEF FilesInv
<1>7. (Orderly => \A image \in disk : Coherent(image))'
  <2>1. ASSUME Orderly, NEW image \in disk, Coherent(image) PROVE Coherent(image)'
    BY <1>3, <2>1 DEF Coherent
  <2>2. ASSUME Orderly, NEW image \in disk' PROVE Coherent(image)'
    <3>1. CASE image \in disk
      BY <1>6, <2>1, <2>2, <3>1
    <3>2. CASE image = visible'
      BY <1>2, <1>4, <2>2, <3>2 DEF Coherent
    <3> QED
      BY <1>5, <2>2, <3>1, <3>2
  <2> QED
    BY <1>2, <2>2
<1>8. pc' \in SyncPcs
  BY <1>1 DEF RenamePcs, SyncPcs, After
<1> QED
  BY <1>2, <1>4, <1>7, <1>8 DEF FilesInv

LEMMA SyncFiles ==
  ASSUME IndInv, TruthInv, FilesInv, [Next]_vars, Sync PROVE FilesInv'
<1>1. /\ pc \in SyncPcs /\ pc' = After(pc) /\ disk' = {visible} /\ visible' = visible
      /\ UNCHANGED <<fate, state, report>>
      /\ exit' \in {exit, "verified"}
  BY DEF Sync, SyncDirectory
<1>2. Kept' => Kept
  BY OrderlyBefore
<1>3. \A n : (Winner(n)' <=> Winner(n)) /\ (NoWinnerBelow(n)' <=> NoWinnerBelow(n))
  BY <1>1 DEF Winner, NoWinnerBelow
<1>4. Kept => Coherent(visible)'
  BY <1>1, <1>3 DEF FilesInv, Coherent
<1>5. Kept => InHand'
  <2>1. pc = "meta_sync" =>
          Winner(report) /\ report = state.next /\ report \in Indices
    BY DEF IndInv, ReportInv
  <2>2. pc = "meta_sync" /\ Kept => visible["checkpoint"] # NoFile
    BY <2>1, NoFileAssumption DEF FilesInv, InHand, Coherent
  <2>3. pc = "save_sync" => pc' = "log"
    BY <1>1 DEF After
  <2> QED
    BY <1>1, <1>3, <2>1, <2>2 DEF SyncPcs, After, FilesInv, InHand, Unpublished
<1>6. (Orderly => \A image \in disk : Coherent(image))'
  BY <1>1, <1>2, <1>4 DEF Kept, Coherent
<1> QED
  BY <1>1, <1>2, <1>4, <1>5, <1>6 DEF FilesInv

LEMMA RecordFiles ==
  ASSUME IndInv, TruthInv, RunInv, FilesInv, [Next]_vars, Record PROVE FilesInv'
<1>1. report = state.next /\ report \in Indices /\ report \in Nat
  BY RangeAssumption DEF Record, IndInv, ReportInv, Indices
<1>2. /\ UNCHANGED <<fate, report, visible, disk, faults, exit>> /\ pc = "record"
      /\ pc' \in {"save_rename", "log"} /\ (Winner(report) => pc' = "save_rename")
  BY RecordAccepted DEF Record, files, AfterRecord
<1>3. \A n : (Winner(n)' <=> Winner(n)) /\ (NoWinnerBelow(n)' <=> NoWinnerBelow(n))
  BY <1>2 DEF Winner, NoWinnerBelow
<1>4. (Orderly' => Orderly) /\ (Kept' => Kept)
  BY OrderlyBefore
<1>5. /\ (Orderly => \A image \in disk : Coherent(image))'
      /\ Kept => Coherent(visible)'
      /\ faults' = 0 => disk' = {visible'}
  BY <1>2, <1>3, <1>4 DEF FilesInv, Coherent, SyncPcs
<1>6. ASSUME Kept PROVE InHand'
  <2>1. Coherent(visible) /\ InHand
    BY <1>6 DEF FilesInv
  <2>2. CASE Winner(report)
    BY <1>2, <1>3, <2>1, <2>2 DEF InHand, Unpublished
  <2>3. CASE ~Winner(report)
    <3>1. visible["metadata"] = NoFile /\ visible["certificate"] = NoFile
      BY <1>1, <1>2, <2>1, <2>3 DEF InHand, Unpublished, Coherent
    <3> QED
      BY <1>2, <1>3, <2>3, <3>1 DEF InHand, Unpublished
  <2> QED
    BY <2>2, <2>3
<1> QED
  BY <1>2, <1>4, <1>5, <1>6 DEF FilesInv

LEMMA AppendFiles ==
  ASSUME IndInv, TruthInv, FilesInv, [Next]_vars, AppendProgress PROVE FilesInv'
<1>1. /\ UNCHANGED <<fate, state, report, visible, disk>>
      /\ pc \in {"log", "stop_log"}
      /\ pc' \in {"drain", "launch"}
      /\ pc' = "launch" => pc = "log" /\ ~Winner(report)
      /\ exit' \in {"incomplete", "verified", exit}
  BY DEF AppendProgress, AfterAppend
<1>2. Kept /\ InHand => InHand'
  BY <1>1 DEF InHand, Unpublished
<1> QED
  BY <1>1, <1>2, QuietFiles DEF FilesInv, SyncPcs

LEMMA EndFiles ==
  ASSUME IndInv, TruthInv, FilesInv, [Next]_vars,
         Join \/ CoordinatorThrows \/ Kill \/ PowerLoss
  PROVE  FilesInv'
<1>1. /\ pc' \in {"down", "drain"} /\ exit' \in {exit, "error", "killed"}
      /\ disk' \subseteq disk
  BY DEF Join, CoordinatorThrows, Kill, PowerLoss, Forgotten, files
<1>2. fate' = fate /\ (Orderly' => Orderly) /\ (Kept' => Kept)
      /\ (faults' = 0 => faults = 0)
  BY OrderlyBefore
<1>3. \A n : (Winner(n)' <=> Winner(n)) /\ (NoWinnerBelow(n)' <=> NoWinnerBelow(n))
  BY <1>2 DEF Winner, NoWinnerBelow
<1>4. (Orderly => \A image \in disk : Coherent(image))'
  BY <1>1, <1>2, <1>3 DEF FilesInv, Coherent
<1>5. InHand'
  BY <1>1 DEF InHand, Unpublished
<1>6. (Kept => Coherent(visible))' /\ (faults = 0 /\ faults' = 0 => disk' = {visible'})
  <2>1. CASE PowerLoss
    <3>1. visible' \in disk /\ disk' = {visible'} /\ ~(power_losses' = 0)
      BY <2>1 DEF PowerLoss, IndInv, TypeOK
    <3>2. Kept' => Orderly'
      BY <3>1 DEF Kept
    <3> QED
      BY <1>4, <3>1, <3>2 DEF Coherent
  <2>2. CASE ~PowerLoss
    <3>1. UNCHANGED <<visible, disk>>
      BY <2>2 DEF Join, CoordinatorThrows, Kill, files
    <3>2. faults = 0 /\ faults' = 0 => pc = "drain"
      BY <2>2 DEF Join, CoordinatorThrows, Kill, IndInv, TypeOK
    <3> QED
      BY <1>2, <1>3, <3>1, <3>2 DEF FilesInv, Coherent, SyncPcs
  <2> QED
    BY <2>1, <2>2
<1> QED
  BY <1>1, <1>2, <1>4, <1>5, <1>6 DEF FilesInv

LEMMA NextFiles ==
  IndInv /\ TruthInv /\ RunInv /\ FilesInv /\ [Next]_vars => FilesInv'
<1> SUFFICES ASSUME IndInv, TruthInv, RunInv, FilesInv, [Next]_vars PROVE FilesInv'
  OBVIOUS
<1>1. CASE Start
  BY <1>1, StartFiles
<1>2. CASE Coordinator
  BY <1>2, WindowFiles, RenameFiles, SyncFiles, RecordFiles, AppendFiles, EndFiles
     DEF Coordinator
<1>3. CASE \E i \in Indices : FinishCurve(i) \/ CurveThrows(i)
  BY <1>3, WindowFiles
<1>4. CASE CoordinatorThrows \/ Kill \/ PowerLoss
  BY <1>4, EndFiles
<1>5. CASE UNCHANGED vars
  <2>1. UNCHANGED <<fate, pc, state, report, visible, disk, exit, faults>>
    BY <1>5 DEF vars, run, files
  <2>2. Kept /\ InHand => InHand'
    BY <2>1 DEF InHand, Unpublished, Winner
  <2> QED
    BY <2>1, <2>2, QuietFiles DEF FilesInv
<1> QED
  BY <1>1, <1>2, <1>3, <1>4, <1>5 DEF Next

\* The four invariants hold together.
LEMMA RecoveryInvariant == Spec => [](IndInv /\ TruthInv /\ RunInv /\ FilesInv)
BY InitIndInv, NextIndInv, InitTruth, NextTruth, InitRun, NextRun, InitFiles,
   NextFiles, PTL DEF Spec

(***************************************************************************)
(* When the file system keeps renames in order, no crash, exception or     *)
(* power loss leaves a checkpoint that counts a certificate without the    *)
(* certificate and its metadata.                                           *)
(***************************************************************************)
THEOREM PublicationOrder == OrderedRenames => (Spec => []ArtifactsPrecedeCursor)
<1> SUFFICES ASSUME OrderedRenames PROVE Spec => []ArtifactsPrecedeCursor
  OBVIOUS
<1>1. FilesInv => ArtifactsPrecedeCursor
  BY DEF FilesInv, Orderly, Coherent, ArtifactsPrecedeCursor
<1> QED
  BY <1>1, RecoveryInvariant, PTL

(***************************************************************************)
(* On any file system the directory syncs alone give the same, whatever    *)
(* power losses interrupt them, until the first process dies on its own.   *)
(***************************************************************************)
THEOREM SyncsSuffice == Spec => []SyncsOrderPublication
<1>1. FilesInv => SyncsOrderPublication
  BY DEF FilesInv, Orderly, Coherent, SyncsOrderPublication, ArtifactsPrecedeCursor
<1> QED
  BY <1>1, RecoveryInvariant, PTL

(***************************************************************************)
(* When the file system keeps renames in order, no run refuses the files   *)
(* an earlier run left, however it ended; with OrderlyRetirement, none of  *)
(* the pipeline's three consistency exceptions is reachable.               *)
(***************************************************************************)
THEOREM Recovery == OrderedRenames => (Spec => []RecoveryUnambiguous)
<1> SUFFICES ASSUME OrderedRenames PROVE Spec => []RecoveryUnambiguous
  OBVIOUS
<1>1. RunInv /\ FilesInv => RecoveryUnambiguous
  BY DEF RunInv, OrderlyExit, FilesInv, Orderly, Kept, RecoveryUnambiguous
<1> QED
  BY <1>1, RecoveryInvariant, PTL

-----------------------------------------------------------------------------
(* The progress file.  Each fault costs at most the line of the index the  *)
(* coordinator had saved and not yet reported; a recovered certificate has *)
(* paid for its line before the recovering run starts.                     *)

Missing(n, lines) == Cardinality((First .. (n - 1)) \ lines)

\* The certificate is published and the checkpoint still stands at it.
Recoverable ==
  /\ visible["checkpoint"] # NoFile /\ visible["metadata"] # NoFile
  /\ visible["checkpoint"].next = visible["certificate"]

LogInv ==
  power_losses = 0 =>
    /\ pc \in SearchPcs => Missing(state.next, log) <= faults
    /\ pc \in SavePcs => Missing(report, log) <= faults
    /\ pc \in RecoverPcs => Missing(state.next - 1, log) + 1 <= faults
    /\ pc \in {"down", "drain"} =>
         /\ Missing(Cursor(visible["checkpoint"]), log) <= faults
         /\ Recoverable => Missing(Cursor(visible["checkpoint"]), log) + 1 <= faults

\* The empty prefix misses nothing.
LEMMA MissingNone == ASSUME NEW lines PROVE Missing(First, lines) = 0
<1>1. (First .. (First - 1)) \ lines = {}
  BY RangeAssumption
<1> QED
  BY <1>1, FS_EmptySet DEF Missing

\* A longer prefix misses no fewer lines, one index more misses at most one.
LEMMA MissingSteps ==
  ASSUME NEW m \in Int, NEW n \in Int, NEW lines, NEW line
  PROVE  /\ Missing(n, lines) \in Nat
         /\ m <= n => Missing(m, lines) <= Missing(n, lines)
         /\ m = n + 1 => Missing(m, lines) <= Missing(n, lines) + 1
         /\ Missing(n, lines \cup {line}) <= Missing(n, lines)
         /\ m = n + 1 /\ line = n => Missing(m, lines \cup {line}) <= Missing(n, lines)
<1> DEFINE Gap(k, l) == (First .. (k - 1)) \ l
<1>1. ASSUME NEW k \in Int, NEW l
      PROVE  IsFiniteSet(Gap(k, l)) /\ Cardinality(Gap(k, l)) \in Nat
                /\ Missing(k, l) = Cardinality(Gap(k, l))
  <2>1. IsFiniteSet(First .. (k - 1))
    BY RangeAssumption, FS_Interval
  <2>2. IsFiniteSet(Gap(k, l))
    BY <2>1, FS_Subset
  <2> QED
    BY <2>2, FS_CardinalityType DEF Missing
<1>3. ASSUME NEW k \in Int, NEW j \in Int, NEW l, NEW h, Gap(j, h) \subseteq Gap(k, l)
      PROVE  Missing(j, h) <= Missing(k, l)
  <2>1. IsFiniteSet(Gap(k, l)) /\ Gap(j, h) \in SUBSET Gap(k, l)
    BY <1>1, <1>3
  <2>2. Cardinality(Gap(j, h)) <= Cardinality(Gap(k, l))
    BY <2>1, FS_Subset
  <2> QED
    BY <1>1, <2>2
<1>4. m <= n => Missing(m, lines) <= Missing(n, lines)
  <2>1. m <= n => Gap(m, lines) \subseteq Gap(n, lines)
    BY RangeAssumption
  <2> QED
    BY <1>3, <2>1
<1>5. m = n + 1 => Missing(m, lines) <= Missing(n, lines) + 1
  <2> SUFFICES ASSUME m = n + 1 PROVE Missing(m, lines) <= Missing(n, lines) + 1
    OBVIOUS
  <2>1. Gap(m, lines) \in SUBSET (Gap(n, lines) \cup {n})
    BY RangeAssumption
  <2>2. IsFiniteSet(Gap(n, lines)) /\ Cardinality(Gap(n, lines)) \in Nat
    BY <1>1
  <2> HIDE DEF Gap
  <2>3. /\ IsFiniteSet(Gap(n, lines) \cup {n})
        /\ Cardinality(Gap(n, lines) \cup {n}) <= Cardinality(Gap(n, lines)) + 1
        /\ Cardinality(Gap(n, lines) \cup {n}) \in Nat
    BY <2>2, FS_AddElement
  <2>4. Cardinality(Gap(m, lines)) <= Cardinality(Gap(n, lines) \cup {n})
    BY <2>1, <2>3, FS_Subset
  <2> QED
    BY <1>1, <2>3, <2>4
<1>6. Missing(n, lines \cup {line}) <= Missing(n, lines)
  BY <1>3
<1>7. m = n + 1 /\ line = n => Missing(m, lines \cup {line}) <= Missing(n, lines)
  <2>1. m = n + 1 /\ line = n => Gap(m, lines \cup {line}) \subseteq Gap(n, lines)
    BY RangeAssumption
  <2> QED
    BY <1>3, <2>1
<1>8. Missing(n, lines) \in Nat
  BY <1>1
<1> QED
  BY <1>4, <1>5, <1>6, <1>7, <1>8

\* What a run that stopped here would leave behind.
LEMMA LogCursor ==
  ASSUME IndInv, RunInv, FilesInv, LogInv, power_losses = 0
  PROVE  LET missing == Missing(Cursor(visible["checkpoint"]), log) IN
         /\ missing \in Nat
         /\ missing <= faults + 1
         /\ pc \notin {"save_sync", "log"} => missing <= faults
         /\ Recoverable => missing <= faults
<1> DEFINE c == Cursor(visible["checkpoint"])
<1> USE DEF IndInv
<1> DEFINE M(n) == Missing(n, log)
<1>0. \A n \in Int :
        /\ M(n) \in Nat
        /\ \A m \in Int : m <= n => M(m) <= M(n)
        /\ M(n + 1) <= M(n) + 1
  <2> TAKE n \in Int
  <2>1. M(n) \in Nat
    BY MissingSteps
  <2>2. ASSUME NEW m \in Int, m <= n PROVE M(m) <= M(n)
    BY <2>2, MissingSteps
  <2>3. n + 1 \in Int
    OBVIOUS
  <2>4. M(n + 1) <= M(n) + 1
    BY <2>3, MissingSteps
  <2> QED
    BY <2>1, <2>2, <2>4
<1>1. c \in Int /\ state.next \in Int /\ faults \in Nat
  BY RangeAssumption DEF TypeOK, IsImage, States, Cursor
<1>2. Coherent(visible) /\ InHand
  BY DEF FilesInv, Kept
<1>3. pc \in ActivePcs => c <= state.next
  BY DEF RunInv, CursorBehind
<1>4. pc = "recover_rename" \/ pc = "recover_sync" =>
        state.next = visible["certificate"] + 1 /\ visible["certificate"] \in Int
  BY <1>2, RangeAssumption DEF InHand, TypeOK, IsImage, Indices
<1>5. pc \in SavePcs => report \in Int /\ state.next = report + 1
  BY RangeAssumption DEF ReportInv, Indices
<1>6. M(c) \in Nat
  BY <1>0, <1>1
<1> HIDE DEF c, M
<1>7. CASE pc \in SearchPcs
  <2>1. M(c) <= M(state.next) /\ M(state.next) \in Nat
    BY <1>0, <1>1, <1>3, <1>7
  <2>2. M(state.next) <= faults
    BY <1>7 DEF LogInv, M
  <2> QED
    BY <1>1, <1>6, <1>7, <2>1, <2>2 DEF c, M
<1>8. CASE pc = "save_rename"
  <2>1. c <= report
    BY <1>8 DEF c, RunInv, CursorBehind
  <2>2. M(c) <= M(report) /\ M(report) \in Nat
    BY <1>0, <1>1, <1>5, <1>8, <2>1
  <2>3. M(report) <= faults
    BY <1>8 DEF LogInv, M
  <2> QED
    BY <1>1, <1>6, <1>8, <2>2, <2>3 DEF c, M
<1>9. CASE pc \in {"save_sync", "log"}
  <2>1. M(c) <= M(state.next) /\ M(state.next) \in Nat
    BY <1>0, <1>1, <1>3, <1>9
  <2>2. M(state.next) <= M(report) + 1 /\ M(report) \in Nat
    BY <1>0, <1>1, <1>5, <1>9
  <2>3. M(report) <= faults
    BY <1>9 DEF LogInv, M
  <2>4. ~Recoverable
    BY <1>2, <1>5, <1>9 DEF InHand, Recoverable
  <2> QED
    BY <1>1, <1>6, <1>9, <2>1, <2>2, <2>3, <2>4 DEF c, M
<1>10. CASE pc \in RecoverPcs
  <2>1. M(c) <= M(state.next) /\ M(state.next) \in Nat
    BY <1>0, <1>1, <1>3, <1>10
  <2>2. M(state.next) <= M(state.next - 1) + 1
        /\ M(state.next - 1) \in Nat
    BY <1>0, <1>1, <1>4, <1>10
  <2>3. M(state.next - 1) + 1 <= faults
    BY <1>10 DEF LogInv, M
  <2> QED
    BY <1>1, <1>6, <1>10, <2>1, <2>2, <2>3 DEF c, M
<1>11. CASE pc \in {"down", "drain"}
  <2>1. M(c) <= faults
    BY <1>11 DEF LogInv, M, c
  <2> QED
    BY <1>1, <1>6, <1>11, <2>1 DEF c, M
<1>12. pc \in SearchPcs \cup {"save_rename"} \cup {"save_sync", "log"}
              \cup RecoverPcs \cup {"down", "drain"}
  BY DEF TypeOK, Pcs, RenamePcs, SyncPcs
<1> QED
  BY <1>7, <1>8, <1>9, <1>10, <1>11, <1>12

LEMMA InitLog == Init => LogInv
<1> SUFFICES ASSUME Init PROVE LogInv
  OBVIOUS
<1>1. Cursor(visible["checkpoint"]) = First /\ ~Recoverable /\ faults = 0 /\ pc = "down"
  BY DEF Init, NoFiles, Files, Cursor, Recoverable
<1>2. Missing(First, log) = 0
  BY MissingNone
<1> QED
  BY <1>1, <1>2 DEF LogInv

LEMMA StartLog ==
  ASSUME IndInv, RunInv, FilesInv, LogInv, Start, power_losses = 0 PROVE LogInv'
<1> USE DEF IndInv
<1>1. UNCHANGED <<visible, log, faults>> /\ pc = "down"
  BY DEF Start, Refuse, ResumeVerified, NothingLeft, EndAtEntry,
         RecoverCertificate, BeginSearch, files
<1>2. Coherent(visible)
  BY DEF FilesInv, Kept
<1>3. Loaded.next = Cursor(visible["checkpoint"]) /\ Loaded.next \in Nat
  BY LoadedValid, RangeAssumption DEF States
<1>4. Missing(Loaded.next, log) <= faults
  BY <1>1, <1>3 DEF LogInv
<1>5. CASE Refuse \/ ResumeVerified \/ NothingLeft
  BY <1>1, <1>5 DEF Refuse, ResumeVerified, NothingLeft, EndAtEntry, LogInv,
     Recoverable
<1>6. CASE RecoverCertificate
  <2>1. /\ pc' = "recover_rename" /\ state'.next = Loaded.next + 1
        /\ visible["metadata"] # NoFile /\ visible["certificate"] # NoFile
        /\ visible["metadata"].index = Loaded.next
    BY <1>6 DEF RecoverCertificate, Recorded, Paired, Exists, PairAccepted, BoundIndex
  <2>2. visible["metadata"].index = visible["certificate"]
        /\ visible["checkpoint"] # NoFile /\ visible["checkpoint"] = Loaded
    BY <1>2, <2>1 DEF Coherent, Loaded, Exists
  <2>3. Missing(Loaded.next, log) + 1 <= faults
    BY <1>1, <1>3, <2>1, <2>2 DEF LogInv, Recoverable
  <2> QED
    BY <1>1, <1>3, <2>1, <2>3 DEF LogInv
<1>7. CASE BeginSearch
  BY <1>1, <1>4, <1>7 DEF BeginSearch, LogInv
<1> QED
  BY <1>5, <1>6, <1>7 DEF Start

LEMMA WindowLog ==
  ASSUME IndInv, RunInv, FilesInv, LogInv, power_losses = 0,
         \/ LaunchCurve \/ WindowFull \/ TakeReport \/ RethrowFailure
         \/ \E i \in Indices : FinishCurve(i) \/ CurveThrows(i)
  PROVE  LogInv'
<1> USE DEF files
<1>1. UNCHANGED <<state, visible, log>> /\ faults' \in {faults, faults + 1}
  BY DEF LaunchCurve, WindowFull, TakeReport, RethrowFailure, FinishCurve, CurveThrows
<1>2. CASE LaunchCurve \/ WindowFull \/ TakeReport \/ RethrowFailure
  <2>1. pc \in {"launch", "retire"} /\ pc' \in {"drain"} \cup SearchPcs /\ faults' = faults
    BY <1>2 DEF LaunchCurve, WindowFull, TakeReport, RethrowFailure, RetireTo
  <2>2. ~Recoverable
    BY <2>1 DEF FilesInv, Kept, InHand, Unpublished, Recoverable
  <2>3. Missing(Cursor(visible["checkpoint"]), log) <= faults
    BY <2>1, LogCursor
  <2>4. Missing(state.next, log) <= faults
    BY <2>1 DEF LogInv
  <2> QED
    BY <1>1, <2>1, <2>2, <2>3, <2>4 DEF LogInv, Recoverable
<1>3. CASE \E i \in Indices : FinishCurve(i) \/ CurveThrows(i)
  <2>1. UNCHANGED <<pc, report, power_losses>>
    BY <1>3 DEF FinishCurve, CurveThrows
  <2>2. /\ faults \in Nat /\ state.next \in Int /\ Cursor(visible["checkpoint"]) \in Int
        /\ pc \in SavePcs => report \in Int
    BY RangeAssumption
       DEF IndInv, TypeOK, IsImage, States, Cursor, ReportInv, Indices
  <2>3. \A n \in Int : Missing(n, log) \in Nat
    BY MissingSteps
  <2> QED
    BY <1>1, <2>1, <2>2, <2>3 DEF LogInv, Recoverable
<1> QED
  BY <1>2, <1>3

\* Saving changes neither the progress file nor what it owes.
LEMMA SaveLog ==
  ASSUME IndInv, RunInv, FilesInv, LogInv, power_losses = 0, Rename \/ Sync
  PROVE  LogInv'
<1>1. UNCHANGED <<state, report, log, faults>>
  BY DEF Rename, Sync
<1>2. CASE Rename
  BY <1>1, <1>2 DEF Rename, RenamePcs, After, LogInv
<1>3. CASE Sync /\ pc # "recover_sync"
  BY <1>1, <1>3 DEF Sync, SyncPcs, After, LogInv
<1>4. CASE Sync /\ pc = "recover_sync"
  <2>1. pc' = "drain" /\ visible' = visible
    BY <1>4 DEF Sync, SyncDirectory, After
  <2>2. Missing(Cursor(visible["checkpoint"]), log) <= faults
    BY <1>4, LogCursor
  <2>3. ~Recoverable
    BY <1>4, RangeAssumption
       DEF FilesInv, Kept, InHand, Recoverable, IndInv, TypeOK, IsImage, Indices
  <2> QED
    BY <1>1, <2>1, <2>2, <2>3 DEF LogInv, Recoverable
<1> QED
  BY <1>2, <1>3, <1>4

LEMMA RecordLog ==
  ASSUME IndInv, RunInv, FilesInv, LogInv, power_losses = 0, Record PROVE LogInv'
<1>1. /\ pc = "record" /\ pc' \in SavePcs /\ report = state.next
      /\ UNCHANGED <<report, log, faults>>
  BY RecordAccepted DEF Record, AfterRecord, files
<1> QED
  BY <1>1 DEF LogInv

LEMMA AppendLog ==
  ASSUME IndInv, RunInv, FilesInv, LogInv, power_losses = 0, AppendProgress
  PROVE  LogInv'
<1> DEFINE c == Cursor(visible["checkpoint"])
<1>1. /\ UNCHANGED <<state, report, visible, faults>> /\ log' = log \cup {report}
      /\ pc \in {"log", "stop_log"}
      /\ pc' = IF pc = "stop_log" \/ Winner(report) THEN "drain" ELSE "launch"
  BY DEF AppendProgress, AfterAppend
<1>2. /\ faults \in Nat /\ report \in Int /\ state.next \in Int /\ c \in Int
      /\ pc = "log" => state.next = report + 1 /\ c <= state.next
  BY <1>1, RangeAssumption
     DEF IndInv, TypeOK, IsImage, States, Cursor, ReportInv, Indices, RunInv,
         CursorBehind
<1>3. InHand
  BY DEF FilesInv, Kept
<1> HIDE DEF c
<1>4. CASE pc = "log"
  <2>1. Missing(report, log) <= faults
    BY <1>4 DEF LogInv
  <2>2. /\ Missing(state.next, log') <= Missing(report, log)
        /\ Missing(report, log) \in Nat /\ Missing(state.next, log') \in Nat
    BY <1>1, <1>2, <1>4, MissingSteps
  <2>3. Missing(c, log') <= Missing(state.next, log') /\ Missing(c, log') \in Nat
    BY <1>2, <1>4, MissingSteps
  <2>4. Winner(report) => ~Recoverable
    BY <1>2, <1>3, <1>4 DEF InHand, Recoverable
  <2> QED
    BY <1>1, <1>2, <1>4, <2>1, <2>2, <2>3, <2>4 DEF LogInv, Recoverable, c
<1>5. CASE pc = "stop_log"
  <2>1. Missing(c, log) <= faults
    BY <1>5, LogCursor DEF c
  <2>2. /\ Missing(c, log') <= Missing(c, log)
        /\ Missing(c, log) \in Nat /\ Missing(c, log') \in Nat
    BY <1>1, <1>2, MissingSteps
  <2>3. ~Recoverable
    BY <1>3, <1>5 DEF InHand, Unpublished, Recoverable
  <2> QED
    BY <1>1, <1>2, <1>5, <2>1, <2>2, <2>3 DEF LogInv, Recoverable, c
<1> QED
  BY <1>1, <1>4, <1>5

LEMMA EndLog ==
  ASSUME IndInv, RunInv, FilesInv, LogInv, power_losses = 0,
         Join \/ CoordinatorThrows \/ Kill \/ PowerLoss
  PROVE  LogInv'
<1>1. CASE Join
  BY <1>1 DEF Join, Forgotten, files, LogInv, Recoverable
<1>2. CASE CoordinatorThrows \/ Kill
  <2>1. pc' \in {"down", "drain"} /\ UNCHANGED <<visible, log>> /\ faults' = faults + 1
    BY <1>2 DEF CoordinatorThrows, Kill, Forgotten, files
  <2>2. LET missing == Missing(Cursor(visible["checkpoint"]), log) IN
          /\ missing \in Nat /\ missing <= faults + 1
          /\ Recoverable => missing <= faults
    BY LogCursor
  <2>3. faults \in Nat
    BY DEF IndInv, TypeOK
  <2> QED
    BY <2>1, <2>2, <2>3 DEF LogInv, Recoverable
<1>3. CASE PowerLoss
  BY <1>3 DEF PowerLoss, IndInv, TypeOK, LogInv
<1> QED
  BY <1>1, <1>2, <1>3

LEMMA NextLog ==
  IndInv /\ RunInv /\ FilesInv /\ LogInv /\ [Next]_vars => LogInv'
<1> SUFFICES ASSUME IndInv, RunInv, FilesInv, LogInv, [Next]_vars,
                    power_losses' = 0
             PROVE  LogInv'
  BY DEF LogInv
<1>1. power_losses = 0
  BY OrderlyBefore
<1>2. CASE Start
  BY <1>1, <1>2, StartLog
<1>3. CASE Coordinator
  BY <1>1, <1>3, WindowLog, SaveLog, RecordLog, AppendLog, EndLog DEF Coordinator
<1>4. CASE \E i \in Indices : FinishCurve(i) \/ CurveThrows(i)
  BY <1>1, <1>4, WindowLog
<1>5. CASE CoordinatorThrows \/ Kill \/ PowerLoss
  BY <1>1, <1>5, EndLog
<1>6. CASE UNCHANGED vars
  BY <1>6 DEF vars, run, files, LogInv, Recoverable
<1> QED
  BY <1>2, <1>3, <1>4, <1>5, <1>6 DEF Next

(***************************************************************************)
(* As long as power stays up, the progress file lacks at most one line per *)
(* crash or exception for the indices below the checkpoint cursor, on any  *)
(* file system and however often the search is started again.              *)
(***************************************************************************)
THEOREM ProgressLines == Spec => []OneLineLostPerFault
<1>1. Spec => []LogInv
  BY RecoveryInvariant, InitLog, NextLog, PTL DEF Spec
<1>2. IndInv /\ RunInv /\ FilesInv /\ LogInv => OneLineLostPerFault
  <2> SUFFICES ASSUME IndInv, RunInv, FilesInv, LogInv, power_losses = 0,
                      Exists("checkpoint"), pc \notin {"save_sync", "log"}
               PROVE  Cardinality((First .. (visible["checkpoint"].next - 1)) \ log)
                        <= faults
    BY DEF OneLineLostPerFault
  <2>1. Missing(Cursor(visible["checkpoint"]), log) <= faults
    BY LogCursor
  <2> QED
    BY <2>1 DEF Missing, Cursor, Exists
<1> QED
  BY <1>1, <1>2, RecoveryInvariant, PTL

-----------------------------------------------------------------------------
(* Refinement.  What is guaranteed to survive is the state at the least    *)
(* cursor of all images, and the certificate once every image has it.      *)

\* No image can lose the anchor of a certificate another image has.
DiskOrder ==
  /\ \A u, v \in disk : v["certificate"] # NoFile =>
       v["certificate"] <= Cursor(u["checkpoint"])
  /\ pc = "cert_rename" => disk = {visible}

StateAt(n) == [next |-> n, counters |-> Tally(fate, n)]

Least(m) ==
  /\ \E image \in disk : Cursor(image["checkpoint"]) = m
  /\ \A image \in disk : m <= Cursor(image["checkpoint"])

GuaranteedLeast == \E m \in First .. End : Least(m) /\ Guaranteed = StateAt(m)

\* Every image stands at a cursor of the range, in the state of that prefix.
LEMMA ImageAt ==
  ASSUME IndInv, TruthInv, NEW v \in disk
  PROVE  /\ Cursor(v["checkpoint"]) \in First .. End
         /\ (IF v["checkpoint"] = NoFile THEN FreshState ELSE v["checkpoint"])
              = StateAt(Cursor(v["checkpoint"]))
<1>1. CASE v["checkpoint"] = NoFile
  BY <1>1, TallyStart, RangeAssumption DEF Cursor, FreshState, StateAt
<1>2. CASE v["checkpoint"] # NoFile
  <2> DEFINE s == v["checkpoint"]
  <2>1. s \in States /\ s.counters = Tally(fate, s.next)
    BY <1>2, ImageState DEF Truthful
  <2>2. s = [next |-> s.next, counters |-> s.counters] /\ s.next \in First .. End
    BY <2>1 DEF States
  <2> QED
    BY <1>2, <2>1, <2>2 DEF Cursor, StateAt
<1> QED
  BY <1>1, <1>2

LEMMA GuaranteedIsLeast == IndInv /\ TruthInv => GuaranteedLeast
<1> SUFFICES ASSUME IndInv, TruthInv PROVE GuaranteedLeast
  OBVIOUS
<1> DEFINE T == {Cursor(image["checkpoint"]) : image \in disk}
           lowest(i) == \A j \in disk : Cursor(i["checkpoint"]) <= Cursor(j["checkpoint"])
<1>1. \A image \in disk : Cursor(image["checkpoint"]) \in First .. End
  BY ImageAt
<1>2. T \in SUBSET Nat /\ T # {}
  BY <1>1, RangeAssumption DEF IndInv, TypeOK
<1>3. \E x \in T : \A y \in T : x <= y
  BY <1>2, LeastNatural
<1>4. \E i \in disk : lowest(i)
  BY <1>3
<1> DEFINE image == CHOOSE i \in disk : lowest(i)
<1>5. image \in disk /\ lowest(image)
  BY <1>4
<1>6. Guaranteed = IF image["checkpoint"] = NoFile THEN FreshState
                                                   ELSE image["checkpoint"]
  BY DEF Guaranteed
<1> HIDE DEF image
<1>7. Guaranteed = StateAt(Cursor(image["checkpoint"]))
  BY <1>5, <1>6, ImageAt
<1>8. Least(Cursor(image["checkpoint"]))
  BY <1>5 DEF Least
<1> QED
  BY <1>1, <1>5, <1>7, <1>8 DEF GuaranteedLeast

LEMMA RenameDisk ==
  ASSUME IndInv, TruthInv, RunInv, FilesInv, OrderedRenames, DiskOrder, Rename
  PROVE  DiskOrder'
<1> DEFINE f == SaveOf(pc)
           c == ContentsFor(f)
<1>1. /\ pc \in RenamePcs /\ pc' = After(pc) /\ Replace(f, c)
      /\ UNCHANGED <<state, report>>
  BY DEF Rename
<1>2. /\ f \in Files
      /\ f = "checkpoint"  => c = state
      /\ f = "certificate" => c = report /\ c \in Indices
      /\ f = "metadata"    => c \in Bindings
      /\ f = "checkpoint"  => c \in States
  BY <1>1, ContentsType DEF ContentsFor
<1> HIDE DEF c
<1>3. \A g \in Files : visible'[g] = IF g = f THEN c ELSE visible[g]
  BY <1>1, <1>2, ReplaceImages DEF IndInv
<1>4. disk' = disk \cup {visible'}
  BY <1>1, OrderlyReplace DEF Orderly
<1>5. /\ visible \in disk /\ pc' # "cert_rename"
      /\ state # NoFile /\ state.next \in Int
      /\ Cursor(visible["checkpoint"]) <= state.next
  BY <1>1, RangeAssumption, NoFileAssumption
     DEF IndInv, TypeOK, States, RenamePcs, After, RunInv, CursorBehind
<1>6. \A w \in disk : Cursor(w["checkpoint"]) \in Int
                        /\ (w["certificate"] # NoFile => w["certificate"] \in Int)
  BY RangeAssumption DEF IndInv, TypeOK, IsImage, States, Cursor, Indices
<1>7. CASE f = "checkpoint"
  <2>1. Cursor(visible'["checkpoint"]) = state.next
        /\ visible'["certificate"] = visible["certificate"]
    BY <1>2, <1>3, <1>5, <1>7 DEF Cursor, Files
  <2>2. \A v \in disk : v["certificate"] # NoFile => v["certificate"] <= state.next
    BY <1>5, <1>6 DEF DiskOrder
  <2> QED
    BY <1>4, <1>5, <2>1, <2>2 DEF DiskOrder, Cursor
<1>8. CASE f = "certificate"
  <2>1. pc = "cert_rename"
    BY <1>1, <1>8 DEF SaveOf
  <2>2. disk = {visible} /\ visible["checkpoint"] = state /\ report = state.next
    BY <2>1 DEF DiskOrder, FilesInv, Kept, Orderly, InHand, IndInv, ReportInv
  <2>3. visible'["checkpoint"] = state /\ visible'["certificate"] = state.next
    BY <1>2, <1>3, <1>8, <2>2 DEF Files
  <2> QED
    BY <1>4, <1>5, <2>2, <2>3 DEF DiskOrder, Cursor
<1>9. CASE f = "metadata"
  <2>1. visible'["checkpoint"] = visible["checkpoint"]
        /\ visible'["certificate"] = visible["certificate"]
    BY <1>2, <1>3, <1>9 DEF Files
  <2> QED
    BY <1>4, <1>5, <2>1 DEF DiskOrder, Cursor
<1> QED
  BY <1>2, <1>7, <1>8, <1>9 DEF Files

LEMMA NextDisk ==
  IndInv /\ TruthInv /\ RunInv /\ FilesInv /\ (OrderedRenames => DiskOrder)
    /\ [Next]_vars => (OrderedRenames => DiskOrder')
<1> SUFFICES ASSUME IndInv, TruthInv, RunInv, FilesInv, OrderedRenames, DiskOrder,
                    [Next]_vars
             PROVE  DiskOrder'
  OBVIOUS
<1>1. CASE Rename
  BY <1>1, RenameDisk
<1>2. CASE Sync
  <2>1. disk' = {visible} /\ visible' = visible /\ visible \in disk
    BY <1>2 DEF Sync, SyncDirectory, IndInv, TypeOK
  <2> QED
    BY <2>1 DEF DiskOrder, Cursor
<1>3. CASE PowerLoss
  <2>1. disk' = {visible'} /\ visible' \in disk
    BY <1>3 DEF PowerLoss
  <2> QED
    BY <2>1 DEF DiskOrder, Cursor
<1>4. CASE ~(Rename \/ Sync \/ PowerLoss)
  <2>1. UNCHANGED <<visible, disk>> /\ (pc' = "cert_rename" => pc = "cert_rename")
    BY <1>4 DEF Next, Start, Refuse, ResumeVerified, NothingLeft, EndAtEntry,
       RecoverCertificate, BeginSearch, Coordinator, LaunchCurve, WindowFull,
       TakeReport, RetireTo, RethrowFailure, Record, AfterRecord, AppendProgress,
       AfterAppend, Join, Forgotten, FinishCurve, CurveThrows, CoordinatorThrows,
       Kill, vars, run, files
  <2> QED
    BY <2>1 DEF DiskOrder, Cursor
<1> QED
  BY <1>1, <1>2, <1>3, <1>4

LEMMA InitDisk == Init => DiskOrder
BY DEF Init, NoFiles, Files, DiskOrder

\* The abstract search counts and judges an index the way the pipeline does.
LEMMA SameCardinality ==
  ASSUME NEW S PROVE Abstract!Cardinality(S) = Cardinality(S)
BY Zenon DEF Abstract!Cardinality, Cardinality, Abstract!IsFiniteSet, IsFiniteSet

LEMMA SameTally ==
  ASSUME NEW n PROVE Abstract!Tally(fate, n) = Tally(fate, n)
<1>1. Abstract!CounterNames = CounterNames
  BY DEF Abstract!CounterNames, CounterNames, Abstract!Stages, Stages
<1>2. \A status : Abstract!FedBy(status) = FedBy(status)
  BY Zenon DEF Abstract!FedBy, FedBy, Abstract!Counted, Counted,
     Abstract!Screened, Screened
<1>3. \A c : Abstract!Cardinality({i \in First .. (n - 1) : c \in Abstract!FedBy(fate[i])})
               = Cardinality({i \in First .. (n - 1) : c \in FedBy(fate[i])})
  BY <1>2, SameCardinality
<1> QED
  BY <1>1, <1>3, Zenon DEF Abstract!Tally, Tally

LEMMA SameJudgement ==
  /\ Abstract!FreshState = FreshState
  /\ Abstract!Indices = Indices
  /\ \A i : Abstract!Winner(i) = Winner(i) /\ Abstract!Retirable(i) = Retirable(i)
<1>1. Abstract!FreshState = FreshState
  BY DEF Abstract!FreshState, FreshState, Abstract!CounterNames, CounterNames,
     Abstract!Stages, Stages
<1>2. Abstract!Indices = Indices
  BY DEF Abstract!Indices, Indices
<1>3. \A i : Abstract!Winner(i) = Winner(i) /\ Abstract!Retirable(i) = Retirable(i)
  BY DEF Abstract!Winner, Winner, Abstract!Retirable, Retirable,
     Abstract!RetirableStatuses, RetirableStatuses,
     Abstract!IncompleteStatuses, IncompleteStatuses
<1> QED
  BY <1>1, <1>2, <1>3

\* The certificate of an image that has both its files.
Certified(v) == v["certificate"] # NoFile /\ v["metadata"] # NoFile

CertificateOf(v) == IF Certified(v) THEN v["metadata"].index ELSE NoFile

\* Everything but image v is gone: what was guaranteed stays, a certificate
\* is published, or a chunk is saved.
LEMMA SurvivorStep ==
  ASSUME IndInv, TruthInv, DiskOrder, \A image \in disk : Coherent(image),
         NEW v \in disk, NEW m \in First .. End, Least(m)
  PROVE  LET n == Cursor(v["checkpoint"]) IN
         \/ n = m /\ CertificateOf(v) = PublishedCertificate
         \/ /\ n = m /\ CertificateOf(v) = m
            /\ m \in Indices /\ Winner(m) /\ NoWinnerBelow(m)
         \/ /\ n \in (m + 1) .. End
            /\ NoWinnerBelow(m)
            /\ \A i \in m .. (n - 1) : Retirable(i)
            /\ \A i \in m .. (n - 2) : ~Winner(i)
            /\ CertificateOf(v) = IF Winner(n - 1) THEN n - 1 ELSE PublishedCertificate
<1> DEFINE n == Cursor(v["checkpoint"])
<1>1. /\ n \in First .. End /\ m \in Int /\ n \in Int /\ m <= n /\ First \in Int
      /\ First <= m
  BY ImageAt, RangeAssumption DEF Least
<1>2. \A u \in disk :
        /\ u["certificate"] # NoFile =>
             /\ u["certificate"] \in Indices /\ u["certificate"] \in Int
             /\ Winner(u["certificate"]) /\ NoWinnerBelow(u["certificate"])
             /\ Cursor(u["checkpoint"]) \in {u["certificate"], u["certificate"] + 1}
             /\ u["certificate"] <= m
        /\ Certified(u) => CertificateOf(u) = u["certificate"]
  <2> TAKE u \in disk
  <2>1. Coherent(u)
    OBVIOUS
  <2>2. ASSUME u["certificate"] # NoFile PROVE u["certificate"] <= m
    BY <2>2 DEF Least, DiskOrder
  <2>3. Certified(u) => CertificateOf(u) = u["certificate"]
    BY <2>1 DEF Certified, CertificateOf, Coherent
  <2> QED
    BY <2>1, <2>2, <2>3, CoherentCursor, RangeAssumption
       DEF Coherent, Cursor, Indices
\* All images with both files have the same certificate: the lowest winner.
<1>3. \A u \in disk : Certified(u) /\ Certified(v) => CertificateOf(u) = CertificateOf(v)
  <2> TAKE u \in disk
  <2>1. u["certificate"] \in Indices /\ Winner(u["certificate"])
        /\ NoWinnerBelow(u["certificate"]) /\ v["certificate"] \in Indices
        /\ Winner(v["certificate"]) /\ NoWinnerBelow(v["certificate"])
        => u["certificate"] = v["certificate"]
    BY RangeAssumption DEF NoWinnerBelow, Indices
  <2> QED
    BY <1>2, <2>1 DEF Certified
<1>4. visible \in disk
  BY DEF IndInv, TypeOK
<1>5. PublishedCertificate = IF \A u \in disk : Certified(u) THEN CertificateOf(visible)
                                                              ELSE NoFile
  BY <1>4 DEF PublishedCertificate, Certified, CertificateOf
<1>6. CASE ~Certified(v)
  <2>1. CertificateOf(v) = NoFile /\ PublishedCertificate = NoFile
    BY <1>5, <1>6 DEF CertificateOf
  <2>2. v["checkpoint"] # NoFile => Found(v["checkpoint"]) = 0
    BY <1>6 DEF Certified, Coherent
  <2>3. NoWinnerBelow(n)
    BY <2>2, ImageState, FoundWinner, FreshTruthful DEF Cursor, IndInv
  <2>4. \A i \in First .. (n - 1) : Retirable(i)
    BY ImageState, RangeAssumption DEF Cursor, Truthful
  <2> HIDE DEF n
  <2>5. CASE n = m
    BY <2>1, <2>5 DEF n
  <2>6. CASE n # m
    <3>1. n \in (m + 1) .. End /\ ~Winner(n - 1) /\ NoWinnerBelow(m)
      BY <1>1, <2>3, <2>6 DEF NoWinnerBelow
    <3>2. \A i \in m .. (n - 1) : Retirable(i)
      BY <1>1, <2>4
    <3>3. \A i \in m .. (n - 2) : ~Winner(i)
      BY <1>1, <2>3 DEF NoWinnerBelow
    <3> QED
      BY <2>1, <3>1, <3>2, <3>3 DEF n
  <2> QED
    BY <2>5, <2>6
<1>7. CASE Certified(v)
  <2> DEFINE w == v["certificate"]
  <2>1. /\ w \in Indices /\ w \in Int /\ Winner(w) /\ NoWinnerBelow(w)
        /\ n \in {w, w + 1} /\ w <= m /\ CertificateOf(v) = w
    BY <1>2, <1>7 DEF Certified
  <2>2. v["checkpoint"] # NoFile
    BY <1>7 DEF Certified, Coherent
  <2>3. \A i \in First .. (n - 1) : Retirable(i)
    BY <2>2, ImageState DEF Cursor, Truthful
  <2>4. (\A u \in disk : Certified(u)) => PublishedCertificate = CertificateOf(v)
    BY <1>3, <1>4, <1>5, <1>7
  <2> HIDE DEF w, n
  <2>5. CASE m = w /\ n = m
    BY <2>1, <2>5 DEF n
  <2>6. CASE m = w /\ n # m
    <3>1. n = w + 1 /\ n \in (m + 1) .. End /\ n - 1 = w
      BY <1>1, <2>1, <2>6
    <3>2. \A i \in m .. (n - 1) : Retirable(i)
      BY <1>1, <2>3
    <3>3. \A i \in m .. (n - 2) : ~Winner(i)
      BY <1>1, <2>1, <3>1
    <3> QED
      BY <2>1, <2>6, <3>1, <3>2, <3>3 DEF n
  <2>7. CASE m # w
    <3>1. m = w + 1 /\ n = m
      BY <1>1, <2>1, <2>7
    \* Every image has passed the winner, so every image has the certificate.
    <3>2. ASSUME NEW u \in disk PROVE Certified(u)
      <4>1. w + 1 <= Cursor(u["checkpoint"])
        BY <3>1 DEF Least
      <4>2. u["checkpoint"] # NoFile
        BY <1>1, <2>1, <4>1, RangeAssumption DEF Cursor, Indices
      <4>3. /\ u["checkpoint"] \in States /\ w < u["checkpoint"].next
            /\ u["checkpoint"].next \in Int
            /\ Truthful(u["checkpoint"])
        BY <2>1, <4>1, <4>2, ImageState, RangeAssumption DEF Cursor
      <4>4. ~NoWinnerBelow(u["checkpoint"].next)
        BY <2>1, <4>3, RangeAssumption DEF NoWinnerBelow, Indices
      <4>5. Found(u["checkpoint"]) # 0
        BY <4>3, <4>4, FoundWinner DEF IndInv
      <4> QED
        BY <4>2, <4>5 DEF Coherent, Certified
    <3> QED
      BY <2>4, <3>1, <3>2 DEF n
  <2> QED
    BY <2>5, <2>6, <2>7
<1> QED
  BY <1>6, <1>7

\* Replacing a file adds an image that promises no less than the others.
LEMMA RenameStutters ==
  ASSUME IndInv, TruthInv, RunInv, FilesInv, OrderedRenames, Rename,
         NEW m \in First .. End, Least(m)
  PROVE  (\A n \in First .. End : Least(n)' => n = m)
         /\ PublishedCertificate' = PublishedCertificate
<1> DEFINE f == SaveOf(pc)
           c == ContentsFor(f)
<1>1. /\ pc \in RenamePcs /\ Replace(f, c) /\ UNCHANGED <<state, report>>
  BY DEF Rename
<1>2. /\ f \in Files
      /\ f = "checkpoint"  => c = state /\ c \in States
      /\ f = "certificate" => c = report /\ c \in Indices
      /\ f = "metadata"    => c \in Bindings
  BY <1>1, ContentsType DEF ContentsFor
<1>3. f = "metadata" => visible["metadata"] = NoFile
  BY DEF SaveOf, FilesInv, Kept, Orderly, InHand
<1> HIDE DEF c
<1>4. \A g \in Files : visible'[g] = IF g = f THEN c ELSE visible[g]
  BY <1>1, <1>2, ReplaceImages DEF IndInv
<1>5. disk' = disk \cup {visible'} /\ visible \in disk
  BY <1>1, OrderlyReplace DEF Orderly, IndInv, TypeOK
<1>6. m <= Cursor(visible'["checkpoint"])
  <2>1. m <= Cursor(visible["checkpoint"])
    BY <1>5 DEF Least
  <2>2. CASE f = "checkpoint"
    <3>1. Cursor(visible'["checkpoint"]) = state.next
      BY <1>2, <1>4, <2>2, NoFileAssumption DEF Cursor, Files
    <3>2. Cursor(visible["checkpoint"]) <= state.next
      BY <1>1 DEF RenamePcs, RunInv, CursorBehind
    <3>3. Cursor(visible["checkpoint"]) \in Int /\ state.next \in Int
      BY <1>5, ImageAt, RangeAssumption DEF IndInv, TypeOK, States
    <3> QED
      BY <2>1, <3>1, <3>2, <3>3
  <2>3. CASE f # "checkpoint"
    BY <1>4, <2>1, <2>3 DEF Files
  <2> QED
    BY <2>2, <2>3
<1>7. ASSUME NEW n \in First .. End, Least(n)' PROVE n = m
  <2>1. PICK image \in disk : Cursor(image["checkpoint"]) = m
    BY DEF Least
  <2>2. n <= m
    BY <1>5, <1>7, <2>1 DEF Least, Cursor
  <2>3. m <= n
    BY <1>5, <1>6, <1>7 DEF Least, Cursor
  <2> QED
    BY <2>2, <2>3
<1>8. PublishedCertificate' = PublishedCertificate
  <2>1. CASE \A u \in disk : Certified(u)
    <3>1. visible["metadata"] # NoFile /\ visible["certificate"] # NoFile
      BY <1>5, <2>1 DEF Certified
    <3>2. f # "metadata" /\ visible'["metadata"] = visible["metadata"]
      BY <1>3, <1>4, <3>1 DEF Files
    <3>3. visible'["certificate"] # NoFile
      BY <1>2, <1>4, <3>1, NoFileAssumption DEF Files
    <3>4. \A u \in disk' : Certified(u)
      BY <1>5, <2>1, <3>1, <3>2, <3>3 DEF Certified
    <3> QED
      BY <2>1, <3>2, <3>4 DEF PublishedCertificate, Certified
  <2>2. CASE ~\A u \in disk : Certified(u)
    BY <1>5, <2>2 DEF PublishedCertificate, Certified
  <2> QED
    BY <2>1, <2>2
<1> QED
  BY <1>7, <1>8

LEMMA RefineStep ==
  ASSUME IndInv, TruthInv, RunInv, FilesInv, OrderedRenames, DiskOrder,
         GuaranteedLeast, GuaranteedLeast', [Next]_vars
  PROVE  [Abstract!Next]_(Abstract!vars)
<1>1. PICK m \in First .. End : Least(m) /\ Guaranteed = StateAt(m)
  BY DEF GuaranteedLeast
<1>2. PICK n \in First .. End : Least(n)' /\ Guaranteed' = StateAt(n)'
  BY DEF GuaranteedLeast
<1>3. fate' = fate /\ StateAt(n)' = StateAt(n)
  BY OrderlyBefore DEF StateAt
<1>4. CASE UNCHANGED <<visible, disk>>
  BY <1>3, <1>4 DEF Abstract!vars, Guaranteed, PublishedCertificate
<1>5. CASE Rename
  <2>1. n = m /\ PublishedCertificate' = PublishedCertificate
    BY <1>1, <1>2, <1>5, RenameStutters
  <2> QED
    BY <1>1, <1>2, <1>3, <2>1 DEF Abstract!vars
<1>6. CASE Sync \/ PowerLoss
  <2> DEFINE v == visible'
  <2>1. v \in disk /\ disk' = {v}
    BY <1>6 DEF Sync, SyncDirectory, PowerLoss, IndInv, TypeOK
  <2>2. n = Cursor(v["checkpoint"])
    BY <1>2, <2>1 DEF Least, Cursor
  <2>3. PublishedCertificate' = CertificateOf(v)
    BY <2>1 DEF PublishedCertificate, CertificateOf, Certified
  <2> HIDE DEF v
  <2>4. \A image \in disk : Coherent(image)
    BY DEF FilesInv, Orderly
  <2>5. Guaranteed = StateAt(m) /\ Guaranteed' = StateAt(n) /\ m \in Int /\ n \in Int
        /\ First \in Int /\ End \in Int
    BY <1>1, <1>2, <1>3, RangeAssumption
  <2>6. NoWinnerBelow(m) => Abstract!Found(Guaranteed) = 0
    BY <2>5, NothingWon DEF Abstract!Found, StateAt
  <2>7. Guaranteed.next = m
    BY <2>5 DEF StateAt
  <2>8. CASE n = m /\ PublishedCertificate' = PublishedCertificate
    BY <1>3, <2>5, <2>8 DEF Abstract!vars
  <2>9. CASE /\ n = m /\ PublishedCertificate' = m
             /\ m \in Indices /\ Winner(m) /\ NoWinnerBelow(m)
    <3>1. Abstract!Publish
      BY <1>3, <2>5, <2>6, <2>7, <2>9, SameJudgement DEF Abstract!Publish
    <3> QED
      BY <3>1 DEF Abstract!Next
  <2>10. CASE /\ n \in (m + 1) .. End
              /\ NoWinnerBelow(m)
              /\ \A i \in m .. (n - 1) : Retirable(i)
              /\ \A i \in m .. (n - 2) : ~Winner(i)
              /\ PublishedCertificate'
                   = IF Winner(n - 1) THEN n - 1 ELSE PublishedCertificate
    <3>1. Guaranteed' = [next |-> n, counters |-> Abstract!Tally(fate, n)]
      BY <2>5, SameTally DEF StateAt
    <3>2. Abstract!Chunk(n)
      BY <1>3, <2>6, <2>7, <2>10, <3>1, SameJudgement DEF Abstract!Chunk
    <3> QED
      BY <2>7, <2>10, <3>2 DEF Abstract!Next
  <2> QED
    BY <1>1, <2>1, <2>2, <2>3, <2>4, <2>8, <2>9, <2>10, SurvivorStep
<1>7. UNCHANGED <<visible, disk>> \/ Rename \/ Sync \/ PowerLoss
  BY DEF Next, Start, Refuse, ResumeVerified, NothingLeft, EndAtEntry,
     RecoverCertificate, BeginSearch, Coordinator, LaunchCurve, WindowFull,
     TakeReport, RethrowFailure, Record, AppendProgress, Join, FinishCurve,
     CurveThrows, CoordinatorThrows, Kill, vars, run, files
<1> QED
  BY <1>4, <1>5, <1>6, <1>7

LEMMA RefineInit == Init => Abstract!Init
<1> SUFFICES ASSUME Init PROVE Abstract!Init
  OBVIOUS
<1>1. disk = {NoFiles} /\ fate \in [Indices -> Fates]
      /\ NoFiles["checkpoint"] = NoFile /\ NoFiles["certificate"] = NoFile
  BY DEF Init, NoFiles, Files
<1>2. Guaranteed = FreshState
  <2> DEFINE image == CHOOSE i \in disk :
                        \A j \in disk : Cursor(i["checkpoint"]) <= Cursor(j["checkpoint"])
  <2>1. \E i \in disk :
          \A j \in disk : Cursor(i["checkpoint"]) <= Cursor(j["checkpoint"])
    BY <1>1, RangeAssumption DEF Cursor
  <2>2. image \in disk
    BY <2>1
  <2>3. Guaranteed = IF image["checkpoint"] = NoFile THEN FreshState
                                                     ELSE image["checkpoint"]
    BY DEF Guaranteed
  <2> HIDE DEF image
  <2> QED
    BY <1>1, <2>2, <2>3
<1>3. PublishedCertificate = NoFile
  BY <1>1 DEF PublishedCertificate
<1> QED
  BY <1>1, <1>2, <1>3, SameJudgement DEF Abstract!Init

(***************************************************************************)
(* When the file system keeps renames in order, the pipeline implements    *)
(* the sequential search: seen through what is guaranteed to survive, its  *)
(* concurrent window, its speculation, its crashes and its power losses    *)
(* are stutters, and every sync or power loss is a stutter, the            *)
(* publication of the lowest winner, or a chunk saved.                     *)
(***************************************************************************)
THEOREM Refinement == OrderedRenames => (Spec => ImplementsSequential)
<1> SUFFICES ASSUME OrderedRenames PROVE Spec => ImplementsSequential
  OBVIOUS
<1> DEFINE Inv == IndInv /\ TruthInv /\ RunInv /\ FilesInv
<1>1. Spec => [](Inv /\ (OrderedRenames => DiskOrder))
  <2>1. Inv /\ (OrderedRenames => DiskOrder) /\ [Next]_vars
          => (OrderedRenames => DiskOrder)'
    BY NextDisk
  <2> QED
    BY <2>1, RecoveryInvariant, InitDisk, PTL DEF Spec
<1>2. Inv /\ DiskOrder => GuaranteedLeast
  BY GuaranteedIsLeast
<1>3. Inv /\ DiskOrder /\ GuaranteedLeast /\ GuaranteedLeast' /\ [Next]_vars
        => [Abstract!Next]_(Abstract!vars)
  BY RefineStep
<1>4. Spec => Abstract!Spec
  BY <1>1, <1>2, <1>3, RefineInit, PTL DEF Spec, Abstract!Spec
<1> QED
  BY <1>4 DEF ImplementsSequential
=============================================================================
