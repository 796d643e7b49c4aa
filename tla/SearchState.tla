---------------------------- MODULE SearchState ----------------------------
(***************************************************************************)
(* The search cursor and its counters (SearchState, search_checkpoint.cpp):*)
(* the pure operators behind record_completed, the two validators and the  *)
(* outcome each curve status carries.  A worker owns the half-open range   *)
(* First .. End - 1 and retires its curve indices strictly in order.       *)
(*                                                                         *)
(* Counters are unsigned 64-bit in the code and every addition is checked. *)
(* Each of them is bounded by curves_attempted = next - First, itself a    *)
(* 64-bit value, so the width never shows and plain naturals are used.     *)
(***************************************************************************)
EXTENDS Integers, FiniteSets

CONSTANTS First, End        \* SearchRange of this worker

ASSUME RangeAssumption == First \in Nat /\ End \in Nat /\ First <= End

Indices == First .. (End - 1)

-----------------------------------------------------------------------------
(* Terminal stages, outcomes and the counters they feed.                   *)

Stages == {"rejected_invalid_curve", "rejected_sea",
           "rejected_sound_early_abort", "rejected_heuristic",
           "rejected_certificate_assembly", "completed_without_certificate",
           "verified_certificate_found"}

\* full: full_point_count_completed, smooth: reached_smoothness_testing.
Outcomes == [stage : Stages, full : BOOLEAN, smooth : BOOLEAN]

\* certificates_found is the counter of stage verified_certificate_found.
CounterNames == Stages \cup {"curves_attempted", "full_point_counts_completed",
                             "candidates_reaching_smoothness"}

Counters == [CounterNames -> Nat]
States   == [next : First .. End, counters : Counters]

FreshState == [next |-> First, counters |-> [c \in CounterNames |-> 0]]

Complete(s) == s.next = End
Found(s)    == s.counters["verified_certificate_found"]

\* The counters one outcome increments.
Bumps(o) ==
  {"curves_attempted", o.stage}
    \cup {c \in {"full_point_counts_completed"} : o.full}
    \cup {c \in {"candidates_reaching_smoothness"} : o.smooth}

StageTotal(k) ==
  k["rejected_invalid_curve"] + k["rejected_sea"]
    + k["rejected_sound_early_abort"] + k["rejected_heuristic"]
    + k["rejected_certificate_assembly"] + k["completed_without_certificate"]
    + k["verified_certificate_found"]

\* validate_counters
ValidState(s) ==
  LET k == s.counters IN
  /\ s.next \in First .. End
  /\ k["curves_attempted"] = s.next - First
  /\ StageTotal(k) = k["curves_attempted"]
  /\ \A m \in {"full_point_counts_completed", "candidates_reaching_smoothness"} :
       /\ k[m] <= k["curves_attempted"]
       /\ k["verified_certificate_found"] <= k[m]
       /\ k["rejected_certificate_assembly"] <= k[m]

\* validate_outcome
ValidOutcome(o) ==
  /\ o.stage \in {"verified_certificate_found", "rejected_certificate_assembly"}
       => o.full /\ o.smooth
  /\ o.stage = "rejected_invalid_curve" => ~o.full /\ ~o.smooth

\* The state record_completed leaves; CanRecord is what it insists on first.
Recorded(s, o) ==
  [next     |-> s.next + 1,
   counters |-> [c \in CounterNames |->
                   s.counters[c] + IF c \in Bumps(o) THEN 1 ELSE 0]]

CanRecord(s, i, o) ==
  /\ ValidState(s)
  /\ ValidOutcome(o)
  /\ ~Complete(s)
  /\ i = s.next
  /\ ValidState(Recorded(s, o))

-----------------------------------------------------------------------------
(* What process_search_curve can do with an index.  Two statuses split by  *)
(* the point where they arise, because the counters tell them apart: the   *)
(* sound rejection before or after the trace is unique, and the SEA level  *)
(* limit before or after the smoothness screen.  candidate_limit is the    *)
(* exception thrown when certificate enumeration hits its resource bound.  *)

IncompleteStatuses == {"no_rational_weber_lift", "sea_level_limit",
                       "sea_level_limit_after_screen"}

RetirableStatuses ==
  {"sound_reject_many_traces", "sound_reject_unique_trace",
   "no_certificate_candidate", "canonical_verifier_rejected",
   "certificate_assembly_failed", "verified_certificate"}

Statuses == IncompleteStatuses \cup RetirableStatuses \cup {"candidate_limit"}

\* The outcome process_search_curve attaches to a status it reports.
OutcomeOf(status) ==
  CASE status \in {"sound_reject_many_traces", "sound_reject_unique_trace"} ->
         [stage |-> "rejected_sound_early_abort",
          full |-> status = "sound_reject_unique_trace", smooth |-> TRUE]
    [] status = "no_certificate_candidate" ->
         [stage |-> "completed_without_certificate", full |-> TRUE, smooth |-> TRUE]
    [] status \in {"canonical_verifier_rejected", "certificate_assembly_failed"} ->
         [stage |-> "rejected_certificate_assembly", full |-> TRUE, smooth |-> TRUE]
    [] status = "verified_certificate" ->
         [stage |-> "verified_certificate_found", full |-> TRUE, smooth |-> TRUE]
    [] OTHER ->
         [stage |-> "rejected_sea", full |-> FALSE,
          smooth |-> status = "sea_level_limit_after_screen"]

\* The outcome the pipeline retires: incomplete curves that the heuristic
\* policy skips are recounted as heuristic rejections.
RetiredOutcome(status) ==
  IF status \in IncompleteStatuses
    THEN [OutcomeOf(status) EXCEPT !.stage = "rejected_heuristic"]
    ELSE OutcomeOf(status)

-----------------------------------------------------------------------------
(* Reference values, for properties: the counters each status must feed,   *)
(* and what a plain left-to-right pass over First .. n - 1 counts when     *)
(* index i ends with status fate[i].                                       *)

Screened == {"curves_attempted", "candidates_reaching_smoothness"}
Counted  == Screened \cup {"full_point_counts_completed"}

FedBy(status) ==
  CASE status = "sound_reject_many_traces" ->
         Screened \cup {"rejected_sound_early_abort"}
    [] status = "sound_reject_unique_trace" ->
         Counted \cup {"rejected_sound_early_abort"}
    [] status = "no_certificate_candidate" ->
         Counted \cup {"completed_without_certificate"}
    [] status = "canonical_verifier_rejected" ->
         Counted \cup {"rejected_certificate_assembly"}
    [] status = "certificate_assembly_failed" ->
         Counted \cup {"rejected_certificate_assembly"}
    [] status = "verified_certificate" ->
         Counted \cup {"verified_certificate_found"}
    [] status = "sea_level_limit_after_screen" ->
         Screened \cup {"rejected_heuristic"}
    [] OTHER -> {"curves_attempted", "rejected_heuristic"}

Tally(fate, n) ==
  [c \in CounterNames |->
     Cardinality({i \in First .. (n - 1) : c \in FedBy(fate[i])})]

=============================================================================
