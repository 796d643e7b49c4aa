----------------------------- MODULE CurveSearch -----------------------------
(***************************************************************************)
(* One generated curve from its first SEA pass to its report:              *)
(* process_search_curve (search_pipeline.cpp) with the point counting      *)
(* driver it calls, run_weber_sea_reference, and the Schoof fallback       *)
(* (sea.cpp).  The arithmetic of one level is an oracle that answers as    *)
(* the curve's trace allows; everything that is inferred from the answers  *)
(* is computed on real residue classes.                                    *)
(***************************************************************************)
EXTENDS Sequences, TraceConstraints, FrobeniusOrder

CONSTANTS
  Prime,            \* characteristic of the searched field
  Traces,           \* traces of the generated curves
  WeberLevels,      \* primes with a Weber table up to max_level, increasing
  ClassicalLevels,  \* primes with a trusted classical table
  SchoofLevels,     \* kRareSchoofFallbackLevels, increasing
  EarlyCaps,        \* early_trace_cap
  MaxCandidates,    \* max_certificate_candidates
  MaxSearchNodes,   \* max_candidate_search_nodes
  NoTrace

ASSUME LevelsAssumption ==
  /\ WeberLevels \in Seq(Nat) /\ SchoofLevels \in Seq(Nat)
  /\ \A i, j \in 1 .. Len(WeberLevels) : i < j => WeberLevels[i] < WeberLevels[j]
  /\ \A i \in 1 .. Len(WeberLevels) : SmallPrime(WeberLevels[i]) /\ WeberLevels[i] >= 5
  /\ \A i \in 1 .. Len(SchoofLevels) : SmallPrime(SchoofLevels[i]) /\ SchoofLevels[i] >= 3
  /\ ClassicalLevels \subseteq {5, 7}
ASSUME LimitsAssumption ==
  /\ EarlyCaps \subseteq Nat \ {0}
  /\ MaxCandidates \in Nat \ {0} /\ MaxSearchNodes \in Nat \ {0}
ASSUME TracesAssumption ==
  Prime \in Nat /\ SmallPrime(Prime) /\ Traces \subseteq Hasse(Prime)

VARIABLES
  curve,        \* trace, known prior, lift and what each level can show of it
  config,       \* early_trace_cap and enable_schoof_fallback
  stage,        \* "early" up to the smoothness screen, then "unique"
  pc,
  cap, level,   \* of the SEA pass or the fallback that is running
  committed,    \* committed_level of the fallback
  sea,          \* WeberSeaResult
  smooth,       \* the traces u for which p + 1 - u has a large smooth part
  exact_trace,
  search,       \* counters of the report and the order class in hand
  walk,         \* the candidate enumeration that is running
  status

vars == <<curve, config, stage, pc, cap, level, committed, sea,
          smooth, exact_trace, search, walk, status>>

\* What a level shows: an Elkies kernel needs a rational isogeny and may not
\* be found; Atkin evidence needs a trusted table and no rational isogeny.
Evidence(ell, t) ==
  {"none"}
    \cup (IF HasRationalIsogeny(Prime, t, ell) THEN {"exact"} ELSE {})
    \cup (IF ell \in ClassicalLevels /\ ~HasRationalIsogeny(Prime, t, ell)
            THEN {"atkin"} ELSE {})

\* The exact prior of a family: full rational 2-torsion gives the trace mod 4,
\* a point of order 11 on the curve or on its twist gives it mod 11.
PriorResidues_OtherSide(t, divisor, residues) ==
  {Refine(Unconstrained, divisor, {r}) : r \in {r \in residues : r = (-t) % divisor}}

\* The prior the chosen side of the curve supports, if it supports one.
PriorResidues(t, divisor, residues) ==
  {Refine(Unconstrained, divisor, {r}) : r \in {r \in residues : r = t % divisor}}

Priors(t) ==
  {Unconstrained}
    \cup PriorResidues(t, 4, {(Prime + 1) % 4})
    \cup PriorResidues(t, 11, {(Prime + 1) % 11, (-(Prime + 1)) % 11})

LevelsOf(sequence) == {sequence[i] : i \in 1 .. Len(sequence)}

FreshResult(prior) ==
  [exact |-> prior, effective |-> prior, atkin |-> [ell \in {} |-> {}],
   levels |-> 0, traces |-> NoTraces]

NotSearched == [twist |-> FALSE, attempts |-> 0, assemblies |-> 0, nodes |-> 0,
                rejections |-> 0, explored |-> {}]
NoWalk == [phase |-> "none", preferred |-> 0, visited |-> 0, nodes |-> 0,
           max_candidates |-> 0, max_nodes |-> 0]

Init ==
  /\ \E t \in Traces, lift \in BOOLEAN :
       \E prior \in Priors(t) :
         \E shows \in {f \in [LevelsOf(WeberLevels) -> {"none", "exact", "atkin"}] :
                         \A ell \in DOMAIN f : f[ell] \in Evidence(ell, t)} :
           /\ curve = [trace |-> t, lift |-> lift, prior |-> prior, shows |-> shows]
           /\ sea = FreshResult(prior)
  /\ config \in [early_trace_cap : EarlyCaps, enable_schoof_fallback : BOOLEAN]
  /\ stage = "early"
  /\ pc = "start_sea"
  /\ cap = config.early_trace_cap
  /\ level = 1
  /\ committed = FALSE
  /\ smooth = {}
  /\ exact_trace = NoTrace
  /\ search = NotSearched
  /\ walk = NoWalk
  /\ status = "none"

-----------------------------------------------------------------------------
(* The trace set a pass may stop at.                                       *)

\* completion_fits_cap: with cap one only exact constraints count.
Completing(result, limit) == IF limit = 1 THEN result.exact ELSE result.effective

FitsCap(result, limit) == CandidateCount(Prime, Completing(result, limit)) <= limit
EnumerateCompleted(result, limit) == Enumerate(Prime, Completing(result, limit), limit)

\* What a pass does when its state has changed: stop, or go on.
Completed(result) == [result EXCEPT !.traces = EnumerateCompleted(result, cap)]

Throw(error) == pc' = "done" /\ status' = error
Report(terminal) == pc' = "done" /\ status' = terminal

-----------------------------------------------------------------------------
(* run_weber_sea_reference.                                                *)

StartSea ==
  /\ pc = "start_sea"
  /\ LET fresh == FreshResult(curve.prior) IN
     IF curve.lift /\ FitsCap(fresh, cap)
       THEN sea' = Completed(fresh) /\ pc' = "sea_done"
       ELSE sea' = fresh /\ pc' = IF curve.lift THEN "sea_level" ELSE "sea_done"
  /\ level' = 1
  /\ UNCHANGED <<curve, config, stage, cap, committed, smooth, exact_trace, search, walk, status>>

Skipped(ell) == curve.prior.modulus % ell = 0

\* What the degrees of the factors of the classical polynomial say of the trace.
AtkinEvidence ==
  [ell \in ClassicalLevels |->
     [residue \in TraceResiduesFromClassification(ell, Prime, FALSE) |->
        AtkinTraceResidues(ell, Prime, ProjectiveFrobeniusOrder(ell, Prime, residue))]]

\* The constraints after one level, exact or Atkin; both sets stay sound.
WithLevel(result, ell) ==
  LET residue  == curve.trace % ell
      residues == AtkinEvidence[ell][residue]
      shown    == curve.shows[ell]
  IN [result EXCEPT
        !.exact = IF shown = "exact" THEN ExactRefinement(Prime, @, ell, residue) ELSE @,
        !.effective = CASE shown = "exact" -> ExactRefinement(Prime, @, ell, residue)
                        [] shown = "atkin" -> Refine(@, ell, residues)
                        [] OTHER -> @,
        !.atkin = IF shown = "atkin"
                    THEN [l \in DOMAIN @ \cup {ell} |-> IF l = ell THEN residues ELSE @[l]]
                    ELSE @,
        !.levels = @ + 1]

\* refine_exact throws when the residue leaves no trace.
Impossible(tc, ell, residue) == CandidateCount(Prime, Refine(tc, ell, {residue})) = 0

SkipLevel ==
  /\ pc = "sea_level" /\ level <= Len(WeberLevels)
  /\ Skipped(WeberLevels[level])
  /\ level' = level + 1
  /\ UNCHANGED <<curve, config, stage, pc, cap, committed, sea, smooth, exact_trace,
                 search, walk, status>>

\* Errors leave the driver before the level is recorded.
SeaLevel ==
  /\ pc = "sea_level" /\ level <= Len(WeberLevels)
  /\ ~Skipped(WeberLevels[level])
  /\ level' = level + 1
  /\ \E ell \in {WeberLevels[level]} : \E next \in {WithLevel(sea, ell)} :
       CASE \/ CandidateCount(Prime, next.effective) = 0
            \/ /\ curve.shows[ell] = "exact"
               /\ \/ Impossible(sea.exact, ell, curve.trace % ell)
                  \/ Impossible(sea.effective, ell, curve.trace % ell) ->
              Throw("hasse_interval_eliminated") /\ UNCHANGED sea
         [] OTHER ->
              /\ IF FitsCap(next, cap)
                   THEN sea' = Completed(next) /\ pc' = "sea_done"
                   ELSE sea' = next /\ UNCHANGED pc
              /\ UNCHANGED status
  /\ UNCHANGED <<curve, config, stage, cap, committed, smooth, exact_trace, search, walk>>

SeaExhausted ==
  /\ pc = "sea_level" /\ level > Len(WeberLevels)
  /\ sea' = IF FitsCap(sea, cap) THEN Completed(sea) ELSE sea
  /\ pc' = "sea_done"
  /\ UNCHANGED <<curve, config, stage, cap, level, committed, smooth, exact_trace, search, walk, status>>

-----------------------------------------------------------------------------
(* extend_weber_sea_with_schoof_fallback.                                  *)

StartSchoof ==
  /\ pc = "start_schoof"
  /\ level' = 1
  /\ committed' = FALSE
  /\ IF FitsCap(sea, cap)
       THEN sea' = Completed(sea) /\ pc' = "schoof_done"
       ELSE pc' = "schoof_level" /\ UNCHANGED sea
  /\ UNCHANGED <<curve, config, stage, cap, smooth, exact_trace, search, walk, status>>

\* rebuilt_effective_constraints: exact state plus the Atkin evidence it does
\* not own yet.
RebuiltEffective(exact, atkin) ==
  FoldSet(LAMBDA ell, tc : Refine(tc, ell, atkin[ell]),
          exact, {ell \in DOMAIN atkin : exact.modulus % ell # 0})

\* The check that the exact residue is one the Atkin evidence allowed.
Contradicts(exact, atkin) ==
  \E ell \in DOMAIN atkin :
    exact.modulus % ell = 0 /\ \E r \in exact.residues : r % ell \notin atkin[ell]

CommitSchoof_StaleEffective(result, ell) ==
  [result EXCEPT !.exact = ExactRefinement(Prime, @, ell, curve.trace % ell),
                 !.traces = NoTraces]

\* One exact level: both constraint sets replaced, the enumeration reset.
CommitSchoof(result, ell) ==
  LET exact == ExactRefinement(Prime, result.exact, ell, curve.trace % ell)
  IN [result EXCEPT !.exact = exact,
                    !.effective = RebuiltEffective(exact, result.atkin),
                    !.traces = NoTraces]

\* A modulus the exact state already owns is not counted again.
SkipOwned ==
  /\ pc = "schoof_level" /\ level <= Len(SchoofLevels)
  /\ sea.exact.modulus % SchoofLevels[level] = 0
  /\ level' = level + 1
  /\ UNCHANGED <<curve, config, stage, pc, cap, committed, sea, smooth, exact_trace,
                 search, walk, status>>

SchoofLevel ==
  /\ pc = "schoof_level" /\ level <= Len(SchoofLevels)
  /\ sea.exact.modulus % SchoofLevels[level] # 0
  /\ level' = level + 1
  /\ \E ell \in {SchoofLevels[level]} : \E next \in {CommitSchoof(sea, ell)} :
       CASE \/ Impossible(sea.exact, ell, curve.trace % ell)
            \/ CandidateCount(Prime, next.effective) = 0 ->
              Throw("hasse_interval_eliminated") /\ UNCHANGED <<sea, committed>>
         [] Contradicts(next.exact, next.atkin) ->
              Throw("atkin_contradicted") /\ UNCHANGED <<sea, committed>>
         [] OTHER ->
              /\ committed' = TRUE
              /\ IF FitsCap(next, cap)
                   THEN sea' = Completed(next) /\ pc' = "schoof_done"
                   ELSE sea' = next /\ UNCHANGED pc
              /\ UNCHANGED status
  /\ UNCHANGED <<curve, config, stage, cap, smooth, exact_trace, search, walk>>

LeftTraces_Kept == sea.traces

\* An enumeration under an earlier cap must not survive.
LeftTraces == IF committed THEN sea.traces ELSE NoTraces

SchoofExhausted ==
  /\ pc = "schoof_level" /\ level > Len(SchoofLevels)
  /\ sea' = LET left == [sea EXCEPT !.traces = LeftTraces]
            IN IF left.traces = NoTraces /\ FitsCap(left, cap) THEN Completed(left) ELSE left
  /\ pc' = "schoof_done"
  /\ UNCHANGED <<curve, config, stage, cap, level, committed, smooth, exact_trace, search, walk, status>>

-----------------------------------------------------------------------------
(* The early set: report, continue exactly, or screen.                     *)

EarlyPass ==
  /\ stage = "early" /\ pc \in {"sea_done", "schoof_done"}
  /\ CASE ~curve.lift /\ sea.levels = 0 -> Report("no_rational_weber_lift")
       [] curve.lift /\ sea.traces # NoTraces /\ sea.traces # {} ->
            pc' = "screen" /\ UNCHANGED status
       [] sea.traces = {} -> Throw("empty_complete_set")
       [] curve.lift /\ sea.traces = NoTraces /\ pc = "sea_done" /\
          config.enable_schoof_fallback ->
            pc' = "start_schoof" /\ UNCHANGED status
       [] OTHER -> Report("sea_level_limit")
  /\ UNCHANGED <<curve, config, stage, cap, level, committed, sea, smooth, exact_trace,
                 search, walk>>

\* The order of trace t and of its twist, which is the order of trace -t.
OrderClasses(traces) == traces \cup {-t : t \in traces}

Passes_First(traces, large) == large \cap OrderClasses({CHOOSE t \in traces : TRUE}) # {}

\* has_large_enough_smooth_part over every candidate and its twist.
Passes(traces, large) == large \cap OrderClasses(traces) # {}

\* Smooth parts are fixed by the orders; the true ones are among them.
Screen ==
  /\ pc = "screen"
  /\ smooth' \in SUBSET OrderClasses(sea.traces \cup {curve.trace})
  /\ LET unique == Cardinality(sea.traces) = 1
         only   == CHOOSE t \in sea.traces : TRUE
     IN CASE ~Passes(sea.traces, smooth') ->
               /\ Report("sound_smoothness_reject")
               /\ exact_trace' = IF unique THEN only ELSE NoTrace
               /\ UNCHANGED <<stage, cap>>
          [] Passes(sea.traces, smooth') /\ unique ->
               /\ pc' = "order" /\ exact_trace' = only
               /\ UNCHANGED <<stage, cap, status>>
          [] OTHER ->
               /\ stage' = "unique" /\ cap' = 1
               /\ pc' = IF config.enable_schoof_fallback THEN "start_schoof" ELSE "start_sea"
               /\ UNCHANGED <<exact_trace, status>>
  /\ UNCHANGED <<curve, config, level, committed, sea, search, walk>>

\* The stricter gate after the second pass.  The parts of the trace are those
\* of the screen, or are extracted now.
UniqueGate ==
  /\ stage = "unique" /\ pc \in {"sea_done", "schoof_done"}
  /\ CASE sea.traces = NoTraces -> Report("sea_level_limit") /\ UNCHANGED exact_trace
       [] sea.traces # NoTraces /\ Cardinality(sea.traces) # 1 ->
            Throw("not_a_singleton") /\ UNCHANGED exact_trace
       [] OTHER -> /\ pc' = "order"
                   /\ exact_trace' \in sea.traces
                   /\ UNCHANGED status
  /\ UNCHANGED <<curve, config, stage, cap, level, committed, sea, smooth, search, walk>>

-----------------------------------------------------------------------------
(* Candidates of the curve order and then of the twist order.              *)

OrderInHand == IF search.twist THEN -exact_trace ELSE exact_trace

RemainingLimits(report) == [candidates |-> MaxCandidates - report.attempts,
                            nodes |-> MaxSearchNodes - report.nodes]

\* An order without a large smooth part fails its enumeration, and that is
\* thrown as a logic error.
StartOrder ==
  /\ pc = "order"
  /\ LET limits == RemainingLimits(search) IN
     CASE limits.candidates = 0 \/ limits.nodes = 0 ->
            Throw("candidate_limit") /\ UNCHANGED walk
       [] limits.candidates # 0 /\ limits.nodes # 0 /\ OrderInHand \notin smooth ->
            Throw("smooth_part_failed_enumeration") /\ UNCHANGED walk
       [] OTHER ->
            /\ pc' = "walk"
            /\ walk' = [NoWalk EXCEPT !.phase = "preferred",
                                      !.max_candidates = limits.candidates,
                                      !.max_nodes = limits.nodes]
            /\ UNCHANGED status
  /\ UNCHANGED <<curve, config, stage, cap, level, committed, sea, smooth, exact_trace, search>>

\* Assembly on one Montgomery side: no valid certificate, one the canonical
\* verifier refuses, or one it accepts.
Outcomes == {"invalid", "rejected", "accepted"}

Assembled(first, second) == IF first = "accepted" THEN 1 ELSE 2

\* The visitor: both sides unless the first is accepted.
Visit(first, second, visiting) ==
  /\ search' = [search EXCEPT
       !.attempts = @ + 1,
       !.assemblies = @ + Assembled(first, second),
       !.nodes = IF "accepted" \in {first, second} THEN @ + visiting.nodes ELSE @,
       !.rejections = @ + Cardinality({i \in 1 .. 2 : <<first, second>>[i] = "rejected"})]
  /\ walk' = [visiting EXCEPT !.visited = @ + 1]
  /\ IF "accepted" \in {first, second} THEN Report("verified_certificate")
                                      ELSE UNCHANGED <<pc, status>>

\* visit of enumerate_certificate_candidates: the limit, then the visitor.
Candidate(visiting) ==
  IF walk.visited = walk.max_candidates
  THEN Throw("candidate_limit") /\ UNCHANGED <<search, walk>>
  ELSE \E first \in Outcomes, second \in Outcomes :
         /\ first = "accepted" => second = "invalid"
         /\ Visit(first, second, visiting)

\* The two compatibility choices come before the exhaustive descent.
Preferred ==
  /\ pc = "walk" /\ walk.phase = "preferred" /\ walk.preferred < 2
  /\ Candidate([walk EXCEPT !.preferred = @ + 1])
  /\ UNCHANGED <<curve, config, stage, cap, level, committed, sea, smooth, exact_trace>>

\* A node of the descent: pruned, an inner node, or a leaf with a candidate.
Node ==
  /\ pc = "walk"
  /\ LET descended == [walk EXCEPT !.phase = "descent", !.nodes = @ + 1] IN
     IF walk.nodes = walk.max_nodes
     THEN Throw("search_node_limit") /\ UNCHANGED <<search, walk>>
     ELSE \/ walk' = descended /\ UNCHANGED <<search, pc, status>>
          \/ Candidate(descended)
  /\ UNCHANGED <<curve, config, stage, cap, level, committed, sea, smooth, exact_trace>>

FinalStatus ==
  IF search.attempts = 0 THEN "no_certificate_candidate"
  ELSE IF search.rejections # 0 THEN "canonical_verifier_rejected"
  ELSE "certificate_assembly_failed"

AllOrders_CurveOnly(explored) == FALSE \in explored
AllOrders(explored) == explored = BOOLEAN

\* The descent is over for this order: the twist order, or the report.
OrderExhausted ==
  /\ pc = "walk" /\ walk.phase = "descent"
  /\ LET explored == search.explored \cup {search.twist} IN
     /\ search' = [search EXCEPT !.explored = explored, !.twist = TRUE,
                                 !.nodes = @ + walk.nodes]
     /\ IF AllOrders(explored) THEN Report(FinalStatus)
                               ELSE pc' = "order" /\ UNCHANGED status
  /\ walk' = NoWalk
  /\ UNCHANGED <<curve, config, stage, cap, level, committed, sea, smooth, exact_trace>>

Next ==
  \/ StartSea \/ SkipLevel \/ SeaLevel \/ SeaExhausted
  \/ StartSchoof \/ SkipOwned \/ SchoofLevel \/ SchoofExhausted
  \/ EarlyPass \/ Screen \/ UniqueGate
  \/ StartOrder \/ Preferred \/ Node \/ OrderExhausted

Spec == Init /\ [][Next]_vars

-----------------------------------------------------------------------------
(* Properties.                                                             *)

InternalErrors == {"hasse_interval_eliminated", "atkin_contradicted", "empty_complete_set",
                   "not_a_singleton"}

\* The traces of the Hasse interval, by definition, that satisfy a constraint.
Left(tc) == {t \in -Prime .. Prime : t * t <= 4 * Prime /\ t % tc.modulus \in tc.residues}

\* TruthSurvives: through both passes, any mix of exact, Atkin and silent
\* levels, and the rebuilding in the fallback, the trace of the curve stays
\* possible and the effective set never allows what the exact set excludes.
TruthSurvives ==
  /\ curve.trace \in Left(sea.effective)
  /\ Left(sea.effective) \subseteq Left(sea.exact)

\* NoInternalError: the consistency exceptions of the driver and of the gate
\* cannot be raised, in particular no enumeration of an earlier, wider cap
\* reaches the gate (extend_weber_sea_with_schoof_fallback).
NoInternalError == status \notin InternalErrors

\* SoundReject: a curve is dropped by the screen only if neither its order
\* nor its twist's has a large smooth part, although only a set of possible
\* traces was known (process_search_curve).
SoundReject ==
  status = "sound_smoothness_reject" => {curve.trace, -curve.trace} \cap smooth = {}

\* RightOrders: whatever the number of passes, certificates are searched for
\* with the curve's own orders.
RightOrders == pc \in {"order", "walk"} => exact_trace = curve.trace

\* Exhaustive: a curve is given up after its trace is known only when both
\* orders were enumerated to the end and every candidate was assembled on
\* both Montgomery sides.
Exhaustive ==
  status \in {"no_certificate_candidate", "certificate_assembly_failed",
              "canonical_verifier_rejected"}
    => /\ search.explored = BOOLEAN
       /\ search.assemblies = 2 * search.attempts

\* GateIsExact: certificates need uniqueness from exact constraints alone,
\* Atkin constraints cannot satisfy the gate (docs/search_pipeline.md).
GateIsExact == pc \in {"order", "walk"} => Cardinality(Left(sea.exact)) = 1

\* OrdersAreTriedOrReported: both order classes are tried, and a curve that
\* passed the screen ends with a report or at a configured limit.
OrdersAreTriedOrReported == status # "smooth_part_failed_enumeration"

=============================================================================
