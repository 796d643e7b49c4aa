# OneShotSEA: models, checks and proofs

OneShotSEA searches for one-shot elliptic-curve primality certificates of a
fixed prime `p`.  A worker walks a range of curve indices.  For each it counts
points with the SEA algorithm, stops as soon as no possible group order can
hold a large enough smooth part, and otherwise tries to turn one of the orders
(of the curve or of its twist) into a certificate that a canonical verifier
accepts.  Cheap curves are the rule; a certificate is a rare event, and losing
it, skipping its index or counting it twice is what the program must not do.

This directory holds TLA+ modules translated from `src/`, configurations that
model-check them with TLC, and proofs checked by TLAPS.  Paths below are
relative to the root of the repository (`src/search_pipeline.cpp` is the
pipeline's source); `PROJECT.json` gives every definition the file and the lines
it models.

- [Inventory](#inventory)
- [Modules and the code](#modules-and-the-code)
- [Runs](#runs)
- [Fairness](#fairness)
- [Disagreements found](#disagreements-found)
- [Proofs](#proofs)
- [Not modelled](#not-modelled)
- [Plan](#plan)

## Inventory

Who calls whom:

    launcher (scripts/aws, scripts/runpod)
      | partitions the range, starts one worker per shard, restarts it
      v
    search command (src/main.cpp)  -- loads the checkpoint, runs the pipeline
      v
    run_search_pipeline (src/search_pipeline.cpp), one coordinator thread
      |-- window of curve threads: process_search_curve, one curve each
      |     |-- early SEA pass, screen, continuation  (sea.cpp, trace.cpp,
      |     |        atkin.cpp, elkies.cpp, schoof.cpp)
      |     |-- smooth parts of the possible orders: shared coordinator
      |     |        (exact_smooth.cpp), one worker thread for all curves
      |     |-- candidates, points, assembly (certificate.cpp)
      |     `-- canonical verifier: child processes
      |-- records reports in index order (search_checkpoint.cpp)
      `-- certificate, metadata, checkpoint: atomic replacement of files

| component | state it keeps | operations | what is hard |
|---|---|---|---|
| search pipeline, `search_pipeline.cpp` | state, window of futures, launch limit; three files | start and recovery, launch, retire, publish, save, append progress, drain | speculation out of order, crash between any two writes, exceptions with work in flight |
| search state, `search_checkpoint.cpp` | cursor, ten counters, found certificates | record, chunk, validate, partition, save, load | counters that must agree, durability of renames, shard borders |
| exact-smooth coordinator, `exact_smooth.cpp` | queue, batch, scan flag, telemetry, promises | submit, take batch, scan, answer, fail, cancel, destroy | lost wakeups, double or forgotten promises, overflow in the middle |
| exact-smooth engine, `exact_smooth.cpp`, `smooth_bounded.cpp` | product of all primes up to a bound; cache file | build, load, save, scan groups of traces | segment, word and chunk borders, memory limits, a cache replaced under a reader |
| trace constraints, `trace.cpp` | modulus and residue set | refine, refine exactly, count, enumerate, classify | contradiction, repeated levels, Hasse interval borders |
| SEA schedule, `sea.cpp` | exact and effective constraints, levels done | level pass, completion within a cap, Schoof continuation | evidence of different strength, stale evidence, capped enumeration |
| Schoof levels, `schoof.cpp` | none | residue of the trace, count, eigenvalue on a kernel | zero divisors: points that agree at some torsion points only |
| Elkies levels, `elkies.cpp` | lifts kept from level to level | roots by parallel workers, kernels, eigenvalues | shared orbits, caches and shortcuts that must not change the answer |
| Atkin classification, `atkin.cpp` | none | projective order of Frobenius | none for the models |
| isogeny kernels, `isogeny.cpp` | none | codomain, BMSS reconstruction | exceptional pairs, precision |
| early abort, `early_abort.cpp` | none | screen over possible orders | soundness of a rejection |
| certificate, `certificate.cpp` | none | bounds, candidate search, x-only ladder, projection, j to A, assembly, validation | limits against completeness, non-prime moduli, degenerate points |
| canonical verifier, `search_pipeline.cpp` 640-1007 | a mutex over calls; a pipe and a child per call | lock, spawn, poll, kill, reap, read | deadline against exit, a flooded pipe, a refused wait or kill |
| modular polynomials, Weber tables | files with pinned hashes | load, verify, evaluate | change during a run |
| polynomials, `poly.cpp`; factorisation, `factor.cpp` | a context per quotient ring | products, reduction, powers, inverses, gcd, roots, factors | fast paths that must agree with the definition, random splitting |
| field and curve arithmetic | none | pure functions | singular and exceptional cases |
| launchers, `scripts/` | worker directories, manifests | partition, start, resume, collect | two implementations of one arithmetic, restart rules, no lock |
| command line, `main.cpp` | none | options, commands | the digest of a cache that may appear meanwhile |

What makes each correct, in a sentence:

- **pipeline**: whatever threads, crashes and power losses do, what survives is
  a state of the sequential search over a prefix of the range, and a published
  certificate is the lowest one.
- **search state**: counters are the tallies of the retired prefix, and the
  shards of a range are disjoint and cover it.
- **coordinator**: every request gets exactly one answer, its own, in order of
  arrival, and no caller waits for ever.
- **trace constraints**: the residues kept are exactly those all the levels
  allow; the count is that of the enumeration; the true trace is never lost.
- **schedule and curve**: a rejected curve has no certificate within the
  search's rules; what is assembled belongs to the curve's true order.
- **candidates and certificates**: all admissible orders and no others; a limit
  is reported, never swallowed; the validator accepts exactly certificates.
- **levels**: what a Schoof or an Elkies level says of the trace is true, and
  no shortcut changes what it says.
- **algebra**: every fast path computes what the definition says; a polynomial
  taken apart is neither lost nor split wrongly; smooth parts are the largest.
- **trusted files**: what a report rests on is what its checkpoint names, unless
  the file was put back unseen.
- **launcher**: what runs is what was asked for, on files of the same assignment.
- **verifier calls**: every call returns and leaves no child, zombie or stray
  kill behind, unless the system refuses the wait or the kill; a child left behind
  then delays no other call.

The hazards behind these, each at its line, are under `hazards` in
`PROJECT.json`.

## Modules and the code

### The durable search

`SearchState` holds the pure part: the ten counters, `ValidState` and
`ValidOutcome` (the two validators), `Recorded` (`record_completed`), the
outcome of each curve status, and `Tally`, what the counters must be over a
prefix.

`SequentialSearch` is the abstract specification: one process walks the range
in order, publishes a certificate before the cursor passes it, and saves a state
after any number of retired curves.  Its `saved` is what is guaranteed to
survive.

`SearchPipeline` is `run_search_pipeline`, with the search command that calls it
over and over.

| model | code |
|---|---|
| `fate[i]` | the status curve `i` would report; fixed, because a curve is a deterministic function of its index |
| `pending`, `next_to_launch`, `launch_end` | the deque of futures and the two cursors of the window |
| `state`, `report`, `pc` | the `SearchState` in memory, the report in hand, the place in the loop |
| `visible` | the checkpoint, certificate and metadata files as processes see them |
| `disk` | the set of images that a power loss may leave |
| `log` | the progress lines |
| `Start` = `Refuse`, `ResumeVerified`, `RecoverCertificate`, `NothingLeft`, `BeginSearch` | entry of the pipeline: load, compare, recover |
| `LaunchCurve`, `FinishCurve`, `CurveThrows` | filling of the window; threads, in any order |
| `TakeReport`, `Record`, `AppendProgress` | retirement, in index order |
| `Rename`, `Sync` | `save_text_atomic`: rename, then fsync of the directory |
| `Join`, `Kill`, `PowerLoss`, `CoordinatorThrows` | ends of a run |

A file is replaced by a rename that every process sees at once and that a power
loss may undo until the directory is synced.  `disk` holds every image that may
be left: with `OrderedRenames` the prefixes of the renames since the last sync
(a journaling file system), without it every combination (POSIX).  The writing of the
temporary file and its own fsync come before the rename and cannot be seen
elsewhere, so they are part of `Rename`.

### One curve

`TraceConstraints` translates the CRT merge of `trace.cpp`, the count and the
enumeration within Hasse's interval and `ExactRefinement`'s verdict.
`TraceRefinement` applies any sequence of refinements to one object and compares
it with the set of imposed residues.  `FrobeniusOrder` has the residue tests of a
classification, the order of Frobenius in PGL2 and `AtkinTraceResidues`;
`AtkinResidues` runs them for all characteristics and orders.

`CurveSearch` is `process_search_curve` over these: the early SEA pass with its
prior and cap, the screen, the uniqueness gate, the Schoof continuation and the
assembly of candidates of either order, to the report or the exception.  The
curve (its true trace, its prior, which levels give exact, Atkin or no evidence)
is chosen in `Init`; the evidence of a level is computed from the true trace, so
a model in which the truth is lost would have lost it through the code's own
steps.  The smooth screen is the set of large orders, chosen in `Screen`.

### What a level computes

The evidence that `CurveSearch` takes for granted is computed by these modules,
for curves over small fields.

| module | code |
|---|---|
| `PolyArithmetic` | values, schoolbook, Karatsuba and Kronecker products and the choice among them (`poly.cpp`); field inverse, power, Legendre symbol (`field.cpp`) |
| `PolyQuotient` | `PolyModContext`: division, reduction by a reciprocal of the modulus, windowed powers, gcd and inverse |
| `PolySession` | one element under any sequence of a context's operations, beside the same element by definition |
| `PolyComponents`, `PolyFactors` | roots and factors: the deterministic part, then one splitting attempt per step |
| `TorsionPoints` | division polynomials and Jacobian points over the quotient by one of them (`schoof.cpp`, `curve.cpp`) |
| `Schoof` | residue of the trace, count from residues, eigenvalue of Frobenius by the walk and by baby and giant steps |
| `Isogenies` | modular polynomials at a point (`modpoly.cpp`, `weber.cpp`), normalised codomain and BMSS kernel (`isogeny.cpp`), Velu |
| `ElkiesLevel` | `process_weber_neighbors` (`elkies.cpp`) |

A polynomial is the sequence of its coefficients, a limb a digit of `LimbBits`
bits.  The thresholds at which the code turns from one algorithm to the next are
constants: the instances set them low, so that every algorithm is reached by
polynomials that TLC can multiply.  Random splitting elements, which the code
draws from a hash, are any residue.

A level in `ElkiesLevel` starts its root workers, each of which claims the next
orbit of source lifts under the mutex and finds or maps the roots above it, in
any order; when they are joined the pairs of lifts are processed one by one, with
the codomain cache, the conjugate eigenvalue and the lifts compatible with a
kernel, which are the sources of the next level.  Levels of one curve are run
in the order given.  The check of a kernel against its own division polynomial
and Velu's equation is made by the code up to degree 31 only; all modelled degrees
are below.

`SmoothEngine` builds the product of primes segment by segment through the
forest of partial products, forms the product tree of a batch, reduces the
product in chunks of words as the auxiliary memory allows, and hands out the
smooth parts, group by group.

### Certificates

`CertificateBounds` is the arithmetic of the bounds and `PreferredOrder`, the
greedy choice.  `CandidateEnumeration` is `enumerate_certificate_candidates`, one
node of the depth-first search per step, with its frame stack, its pruning, its
two limits and the two preferred orders.  `MontgomeryOrder` is the x-only
arithmetic, exact-order test, projection and native validator.
`MontgomeryCurves` is not code: it is the group law in affine coordinates, the
reference that the properties compare with.  `CertificateValidation` runs the validator
over every claim, prime modulus or not; `CertificateAssembly` goes from a curve's
j-invariant to coefficients, points and a certificate.

### Threads and processes around a curve

`SmoothCoordinator` is `ExactSmoothBatchCoordinator`.  What the code does under
its mutex is one step; notifying the condition variable and setting each promise
are steps of their own, since the code does them after unlocking.  `answer`
records which orders' smooth parts a caller was handed, so that an offset carried
wrongly shows.  Two owners, a canceller and the destructor, may act at any moment.

`VerifierCalls` is the verification of certificates by the curve threads.  Calls are
serialised by `verifier_mutex` (`Enter`, `Leave`): one call is under way, and in it
the authentication probe and then the verifier, each with a pipe, a spawn, the poll
for exit, the kill at the deadline, the reaping and the blocking read.  Children may
answer, answer too much, fill the pipe, stay silent or hang.  The system may refuse
the pipe or the spawn (`Refuse`, `SpawnFails`), `waitpid` (`WaitFails`,
`CollectFails`), `kill` (`KillFails`) or `read` (`ReadFails`), each of which is an
exception that unlocks the mutex; `wait_for_child` does not reap when its `waitpid`
or its `kill` fails, and such a child is "abandoned": it runs on, or stays a zombie,
while the next thread calls.  A curve whose certificate was rejected offers its next
one (`NextCandidate`).

### The fleet and its files

`SearchFleet` is `partition_search_range` in `Modulus`-bit wrapping arithmetic,
the launcher's own partition in unbounded integers, and the workers that walk the
shards.

`WorkerLaunch` is `remote_worker.py` on one host: each look at the world (digests
of the deployment, `tmux has-session`, the files of the run directory) and each
write (provenance, manifest, command file) is a step, two launchers may run at
once, either may die, the host may reboot, a deployment may come at any moment, and
the search writes progress, checkpoint and certificate meanwhile.  A launcher
resolves `current/` once (`Authenticate`) and keeps that build to the end.  It takes
no lock on the run directory.  `Call` and `Deploy` are free, as in the code; what an
operator must see to is a formula of its own, `OneAssignment`: launchers that have
authenticated and are at work at the same time are of one build and one set of
arguments.  `WorkerResumes` is checked and proved under it, and no code enforces it:
without it the manifest of one launch can be left beside the command of another.
A launch that dies between manifest and command, or a search that dies before its
first checkpoint, leaves a directory that can neither be resumed nor started again:
it fails safe, and a person has to clear it.

`TrustedFiles` is what the workers of a host read by digest: the product cache
(hashed, loaded, hashed again; or built and renamed over the path) and the Weber
tables (hashed at entry, before each launch and before each retirement, opened by
the curve threads without a hash of their own).  Anything may replace either file
at any moment, and put it back; what `TrustedContent` says is where that can go
unseen.  A worker that builds a missing cache puts it back too.  The digest
recorded for a built cache is the hash of whatever lies at the path after the
build (`src/main.cpp:478`); the model lets that be a foreign file.

## Runs

Eight runs pass and four show a [disagreement](#disagreements-found).  Each
finishes within two minutes with two workers; the numbers of distinct states show
that the instances are not degenerate.

| run | module | distinct states | shows |
|---|---|---|---|
| `pipeline_safety` | `SearchPipeline` | 207,816 | the durable state is always that of the sequential search |
| `pipeline_posix` | `SearchPipeline` | 16,056 | directory syncs alone keep the order of publication; the search settles |
| `smooth_coordinator` | `SmoothCoordinator` | 110,038 | one answer each, one's own, in order; nobody waits for ever |
| `trace_constraints` | `MCTraces` | 78,909 | the kept residues are exactly the imposed ones; Atkin, Schoof and Elkies levels say the truth |
| `curve_search` | `MCCurveSearch` | 198,626 | truth survives, rejections are sound, giving up is exhaustive |
| `certificates` | `MCCertificates` | 135,422 | candidates, witnesses and verdicts are the right ones; fast arithmetic, factors and smooth parts are exact |
| `fleet_partition` | `MCFleet` | 2,250,335 | shards partition the range; launches and trusted files do not mix assignments |
| `verifier_calls` | `VerifierCalls` | 493,984 | calls return; only a refused wait or kill leaves a child |
| `capped_run_resumes` | `SearchPipeline` | violation | a budget below the checkpoint interval makes no progress |
| `recovery_not_resynced` | `SearchPipeline` | violation | recovery relies on a rename that is not yet durable |
| `curve_exact_gate` | `MCCurveSearch` | violation | the gate for exact traces is passed with Atkin evidence |
| `curve_both_orders` | `MCCurveSearch` | violation | the smaller of the two orders ends the search |

### The durable search

Indices start at 3, so that an index, a count and an offset cannot be mixed up
unnoticed.  Three or four indices with two or three threads let a later winner
finish before an earlier one, an incomplete curve stop a window that is full, and
a checkpoint interval of two end between two curves.  Fates are chosen by `Init`
for every index, so each run covers every assignment of the statuses it lists;
the statuses differ for the pipeline only in the counters they feed and in
whether they stop it, and between them the runs use one of each kind.

- `pipeline_safety` has three threads, an interval of two, a budget of three
  curves a run, two exceptions or kills and one power loss, on a file system that
  keeps renames in order.  `CheckpointsTruthful`: every checkpoint that may
  survive is the tally of its prefix.  `LowestWinnerPublished`: the certificate is
  the lowest winner's.  `ArtifactsPrecedeCursor`: a checkpoint that counts a
  certificate never survives without it.  `RecoveryUnambiguous`: no start refuses
  what a crash left.  `OneLineLostPerFault`: the progress file lacks at most one
  line per fault.  `ImplementsSequential`: the refinement of `SequentialSearch`,
  which includes that the guaranteed cursor never moves back.  A second fault can
  hit the recovery from the first; the power loss can hit either.
- `pipeline_posix` drops the order of renames and allows two power losses and one
  exception or kill.  Files may then be lost for good and a run may refuse to
  start; checkpoints stay truthful all the same (`CheckpointTruth`, proved for
  either order of renames), and as long as no process died
  between a rename and its sync, the syncs alone keep the order of publication
  (`SyncsOrderPublication`).  Incomplete curves are skipped (`SkipIncomplete`), which
  the counters record as heuristic rejections.  One fate throws
  (`candidate_limit`), so futures in flight have to be joined.  Under fairness the
  search settles.

### One curve and its traces

- `trace_constraints`: every sequence of refinements by the moduli 2 to 5, with
  every set of allowed residues.  Modulus 4 repeats a factor of 2, which the code
  must refuse; residues may repeat and exceed the modulus.  For each odd prime up
  to 13, every characteristic modulo it and every possible order, the collected
  Atkin residues are compared with the definition, powers of Frobenius taken one
  at a time.  11 has `ell + 1 = 12`, which needs one prime trimmed twice and
  another once.  `MCTraces` runs one use in a behaviour: they share no state.
  - Schoof: every curve over `F_7` and some over `F_11`, counted with the levels 3
    and 5, supersingular ones among them; the trace is compared with
    a count of points.  Kernels: *every* divisor of the 3- or 5-division polynomial
    of the right degree is offered over `F_7`, `F_11`, `F_19`, and over `F_31` for
    a curve whose 5-torsion is rational, so that sixty mixtures of two subgroups must be
    refused and six subgroups accepted.  `WalkLimit` is 3, not 401, so that degree 5 takes
    baby and giant steps (`TorsionTellsTheTrace`).
  - Elkies: levels 5, 7 and both in either order, with and without orbit and
    conjugate reuse, two root workers; over `F_47` to `F_179` (large
    enough for the precision BMSS asks for), for curves with compatible, incompatible and
    exceptional neighbours, and one with scalar Frobenius (six kernels).  The true
    trace is the count of points, the kernels those of the factored division
    polynomial (`LevelIsTheTruth`).
- `curve_search`: `F_101`, seventeen traces of both signs, among them the ends of
  Hasse's interval and zero; every prior, two Weber and two Schoof levels (7 is
  in both, so that a repeated level occurs), every mix of evidence, early caps 1
  and 3, at most two candidates and three nodes, so that each limit is hit and
  missed.  Large orders may be any subset of the possible ones.

### Certificates

`certificates` calls one entry point of a library in a behaviour:

- the enumeration, for every order over `F_101`, and over `F_1009` and `F_10007`
  for orders with many divisors, whose bounds lie far apart; of the four pairs of
  limits three bite (`AdmissibleOnce`, `PrimesMatch`);
- the assembly, for every curve and twist over `F_11`, `F_13`, `F_17` (both
  classes modulo 4) with every admissible order of its group, two tries per
  coefficient at any abscissa: the random source is a free choice
  (`WitnessExactly`, `CoefficientsComplete`);
- the validator, for every coefficient, abscissa and order over the prime moduli
  7, 13, 17 and the composite ones 9, 15, 21, 25, two squares among them:
  composites are where a vanishing `Z` is not a point at infinity
  (`AcceptedExactly`);
- a session: two quotient rings over `F_3` (monic and not) and one over `F_7`,
  every element reached by any sequence of operations, operands not reduced among
  them.  Karatsuba from two coefficients, Kronecker from five, limbs of two bits
  and a reciprocal from degree three make every path and every carry happen
  (`FastPathsExact`);
- polynomials taken apart: every monic cubic over `F_5`, quartics and inseparable
  sextics over `F_3`, any splitting elements, two attempts
  (`NothingLost`);
- smooth parts: bound 23 over `F_23`, segments of 3 to 40, batches of one to three
  orders (a curve cut from its twist), memory for one chunk, some or all, groups
  with no traces, and a trace whose order is too small (`SmoothPartsExact`).

### Threads and processes

- `smooth_coordinator`: two callers, three requests of one or three traces,
  batches of at most five orders: two small requests share a batch, a small and a
  large one do not, and a large one alone exceeds it (six orders in two chunks).
  A telemetry counter holds at most 14, so that it overflows under way.  One scan
  may fail; a canceller and the destructor may come at any moment.  More callers
  are the proofs' business.
- `fleet_partition`: one concern in a behaviour.  Partition: 3-bit integers, so
  that every range, number of workers and interleaving is covered, numbers of
  workers greater than the range included.  Launch: two launchers, two deployments
  and a damaged one, two sets of arguments; deaths, reboots and new deployments
  without bound and at any moment, launches of different assignments one after the
  other (`OneAssignment`; the same run without it violates `WorkerResumes`).  Trust: two workers that share a cache, one of them with two curves
  in flight, two replacements of each of the two files and a restart: a file replaced
  and put back in one curve's flight needs exactly two.
- `verifier_calls`: two threads with two certificates each, every call with the
  probe and the verifier.  Two threads are enough for one to wait for the mutex, or
  to spawn, while the other has left a child behind; two certificates let a
  thread come back for the mutex after the other had it.

## Fairness

- Pipeline: weak fairness of `Start` (an operator or the fleet script starts the
  same command again, the way `docs/search_pipeline.md` says to go on), of the
  coordinator thread and of each curve thread.  None for kills, exceptions and
  power losses.  A curve computation is bounded by its levels and limits.
- Coordinator: weak fairness of the worker thread, of the two steps of a caller
  that has submitted, of the destructor's join, and of settling and notifying in
  a cancel that began.  Nobody is obliged to submit, cancel or destroy, and a
  spurious wakeup is never owed: liveness rests on the notified ones.
- Verifier calls: each thread runs (`Step`) and its clock reaches the deadline.  No
  refusal of the system is owed (`Refused`), and a child is owed nothing: it may hang
  or stop writing for ever.  Weak fairness is enough for the mutex, because each curve
  makes finitely many calls, after which nobody competes for it.

Where `CHECK_DEADLOCK` is off, the system stops by itself: a curve is reported,
a fleet is done, a coordinator is gone, a function has returned.  The pipeline
does not stop (its command is started again), and its runs check deadlock.

## Disagreements found

1. `capped_run_resumes` (documentation against code).  A checkpoint is saved
   every `checkpoint_every` curves counted from the start of the run, at the end
   of the range and with a certificate, not when the budget is used up
   (`src/search_pipeline.cpp:1620`).  With a budget below the interval nothing
   is ever saved, and `docs/search_pipeline.md:171`, "A capped run can be
   resumed with the identical command", fails: the command repeats the first
   curves for ever.
2. `recovery_not_resynced` (code).  Recovery advances the checkpoint over a pair
   of certificate and metadata that it found; if the earlier process was killed
   between rename and directory sync, a power loss may keep the new checkpoint
   and lose the metadata.  This needs a file system that does not keep renames
   in order; `pipeline_safety` shows that an ordered one is not affected.
3. `curve_exact_gate` (documentation against code).  The trace of a first pass
   that ended with one candidate is taken as exact although Atkin evidence may
   have helped (`src/search_pipeline.cpp:1200`), where `docs/search_pipeline.md:22`
   says that Atkin constraints cannot satisfy the gate.  The trace is right all
   the same (`RightOrders`): it is the procedure that differs.
4. `curve_both_orders` (code).  The screen lets a curve pass if one of its two
   orders has a large smooth part; the loop over both orders then fails on the
   other with a logic error (`src/search_pipeline.cpp:1346`), which ends the
   search.  If that order comes first, the good one is never tried; a restart
   throws again.

## Proofs

TLAPS proves the following for every value of the constants that the named
assumptions allow: any range, number of threads, interval, budget and set of
fates; any set of callers, sizes and limits; any set of moduli, levels and traces;
any integer width; any field, order and limits of an enumeration; any launchers,
workers and threads.  One theorem has a hypothesis on behaviours (`ResumesOwnRun`,
`OneAssignment`); nothing else is assumed.

Two modules carry the rest.  **`DataLemmas`**: division with remainder, least
elements, and what the folds of the community modules give on a finite set: the
value `CHOOSE` picks exists, does not depend on the order of the elements, and over
`1 .. n` it is the prefix sum (`SumExists`, `SumAdds`, `IntervalSum`); congruences,
and products and powers in a commutative monoid (`ProductExists`, `PowersAdd`); and
of a prime, that what it does not divide has an inverse modulo it (`Bezout`, from the
least positive combination) and that it divides a factor of what it divides.  The
library's induction theorems cannot be instantiated here, so each induction goes
through the least counterexample.  **`TraceConstraintsProofs`**
(`NoTracesAssumption`): uniqueness of division, reduction through a multiple,
cancellation of an invertible factor, and from these that `Combined` is the only class that reduces to both
(`CombinedIsOnly`, `MergeIsExact`); how many members of a residue class the Hasse
interval has; that `CandidateCount` is zero exactly if no candidate is left and one
only if there is one; that an enumeration within its cap is complete; and the number
theory of `FrobeniusOrder`, below.

### The durable search

**`SearchPipelineProofs`** (`RangeAssumption`, `ConfigAssumption`,
`NoFileAssumption`) has four layers, each an invariant on top of the ones before.

- `Typing`.  `TypeOK` is not inductive: a save step writes what the report in hand
  gives, so `ReportInv` says what the coordinator knows of it at each place (that it
  is the next index, that it won, that the certificate just written is its own).
- `CheckpointTruth` and `LowestWinner`, by `TruthInv`: besides the files, the state
  in memory is truthful while a run is under way, and no winner has been passed
  while it searches.  Recording the next retirable index extends the tally by
  exactly the counters its status feeds (`TallyStep`, `RecordTruthful`); a truthful
  state that counts no certificate has passed no winner (`NothingFound`), which is
  why the run after a crash may search on; and a rename adds to the images that may
  survive only ones whose parts survived already or are the new contents
  (`ReplaceSurvivors`), under either ordering of renames.
- `OrderlyRetirement`, by `RunInv`: the window is the interval of indices from the
  cursor to the next launch, every state that can be saved or loaded is valid, and
  the checkpoint never overtakes the cursor.  So two of the pipeline's consistency
  exceptions are unreachable, on every file system and whatever fails.
- `PublicationOrder`, `SyncsSuffice` and `Recovery`, by `FilesInv`.  An image of the
  files is *coherent* if its certificate is the lowest winner, stands at the cursor
  or just below it, came before its metadata, and both came before a cursor that
  counts it.  Every image is coherent while renames are ordered or no process has
  died of its own (`Orderly`); what is visible is coherent also on other file systems
  while power stays up (`Kept`).  `InHand` says at each place of the coordinator
  which files its own report has already reached.  The two hypotheses are needed:
  `recovery_not_resynced` shows what happens without them.
  `ProgressLines`, by `LogInv`, needs the same: a recovery starts with a fault to
  spare, because the run that published the certificate died before the line.

`Refinement` is the implementation of `SequentialSearch` under `OrderedRenames`,
step by step.  What the pipeline has promised is what every surviving image has:
the state at the least cursor (`Least`, `ImageAt`) and the certificate once no image
lacks it.  A rename only adds images with a cursor at or above the least one, so it
is a stutter; a sync or a power loss drops images, and what is then promised is the
same, or a later state reached by recording the indices in between, or the certificate of
the lowest winner.  `DiskOrder` excludes the remaining case, a certificate whose
anchoring checkpoint could still be lost.

### The coordinator

**`SmoothCoordinatorProofs`** (`SizeAssumption`, `BoundAssumption`).  `Accounting`:
every submitted request is counted in exactly one place; with `CountersInv` (all
counters are naturals and `submitted` fits) this gives `CancelFits`, so the
destructor's fallback for an overflowing `cancel()` is dead code.

`NoDoubleSettlement` and `Fifo` need `LineInv`: the shapes of the three lists
(each ascending, nothing queued after a cancellation, no batch in a worker that
sleeps), that their requests are exactly the open ones, and that what is in the
worker's hand is older than all that is still owed, while what has been told is
older than all that is open.

`OwnAnswers`: whoever is answered gets the parts of its own orders, whatever the
batch cap and the sizes.  The three parts of a scan are described by prefix sums.
`FlattenSeq` puts each list of orders where the prefix sum of the lengths says
(`FlattenFacts`); the chunks are all full but the last, their starts are the prefix
sums of their sizes and every order lies in one (`ChunkFacts`), so that extracting
chunk by chunk is extracting at once (`ExtractsAll`); and `OrderCount`, a fold over a
set, is the prefix sum at the group's border (`OrderCountAdds`).  Hence
`GroupsAreOwn`.  `AnswerInv` carries it to the promise: the results in the worker's
hand belong to the batch in its hand, and the orders of a request never change.

`NoLostWakeup` and `JoinNotStuck` are the safety under the liveness of the run: with
`WakeInv` (where each thread is, which places own what they hold, and that a sleeping
worker with work to do, or with nothing left to wait for, is owed a `notify`), every
caller that waits has somebody who can move, and the destructor joins only a worker
that cannot go back to sleep.  What fairness adds is that who can move does.

### Traces and curves

**`TraceRefinementProofs`** (`PrimesAssumption`, `ModuliAssumption`).  `Exact`: after
any sequence of refinements the kept classes are exactly the residues that satisfy
each imposed set; the invariant adds `Divided`, that every merged modulus divides the
product.  `RefusesOnlyTheImpossible`: a residue that `refine_exact` refuses because
the count is zero is one that no possible trace has, then and after all later
refinements.

`AtkinResiduesAreExact` (`EllsAssumption`: levels are odd primes) says that the
collection keeps the right residues, that is: the test of each is right.  The proof
is in `TraceConstraintsProofs`, in five steps, for a prime `l` and the matrix `M`
of `x^2 - t x + p`:

1. Repeated squaring computes powers (`PowModFacts`, `MatrixPowFacts`): `M` and its
   powers are the matrices of numbers `a + b M`, which multiply commutatively.
2. Euler's criterion (`Euler`): the residues `1 .. l - 1` fall into pairs that multiply
   to `v`, with or without two left over.  So the symbol of the discriminant is -1
   exactly if the polynomial is irreducible (`IrreducibleFacts`).
3. Then no number `a + b M` but zero has norm zero, `M` permutes the `l + 1` points of
   the projective line, and comparing the product of all points with its image shows
   that `M^(l+1)` is scalar (`PowerIsScalar`).  This is also why the exception "order
   bound failed" cannot be raised here (`OrderBoundHolds`).
4. The scalar powers are those whose exponent is a multiple of the least one
   (`ScalarMultiples`), so the least one divides `l + 1`.
5. Dividing a prime out as long as the smaller power is scalar keeps the least
   exponent dividing what is left, and stops only where it would not any more
   (`TrimmedFacts`); once all primes had their turn nothing else is left
   (`ReducedIsLeast`).

`ProjectiveFrobeniusOrder` takes the prime divisors of the bound in the code's order,
by a recursive function over `1 .. bound` that passes over the other numbers: a form
in which each step can be reasoned about.

**`CurveSearchProofs`** (`LevelsAssumption`, `LimitsAssumption`, `TracesAssumption`:
levels are primes, Weber's and Schoof's lists are as the tables have them, traces are
in the Hasse interval of the prime).  Three invariants.  `TraceInv`: the exact set
allows the curve's trace modulo its modulus and nothing else, the effective set
allows the trace and lies within the exact one, the Atkin evidence is true of the
trace, and an enumeration in hand contains it (`Sound`); the levels still to come
share no factor with what has been merged (`Unseen`).  That an Atkin pair keeps the
trace is arithmetic modulo a prime; that a rebuilt effective set does is an induction
over the pairs in use.  `ReportInv`: what each status says of the curve.  `CountInv`: every
candidate so far was assembled on both Montgomery sides.  They give
`TruthAlwaysSurvives`, `InternallyConsistent` (none of the consistency exceptions of
the driver, the fallback and the gate can be raised), `RejectsSoundly`,
`SearchesOwnOrders` and `GivesUpLast`.

### Candidates

**`CandidateEnumerationProofs`** (`OrdersAssumption`, `LimitsAssumption`: the field is
odd, the limits are positive, and a smooth part has no prime above `n^4`, which
`exact_smooth.cpp:121-126` and `exact_smooth.hpp:51` make sure of).
`AdmissibleOnceHolds` and `PrimesMatchHolds`: whatever the order, the smooth part and
the limits, the visitor gets admissible orders only, none twice, all of them unless
it was limited or stopped, and each with the primes that divide it.

1. `Factorization` is a prime factorisation (`FactorizationFacts`), so the divisors
   of the smooth part are the values of the vectors of exponents below its own, one
   each (`DivisorVector`, `PrefixOnly`), and the primes of a value are those with
   an exponent (`SelectedAreItsPrimes`).  The admissible orders are the values of the
   `GoodVectors`: between the bound and the bound times their first prime.
2. The greedy choices are admissible or none (`PreferredIsInWindow`): the loop of
   `build_m2` multiplies the largest primes first, so the last one it used is the
   least prime of the product.
3. `Frames` and `Selected` say what the stack and the exponents left by other branches
   are at any moment of the search.  From them `Done` reads off which vectors the
   search has put behind it: those with an earlier first prime, and those that agree
   with the stack down to some frame and are below its next exponent.  `EInv`: the
   visited orders are the greedy choices and the values of the good vectors that are
   `Done`, each once.
4. An entry and a turn of the loop change nothing in `Done` (`EnterFacts`,
   `LoopFacts`); a return adds the vectors that agree with the branch (`PopFacts`).
   `BranchFacts` says that a branch with a good vector is not pruned, neither by the
   upper bound nor by `suffix_maximum`, and its loop is not ended before the vector's
   exponent, so a return without a visit adds nothing (`SeenAfterPop`).  A leaf that
   is visited is a good vector that was not `Done` and is no greedy choice
   (`LeafIsNew`).  When the least primes are exhausted every good vector is `Done`.

`suffix_maximum`, the loops of `build_m2` and `Power` are written as recursive
functions, in which each step can be reasoned about; that there are such functions
is proved by induction (`BeginsExists`, `BackwardExists`).

### Processes and machines

**`SearchFleetProofs`** (`ModulusAssumption`, `AbsentAssumption`).  `SameShards`: the
worker's shard, in wrapping arithmetic, is the launcher's, in unbounded integers; no
intermediate result wraps.  With offsets monotone and covering (`OffsetFacts`,
`OffsetCover`) and the invariant that a worker has searched the stretch from its
shard's start to its cursor, `SearchedByOneWorker`, `RangeCovered` and
`ManifestAgrees` follow.

`ResumesOwnRun`, for any launchers, deployments and options, deployments and
reboots at any moment: `LaunchSpec /\ []OneAssignment => []WorkerResumes`.  The
hypothesis is the operator's part: launchers at work *at the same time* are of one
assignment.  What is left to prove is everything else that could mix two runs:
launchers of one assignment that overtake each other or die half-way, launches of
different ones after each other, and a new build between any two steps.  `LaunchInv`
says what stands in for a lock: the files form a chain in which each is of the one
before it, from the provenance to the checkpoint (`FilesChained`); what a launcher
has seen stays so until it starts, whatever others do (`Relies`); and a session runs
what was asked and what the command file says.

`TrustKept`, for any workers that share a cache and any replacements.  A hash says
nothing of the moment before it unless the file stayed the same, so `TrustInv` says
of every file that was read: it was what it should be, or it is still wrong, or it
was put back in between.

The calls of the verifier, with no assumption.  `CallInv`: one call is under way
exactly when the mutex is held (`OneCall`), which states the child of a thread can be
in at each place, and who may hold the write end of whose pipe (`EndsOfCall`): only
the call under way and its own child, although children inherit every end that is
open.  `NoChildLeft` follows: a call that gives a verdict or throws has reaped its
child, except where `waitpid` or `kill` itself failed, and that child holds the end
of no other call's pipe; a kill is sent only to a child that has not been reaped.
`ReadingNeverWaits` is the safety that `CallsReturn` rests on: nobody queues for a
mutex that will not be given back, and once a call reads its pipe, nobody holds the
write end, so the read that has no deadline ends.

### Only model-checked

- Liveness (`SearchSettles`, `Served`, `DestructorReturns`, `CallsReturn`): beyond
  this prover.
- The certificates themselves (`CertificateAssembly`, `CertificateValidation`),
  Schoof and Elkies levels: their algorithms are recursive and their statements are
  about groups of points, of which nothing is proved here.
- Sessions and factors of polynomials (`FastPathsExact`, `NothingLost`); the smooth
  parts (`SmoothPartsExact`): what a recursion over the data computes.

## Not modelled

- The order of levels by information and cost, and the scan of the table
  directory (`sea.cpp`): `CurveSearch` takes levels in any order.
- The inside of the early-abort screen: `CurveSearch` has its use, a rejection that
  is sound by the smooth parts at hand.
- Atkin classification from the factorisation of a modular polynomial: its results,
  a projective order or nothing, are evidence in `CurveSearch`.
- Elkies levels and codomains over classical modular polynomials: the search uses
  Weber's only.
- The composition of one curve's levels with `CurveSearch`: the evidence there is
  any that is consistent with the trace, and `LevelIsTheTruth` and
  `TorsionTellsTheTrace` say that computed evidence is.
- The sieve of a segment (vendored), the byte format of the cache, OpenMP loops
  inside one arithmetic step, assembly kernels for fixed field sizes.
- Text formats of checkpoints, metadata, tables and certificates, and their parsers;
  SHA-256, which is an identity of contents.
- Curve generators and the probes of torsion families: maps from an index to a
  curve; the search depends on their determinism only.
- The RunPod launcher, in shell, and the provisioning and collecting around the AWS
  launcher.
- Offline tools, oracles and reference implementations: not part of a search.
- A crash that corrupts a file that was synced, and clocks that go backwards.

## Plan

Done in this order: the durable search (`SearchState`, `SequentialSearch`,
`SearchPipeline`), the coordinator, traces, the curve, certificates, fleet and
verifier calls, each with its proofs where listed; polynomial arithmetic, torsion
points, Schoof, isogenies and Elkies levels; the exact-smooth engine; launches and
trusted files.

To come:

1. Proofs: what a level of `Schoof` may conclude from facts about the group of
   torsion points, stated as assumptions on the curve and checked by TLC; the chunks
   of `SmoothEngine` from `ChunkFacts`.
2. The order of levels by information and cost, the join of Atkin residues
   (`sea.cpp`), and the early-abort screen.
3. `CurveSearch` with levels computed by `ElkiesLevel` and `Schoof` for a handful of
   curves, instead of evidence chosen in `Init`.
4. The RunPod launcher (`scripts/runpod/launch-worker.sh`) beside `WorkerLaunch`.
