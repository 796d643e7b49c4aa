----------------------------- MODULE TrustedFiles -----------------------------
(***************************************************************************)
(* The files a search trusts by digest: the exact-smooth product cache,    *)
(* shared by the workers of a host, and the Weber tables.  The files may   *)
(* be replaced at any moment by another process, and put back.             *)
(*                                                                         *)
(* A worker loads the cache between two hashes of it, or builds it and     *)
(* publishes it by a rename (ExactSmoothEngine::load_or_build).  The       *)
(* tables are hashed for the identity, at the start of a run, before a     *)
(* curve is launched and before its report is recorded; the curve threads  *)
(* open them in between, with no hash of their own                         *)
(* (SparseModularPolynomial::load).                                        *)
(***************************************************************************)
EXTENDS Naturals, Sequences, SequencesExt

CONSTANTS
  Hosted,      \* the worker processes of a host
  CurveCount,  \* the number of curves in each one's range
  InFlight,    \* curve_threads
  MaxChanges,  \* bound on the replacements of each file
  MaxRestarts  \* bound on the restarts of a worker

Missing == "missing"
Sound   == "sound"    \* what building gives, and what the trusted digest is of

\* Another authentic table set: any nonempty subset of the pinned catalog is one.
Subset  == "subset"
Foreign == "foreign"

CacheContents == {Missing, Sound, Foreign}
TableContents == {Sound, Subset, Foreign}
Authentic     == {Sound, Subset}

VARIABLES
  cache, tables, \* the contents of the files
  process,       \* the memory of every worker
  saved,         \* the checkpoint of every worker and the reports it counts
  changes,       \* how often the cache and the tables were replaced
  restarts

files == <<cache, tables, process, saved, changes, restarts>>

Started ==
  [at |-> "main", digest |-> FALSE, engine |-> Missing, restored |-> FALSE,
   cacheId |-> Missing, tableId |-> Missing, launched |-> 0, window |-> <<>>]

Unsaved == [exists |-> FALSE, cacheId |-> Missing, tableId |-> Missing, reports |-> <<>>]

Untouched == [cache |-> 0, tables |-> 0]

TrustInit ==
  /\ cache \in CacheContents
  /\ tables \in TableContents
  /\ process = [w \in Hosted |-> Started]
  /\ saved = [w \in Hosted |-> Unsaved]
  /\ changes = Untouched
  /\ restarts = 0

NoTrust ==
  /\ cache = Missing /\ tables = Sound /\ changes = Untouched /\ restarts = 0
  /\ process = [w \in Hosted |-> [Started EXCEPT !.at = "failed"]]
  /\ saved = [w \in Hosted |-> Unsaved]

Becomes(w, memory) ==
  /\ process' = [process EXCEPT ![w] = memory]
  /\ UNCHANGED <<tables, changes, restarts>>

Moves(w, at) == Becomes(w, [process[w] EXCEPT !.at = at]) /\ UNCHANGED <<cache, saved>>

At(w, at) == process[w].at = at

\* An exception, or the death of the process: its memory is gone.
Fails(w) == Becomes(w, [Started EXCEPT !.at = "failed"]) /\ UNCHANGED <<cache, saved>>

\* What the workers may have missed of the cache: that it was put back.
CacheBecomes(content) ==
  [w \in Hosted |-> [process[w] EXCEPT
     !.restored = @ \/ (content = Sound /\ process[w].at \in {"load", "rehash"})]]

-----------------------------------------------------------------------------
(* The product cache.                                                      *)

\* A digest must be supplied for a cache that is there when the command starts.
Preexists(w) ==
  /\ At(w, "main")
  /\ Becomes(w, [process[w] EXCEPT !.at = "inspect", !.digest = (cache # Missing)])
  /\ UNCHANGED <<cache, saved>>

Inspect(w) ==
  /\ At(w, "inspect")
  /\ \/ cache = Missing /\ Moves(w, "build")
     \/ cache # Missing /\ process[w].digest /\ Moves(w, "hash")
     \/ cache # Missing /\ ~process[w].digest /\ Fails(w)

\* sha256_file against the trusted digest, before the load.
HashBefore(w) ==
  /\ At(w, "hash")
  /\ IF cache = Sound THEN Moves(w, "load") ELSE Fails(w)

\* load_portable_smooth_base and validate_full_base: a foreign file is refused
\* for its format, or passes for a base.
Load(w) ==
  /\ At(w, "load")
  /\ \/ /\ cache # Missing
        /\ Becomes(w, [process[w] EXCEPT !.at = "rehash", !.engine = cache])
        /\ UNCHANGED <<cache, saved>>
     \/ cache # Sound /\ Fails(w)

\* The second hash, after the load.
StillSound(w) == cache = Sound

HashAfter(w) ==
  /\ At(w, "rehash")
  /\ IF StillSound(w)
     THEN /\ Becomes(w, [process[w] EXCEPT !.at = "identify", !.cacheId = Sound])
          /\ UNCHANGED <<cache, saved>>
     ELSE Fails(w)

\* The product is built in memory and renamed over the path from a file that
\* has been synced, so that no reader sees a part of it.
BuildAndSave(w) ==
  /\ At(w, "build")
  /\ cache' = Sound
  /\ process' = [CacheBecomes(Sound) EXCEPT ![w].at = "digest", ![w].engine = Sound]
  /\ UNCHANGED <<tables, saved, changes, restarts>>

\* The digest of the new cache: the one supplied, or the hash of what is there now.
DigestBuilt(w) ==
  /\ At(w, "digest")
  /\ \/ /\ cache # Missing
        /\ process[w].digest => cache = Sound
        /\ Becomes(w, [process[w] EXCEPT !.at = "identify", !.cacheId = cache])
        /\ UNCHANGED <<cache, saved>>
     \/ /\ cache = Missing \/ (process[w].digest /\ cache # Sound)
        /\ Fails(w)

-----------------------------------------------------------------------------
(* The tables.                                                             *)

\* weber_table_manifest_sha256 gives the digest the identity has.
Manifest(identity) == tables \in Authentic /\ tables = identity

\* make_search_identity, and load_search_checkpoint where there is one.
Identify(w) ==
  /\ At(w, "identify")
  /\ LET resumes == saved[w].exists
         same    == saved[w].tableId = tables /\ saved[w].cacheId = process[w].cacheId
     IN IF tables \in Authentic /\ (resumes => same)
        THEN /\ Becomes(w, [process[w] EXCEPT
                               !.at = "begin", !.tableId = tables,
                               !.launched = Len(saved[w].reports)])
             /\ UNCHANGED <<cache, saved>>
        ELSE Fails(w)

\* The check of run_search_pipeline.
BeginRun(w) ==
  /\ At(w, "begin")
  /\ IF Manifest(process[w].tableId) THEN Moves(w, "run") ELSE Fails(w)

Unread == [reads |-> {}, restored |-> FALSE]

Launch(w) ==
  /\ At(w, "run")
  /\ process[w].launched < CurveCount[w]
  /\ Len(process[w].window) < InFlight
  /\ IF Manifest(process[w].tableId)
     THEN /\ Becomes(w, [process[w] EXCEPT !.launched = @ + 1, !.window = Append(@, Unread)])
          /\ UNCHANGED <<cache, saved>>
     ELSE Fails(w)

\* A curve thread opens a table: whatever is there.
Open(w, i) ==
  /\ At(w, "run")
  /\ Becomes(w, [process[w] EXCEPT !.window[i].reads = @ \cup {tables}])
  /\ UNCHANGED <<cache, saved>>

\* A foreign table that does not parse fails the curve, and with it the run.
OpenMalformed(w, i) ==
  /\ At(w, "run")
  /\ tables = Foreign
  /\ Fails(w)

Retires_Unhashed(w) == TRUE

\* The tables are hashed again before the report of the oldest curve counts and
\* is saved (a checkpoint of every curve, the default).
Retires(w) == Manifest(process[w].tableId)

Retire(w) ==
  /\ At(w, "run")
  /\ process[w].window # <<>>
  /\ IF Retires(w)
     THEN /\ Becomes(w, [process[w] EXCEPT !.window = Tail(@)])
          /\ saved' = [saved EXCEPT ![w] =
               [exists |-> TRUE, cacheId |-> process[w].cacheId,
                tableId |-> process[w].tableId,
                reports |-> Append(@.reports, Head(process[w].window))]]
          /\ UNCHANGED cache
     ELSE Fails(w)

-----------------------------------------------------------------------------
(* The environment.                                                        *)

Stop(w) == ~At(w, "failed") /\ Fails(w)

Restart(w) ==
  /\ At(w, "failed")
  /\ restarts < MaxRestarts
  /\ restarts' = restarts + 1
  /\ process' = [process EXCEPT ![w] = Started]
  /\ UNCHANGED <<cache, tables, saved, changes>>

ReplaceCache(content) ==
  /\ changes.cache < MaxChanges
  /\ content # cache
  /\ cache' = content
  /\ changes' = [changes EXCEPT !.cache = @ + 1]
  /\ process' = CacheBecomes(content)
  /\ UNCHANGED <<tables, saved, restarts>>

\* What a curve in flight may have missed: that the tables were put back.
Noted(curve, back) == [curve EXCEPT !.restored = @ \/ back]

ReplaceTables(content) ==
  /\ changes.tables < MaxChanges
  /\ content # tables
  /\ tables' = content
  /\ changes' = [changes EXCEPT !.tables = @ + 1]
  /\ process' = [w \in Hosted |->
       [process[w] EXCEPT !.window =
          [i \in DOMAIN @ |-> Noted(@[i], content = process[w].tableId)]]]
  /\ UNCHANGED <<cache, saved, restarts>>

WorkerStep(w) ==
  \/ Preexists(w) \/ Inspect(w) \/ HashBefore(w) \/ Load(w) \/ HashAfter(w)
  \/ BuildAndSave(w) \/ DigestBuilt(w)
  \/ Identify(w) \/ BeginRun(w) \/ Launch(w) \/ Retire(w)
  \/ \E i \in DOMAIN process[w].window : Open(w, i) \/ OpenMalformed(w, i)
  \/ Stop(w) \/ Restart(w)

Trust ==
  \/ \E w \in Hosted : WorkerStep(w)
  \/ \E content \in CacheContents : ReplaceCache(content)
  \/ \E content \in TableContents : ReplaceTables(content)

TrustSpec == TrustInit /\ [][Trust]_files

-----------------------------------------------------------------------------
(* Properties.                                                             *)

\* TrustedContent: an engine holds a product other than the trusted one only if
\* the cache was put back between its two hashes; and a report counted in a
\* checkpoint, before or after any restart, rests on tables other than those of
\* the checkpoint's identity only if they were put back while the curve was in
\* flight.  Everything that is not undone is noticed (load, run_search_pipeline).
TrustedContent ==
  \A w \in Hosted :
    /\ process[w].at \in {"identify", "begin", "run"} /\ process[w].engine # Sound
         => process[w].restored
    /\ \A i \in DOMAIN saved[w].reports :
         saved[w].reports[i].reads \subseteq {saved[w].tableId} \/ saved[w].reports[i].restored

=============================================================================
