-------------------------- MODULE SequentialSearch --------------------------
(***************************************************************************)
(* What one worker promises of its durable state, as a sequential program: *)
(* run_search_chunk (search_checkpoint.cpp) over First .. End - 1, saved   *)
(* after each chunk.  The cursor moves over retirable indices only, counts *)
(* what it passed, never passes a certificate it has not published, and    *)
(* stops behind the first one.                                             *)
(***************************************************************************)
EXTENDS SearchState

CONSTANTS Fates, SkipIncomplete, NoFile

VARIABLES
  fate,         \* the status of every index
  saved,        \* the search state that is guaranteed to survive
  certificate   \* the index of the published certificate, or NoFile

vars == <<fate, saved, certificate>>

Winner(i) == fate[i] = "verified_certificate"

Retirable(i) ==
  fate[i] \in RetirableStatuses \cup IF SkipIncomplete THEN IncompleteStatuses
                                                       ELSE {}

Init ==
  /\ fate \in [Indices -> Fates]
  /\ saved = FreshState
  /\ certificate = NoFile

\* The certificate of the index under the cursor becomes durable.
Publish ==
  /\ Found(saved) = 0 /\ saved.next \in Indices /\ Winner(saved.next)
  /\ certificate' = saved.next
  /\ UNCHANGED <<fate, saved>>

\* A chunk that ends before index n.
Chunk(n) ==
  /\ Found(saved) = 0
  /\ \A i \in saved.next .. (n - 1) : Retirable(i)
  /\ \A i \in saved.next .. (n - 2) : ~Winner(i)
  /\ saved' = [next |-> n, counters |-> Tally(fate, n)]
  /\ certificate' = IF Winner(n - 1) THEN n - 1 ELSE certificate
  /\ UNCHANGED fate

Next == Publish \/ \E n \in (saved.next + 1) .. End : Chunk(n)

Spec == Init /\ [][Next]_vars

=============================================================================
