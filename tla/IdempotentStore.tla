-------------------------- MODULE IdempotentStore --------------------------
(***************************************************************************)
(* What the loader promises its callers, without tasks, batches, faults or *)
(* event ids: facts are only ever added to the store, each of them out of  *)
(* a file, and a file is acknowledged only once all its facts are stored.  *)
(* Repeating any of it is harmless.                                        *)
(***************************************************************************)
CONSTANTS
  File,     \* the files to be ingested
  Fact,     \* the rows a store can hold
  FactsOf   \* FactsOf[f]: the rows file f asks for, a subset of Fact

VARIABLES
  store,    \* the rows held
  acked     \* the files a later run may skip

avars == <<store, acked>>

AInit == store = {} /\ acked = {}

\* Part of a file reaches the store, at once.
Ingest(f, S) ==
  /\ store' = store \cup S
  /\ UNCHANGED acked

\* The file is declared processed, which is true.
Acknowledge(f) ==
  /\ FactsOf[f] \subseteq store
  /\ acked' = acked \cup {f}
  /\ UNCHANGED store

\* The file is going to be ingested again.
Reopen(f) ==
  /\ acked' = acked \ {f}
  /\ UNCHANGED store

ANext ==
  \E f \in File :
    \/ \E S \in SUBSET FactsOf[f] : Ingest(f, S)
    \/ Acknowledge(f)
    \/ Reopen(f)

ASpec == AInit /\ [][ANext]_avars
=============================================================================
