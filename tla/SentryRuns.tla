----------------------------- MODULE SentryRuns -----------------------------
(***************************************************************************)
(* The `sentry` command (src/cli/sentry.rs): the asteroids NeoWs flags as  *)
(* Sentry objects are looked up ChunkSize at a time, a chunk begins when   *)
(* the last is done, and the buffer is written between chunks.             *)
(***************************************************************************)
EXTENDS Sweeps

CONSTANT ChunkSize \* LOOKUP_CONCURRENCY (5 in the code)

ASSUME SentryAssumption == ChunkSize \in Nat \ {0}
-----------------------------------------------------------------------------
\* Mutant: only the asteroids never checked.
BugNeedsScales(recompute) == {a \in flagged : row[a] = "none"}

\* asteroids_needing_sentry_check
NeedsScales(recompute) == {a \in flagged : row[a] # "fresh" \/ recompute}

SentryStart(recompute) == command = "sentry" /\ Begin(NeedsScales(recompute))

\* execute_for_ids: those the pipeline has just inserted, if flagged.
SentryStartForIds(ids) == command = "sentry" /\ Begin(ids \cap flagged)

\* Every lookup of a chunk gets a task.
NextChunk ==
  /\ pc = "prime" /\ command = "sentry"
  /\ inFlight' = First(candidates, ChunkSize)
  /\ candidates' = candidates \ First(candidates, ChunkSize)
  /\ pc' = "join"
  /\ UNCHANGED <<command, jpl, rows, pending, found, last, heard, faults>>

\* apply_outcome of Ok: the scales of a summary, or NULLs where Sentry says that
\* the object was removed, or says nothing.
JoinScales(a) ==
  /\ pc = "join" /\ command = "sentry"
  /\ a \in inFlight \ Poison
  /\ Buffer(a, a \in tracked)
  /\ UNCHANGED <<command, jpl, rows, candidates, pc, last, faults>>

\* Mutant: a failed lookup is queued like one that found nothing.
BugScalesFail(a) ==
  /\ pc = "join" /\ command = "sentry"
  /\ a \in inFlight
  /\ IF a \in Poison THEN UNCHANGED faults ELSE Fault
  /\ inFlight' = inFlight \ {a}
  /\ pending' = pending \cup {a}
  /\ UNCHANGED <<command, jpl, rows, candidates, found, pc, last, heard>>

\* apply_outcome of Err: no connection, an error status, a body that does not parse.
ScalesFail(a) ==
  /\ pc = "join" /\ command = "sentry"
  /\ a \in inFlight
  /\ IF a \in Poison THEN UNCHANGED faults ELSE Fault
  /\ Drop(a)
  /\ UNCHANGED <<command, jpl, rows, candidates, pc, last>>

AfterChunk == IF candidates = {} THEN "final" ELSE "prime"

\* The chunk is joined.
ChunkEnds ==
  /\ pc = "join" /\ command = "sentry"
  /\ inFlight = {}
  /\ pc' = IF Cardinality(pending) >= FlushSize THEN "flush" ELSE AfterChunk
  /\ UNCHANGED <<command, jpl, rows, work, last, heard, faults>>

\* update_sentry_scales between two chunks.
ChunkFlush ==
  /\ pc = "flush" /\ command = "sentry"
  /\ Write
  /\ pc' = AfterChunk
  /\ UNCHANGED <<command, jpl, candidates, inFlight, last, heard, faults>>

LastFlush ==
  /\ pc = "final" /\ command = "sentry"
  /\ Write
  /\ pc' = "idle"
  /\ last' = "ok"
  /\ UNCHANGED <<command, jpl, candidates, inFlight, heard, faults>>

SentryStep ==
  \/ NextChunk
  \/ \E a \in Asteroid : JoinScales(a) \/ ScalesFail(a)
  \/ ChunkEnds
  \/ ChunkFlush
  \/ LastFlush

SentryNext ==
  \/ \E recompute \in BOOLEAN : SentryStart(recompute)
  \/ \E ids \in SUBSET Asteroid : SentryStartForIds(ids)
  \/ SentryStep
=============================================================================
