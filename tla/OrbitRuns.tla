----------------------------- MODULE OrbitRuns -----------------------------
(***************************************************************************)
(* The `orbits` command (src/cli/orbits.rs): Concurrency lookups at JPL's  *)
(* SBDB in flight at once, one dispatched for each that is joined, and an  *)
(* early stop after too many failures in a row.                            *)
(***************************************************************************)
EXTENDS Sweeps

CONSTANTS
  Concurrency, \* LOOKUP_CONCURRENCY (2 in the code)
  Abort        \* CONSECUTIVE_ERROR_ABORT (5 in the code)

ASSUME OrbitAssumption == {Concurrency, Abort} \subseteq Nat \ {0}

VARIABLES
  primed,      \* turns of the priming loop
  consecutive, \* tally.consecutive_errors
  since        \* history: lookups dispatched since one last had, or seemed to have, an answer

loop == <<primed, consecutive, since>>

OrbitInit == primed = 0 /\ consecutive = 0 /\ since = 0
LoopOver == primed' = 0 /\ consecutive' = 0 /\ since' = 0
-----------------------------------------------------------------------------
\* Mutant: the branch of the asteroids without a row is missing.
BugNeedsCheck(recompute) == {a \in Asteroid : row[a] = "stale" \/ (row[a] = "fresh" /\ recompute)}

\* NOT EXISTS row UNION ALL a row checked before stale_before.
NeedsCheck(recompute) ==
  {a \in Asteroid : row[a] = "none" \/ row[a] = "stale" \/ recompute}

BeginOrbits(S) ==
  /\ command = "orbits"
  /\ Begin(S)
  /\ UNCHANGED loop

\* execute: a sweep, unless the count of candidates is zero.
Start(recompute) == BeginOrbits(NeedsCheck(recompute))

\* execute_for_ids: the asteroids a load has just inserted, whatever their rows.
StartForIds(ids) == BeginOrbits(ids)

\* spawn_next: the next candidate, if any, gets a task.
SpawnNext ==
  /\ candidates' = candidates \ First(candidates, 1)
  /\ inFlight' = inFlight \cup First(candidates, 1)
  /\ since' = IF candidates = {} THEN since ELSE since + 1

\* The loop that fills the slots.
Prime ==
  /\ pc = "prime" /\ command = "orbits"
  /\ SpawnNext
  /\ primed' = primed + 1
  /\ pc' = IF primed + 1 = Concurrency THEN "join" ELSE "prime"
  /\ UNCHANGED <<command, jpl, rows, pending, found, consecutive, last, heard, faults>>

\* The pause after a result, and the next dispatch.
Refill ==
  /\ pc = "refill"
  /\ SpawnNext
  /\ pc' = "join"
  /\ UNCHANGED <<command, jpl, rows, pending, found, primed, consecutive, last, heard, faults>>

\* Mutant: > instead of >=.
BugChecked(errors) == IF errors > Abort THEN "final" ELSE "refill"

\* Where the loop goes once the buffer has room.
Checked(errors) == IF errors >= Abort THEN "final" ELSE "refill"

\* apply_outcome of Ok: the buffer has one more, the failures in a row end.
Apply(a) ==
  /\ pc = "join" /\ command = "orbits"
  /\ a \in inFlight
  /\ consecutive' = 0
  /\ since' = 0
  /\ pc' = IF Cardinality(pending \cup {a}) >= FlushSize THEN "flush" ELSE Checked(0)
  /\ UNCHANGED <<command, jpl, rows, candidates, primed, last>>

\* A record, or NULLs where SBDB has none or no orbit.
JoinAnswer(a) ==
  /\ a \notin Poison
  /\ Apply(a)
  /\ Buffer(a, a \in tracked)
  /\ UNCHANGED faults

\* lookup_by_spk takes every error status with a JSON message for 'no record',
\* a server error or a limit of requests as well.
JoinMessage(a) ==
  /\ Fault
  /\ Apply(a)
  /\ Mistake(a)

\* apply_outcome of a lookup that failed or panicked.
JoinFailure(a) ==
  /\ pc = "join" /\ command = "orbits"
  /\ a \in inFlight
  /\ IF a \in Poison THEN UNCHANGED faults ELSE Fault
  /\ Drop(a)
  /\ consecutive' = consecutive + 1
  /\ pc' = Checked(consecutive + 1)
  /\ UNCHANGED <<command, jpl, rows, candidates, primed, since, last>>

\* Nothing in flight: the loop is over.
LoopEnds ==
  /\ pc = "join" /\ command = "orbits"
  /\ inFlight = {}
  /\ pc' = "final"
  /\ UNCHANGED <<command, jpl, rows, work, loop, last, heard, faults>>

\* upsert_asteroid_orbits in the loop.
Flush ==
  /\ pc = "flush" /\ command = "orbits"
  /\ Write
  /\ pc' = Checked(consecutive)
  /\ UNCHANGED <<command, jpl, candidates, inFlight, loop, last, heard, faults>>

\* Mutant: an aborted sweep returns without the last flush.
BugFinalFlush ==
  /\ pc = "final" /\ command = "orbits"
  /\ row' = IF consecutive >= Abort THEN row ELSE Stamped
  /\ filled' = IF consecutive >= Abort THEN filled ELSE Filled
  /\ pending' = {}
  /\ found' = {}
  /\ inFlight' = {}
  /\ pc' = "idle"
  /\ last' = IF consecutive >= Abort THEN "aborted" ELSE "ok"
  /\ candidates' = {}
  /\ LoopOver
  /\ UNCHANGED <<command, jpl, heard, faults>>

\* The last flush, also of a sweep that stops early; dropping the JoinSet
\* aborts what is still in flight.
FinalFlush ==
  /\ pc = "final" /\ command = "orbits"
  /\ Write
  /\ inFlight' = {}
  /\ pc' = "idle"
  /\ last' = IF consecutive >= Abort THEN "aborted" ELSE "ok"
  /\ candidates' = {}
  /\ LoopOver
  /\ UNCHANGED <<command, jpl, heard, faults>>

OrbitStep ==
  \/ Prime
  \/ Refill
  \/ \E a \in Asteroid : JoinAnswer(a) \/ JoinMessage(a) \/ JoinFailure(a)
  \/ LoopEnds
  \/ Flush
  \/ FinalFlush

OrbitNext ==
  \/ \E recompute \in BOOLEAN : Start(recompute)
  \/ \E ids \in SUBSET Asteroid : StartForIds(ids)
  \/ OrbitStep
-----------------------------------------------------------------------------
\* What was dispatched since the last answer is in flight or has failed, and a
\* slot is filled again only after a result.
Slots ==
  command = "orbits" =>
    /\ pc = "prime" => /\ primed < Concurrency
                       /\ Cardinality(inFlight) <= primed
                       /\ since <= primed
    /\ pc \in {"flush", "refill"} => Cardinality(inFlight) < Concurrency
    /\ pc \in {"prime", "flush"} => consecutive = 0
    /\ pc \in {"join", "refill"} => consecutive < Abort
    /\ pc = "join" => since <= Concurrency + consecutive
    /\ pc = "refill" /\ consecutive > 0 => since < Concurrency + consecutive
    /\ pc \in {"flush", "refill"} /\ consecutive = 0 => since = 0
=============================================================================
