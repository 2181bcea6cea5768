----------------------------- MODULE Enrichment -----------------------------
(***************************************************************************)
(* The sweeps of `orbits` and of `sentry`, while JPL changes its mind,     *)
(* loads refresh the flags and stamps grow old: what both promise.         *)
(***************************************************************************)
EXTENDS OrbitRuns, SentryRuns

vars == <<command, jpl, rows, pc, work, loop, last, heard, faults>>

Init == SweepInit /\ OrbitInit

Step == OrbitStep \/ (SentryStep /\ UNCHANGED loop)

Next ==
  \/ OrbitNext
  \/ SentryNext /\ UNCHANGED loop
  \/ Fail /\ LoopOver
  \/ \E a \in Asteroid : (GoStale(a) \/ Retrack(a) \/ Reload(a)) /\ UNCHANGED loop

Sweep(recompute) == Start(recompute) \/ (SentryStart(recompute) /\ UNCHANGED loop)

\* The schedule starts a plain sweep again and again, between those the pipeline
\* starts for its own asteroids; a sweep goes on; stamps grow old.
Fairness ==
  /\ SF_vars(Sweep(FALSE))
  /\ WF_vars(Step)
  /\ \A a \in Asteroid : WF_vars(GoStale(a) /\ UNCHANGED loop)

Spec == Init /\ [][Next]_vars
FairSpec == Spec /\ Fairness
-----------------------------------------------------------------------------
\* Every variable holds a value of the kind the code gives it.
TypeOK ==
  /\ command \in {"orbits", "sentry"}
  /\ {tracked, flagged, filled, candidates, inFlight, pending, found, answered, said, mistaken} \subseteq SUBSET Asteroid
  /\ row \in [Asteroid -> {"none", "fresh", "stale"}]
  /\ pc \in {"idle", "prime", "join", "flush", "refill", "final"}
  /\ last \in {"none", "ok", "aborted", "failed"}
  /\ primed \in 0..Concurrency
  /\ consecutive \in 0..Abort
  /\ since \in Nat
  /\ faults \in 0..MaxFaults
  /\ changes \in 0..MaxChanges

\* orbits.rs:334 and sentry.rs:221: an answer JPL gave is in the buffer or in the
\* database as it was given, whatever failed after it: stopping early does not
\* throw the buffer away, only a sweep that ends in an error does.
AnswersKept ==
  last # "failed" => \A a \in answered :
    \/ a \in pending /\ (a \in found <=> a \in said)
    \/ row[a] = "fresh" /\ (a \in filled <=> a \in said)

\* orbits.rs:42: an API that stopped answering is spared.  No more lookups at once
\* than the constants say; at SBDB no more after the last answer, or the last
\* failure that came as a message, than these and Abort - 1 others.
ApiSpared ==
  /\ Cardinality(inFlight) <= IF command = "orbits" THEN Concurrency ELSE ChunkSize
  /\ since <= Abort + Concurrency - 1

\* A stamp given to a, or values of a changed, are what JPL answered, or the NULLs
\* of a failure taken for an answer.
Earned(a) ==
  row'[a] = "fresh" /\ (row[a] # "fresh" \/ (a \in filled') # (a \in filled)) =>
    \/ a \in answered /\ (a \in filled' <=> a \in said)
    \/ a \in mistaken /\ a \notin filled'

\* sentry.rs:168 and repository.rs:564: a row is stamped, or its values change,
\* only to what JPL answered in this sweep.  So an asteroid whose lookup failed
\* stays due and keeps what it has, with one exception, which is not what
\* api.rs:40 and orbits.rs:82 say: when SBDB's error status comes with a message,
\* the asteroid is stamped as checked and its orbit, if it had one, is set to NULL.
StampsEarned == [][\A a \in Asteroid : Earned(a)]_vars

\* orbits.rs:317: sweeps get through.  Fewer asteroids than Abort that always
\* fail, wherever they are in the order, keep no other one from being checked.
HealthyChecked ==
  \A a \in Asteroid \ Poison :
    (row[a] = "none" /\ Cardinality(Poison) < Abort) ~> row[a] # "none" \/ (command = "sentry" /\ a \notin flagged)

\* repository.rs:564: an asteroid that Sentry has removed loses its scales, as long
\* as NeoWs still flags it.
RemovedIsCleared ==
  \A a \in Asteroid \ Poison :
    (command = "sentry" /\ a \notin tracked) ~> (a \notin filled \/ a \in tracked \/ a \notin flagged)
=============================================================================
