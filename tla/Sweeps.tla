------------------------------- MODULE Sweeps -------------------------------
(***************************************************************************)
(* What the `orbits` and `sentry` commands have in common: a sweep asks    *)
(* JPL about the asteroids that were never checked, or not for long,       *)
(* buffers the answers, and writes the buffer to the database when it is   *)
(* full and at the end, stamping every asteroid in it.  Sweeps follow one  *)
(* another; any of them may fail or die.  The commands write different     *)
(* columns, so a behaviour follows one of them.                            *)
(*                                                                         *)
(* A lookup task touches nothing but its own result, so a lookup is one    *)
(* step: the loop joining it.                                              *)
(***************************************************************************)
EXTENDS Integers, FiniteSets

CONSTANTS
  Asteroid,   \* the asteroids table
  Rank,       \* the place of each in ORDER BY neo_reference_id
  Poison,     \* asteroids whose lookup always fails
  Known,      \* asteroids JPL has something to say about at first
  FlushSize,  \* UPDATE_FLUSH_SIZE (200 in the code)
  MaxFaults,  \* bound on passing failures, of lookups, statements or the process
  MaxChanges  \* bound on changes of the Sentry list

ASSUME AsteroidAssumption ==
  /\ IsFiniteSet(Asteroid)
  /\ Poison \subseteq Asteroid
  /\ Known \subseteq Asteroid
  /\ Rank \in [Asteroid -> Nat]
  /\ \A a, b \in Asteroid : Rank[a] = Rank[b] => a = b
ASSUME SweepAssumption ==
  /\ FlushSize \in Nat \ {0}
  /\ MaxFaults \in Nat /\ MaxChanges \in Nat

VARIABLES
  command,     \* the command whose sweeps these are
  tracked,     \* what JPL has now: asteroids with an orbit, or on the Sentry list
  flagged,     \* is_sentry_object, as the last load left it
  row,         \* row[a]: "none" without a stamp, "fresh" or "stale" with one
  filled,      \* the asteroids whose columns hold values, not NULLs
  pc,          \* where the sweep is
  candidates,  \* the candidates it has still to ask about
  inFlight,    \* the lookups dispatched and not joined
  pending,     \* the buffer: asteroids with a record or the word that there is none ...
  found,       \* ... and those of them with a record that has values
  last,        \* how the sweep ended, if it did
  answered,    \* history: lookups of this sweep that had an answer, rows still fresh
  said,        \* history: those of them of which JPL gave values
  mistaken,    \* history: lookups of this sweep that failed and were taken for answers
  faults, changes

work == <<candidates, inFlight, pending, found>>
rows == <<row, filled>>
jpl == <<tracked, flagged, changes>>
heard == <<answered, said, mistaken>>

Fault == faults < MaxFaults /\ faults' = faults + 1

SweepInit ==
  /\ command \in {"orbits", "sentry"}
  /\ tracked = Known
  /\ flagged = Known
  /\ row = [a \in Asteroid |-> "none"]
  /\ filled = {}
  /\ pc = "idle"
  /\ candidates = {}
  /\ inFlight = {}
  /\ pending = {}
  /\ found = {}
  /\ last = "none"
  /\ answered = {}
  /\ said = {}
  /\ mistaken = {}
  /\ faults = 0
  /\ changes = 0
-----------------------------------------------------------------------------
\* stale_days go by for a stamp.
GoStale(a) ==
  /\ row[a] = "fresh"
  /\ row' = [row EXCEPT ![a] = "stale"]
  /\ answered' = answered \ ({a} \ pending)
  /\ UNCHANGED <<command, jpl, filled, pc, work, last, said, mistaken, faults>>

\* JPL puts an asteroid on the Sentry list, or takes it off.  (SBDB's records stay
\* as they are: nothing in a sweep depends on them.)
Retrack(a) ==
  /\ command = "sentry"
  /\ changes < MaxChanges
  /\ changes' = changes + 1
  /\ tracked' = IF a \in tracked THEN tracked \ {a} ELSE tracked \cup {a}
  /\ UNCHANGED <<command, flagged, rows, pc, work, last, heard, faults>>

\* upsert_batch: is_sentry_object is what NeoWs says, the scales stay as they are.
Reload(a) ==
  /\ command = "sentry"
  /\ flagged' = IF a \in tracked THEN flagged \cup {a} ELSE flagged \ {a}
  /\ UNCHANGED <<command, tracked, changes, rows, pc, work, last, heard, faults>>

\* A sweep of the candidates S begins.
Begin(S) ==
  /\ pc = "idle"
  /\ S # {}
  /\ pc' = "prime"
  /\ candidates' = S
  /\ inFlight' = {}
  /\ pending' = {}
  /\ found' = {}
  /\ last' = "none"
  /\ answered' = {}
  /\ said' = {}
  /\ mistaken' = {}
  /\ UNCHANGED <<command, jpl, rows, faults>>

\* The first of the candidates S, n of them at most.
First(S, n) == {a \in S : Cardinality({b \in S : Rank[b] < Rank[a]}) < n}

With(S, a, in) == IF in THEN S \cup {a} ELSE S \ {a}

\* The result of a goes into the buffer, with values to store or without.
Enqueue(a, values) ==
  /\ inFlight' = inFlight \ {a}
  /\ pending' = pending \cup {a}
  /\ found' = With(found, a, values)

\* The lookup of a had an answer.
Buffer(a, values) ==
  /\ Enqueue(a, values)
  /\ answered' = answered \cup {a}
  /\ said' = With(said, a, values)
  /\ mistaken' = mistaken \ {a}

\* The lookup of a failed, and is taken for the answer that there is no record.
Mistake(a) ==
  /\ Enqueue(a, FALSE)
  /\ answered' = answered \ {a}
  /\ said' = said \ {a}
  /\ mistaken' = mistaken \cup {a}

\* The lookup of a failed: it is dropped, and its asteroid stays due.
Drop(a) ==
  /\ inFlight' = inFlight \ {a}
  /\ UNCHANGED <<pending, found, heard>>

\* One statement stores the buffer: values or NULLs, and the stamp.
Stamped == [a \in Asteroid |-> IF a \in pending THEN "fresh" ELSE row[a]]
Filled == (filled \ pending) \cup found

Write ==
  /\ row' = Stamped
  /\ filled' = Filled
  /\ pending' = {}
  /\ found' = {}

\* A statement or the candidate stream fails (`?`), a task panics in a release
\* build, or the process dies: the sweep is over, its buffer and its tasks are
\* gone.  A statement that failed may have stored its rows.
Fail ==
  /\ pc # "idle"
  /\ Fault
  /\ UNCHANGED rows \/ (pc \in {"flush", "final"} /\ row' = Stamped /\ filled' = Filled)
  /\ pending' = {}
  /\ found' = {}
  /\ inFlight' = {}
  /\ pc' = "idle"
  /\ candidates' = {}
  /\ last' = "failed"
  /\ UNCHANGED <<command, jpl, heard>>
=============================================================================
