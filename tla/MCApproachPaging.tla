-------------------------- MODULE MCApproachPaging --------------------------
(***************************************************************************)
(* Three approaches on two pages: one of a large asteroid that passes far  *)
(* from here and two of small ones, near and farther yet.  A client walks  *)
(* through the table, another opens the landing page or asks the API for   *)
(* pages that do not exist.                                                *)
(***************************************************************************)
EXTENDS ApproachPaging, TLC

Large == [diameter |-> 60, velocity |-> 5, miss |-> 30, pha |-> TRUE]
Near == [diameter |-> 20, velocity |-> 5, miss |-> 4, pha |-> FALSE]
Far == [diameter |-> 20, velocity |-> 5, miss |-> 40, pha |-> FALSE]

MCFact == {Large, Near, Far}

MCDay == [a \in Approach |-> IF a = 3 THEN 9 ELSE 1]

\* The near one turned out to be large after it got its class, and stands where
\* the landing page has it: behind one that passes farther from here.
Stale == (1 :> {Stored(1, Large, Large)}) @@ (2 :> {Stored(2, Near, Large)}) @@ (3 :> {Stored(3, Far, Far)})

\* All classes are what they should be, and an approach is yet to come.
Fresh == (1 :> {Stored(1, Large, Large)}) @@ (2 :> {Stored(2, Far, Far)}) @@ (3 :> {})

MCInit ==
  /\ table \in {Stale, Fresh}
  /\ dir = "Desc"
  /\ scored = {1, 2}
  /\ Init

\* One answer is kept at a time, and a walk has three pages.
MCBound ==
  /\ Cardinality({k \in Key : store[k] # {}}) <= 1
  /\ \A c \in Walker : Len(trail[c]) <= 3

MCSpec == MCInit /\ [][Next]_vars
=============================================================================
