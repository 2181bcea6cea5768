-------------------------- MODULE MCDashboardPages --------------------------
(***************************************************************************)
(* Two asteroids and three approaches: two of the first asteroid, one of   *)
(* them the closest and one the fastest of the week, and one of the second *)
(* asteroid, larger, that is still to come.                                *)
(***************************************************************************)
EXTENDS DashboardPages, TLC

CONSTANTS c1, c2

MCOf == [a \in Approach |-> IF a = 13 THEN 2 ELSE 1]
MCDay == [a \in Approach |-> CASE a = 11 -> 1 [] a = 12 -> 8 [] OTHER -> 9]
MCMiss == [a \in Approach |-> a]
MCSpeed == [a \in Approach |-> a]
MCDiameter == [n \in Neo |-> n]

MCInit ==
  /\ Init
  /\ known = {1} /\ measured = {} /\ vectors = {}
  /\ table \in {{}, {11, 12}}
  /\ started = [f \in File |-> 1]

\* What may go wrong between two handlers does so when they ask for the same thing with
\* the cache on: one is idle or both do, and what is stored is what they ask for.  Of the
\* questions that differ in a parameter only, one is asked; at most one change is not one
\* of approaches.
MCBound ==
  LET stored == {q \in Question : store[q] # {}}
      busy == {c \in Client : pc[c] # "idle"}
      asked == {want[c] : c \in busy}
  IN /\ Cardinality(stored) <= 1
     /\ Cardinality(asked) <= 1
     /\ asked = {} \/ stored \subseteq asked
     /\ enabled \/ Cardinality(busy) <= 1
     /\ [kind |-> "detail", neo |-> 2] \notin asked /\ [kind |-> "similar", neo |-> 2] \notin asked
     /\ Cardinality(measured) + Cardinality(vectors) + Cardinality({f \in File : started[f] # 1}) <= 1

MCSpec == MCInit /\ [][Next]_vars

\* Handlers are interchangeable.
ClientSymmetry == Permutations(Client)
=============================================================================
