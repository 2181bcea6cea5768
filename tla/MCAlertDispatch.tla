-------------------------- MODULE MCAlertDispatch --------------------------
(***************************************************************************)
(* Two approaches: a1, classified Hazardous and due today, and a2, which   *)
(* only the flag of its asteroid makes hazardous, due tomorrow.  A scan    *)
(* takes one at a time, a past approach is pruned at once.                 *)
(***************************************************************************)
EXTENDS AlertDispatch

CONSTANTS a1, a2, s1, s2

MCDateOf == [a \in Approach |-> IF a = a1 THEN 0 ELSE 1]
=============================================================================
