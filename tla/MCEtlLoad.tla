----------------------------- MODULE MCEtlLoad -----------------------------
(***************************************************************************)
(* Small instances of EtlLoad.  File fa needs a full and a last batch and  *)
(* holds a line that does not parse; fb fits one full batch and shares two *)
(* asteroids with fa; fc holds no record; fd repeats an asteroid in its    *)
(* only batch; fe is one record that does not fill a batch.                *)
(***************************************************************************)
EXTENDS EtlLoad, TLC

CONSTANTS n1, n2, n3, a1, a2, a3, fa, fb, fc, fd, fe, r1, r2

Rec(n, v, as) == [neo |-> n, ver |-> v, apps |-> as]

MCContent ==
  [f \in File |->
     CASE f = fa -> <<Rec(n1, 1, {a1}), Malformed, Rec(n2, 1, {a2}), Rec(n3, 1, {})>>
       [] f = fb -> <<Rec(n2, 1, {a2, a3}), Rec(n3, 1, {})>>
       [] f = fc -> <<Malformed>>
       [] f = fd -> <<Rec(n1, 1, {a1}), Rec(n1, 1, {a2})>>
       [] f = fe -> <<Rec(n1, 3, {a1})>>]

\* Invocations are interchangeable (used by the safety run only).
RunSymmetry == Permutations(Run)
=============================================================================
