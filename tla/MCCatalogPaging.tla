-------------------------- MODULE MCCatalogPaging ---------------------------
(***************************************************************************)
(* A client pages through a catalog of three asteroids, a row per page,    *)
(* while another one opens it now and then.  Two asteroids have the same   *)
(* value in the beginning and the third has none, if that is possible; a   *)
(* change gives any of them any value or hides it.                         *)
(***************************************************************************)
EXTENDS CatalogPaging

MCInit ==
  /\ Init
  /\ listed = Asteroid
  /\ dir = IF Nullable(sort) THEN "Desc" ELSE "Asc"
  /\ \A a \in Asteroid : value[a] = IF a # 2 THEN {1} ELSE IF Nullable(sort) THEN {} ELSE {2}

MCSpec == MCInit /\ [][Next]_vars /\ Fairness
=============================================================================
