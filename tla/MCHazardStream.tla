--------------------------- MODULE MCHazardStream ---------------------------
(***************************************************************************)
(* More clients than places, more events than the buffer keeps.            *)
(***************************************************************************)
EXTENDS HazardStream

CONSTANTS c1, c2, c3
=============================================================================
