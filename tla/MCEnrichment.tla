---------------------------- MODULE MCEnrichment ----------------------------
(***************************************************************************)
(* Five asteroids, two of which never get an answer and three of which are *)
(* on the Sentry list; two lookups at once, a buffer of two, a stop after  *)
(* three failures in a row, one passing failure, one change of the list.   *)
(***************************************************************************)
EXTENDS Enrichment

MCRank == [a \in Asteroid |-> a]
=============================================================================
