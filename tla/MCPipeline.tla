----------------------------- MODULE MCPipeline -----------------------------
(***************************************************************************)
(* Nine days in two windows and one permit: the second awaits the first.    *)
(***************************************************************************)
EXTENDS Pipeline
=============================================================================
