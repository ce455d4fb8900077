-------------------------- MODULE MCRuntimeReload --------------------------
(* Instances of RuntimeReload for TLC. *)
EXTENDS RuntimeReload

CONSTANTS t1, t2, a1, a2
=============================================================================
