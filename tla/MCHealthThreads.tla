--------------------------- MODULE MCHealthThreads ---------------------------
(* HealthThreads for TLC: MCHealthThreads.cfg gives the constants. *)
EXTENDS HealthThreads
=============================================================================
