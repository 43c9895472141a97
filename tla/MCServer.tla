------------------------------ MODULE MCServer ------------------------------
(* Small instances of Server for TLC. *)
EXTENDS Server, TLC

\* Connections are interchangeable (safety runs only).
Symmetry == Permutations(Conns)
=============================================================================
