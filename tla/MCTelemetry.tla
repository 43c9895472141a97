----------------------------- MODULE MCTelemetry ----------------------------
(* A small instance of Telemetry for TLC. *)
EXTENDS Telemetry, TLC

\* Tasks are interchangeable.
Symmetry == Permutations(Tasks)
=============================================================================
