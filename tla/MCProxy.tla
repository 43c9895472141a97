------------------------------ MODULE MCProxy -------------------------------
(* Small instances of Proxy for TLC. *)
EXTENDS Proxy, TLC

CONSTANTS b1, b2

MCPool == <<b1, b2>>
MCSinglePool == <<b1>>

\* Requests are interchangeable (safety runs only).
Symmetry == Permutations(Requests)
=============================================================================
