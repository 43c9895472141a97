----------------------------- MODULE MCStartup ------------------------------
(* Small instances of Startup for TLC: two routes that share a backend, so  *)
(* that one pool can be dead while the other is not.                        *)
EXTENDS Startup, TLC

CONSTANTS b1, b2, r1, r2

MCPool == (r1 :> {b1}) @@ (r2 :> {b1, b2})
MCEndpoint == (r1 :> "health") @@ (r2 :> "health")
=============================================================================
