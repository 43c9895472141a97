----------------------------- MODULE MCUpstream -----------------------------
(* A small instance of Upstream for TLC. *)
EXTENDS Upstream

MCHopByHop == {"te"}
MCOwn == {"host", "x-forwarded-for"}
MCEndToEnd == {"content-length", "x-request-id", "accept"}

\* No Connection field, or up to two that nominate at most one name each.
MCConnections ==
    LET Field == {{}} \cup {{n} : n \in MCHopByHop \cup MCOwn \cup MCEndToEnd}
    IN  UNION {[1 .. k -> Field] : k \in 0 .. 2}
=============================================================================
