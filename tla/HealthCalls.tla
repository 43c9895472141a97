----------------------------- MODULE HealthCalls -----------------------------
(***************************************************************************)
(* The health manager (src/src/health/mod.rs) as its callers take it: each *)
(* call is one step, and does to the record of its backend what            *)
(* BackendHealth says.  Startup, Proxy and Telemetry are written on this;  *)
(* HealthThreads implements it where no two calls for one backend overlap. *)
(***************************************************************************)
EXTENDS BackendHealth

CONSTANT Backends

VARIABLE record     \* record[b]: b's BackendHealth

Init == record = [b \in Backends |-> Fresh]

\* One call for b returns, or its ejection window runs out.
Turn(b) ==
    \/ record' = [record EXCEPT ![b] = RecordSuccess(@)]
    \/ record' = [record EXCEPT ![b] = RecordFailure(@)]
    \/ record' = [record EXCEPT ![b] = PollEjection(@)]
    \/ /\ record[b].ejected_until = "running"
       /\ record' = [record EXCEPT ![b] = Expire(@)]

Next == \E b \in Backends : Turn(b)

Spec == Init /\ [][Next]_record
=============================================================================
