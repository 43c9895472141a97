------------------------------ MODULE Exchange ------------------------------
(***************************************************************************)
(* What forward_request (src/src/http/mod.rs) promises the request path    *)
(* and the health manager about one exchange with one backend, without     *)
(* bodies, timers or headers.  Upstream implements it; Proxy relies on it: *)
(* its actions BufferFails, UpstreamReturns, StreamEnds, StreamFails and   *)
(* ClientGone are these steps.                                             *)
(***************************************************************************)
EXTENDS Sequences

VARIABLES
    phase,      \* "asked", "refused", "streaming" (the head is returned), "closed"
                \* or "gone"
    verdicts    \* the calls of record_success and record_failure, in order

vars == <<phase, verdicts>>

Init ==
    /\ phase = "asked"
    /\ verdicts = <<>>

\* The proxy refuses the request itself: the backend was not reached.
Refuse ==
    /\ phase = "asked"
    /\ phase' = "refused"
    /\ UNCHANGED verdicts

\* The upstream answers: one verdict, by its status.
Respond ==
    /\ phase = "asked"
    /\ phase' = "streaming"
    /\ verdicts' \in {<<"success">>, <<"failure">>}

\* The exchange fails: one verdict, and the proxy's own 502 or 504.
Fail ==
    /\ phase = "asked"
    /\ phase' = "closed"
    /\ verdicts' = <<"failure">>

\* The body of the response ends.
EndBody ==
    /\ phase = "streaming"
    /\ phase' = "closed"
    /\ UNCHANGED verdicts

\* The body of the response fails: a late verdict after the first.
FailBody ==
    /\ phase = "streaming"
    /\ phase' = "closed"
    /\ verdicts' = Append(verdicts, "failure")

\* The client leaves, or a retry drops the response: nothing is recorded.
Leave ==
    /\ phase \in {"asked", "streaming"}
    /\ phase' = "gone"
    /\ UNCHANGED verdicts

Return == Refuse \/ Respond \/ Fail

Next == Return \/ EndBody \/ FailBody \/ Leave

\* The handler always returns; the body of the response may flow for ever.
Spec == Init /\ [][Next]_vars /\ WF_vars(Return)
=============================================================================
