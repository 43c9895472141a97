--------------------------- MODULE CircuitBreaker ---------------------------
(***************************************************************************)
(* What the health manager (src/src/health/mod.rs) promises about every    *)
(* backend, without its flags and counters: a circuit breaker.  Proxy      *)
(* implements it under the mapping AsCircuit of BackendHealth.             *)
(*                                                                         *)
(* An open circuit never closes without a window that has run its time and *)
(* a half-open state in which the first result decides; a closed one opens *)
(* at the FailureThreshold-th failure in a row and at no other.  The       *)
(* circuits are independent; several may move in one step, because         *)
(* healthy_backends looks at a whole pool.                                 *)
(***************************************************************************)
EXTENDS Integers

CONSTANTS
    Backends,
    FailureThreshold

VARIABLE circuit    \* circuit[b]: b's state, whether its window has run out,
                    \* and its failures in a row while closed

Circuit(state, over, failures) ==
    [state |-> state, over |-> over, failures |-> failures]

Closed(failures) == Circuit("closed", FALSE, failures)
Open(over) == Circuit("open", over, 0)
Probed == Circuit("half_open", FALSE, 0)

Init == circuit = [b \in Backends |-> Closed(0)]

-----------------------------------------------------------------------------
(* One circuit moves from c to d *)

CountFailure(c, d) ==
    \E n \in 0 .. FailureThreshold - 2 : c = Closed(n) /\ d = Closed(n + 1)

Trip(c, d) == c = Closed(FailureThreshold - 1) /\ d = Open(FALSE)

ForgetFailures(c, d) ==
    \E n \in 0 .. FailureThreshold - 1 : c = Closed(n) /\ d = Closed(0)

WindowEnds(c, d) == c = Open(FALSE) /\ d = Open(TRUE)

\* Late failures of an ejected backend: the window starts anew.
Extend(c, d) == c = Open(TRUE) /\ d = Open(FALSE)

HalfOpen(c, d) == c = Open(TRUE) /\ d = Probed

Close(c, d) == c = Probed /\ d = Closed(0)

Reopen(c, d) == c = Probed /\ d = Open(FALSE)

Step(c, d) ==
    \/ CountFailure(c, d)
    \/ Trip(c, d)
    \/ ForgetFailures(c, d)
    \/ WindowEnds(c, d)
    \/ Extend(c, d)
    \/ HalfOpen(c, d)
    \/ Close(c, d)
    \/ Reopen(c, d)

-----------------------------------------------------------------------------
Next ==
    /\ circuit' = [b \in Backends |-> circuit'[b]]
    /\ \A b \in Backends : circuit'[b] = circuit[b] \/ Step(circuit[b], circuit'[b])

Spec == Init /\ [][Next]_circuit
=============================================================================
