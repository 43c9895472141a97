---------------------------- MODULE BackendHealth ----------------------------
(***************************************************************************)
(* One backend's health record and what one whole call of the health       *)
(* manager does to it (src/src/health/mod.rs).  HealthThreads shows what   *)
(* becomes of these calls when their accesses interleave; the modules that *)
(* are about other things (startup, the request path) use them whole.      *)
(*                                                                         *)
(* The counters saturate at their thresholds and ejected_until is          *)
(* "running" or "expired" instead of an Instant, as in HealthThreads.      *)
(***************************************************************************)
EXTENDS Naturals

CONSTANTS
    FailureThreshold,   \* health_check.failure_threshold
    RecoveryThreshold   \* health_check.recovery_threshold

\* HealthCheckConfig::validate rejects a threshold of 0.
ASSUME ThresholdAssumption ==
    /\ FailureThreshold \in Nat \ {0}
    /\ RecoveryThreshold \in Nat \ {0}

Health == [healthy : BOOLEAN,
           consecutive_failures : 0 .. FailureThreshold,
           consecutive_successes : 0 .. RecoveryThreshold,
           ejected_until : {"none", "running", "expired"},
           probing : BOOLEAN]

\* BackendHealth::healthy().
Fresh == [healthy |-> TRUE, consecutive_failures |-> 0,
          consecutive_successes |-> 0, ejected_until |-> "none",
          probing |-> FALSE]

\* fetch_add(1) + 1 on a counter that is only compared with limit.
Bump(count, limit) == IF count < limit THEN count + 1 ELSE count

\* A success of a half-open backend, or the one that reaches the threshold.
Restore(h) == [h EXCEPT !.probing = FALSE, !.healthy = TRUE,
                        !.consecutive_successes = 0]

\* Mutant: the success of an ejected backend's late response restores it.
RecordSuccessEndsEjection(h) ==
    LET cleared == [h EXCEPT !.consecutive_failures = 0]
        successes == Bump(h.consecutive_successes, RecoveryThreshold)
    IN  IF h.probing \/ (~h.healthy /\ successes >= RecoveryThreshold)
        THEN [Restore(cleared) EXCEPT !.ejected_until = "none"]
        ELSE [cleared EXCEPT !.consecutive_successes = successes]

RecordSuccess(h) ==
    LET cleared == [h EXCEPT !.consecutive_failures = 0]
        successes == Bump(h.consecutive_successes, RecoveryThreshold)
    IN  IF h.probing \/ (~h.healthy /\ successes >= RecoveryThreshold)
        THEN Restore(cleared)
        ELSE [cleared EXCEPT !.consecutive_successes = successes]

\* eject_backend: the window starts anew.
Eject(h) == [h EXCEPT !.ejected_until = "running"]

\* Mutant: the failure of a probe closes the half-open window and does not
\* open an ejection window.
RecordFailureDropsProbe(h) ==
    LET cleared == [h EXCEPT !.consecutive_successes = 0]
        failures == Bump(h.consecutive_failures, FailureThreshold)
    IN  IF h.probing
        THEN [cleared EXCEPT !.probing = FALSE]
        ELSE IF h.healthy /\ failures >= FailureThreshold
        THEN Eject([cleared EXCEPT !.healthy = FALSE, !.consecutive_failures = 0])
        ELSE [cleared EXCEPT !.consecutive_failures = failures]

RecordFailure(h) ==
    LET cleared == [h EXCEPT !.consecutive_successes = 0]
        failures == Bump(h.consecutive_failures, FailureThreshold)
    IN  IF h.probing
        THEN Eject([cleared EXCEPT !.probing = FALSE])
        ELSE IF h.healthy /\ failures >= FailureThreshold
        THEN Eject([cleared EXCEPT !.healthy = FALSE, !.consecutive_failures = 0])
        ELSE [cleared EXCEPT !.consecutive_failures = failures]

\* The side effect of is_backend_ejected: a window that has run out makes the
\* backend half-open.
PollEjection(h) ==
    IF h.ejected_until = "expired"
    THEN [h EXCEPT !.ejected_until = "none", !.probing = TRUE]
    ELSE h

\* What is_backend_ejected answers.
IsEjected(h) == h.ejected_until = "running"

\* The filter of healthy_backends, on a record that has been polled.
Offered(h) == ~IsEjected(h) /\ (h.healthy \/ h.probing)

\* The clock passes the end of a running window.
Expire(h) == [h EXCEPT !.ejected_until = "expired"]

-----------------------------------------------------------------------------
(* The record as a circuit breaker (see CircuitBreaker) *)

CircuitState(h) ==
    CASE h.ejected_until # "none"                             -> "open"
      [] h.ejected_until = "none" /\ h.probing                -> "half_open"
      [] h.ejected_until = "none" /\ ~h.probing /\ h.healthy  -> "closed"
      [] OTHER                                                -> "stranded"

AsCircuit(h) ==
    [state |-> CircuitState(h),
     over |-> h.ejected_until = "expired",
     failures |-> IF CircuitState(h) = "closed" THEN h.consecutive_failures ELSE 0]
=============================================================================
