---------------------------- MODULE HealthThreads ----------------------------
(***************************************************************************)
(* The health manager (src/src/health/mod.rs) as its threads run it.       *)
(*                                                                         *)
(* record_success, record_failure and the filter of healthy_backends take  *)
(* no lock around their work: each is a sequence of single atomic loads,   *)
(* stores and fetch_adds on the fields of one BackendHealth, plus short    *)
(* critical sections on the mutex that guards ejected_until.  Request      *)
(* tasks, response-body hooks, the active checker and the startup pass     *)
(* call them concurrently, so here every one of those accesses is a step   *)
(* and the steps of different threads interleave in every order.           *)
(*                                                                         *)
(* Abstractions.  A counter is only ever compared with its threshold (>=)  *)
(* or stored to 0, so it saturates at the threshold.  An Instant in        *)
(* ejected_until is only compared with now, so it is "running" or          *)
(* "expired", and the clock is the action EjectionExpires.  Telemetry is   *)
(* written and never read back by these functions, and is left out.        *)
(***************************************************************************)
EXTENDS Naturals

CONSTANTS
    Backends,           \* keys of HealthManager::backend_health
    Threads,            \* tasks that may be inside the health manager at once
    FailureThreshold,   \* health_check.failure_threshold
    RecoveryThreshold   \* health_check.recovery_threshold

\* HealthCheckConfig::validate rejects a threshold of 0.
ASSUME ThresholdAssumption ==
    /\ FailureThreshold \in Nat \ {0}
    /\ RecoveryThreshold \in Nat \ {0}

VARIABLES
    healthy,                \* healthy[b]: AtomicBool
    consecutive_failures,   \* consecutive_failures[b]: AtomicUsize, saturating
    consecutive_successes,  \* consecutive_successes[b]: AtomicUsize, saturating
    ejected_until,          \* ejected_until[b]: Mutex<Option<Instant>>
    probing,                \* probing[b]: AtomicBool
    pc,                     \* pc[t]: the next access thread t makes
    at,                     \* at[t]: the backend of t's current or last call
    seen,                   \* seen[t]: the count t's fetch_add returned, plus 1
    verdict                 \* verdict[t]: what the filter last answered to t

state == <<healthy, consecutive_failures, consecutive_successes,
           ejected_until, probing>>
vars == <<healthy, consecutive_failures, consecutive_successes,
          ejected_until, probing, pc, at, seen, verdict>>

SuccessLabels == {"s_clear", "s_probing", "s_unprobe", "s_heal", "s_reset",
                  "s_count", "s_check"}
FailureLabels == {"f_clear", "f_probing", "f_unprobe", "f_count", "f_check",
                  "f_sicken", "f_reset", "f_eject"}
FilterLabels == {"h_ejected", "h_healthy", "h_probing"}
Labels == {"idle"} \cup SuccessLabels \cup FailureLabels \cup FilterLabels

Counts == 0 .. (FailureThreshold + RecoveryThreshold)

\* fetch_add(1) + 1 on a counter that is only compared with limit.
Bump(count, limit) == IF count < limit THEN count + 1 ELSE count

-----------------------------------------------------------------------------
\* Every backend starts as BackendHealth::healthy(), and no call is running.
Init ==
    /\ healthy = [b \in Backends |-> TRUE]
    /\ consecutive_failures = [b \in Backends |-> 0]
    /\ consecutive_successes = [b \in Backends |-> 0]
    /\ ejected_until = [b \in Backends |-> "none"]
    /\ probing = [b \in Backends |-> FALSE]
    /\ pc = [t \in Threads |-> "idle"]
    /\ at \in [Threads -> Backends]
    /\ seen = [t \in Threads |-> 0]
    /\ verdict = [t \in Threads |-> "none"]

\* Thread t, at label from, goes on to label to.
Goto(t, from, to) ==
    /\ pc[t] = from
    /\ pc' = [pc EXCEPT ![t] = to]

\* A task calls one of the three functions for some backend.
Call(t, entry) ==
    /\ Goto(t, "idle", entry)
    /\ \E b \in Backends : at' = [at EXCEPT ![t] = b]
    /\ verdict' = [verdict EXCEPT ![t] = "none"]
    /\ UNCHANGED <<state, seen>>

CallRecordSuccess(t) == Call(t, "s_clear")
CallRecordFailure(t) == Call(t, "f_clear")
CallFilter(t) == Call(t, "h_ejected")

-----------------------------------------------------------------------------
(* record_success *)

SuccessClears(t) ==
    /\ Goto(t, "s_clear", "s_probing")
    /\ consecutive_failures' = [consecutive_failures EXCEPT ![at[t]] = 0]
    /\ UNCHANGED <<healthy, consecutive_successes, ejected_until, probing,
                   at, seen, verdict>>

SuccessLoadsProbing(t) ==
    /\ Goto(t, "s_probing", IF probing[at[t]] THEN "s_unprobe" ELSE "s_count")
    /\ UNCHANGED <<state, at, seen, verdict>>

SuccessEndsProbe(t) ==
    /\ Goto(t, "s_unprobe", "s_heal")
    /\ probing' = [probing EXCEPT ![at[t]] = FALSE]
    /\ UNCHANGED <<healthy, consecutive_failures, consecutive_successes,
                   ejected_until, at, seen, verdict>>

SuccessCounts(t) ==
    /\ Goto(t, "s_count", "s_check")
    /\ LET count == Bump(consecutive_successes[at[t]], RecoveryThreshold)
       IN  /\ consecutive_successes' =
                 [consecutive_successes EXCEPT ![at[t]] = count]
           /\ seen' = [seen EXCEPT ![t] = count]
    /\ UNCHANGED <<healthy, consecutive_failures, ejected_until, probing,
                   at, verdict>>

SuccessChecks(t) ==
    /\ Goto(t, "s_check", IF ~healthy[at[t]] /\ seen[t] >= RecoveryThreshold
                          THEN "s_heal" ELSE "idle")
    /\ UNCHANGED <<state, at, seen, verdict>>

SuccessHeals(t) ==
    /\ Goto(t, "s_heal", "s_reset")
    /\ healthy' = [healthy EXCEPT ![at[t]] = TRUE]
    /\ UNCHANGED <<consecutive_failures, consecutive_successes, ejected_until,
                   probing, at, seen, verdict>>

SuccessResets(t) ==
    /\ Goto(t, "s_reset", "idle")
    /\ consecutive_successes' = [consecutive_successes EXCEPT ![at[t]] = 0]
    /\ UNCHANGED <<healthy, consecutive_failures, ejected_until, probing,
                   at, seen, verdict>>

-----------------------------------------------------------------------------
(* record_failure *)

FailureClears(t) ==
    /\ Goto(t, "f_clear", "f_probing")
    /\ consecutive_successes' = [consecutive_successes EXCEPT ![at[t]] = 0]
    /\ UNCHANGED <<healthy, consecutive_failures, ejected_until, probing,
                   at, seen, verdict>>

FailureLoadsProbing(t) ==
    /\ Goto(t, "f_probing", IF probing[at[t]] THEN "f_unprobe" ELSE "f_count")
    /\ UNCHANGED <<state, at, seen, verdict>>

\* Mutant: the failed probe falls through to the counting of failures.
FailureEndsProbeAndCounts(t) ==
    /\ Goto(t, "f_unprobe", "f_count")
    /\ probing' = [probing EXCEPT ![at[t]] = FALSE]
    /\ UNCHANGED <<healthy, consecutive_failures, consecutive_successes,
                   ejected_until, at, seen, verdict>>

FailureEndsProbe(t) ==
    /\ Goto(t, "f_unprobe", "f_eject")
    /\ probing' = [probing EXCEPT ![at[t]] = FALSE]
    /\ UNCHANGED <<healthy, consecutive_failures, consecutive_successes,
                   ejected_until, at, seen, verdict>>

FailureCounts(t) ==
    /\ Goto(t, "f_count", "f_check")
    /\ LET count == Bump(consecutive_failures[at[t]], FailureThreshold)
       IN  /\ consecutive_failures' =
                 [consecutive_failures EXCEPT ![at[t]] = count]
           /\ seen' = [seen EXCEPT ![t] = count]
    /\ UNCHANGED <<healthy, consecutive_successes, ejected_until, probing,
                   at, verdict>>

FailureChecks(t) ==
    /\ Goto(t, "f_check", IF healthy[at[t]] /\ seen[t] >= FailureThreshold
                          THEN "f_sicken" ELSE "idle")
    /\ UNCHANGED <<state, at, seen, verdict>>

FailureSickens(t) ==
    /\ Goto(t, "f_sicken", "f_reset")
    /\ healthy' = [healthy EXCEPT ![at[t]] = FALSE]
    /\ UNCHANGED <<consecutive_failures, consecutive_successes, ejected_until,
                   probing, at, seen, verdict>>

\* Mutant: the threshold branch marks the backend unhealthy and forgets to
\* eject it.
FailureResetsWithoutEjecting(t) ==
    /\ Goto(t, "f_reset", "idle")
    /\ consecutive_failures' = [consecutive_failures EXCEPT ![at[t]] = 0]
    /\ UNCHANGED <<healthy, consecutive_successes, ejected_until, probing,
                   at, seen, verdict>>

FailureResets(t) ==
    /\ Goto(t, "f_reset", "f_eject")
    /\ consecutive_failures' = [consecutive_failures EXCEPT ![at[t]] = 0]
    /\ UNCHANGED <<healthy, consecutive_successes, ejected_until, probing,
                   at, seen, verdict>>

\* eject_backend: one critical section on ejected_until.
FailureEjects(t) ==
    /\ Goto(t, "f_eject", "idle")
    /\ ejected_until' = [ejected_until EXCEPT ![at[t]] = "running"]
    /\ UNCHANGED <<healthy, consecutive_failures, consecutive_successes,
                   probing, at, seen, verdict>>

-----------------------------------------------------------------------------
(* The filter of healthy_backends; backend_statuses makes the same accesses *)
(* in the same order and combines them to the same answer.                  *)

\* Thread t's filter call answers and returns.
Answer(t, from, offered) ==
    /\ Goto(t, from, "idle")
    /\ verdict' = [verdict EXCEPT ![t] = IF offered THEN "offered" ELSE "refused"]
    /\ UNCHANGED <<state, at, seen>>

\* is_backend_ejected while the window runs: true.
FilterFindsEjected(t) ==
    /\ ejected_until[at[t]] = "running"
    /\ Answer(t, "h_ejected", FALSE)

\* is_backend_ejected after the window: the lock is held from the test to the
\* store of probing, and nobody reads ejected_until without it, so the two
\* writes are one step.
FilterEndsEjection(t) ==
    /\ Goto(t, "h_ejected", "h_healthy")
    /\ ejected_until[at[t]] = "expired"
    /\ ejected_until' = [ejected_until EXCEPT ![at[t]] = "none"]
    /\ probing' = [probing EXCEPT ![at[t]] = TRUE]
    /\ UNCHANGED <<healthy, consecutive_failures, consecutive_successes,
                   at, seen, verdict>>

FilterFindsNoEjection(t) ==
    /\ Goto(t, "h_ejected", "h_healthy")
    /\ ejected_until[at[t]] = "none"
    /\ UNCHANGED <<state, at, seen, verdict>>

\* Mutant: only the healthy flag is consulted, a half-open backend never is.
FilterLoadsOnlyHealthy(t) == Answer(t, "h_healthy", healthy[at[t]])

FilterLoadsHealthy(t) ==
    \/ /\ healthy[at[t]]
       /\ Answer(t, "h_healthy", TRUE)
    \/ /\ ~healthy[at[t]]
       /\ Goto(t, "h_healthy", "h_probing")
       /\ UNCHANGED <<state, at, seen, verdict>>

FilterLoadsProbing(t) == Answer(t, "h_probing", probing[at[t]])

-----------------------------------------------------------------------------
\* Instant::now() passes the end of b's ejection window.
EjectionExpires(b) ==
    /\ ejected_until[b] = "running"
    /\ ejected_until' = [ejected_until EXCEPT ![b] = "expired"]
    /\ UNCHANGED <<healthy, consecutive_failures, consecutive_successes,
                   probing, pc, at, seen, verdict>>

RecordSuccessStep(t) ==
    \/ SuccessClears(t)
    \/ SuccessLoadsProbing(t)
    \/ SuccessEndsProbe(t)
    \/ SuccessCounts(t)
    \/ SuccessChecks(t)
    \/ SuccessHeals(t)
    \/ SuccessResets(t)

RecordFailureStep(t) ==
    \/ FailureClears(t)
    \/ FailureLoadsProbing(t)
    \/ FailureEndsProbe(t)
    \/ FailureCounts(t)
    \/ FailureChecks(t)
    \/ FailureSickens(t)
    \/ FailureResets(t)
    \/ FailureEjects(t)

FilterStep(t) ==
    \/ FilterFindsEjected(t)
    \/ FilterEndsEjection(t)
    \/ FilterFindsNoEjection(t)
    \/ FilterLoadsHealthy(t)
    \/ FilterLoadsProbing(t)

\* The rest of a call that has begun.
Step(t) == RecordSuccessStep(t) \/ RecordFailureStep(t) \/ FilterStep(t)

Begin(t) == CallRecordSuccess(t) \/ CallRecordFailure(t) \/ CallFilter(t)

Next ==
    \/ \E t \in Threads : Begin(t) \/ Step(t)
    \/ \E b \in Backends : EjectionExpires(b)

\* A call that has begun runs on (nothing in it blocks or awaits), and the
\* clock runs.  Nothing makes a call begin.
Fairness ==
    /\ \A t \in Threads : WF_vars(Step(t))
    /\ \A b \in Backends : WF_vars(EjectionExpires(b))

Spec == Init /\ [][Next]_vars /\ Fairness

-----------------------------------------------------------------------------
\* Every variable keeps the type of the field or local it stands for.
TypeOK ==
    /\ healthy \in [Backends -> BOOLEAN]
    /\ consecutive_failures \in [Backends -> 0 .. FailureThreshold]
    /\ consecutive_successes \in [Backends -> 0 .. RecoveryThreshold]
    /\ ejected_until \in [Backends -> {"none", "running", "expired"}]
    /\ probing \in [Backends -> BOOLEAN]
    /\ pc \in [Threads -> Labels]
    /\ at \in [Threads -> Backends]
    /\ seen \in [Threads -> Counts]
    /\ verdict \in [Threads -> {"none", "offered", "refused"}]

\* Thread t is inside record_success or record_failure for b.
Recording(t, b) == at[t] = b /\ pc[t] \in SuccessLabels \cup FailureLabels

\* healthy_backends leaves b out, and no window runs whose end would bring it
\* back: only a run of RecoveryThreshold active checks could.
Stranded(b) == ~healthy[b] /\ ejected_until[b] = "none" /\ ~probing[b]

\* No interleaving of record_success, record_failure and the filter strands a
\* backend: whenever no record call on it is under way it is healthy, or an
\* ejection window is open (and its end makes it half-open), or it is
\* half-open.  Each of the three facts is cleared by a store of its own before
\* the next one is set, so this rests on the order of the stores.
NoLimbo ==
    \A b \in Backends :
        (\A t \in Threads : ~Recording(t, b)) => ~Stranded(b)

\* Thread t has cleared b's last claim to be offered and has the store that
\* makes up for it still to make.
OwesRepair(t, b) == at[t] = b /\ pc[t] \in {"s_heal", "f_reset", "f_eject"}

\* The inductive form of NoLimbo: a backend is stranded only while some thread
\* still owes it the store of healthy or the ejection.
StrandedIsOwed ==
    \A b \in Backends : Stranded(b) => \E t \in Threads : OwesRepair(t, b)

\* A filter call for b is about to make its first access.
Asks(t, b) == at[t] = b /\ pc[t] = "h_ejected"

\* Liveness.  A backend that stops failing and is asked for again and again is
\* offered again and again, whatever interleaving of calls ejected it: the
\* ejection window ends, the filter makes it half-open, and neither a success
\* nor another filter call takes that away for good.
Readmitted ==
    \A b \in Backends :
        (/\ []<>(\E t \in Threads : Asks(t, b))
         /\ <>[](\A t \in Threads : ~(at[t] = b /\ pc[t] \in FailureLabels)))
        => []<>(\E t \in Threads : at[t] = b /\ verdict[t] = "offered")

-----------------------------------------------------------------------------
(* Calls that do not overlap *)

Overlap(t, u) == t # u /\ at[t] = at[u] /\ pc[t] # "idle" /\ pc[u] # "idle"
NoOverlap == \A t, u \in Threads : ~Overlap(t, u)

\* Behaviours in which the calls for one backend come one after the other,
\* whatever happens to other backends meanwhile.
SerialSpec == Init /\ [][Next /\ NoOverlap']_vars

Record(b) ==
    [healthy |-> healthy[b],
     consecutive_failures |-> consecutive_failures[b],
     consecutive_successes |-> consecutive_successes[b],
     ejected_until |-> ejected_until[b],
     probing |-> probing[b]]

Whole == INSTANCE BackendHealth

\* What a call makes of its backend's record h from label on, where count is
\* what its fetch_add returned.
Rest(label, count, h) ==
    CASE label \in {"s_probing", "s_unprobe", "s_count"} -> Whole!RecordSuccess(h)
      [] \/ label = "s_heal"
         \/ label = "s_check" /\ ~h.healthy /\ count >= RecoveryThreshold
            -> Whole!Restore(h)
      [] label = "s_reset" -> [h EXCEPT !.consecutive_successes = 0]
      [] label \in {"f_probing", "f_unprobe", "f_count"} -> Whole!RecordFailure(h)
      [] \/ label = "f_sicken"
         \/ label = "f_check" /\ h.healthy /\ count >= FailureThreshold
            -> Whole!Eject([h EXCEPT !.healthy = FALSE, !.consecutive_failures = 0])
      [] label = "f_reset" -> Whole!Eject([h EXCEPT !.consecutive_failures = 0])
      [] label = "f_eject" -> Whole!Eject(h)
      [] OTHER -> h

\* The record of b as it will be when the call for b has returned.
Outcome(b) ==
    LET calls == {t \in Threads : at[t] = b /\ pc[t] # "idle"}
        call == CHOOSE t \in calls : TRUE
    IN  IF calls = {} THEN Record(b) ELSE Rest(pc[call], seen[call], Record(b))

Calls == INSTANCE HealthCalls WITH record <- [b \in Backends |-> Outcome(b)]

\* Refinement.  A call that no other call for the same backend overlaps acts as
\* one step of BackendHealth, though it is several accesses, the ejection window
\* can run out between them, and calls for other backends go on meanwhile.
CallsAreWhole == Calls!Spec
=============================================================================
