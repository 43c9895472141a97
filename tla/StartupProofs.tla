---------------------------- MODULE StartupProofs ----------------------------
(***************************************************************************)
(* Proofs about Startup, for any backends, routes and pools.               *)
(*                                                                         *)
(* NoFalseAbort holds because no pass ever records a failure for a backend *)
(* that is up: its record stays healthy, whatever the two passes and the   *)
(* expiry of other ejections do in between.  DeadPoolAborts needs a        *)
(* threshold of 1 and a window that outlasts the startup pass: then every  *)
(* dead backend that the pass has checked is ejected until the pools are   *)
(* judged.                                                                 *)
(***************************************************************************)
EXTENDS Startup, TLAPS

\* A counter that is bumped stays within its limit.
LEMMA BumpType ==
    ASSUME NEW limit \in Nat, NEW count \in 0 .. limit
    PROVE  Bump(count, limit) \in 0 .. limit
BY DEF Bump

\* A whole call of the health manager keeps a record's type.
LEMMA HealthType ==
    ASSUME NEW h \in Health
    PROVE  /\ RecordSuccess(h) \in Health
           /\ RecordFailure(h) \in Health
           /\ PollEjection(h) \in Health
           /\ Expire(h) \in Health
<1> USE DEF Health
<1>1. /\ Bump(h.consecutive_successes, RecoveryThreshold) \in 0 .. RecoveryThreshold
      /\ Bump(h.consecutive_failures, FailureThreshold) \in 0 .. FailureThreshold
      /\ 0 \in 0 .. RecoveryThreshold /\ 0 \in 0 .. FailureThreshold
  BY ThresholdAssumption, BumpType
<1>2. RecordSuccess(h) \in Health
  BY <1>1, Zenon DEF RecordSuccess, Restore
<1>3. RecordFailure(h) \in Health
  BY <1>1, Zenon DEF RecordFailure, Eject
<1>4. PollEjection(h) \in Health /\ Expire(h) \in Health
  BY Zenon DEF PollEjection, Expire
<1> QED
  BY <1>2, <1>3, <1>4

\* The checks of a pass are of backends, and there is at least one.
LEMMA ChecksOfBackends ==
    /\ \A check \in UniqueBackendChecks : check[1] \in Backends
    /\ UniqueBackendChecks # {}
<1>1. ASSUME NEW check \in UniqueBackendChecks PROVE check[1] \in Backends
  <2>1. PICK r \in Routes : \E b \in Pool[r] : check = <<b, Endpoint[r]>>
    BY <1>1 DEF UniqueBackendChecks
  <2> QED
    BY <2>1, StartupAssumption
<1>2. PICK r \in Routes : TRUE
  BY StartupAssumption
<1>3. PICK b \in Pool[r] : TRUE
  BY StartupAssumption
<1>4. <<b, Endpoint[r]>> \in UniqueBackendChecks
  BY DEF UniqueBackendChecks
<1> QED
  BY <1>1, <1>4

\* Startup, the two passes and the shutdown keep their types; the checker is in
\* a pass exactly while it has checks left to make.
THEOREM StartupTypeCorrect == Spec => []TypeOK
<1>1. Init => TypeOK
  <2>1. Fresh \in Health
    BY ThresholdAssumption DEF Fresh, Health
  <2> QED
    BY <2>1 DEF Init, TypeOK, Passes
<1>2. TypeOK /\ [Next]_vars => TypeOK'
  <2> SUFFICES ASSUME TypeOK, [Next]_vars PROVE TypeOK'
    OBVIOUS
  <2> USE DEF TypeOK, Passes
  <2>1. CASE Bind
    BY <2>1 DEF Bind
  <2>2. CASE BindFails
    BY <2>2 DEF BindFails
  <2>3. CASE JudgePools
    <3>1. health' \in [Backends -> Health]
      BY <2>3, HealthType DEF JudgePools
    <3> QED
      BY <2>3, <3>1 DEF JudgePools
  <2>4. CASE ShutdownSignal
    BY <2>4 DEF ShutdownSignal
  <2>5. ASSUME NEW p \in Passes, CheckBackend(p) PROVE TypeOK'
    <3>1. PICK check \in todo[p] :
            /\ health' = [health EXCEPT ![check[1]] =
                 IF up[check[1]] THEN RecordSuccess(@) ELSE RecordFailure(@)]
            /\ todo' = [todo EXCEPT ![p] = @ \ {check}]
            /\ checker' = IF p = "background" /\ todo'[p] = {}
                          THEN "between" ELSE checker
      BY <2>5 DEF CheckBackend
    <3>2. check[1] \in Backends
      BY ChecksOfBackends
    <3>3. health' \in [Backends -> Health]
      BY <3>1, <3>2, HealthType
    <3>4. /\ todo' \in [Passes -> SUBSET UniqueBackendChecks]
          /\ checker' \in {"between", "in_pass", "ended"}
          /\ checker' = "in_pass" <=> todo'["background"] # {}
      BY <3>1
    <3> QED
      BY <2>5, <3>3, <3>4 DEF CheckBackend
  <2>6. CASE BackgroundTick
    BY <2>6, ChecksOfBackends DEF BackgroundTick
  <2>7. CASE BackgroundStops
    BY <2>7 DEF BackgroundStops
  <2>8. ASSUME NEW b \in Backends, EjectionExpires(b) PROVE TypeOK'
    <3>1. health' \in [Backends -> Health]
      BY <2>8, HealthType DEF EjectionExpires
    <3> QED
      BY <2>8, <3>1 DEF EjectionExpires
  <2>9. CASE UNCHANGED vars
    BY <2>9 DEF vars
  <2> QED
    BY <2>1, <2>2, <2>3, <2>4, <2>5, <2>6, <2>7, <2>8, <2>9 DEF Next
<1> QED
  BY <1>1, <1>2, PTL DEF Spec

-----------------------------------------------------------------------------
(* No false abort *)

\* The record of a backend that is up has seen successes only.
UpIsOffered ==
    \A b \in Backends :
        up[b] => health[b].healthy /\ health[b].ejected_until = "none"

\* A success keeps a healthy record that is not ejected so, and so does a look
\* at it; such a record is offered.
LEMMA HealthyStays ==
    ASSUME NEW h \in Health, h.healthy, h.ejected_until = "none"
    PROVE  /\ RecordSuccess(h).healthy
           /\ RecordSuccess(h).ejected_until = "none"
           /\ PollEjection(h) = h
           /\ Offered(h)
<1>1. RecordSuccess(h).healthy /\ RecordSuccess(h).ejected_until = "none"
  BY Zenon DEF RecordSuccess, Restore, Health
<1> QED
  BY <1>1 DEF PollEjection, Offered, IsEjected

\* The proxy refuses to start only if a route has no backend that is up: no
\* interleaving of the startup pass with the checker's passes makes it abort
\* otherwise, for any thresholds and any length of the ejection window.
THEOREM NeverFalselyAborted == Spec => []NoFalseAbort
<1>1. Init => UpIsOffered /\ NoFalseAbort
  BY DEF Init, UpIsOffered, NoFalseAbort, Fresh
<1>2. TypeOK /\ UpIsOffered /\ NoFalseAbort /\ [Next]_vars
        => UpIsOffered' /\ NoFalseAbort'
  <2> SUFFICES ASSUME TypeOK, UpIsOffered, NoFalseAbort, [Next]_vars
               PROVE  UpIsOffered' /\ NoFalseAbort'
    OBVIOUS
  <2> USE DEF UpIsOffered, NoFalseAbort, TypeOK
  <2>1. CASE JudgePools
    <3> DEFINE polled == [b \in Backends |->
                            IF \E r \in Routes : b \in Pool[r]
                            THEN PollEjection(health[b]) ELSE health[b]]
    <3>1. ASSUME NEW b \in Backends, up[b]
          PROVE  polled[b] = health[b] /\ Offered(polled[b])
      BY <3>1, HealthyStays
    <3>2. health' = polled /\ up' = up
      BY <2>1 DEF JudgePools
    <3>3. UpIsOffered'
      BY <3>1, <3>2
    <3>4. ASSUME main' = "aborted"
          PROVE  \E r \in Routes : \A b \in Pool[r] : ~up[b]
      <4>1. PICK r \in Routes : \A b \in Pool[r] : ~Offered(polled[b])
        BY <2>1, <3>4 DEF JudgePools, StartupDeadPools
      <4> QED
        BY <3>1, <4>1, StartupAssumption
    <3> QED
      BY <3>2, <3>3, <3>4
  <2>2. ASSUME NEW p \in Passes, CheckBackend(p)
        PROVE  UpIsOffered' /\ NoFalseAbort'
    <3>1. PICK check \in todo[p] :
            health' = [health EXCEPT ![check[1]] =
                 IF up[check[1]] THEN RecordSuccess(@) ELSE RecordFailure(@)]
      BY <2>2 DEF CheckBackend
    <3>2. UNCHANGED <<main, up>>
      BY <2>2 DEF CheckBackend
    <3>3. ASSUME NEW b \in Backends, up[b]
          PROVE  health'[b] \in {health[b], RecordSuccess(health[b])}
      BY <3>1, <3>3
    <3> QED
      BY <3>2, <3>3, HealthyStays
  <2>3. ASSUME NEW b \in Backends, EjectionExpires(b)
        PROVE  UpIsOffered' /\ NoFalseAbort'
    BY <2>3 DEF EjectionExpires
  <2>4. CASE \/ Bind \/ BindFails \/ ShutdownSignal \/ BackgroundTick
             \/ BackgroundStops \/ UNCHANGED vars
    BY <2>4 DEF Bind, BindFails, ShutdownSignal, BackgroundTick, BackgroundStops, vars
  <2> QED
    BY <2>1, <2>2, <2>3, <2>4 DEF Next
<1> QED
  BY <1>1, <1>2, StartupTypeCorrect, PTL DEF Spec

-----------------------------------------------------------------------------
(* Dead pools abort *)

\* Not a failure yet, and ejected by the first one.
Untouched(h) == h.healthy /\ ~h.probing /\ h.ejected_until = "none"
Down(h) == ~h.healthy /\ ~h.probing /\ h.ejected_until = "running"

\* Until the pools are judged, the record of a backend that is down is
\* untouched or ejected, and ejected if the startup pass has checked it.
DeadIsDown ==
    main \in {"binding", "checking"} =>
        \A b \in Backends :
            ~up[b] => \/ Down(health[b])
                      \/ /\ Untouched(health[b])
                         /\ main = "checking" =>
                              \A check \in UniqueBackendChecks :
                                 check[1] = b => check \in todo["startup"]

\* At a threshold of 1 a failure ejects, and a further one changes nothing of it.
LEMMA FailureEjects ==
    ASSUME NEW h \in Health, FailureThreshold = 1, Untouched(h) \/ Down(h)
    PROVE  Down(RecordFailure(h))
<1>1. CASE Untouched(h)
  <2>1. h.healthy /\ ~h.probing /\ Bump(h.consecutive_failures, FailureThreshold) >= FailureThreshold
    BY <1>1 DEF Health, Untouched, Bump
  <2>2. RecordFailure(h) = Eject([[h EXCEPT !.consecutive_successes = 0]
                                    EXCEPT !.healthy = FALSE, !.consecutive_failures = 0])
    BY <2>1, Zenon DEF RecordFailure
  <2> QED
    BY <1>1, <2>2, Zenon DEF Eject, Health, Down, Untouched
<1>2. CASE Down(h)
  <2>1. RecordFailure(h) = [[h EXCEPT !.consecutive_successes = 0] EXCEPT
              !.consecutive_failures = Bump(h.consecutive_failures, FailureThreshold)]
    BY <1>2, Zenon DEF RecordFailure, Down
  <2> QED
    BY <1>2, <2>1, Zenon DEF Health, Down
<1> QED
  BY <1>1, <1>2

\* An ejected record is looked at without effect, and not offered.
LEMMA DownIsNotOffered ==
    ASSUME NEW h \in Health, Down(h)
    PROVE  PollEjection(h) = h /\ ~Offered(h)
BY DEF Down, PollEjection, Offered, IsEjected

\* With failure_threshold 1 and a window longer than the startup pass,
\* fail_on_startup_dead_pool keeps its word: the proxy that serves has a backend
\* that is up on every route, whatever the checker's own passes recorded
\* meanwhile.  At the default threshold it does not (see the run startup_threshold).
THEOREM DeadPoolsAbort ==
    ASSUME FailureThreshold = 1, WindowOutlastsStartup
    PROVE  Spec => []DeadPoolAborts
<1>1. Init => DeadIsDown /\ DeadPoolAborts
  BY DEF Init, DeadIsDown, DeadPoolAborts, Untouched, Fresh, Started
<1>2. TypeOK /\ DeadIsDown /\ DeadPoolAborts /\ [Next]_vars
        => DeadIsDown' /\ DeadPoolAborts'
  <2> SUFFICES ASSUME TypeOK, DeadIsDown, DeadPoolAborts, [Next]_vars
               PROVE  DeadIsDown' /\ DeadPoolAborts'
    OBVIOUS
  <2> USE DEF DeadPoolAborts, Started, TypeOK
  <2>1. CASE Bind
    BY <2>1 DEF Bind, DeadIsDown, Passes
  <2>2. CASE JudgePools
    <3> DEFINE polled == [b \in Backends |->
                            IF \E r \in Routes : b \in Pool[r]
                            THEN PollEjection(health[b]) ELSE health[b]]
    <3>1. main = "checking" /\ todo["startup"] = {} /\ up' = up
      BY <2>2 DEF JudgePools
    <3>2. DeadIsDown'
      BY <2>2 DEF JudgePools, DeadIsDown
    <3>3. ASSUME FailOnDeadPool, main' = "serving", NEW r \in Routes
          PROVE  \E b \in Pool[r] : up[b]
      <4>1. StartupDeadPools(polled) = {}
        BY <2>2, <3>3 DEF JudgePools
      <4>2. PICK b \in Pool[r] : Offered(polled[b])
        BY <4>1 DEF StartupDeadPools
      <4>3. b \in Backends
        BY StartupAssumption
      <4>4. <<b, Endpoint[r]>> \in UniqueBackendChecks
        BY DEF UniqueBackendChecks
      <4>5. ~up[b] => Down(health[b])
        BY <3>1, <4>3, <4>4 DEF DeadIsDown
      <4>6. polled[b] = PollEjection(health[b])
        BY <4>3
      <4> QED
        BY <4>2, <4>3, <4>5, <4>6, DownIsNotOffered
    <3>4. main' \in {"aborted", "serving"}
      BY <2>2 DEF JudgePools
    <3> QED
      BY <3>1, <3>2, <3>3, <3>4
  <2>3. ASSUME NEW p \in Passes, CheckBackend(p)
        PROVE  DeadIsDown' /\ DeadPoolAborts'
    <3>1. PICK check \in todo[p] :
            /\ health' = [health EXCEPT ![check[1]] =
                 IF up[check[1]] THEN RecordSuccess(@) ELSE RecordFailure(@)]
            /\ todo' = [todo EXCEPT ![p] = @ \ {check}]
      BY <2>3 DEF CheckBackend
    <3>2. UNCHANGED <<main, up>>
      BY <2>3 DEF CheckBackend
    <3>3. ASSUME main \in {"binding", "checking"}, NEW b \in Backends, ~up[b]
          PROVE  \/ Down(health'[b])
                 \/ health'[b] = health[b] /\ check[1] # b
      <4>1. CASE check[1] = b
        <5>1. health'[b] = RecordFailure(health[b])
          BY <3>1, <3>3, <4>1
        <5>2. Untouched(health[b]) \/ Down(health[b])
          BY <3>3 DEF DeadIsDown
        <5> QED
          BY <5>1, <5>2, FailureEjects
      <4>2. CASE check[1] # b
        BY <3>1, <4>2
      <4> QED
        BY <4>1, <4>2
    <3>4. ASSUME NEW c \in UniqueBackendChecks, c[1] # check[1], c \in todo["startup"]
          PROVE  c \in todo'["startup"]
      BY <3>1, <3>4 DEF Passes
    <3>5. DeadIsDown'
      BY <3>2, <3>3, <3>4 DEF DeadIsDown
    <3> QED
      BY <3>2, <3>5
  <2>4. CASE BackgroundTick
    BY <2>4 DEF BackgroundTick, DeadIsDown, Passes
  <2>5. ASSUME NEW b \in Backends, EjectionExpires(b)
        PROVE  DeadIsDown' /\ DeadPoolAborts'
    BY <2>5 DEF EjectionExpires, DeadIsDown
  <2>6. CASE BindFails \/ ShutdownSignal \/ BackgroundStops \/ UNCHANGED vars
    BY <2>6 DEF BindFails, ShutdownSignal, BackgroundStops, vars, DeadIsDown
  <2> QED
    BY <2>1, <2>2, <2>3, <2>4, <2>5, <2>6 DEF Next
<1> QED
  BY <1>1, <1>2, StartupTypeCorrect, PTL DEF Spec
=============================================================================
