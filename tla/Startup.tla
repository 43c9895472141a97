------------------------------ MODULE Startup -------------------------------
(***************************************************************************)
(* Startup and the active checker: run_with_shutdown_kind up to its accept *)
(* loop (src/src/server/mod.rs), run_startup_health_check (src/src/http)   *)
(* and spawn_active_checks (src/src/health).                               *)
(*                                                                         *)
(* The background checker is spawned before the startup pass and its first *)
(* tick is immediate, so two passes over the same backends run at once and *)
(* both feed record_success and record_failure.  A pass checks one backend *)
(* after the other; when the startup pass is over, startup_dead_pools asks *)
(* healthy_backends for each route and an empty answer may abort startup.  *)
(*                                                                         *)
(* What a check finds is fixed per backend: up[b] says that it answers its *)
(* health endpoint in time and with a success status.  The outcome of the  *)
(* await and the record call after it are one step: nothing else depends   *)
(* on when the answer was given.                                           *)
(***************************************************************************)
EXTENDS BackendHealth, FiniteSets

CONSTANTS
    Backends,
    Routes,
    Pool,                   \* Pool[r]: the backends of route r
    Endpoint,               \* Endpoint[r]: the health endpoint that applies to r
    FailOnDeadPool,         \* server.fail_on_startup_dead_pool
    WindowOutlastsStartup   \* health_check.ejection_duration_ms is longer than
                            \* the startup pass takes

\* Config::validate refuses a file without routes, RouteConfig::validate an empty
\* pool, and validate_route_health_endpoint_overrides two endpoints for a backend.
ASSUME StartupAssumption ==
    /\ Routes # {}
    /\ Pool \in [Routes -> SUBSET Backends]
    /\ \A r \in Routes : Pool[r] # {}
    /\ \A r, s \in Routes : Pool[r] \cap Pool[s] # {} => Endpoint[r] = Endpoint[s]
    /\ FailOnDeadPool \in BOOLEAN
    /\ WindowOutlastsStartup \in BOOLEAN

VARIABLES
    main,       \* where run_with_shutdown_kind is
    up,         \* up[b]: b passes its health checks
    health,     \* health[b]: b's BackendHealth
    todo,       \* todo[p]: the checks that pass p still has to make
    checker,    \* the background task: between passes, in one, or ended
    shutdown    \* the value in the watch channel

vars == <<main, up, health, todo, checker, shutdown>>

Passes == {"background", "startup"}

\* unique_backend_checks: a HashSet of (backend, endpoint), in no fixed order.
UniqueBackendChecks ==
    UNION {{<<b, Endpoint[r]>> : b \in Pool[r]} : r \in Routes}

Init ==
    /\ main = "binding"
    /\ up \in [Backends -> BOOLEAN]
    /\ health = [b \in Backends |-> Fresh]
    /\ todo = [p \in Passes |-> {}]
    /\ checker = "between"
    /\ shutdown = FALSE

-----------------------------------------------------------------------------
(* run_with_shutdown_kind *)

\* The listener is bound (the checker has been spawned before) and the startup
\* pass begins.
Bind ==
    /\ main = "binding"
    /\ main' = "checking"
    /\ todo' = [todo EXCEPT !["startup"] = UniqueBackendChecks]
    /\ UNCHANGED <<up, health, checker, shutdown>>

BindFails ==
    /\ main = "binding"
    /\ main' = "bind_failed"
    /\ UNCHANGED <<up, health, todo, checker, shutdown>>

\* Mutant: a route is dead as soon as one of its backends is not offered.
RoutesWithDeadBackend(polled) ==
    {r \in Routes : \E b \in Pool[r] : ~Offered(polled[b])}

\* Mutant: only a configuration whose routes are all dead is reported.
DeadPoolsIfAllDead(polled) ==
    IF \A b \in Backends : ~Offered(polled[b]) THEN Routes ELSE {}

\* startup_dead_pools, on records that healthy_backends has polled.
StartupDeadPools(polled) ==
    {r \in Routes : \A b \in Pool[r] : ~Offered(polled[b])}

\* The startup pass is over: run_startup_health_check judges the pools.
JudgePools ==
    /\ main = "checking"
    /\ todo["startup"] = {}
    /\ LET polled == [b \in Backends |->
                        IF \E r \in Routes : b \in Pool[r]
                        THEN PollEjection(health[b]) ELSE health[b]]
       IN  /\ health' = polled
           /\ main' = IF FailOnDeadPool /\ StartupDeadPools(polled) # {}
                      THEN "aborted" ELSE "serving"
    /\ UNCHANGED <<up, todo, checker, shutdown>>

\* The shutdown signal: shutdown_tx.send(true).
ShutdownSignal ==
    /\ main = "serving"
    /\ main' = "draining"
    /\ shutdown' = TRUE
    /\ UNCHANGED <<up, health, todo, checker>>

-----------------------------------------------------------------------------
(* The passes *)

\* Mutant: the end of the background pass does not return to the select!.
CheckBackendNeverReturns(p) ==
    /\ main \notin {"bind_failed", "aborted"}
    /\ \E check \in todo[p] :
        LET b == check[1]
        IN  /\ health' = [health EXCEPT ![b] =
                            IF up[b] THEN RecordSuccess(@) ELSE RecordFailure(@)]
            /\ todo' = [todo EXCEPT ![p] = @ \ {check}]
    /\ UNCHANGED <<main, up, checker, shutdown>>

\* The body of run_active_check_pass_with_client for one check of pass p.
CheckBackend(p) ==
    /\ main \notin {"bind_failed", "aborted"}
    /\ \E check \in todo[p] :
        LET b == check[1]
        IN  /\ health' = [health EXCEPT ![b] =
                            IF up[b] THEN RecordSuccess(@) ELSE RecordFailure(@)]
            /\ todo' = [todo EXCEPT ![p] = @ \ {check}]
            /\ checker' = IF p = "background" /\ todo'[p] = {}
                          THEN "between" ELSE checker
    /\ UNCHANGED <<main, up, shutdown>>

\* interval.tick(): a new pass.  The first tick is immediate, and a tick that
\* is overdue is as ready as the shutdown, so select! may take either.
BackgroundTick ==
    /\ main \notin {"bind_failed", "aborted"}
    /\ checker = "between"
    /\ checker' = "in_pass"
    /\ todo' = [todo EXCEPT !["background"] = UniqueBackendChecks]
    /\ UNCHANGED <<main, up, health, shutdown>>

\* Mutant: the change is noticed and the value not looked at.
BackgroundIgnoresShutdown ==
    /\ checker = "between"
    /\ shutdown
    /\ UNCHANGED vars

\* shutdown.changed(): noticed between two passes only.
BackgroundStops ==
    /\ checker = "between"
    /\ shutdown
    /\ checker' = "ended"
    /\ UNCHANGED <<main, up, health, todo, shutdown>>

EjectionExpires(b) ==
    /\ WindowOutlastsStartup => main \in {"serving", "draining"}
    /\ main \notin {"bind_failed", "aborted"}
    /\ health[b].ejected_until = "running"
    /\ health' = [health EXCEPT ![b] = Expire(@)]
    /\ UNCHANGED <<main, up, todo, checker, shutdown>>

-----------------------------------------------------------------------------
Next ==
    \/ Bind
    \/ BindFails
    \/ JudgePools
    \/ ShutdownSignal
    \/ \E p \in Passes : CheckBackend(p)
    \/ BackgroundTick
    \/ BackgroundStops
    \/ \E b \in Backends : EjectionExpires(b)

\* Every check ends (check_timeout), and select! picks among ready branches at
\* random, so the shutdown is not passed over for ever.
Fairness ==
    /\ WF_vars(CheckBackend("background"))
    /\ SF_vars(BackgroundStops)

Spec == Init /\ [][Next]_vars /\ Fairness

-----------------------------------------------------------------------------
\* Every variable keeps its type, and the checker is in a pass exactly while it
\* has checks left to make.
TypeOK ==
    /\ main \in {"binding", "bind_failed", "checking", "aborted", "serving",
                 "draining"}
    /\ up \in [Backends -> BOOLEAN]
    /\ health \in [Backends -> Health]
    /\ todo \in [Passes -> SUBSET UniqueBackendChecks]
    /\ checker \in {"between", "in_pass", "ended"}
    /\ checker = "in_pass" <=> todo["background"] # {}
    /\ shutdown \in BOOLEAN

\* The accept loop has been reached.
Started == main \in {"serving", "draining"}

\* With fail_on_startup_dead_pool, the proxy does not start serving when a
\* route has no reachable backend after the initial health check pass.
DeadPoolAborts ==
    FailOnDeadPool /\ Started =>
        \A r \in Routes : \E b \in Pool[r] : up[b]

\* The proxy refuses to start only if some route really has no reachable
\* backend: the two passes that run at once never talk it into that.
NoFalseAbort ==
    main = "aborted" => \E r \in Routes : \A b \in Pool[r] : ~up[b]

\* Liveness.  After the shutdown signal the checker ends, although it looks at
\* the signal only between two passes and an overdue tick competes with it.
CheckerStops == shutdown ~> (checker = "ended")
=============================================================================
