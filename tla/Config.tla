------------------------------- MODULE Config -------------------------------
(***************************************************************************)
(* From the file to the running server: main (src/src/main.rs),            *)
(* Config::load_from_file, Config::validate and ServerConfig::socket_addr  *)
(* (src/src/config/mod.rs), and what the rest of the proxy makes of an     *)
(* accepted configuration: the checks of the active checker                *)
(* (unique_backend_checks) and the route of a path (match_route).          *)
(*                                                                         *)
(* The sections are validated one after the other and the first refusal    *)
(* ends it; a loop over the routes takes one step per route.  Where a      *)
(* check looks at a value alone (a timeout of 0, a status below 100, an    *)
(* inverted range, an empty host or token) the configuration only says     *)
(* whether the value passes: bad is the set of those that do not.  The     *)
(* values that checks compare with each other, prefixes, backends and      *)
(* health endpoints, are kept.                                             *)
(***************************************************************************)
EXTENDS Router, FiniteSets

CONSTANTS
    Configs,            \* the configurations the file may hold
    UsableBackends,     \* the backends that parse as an http URL with a host
    AbsoluteEndpoints,  \* the endpoints that start with "/"
    NoOverride,         \* a route without a health_check_endpoint
    Paths               \* the paths of requests

VARIABLES
    config,                 \* the file, and what it holds if it is YAML
    section,                \* what is validated next, or the outcome
    route,                  \* the route the loop has come to
    seen_prefixes,          \* validate's HashSet
    endpoint_by_backend     \* the HashMap, as a set of pairs, one per backend

vars == <<config, section, route, seen_prefixes, endpoint_by_backend>>

\* The settings that ServerConfig, HealthCheckConfig, UpstreamConfig, RetryConfig
\* and DebugConfig check by themselves.  health_check.endpoint is one of
\* them, and is kept besides because the routes fall back on it.
ServerSettings ==
    {"port", "host", "graceful_shutdown_timeout_ms", "client_header_timeout_ms",
     "client_body_timeout_ms"}

HealthCheckSettings ==
    {"interval_sec", "check_timeout_ms", "failure_threshold", "recovery_threshold",
     "ejection_duration_ms", "active_success_status", "passive_failure_status"}

UpstreamSettings ==
    {"connect_timeout_ms", "read_timeout_ms", "max_request_body_bytes",
     "max_response_body_bytes", "max_buffered_bodies"}

RetrySettings == {"max_attempts", "total_timeout_ms", "retry_on_statuses"}

DebugSettings == {"auth_token"}

\* What serde_yaml makes of a file: the routes are a Vec and a prefix or a path is
\* a text; a value that does not pass is one of the settings that are checked.
ASSUME ConfigAssumption ==
    /\ \A c \in Configs :
         /\ c.bad \subseteq ServerSettings \cup HealthCheckSettings \cup UpstreamSettings
                              \cup RetrySettings \cup DebugSettings
         /\ c.routes \in Seq(Range(c.routes))
         /\ \A r \in Range(c.routes) : r.path_prefix \in Seq(Range(r.path_prefix))
    /\ \A path \in Paths : path \in Seq(Range(path))

Bad(settings) == config.bad \cap settings # {}

Init ==
    /\ config \in Configs
    /\ section = "file"
    /\ route = 1
    /\ seen_prefixes = {}
    /\ endpoint_by_backend = {}

-----------------------------------------------------------------------------
\* The end of one section: the next, or the refusal that ? returns.
Judge(ok, next) == section' = IF ok THEN next ELSE "rejected"

\* read_to_string and serde_yaml::from_str; main exits on a ConfigError.
LoadFromFile ==
    /\ section = "file"
    /\ Judge(config.file = "yaml", "server")
    /\ UNCHANGED <<config, route, seen_prefixes, endpoint_by_backend>>

ValidateServer ==
    /\ section = "server"
    /\ Judge(~Bad(ServerSettings) /\ config.routes # <<>>, "routes")
    /\ UNCHANGED <<config, route, seen_prefixes, endpoint_by_backend>>

\* RouteConfig::validate.
RouteIsValid(r) ==
    /\ r.path_prefix # <<>> /\ Head(r.path_prefix) = "/"
    /\ r.backends # <<>>
    /\ r.bad = {}
    /\ r.health_check_endpoint \in AbsoluteEndpoints \cup {NoOverride}
    /\ Range(r.backends) \subseteq UsableBackends

\* Mutant: a prefix is compared with that of the route before it only.
ValidateRouteByNeighbour ==
    /\ section = "routes"
    /\ LET r == config.routes[route]
       IN  /\ IF RouteIsValid(r) /\ r.path_prefix \notin seen_prefixes
              THEN IF route < Len(config.routes)
                   THEN route' = route + 1 /\ UNCHANGED section
                   ELSE route' = 1 /\ section' = "health_check"
              ELSE section' = "rejected" /\ UNCHANGED route
           /\ seen_prefixes' = {r.path_prefix}
    /\ UNCHANGED <<config, endpoint_by_backend>>

\* One turn of validate's loop over the routes.
ValidateRoute ==
    /\ section = "routes"
    /\ LET r == config.routes[route]
       IN  IF RouteIsValid(r) /\ r.path_prefix \notin seen_prefixes
           THEN /\ seen_prefixes' = seen_prefixes \cup {r.path_prefix}
                /\ IF route < Len(config.routes)
                   THEN route' = route + 1 /\ UNCHANGED section
                   ELSE route' = 1 /\ section' = "health_check"
           ELSE /\ section' = "rejected"
                /\ UNCHANGED <<route, seen_prefixes>>
    /\ UNCHANGED <<config, endpoint_by_backend>>

ValidateHealthCheck ==
    /\ section = "health_check"
    /\ Judge(~Bad(HealthCheckSettings) /\ config.endpoint \in AbsoluteEndpoints,
             "upstream")
    /\ UNCHANGED <<config, route, seen_prefixes, endpoint_by_backend>>

ValidateUpstream ==
    /\ section = "upstream"
    /\ Judge(~Bad(UpstreamSettings), "retry")
    /\ UNCHANGED <<config, route, seen_prefixes, endpoint_by_backend>>

\* Mutant: retry.validate()?  is the last line, the overrides are not looked at.
ValidateRetryLast ==
    /\ section = "retry"
    /\ Judge(~Bad(RetrySettings), "accepted")
    /\ UNCHANGED <<config, route, seen_prefixes, endpoint_by_backend>>

ValidateRetry ==
    /\ section = "retry"
    /\ Judge(~Bad(RetrySettings), "debug")
    /\ UNCHANGED <<config, route, seen_prefixes, endpoint_by_backend>>

ValidateDebug ==
    /\ section = "debug"
    /\ Judge(~Bad(DebugSettings), "overrides")
    /\ UNCHANGED <<config, route, seen_prefixes, endpoint_by_backend>>

\* The health endpoint that applies to r: its own or that of health_check.
EndpointOf(r) ==
    IF r.health_check_endpoint = NoOverride THEN config.endpoint
    ELSE r.health_check_endpoint

\* Mutant: the map is made anew for every route.
ValidateOverridesAlone ==
    /\ section = "overrides"
    /\ IF route < Len(config.routes)
       THEN route' = route + 1 /\ UNCHANGED section
       ELSE section' = "accepted" /\ UNCHANGED route
    /\ UNCHANGED <<config, seen_prefixes, endpoint_by_backend>>

\* One turn of the loop of validate_route_health_endpoint_overrides: every
\* backend of the route is inserted, and what insert gives back compared.
ValidateOverrides ==
    /\ section = "overrides"
    /\ LET r == config.routes[route]
           used == Range(r.backends)
           conflict == \E pair \in endpoint_by_backend :
                          pair[1] \in used /\ pair[2] # EndpointOf(r)
       IN  IF conflict
           THEN /\ section' = "rejected"
                /\ UNCHANGED <<route, endpoint_by_backend>>
           ELSE /\ endpoint_by_backend' =
                      endpoint_by_backend \cup {<<b, EndpointOf(r)>> : b \in used}
                /\ IF route < Len(config.routes)
                   THEN route' = route + 1 /\ UNCHANGED section
                   ELSE section' = "accepted" /\ UNCHANGED route
    /\ UNCHANGED <<config, seen_prefixes>>

\* server::run asks socket_addr for the address to bind: validate lets any
\* text pass for a host, and only an IP address (IPv6 in brackets) makes one.
SocketAddr ==
    /\ section = "accepted"
    /\ section' = IF config.host_is_address THEN "started" ELSE "no_address"
    /\ UNCHANGED <<config, route, seen_prefixes, endpoint_by_backend>>

Next ==
    \/ LoadFromFile
    \/ ValidateServer
    \/ ValidateRoute
    \/ ValidateHealthCheck
    \/ ValidateUpstream
    \/ ValidateRetry
    \/ ValidateDebug
    \/ ValidateOverrides
    \/ SocketAddr

Spec == Init /\ [][Next]_vars

-----------------------------------------------------------------------------
\* What the proxy makes of the configuration once it is accepted.

\* unique_backend_checks: the checks of one pass of the active checker.
UniqueBackendChecks ==
    UNION {{<<b, EndpointOf(r)>> : b \in Range(r.backends)} : r \in Range(config.routes)}

-----------------------------------------------------------------------------
\* An accepted configuration gives the active checker one check per backend.
\* With two, a pass would record a success and a failure for the same backend
\* each time and its consecutive counters would never reach a threshold.
OneCheckPerBackend ==
    section = "accepted" =>
        \A c, d \in UniqueBackendChecks : c[1] = d[1] => c[2] = d[2]

\* In an accepted configuration the order of the routes in the file does not
\* decide which one serves a path: read backwards, match_route picks the same.
RouteOrderIrrelevant ==
    section = "accepted" =>
        \A path \in Paths :
            LET forth == MatchRoute(path, config.routes)
                back  == MatchRoute(path, Reverse(config.routes))
            IN  back = IF forth = NoRoute THEN NoRoute
                       ELSE Len(config.routes) + 1 - forth

\* match_route works by whole segments: the route of a path is the one whose
\* prefix covers the most leading segments of it, and there is none only when
\* no prefix covers any.
RoutedBySegments ==
    section = "accepted" =>
        \A path \in Paths :
            LET chosen == MatchRoute(path, config.routes)
                covering == {i \in DOMAIN config.routes :
                                Covers(config.routes[i].path_prefix, path)}
                segments(i) == Cardinality(Starts(config.routes[i].path_prefix))
            IN  IF covering = {} THEN chosen = NoRoute
                ELSE /\ chosen \in covering
                     /\ \A i \in covering \ {chosen} : segments(i) < segments(chosen)

\* The configurations accepted are exactly the consistent ones: a file is
\* rejected only if it is no YAML, for a bad value, an empty or repeated prefix
\* or pool, or a backend that two routes want checked at different endpoints;
\* and every check is made whatever the sections before it hold.
VerdictExact ==
    section \in {"accepted", "rejected", "no_address", "started"} =>
        LET rs == config.routes
        IN  section # "rejected" <=>
              /\ config.file = "yaml"
              /\ config.bad = {}
              /\ config.endpoint \in AbsoluteEndpoints
              /\ rs # <<>>
              /\ \A i \in DOMAIN rs : RouteIsValid(rs[i])
              /\ \A i, j \in DOMAIN rs :
                    /\ rs[i].path_prefix = rs[j].path_prefix => i = j
                    /\ Range(rs[i].backends) \cap Range(rs[j].backends) # {} =>
                            EndpointOf(rs[i]) = EndpointOf(rs[j])
=============================================================================
