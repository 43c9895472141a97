---------------------------- MODULE ConfigProofs ----------------------------
(***************************************************************************)
(* Proofs about Config and Router, for every configuration: any number of  *)
(* routes, any prefixes, pools and endpoints.                              *)
(*                                                                         *)
(* ValidateInv is the inductive invariant of Config::validate: each        *)
(* section that has been passed is in order, the two loops have looked at  *)
(* the routes before the present one, and a refusal has a reason.  Routing *)
(* rests on what it gives: prefixes that match a path are beginnings of    *)
(* it, so two of one length are the same, and accepted routes share none;  *)
(* and a prefix that matches is made of the first segments of the path.    *)
(***************************************************************************)
EXTENDS Config, FiniteSetTheorems, SequenceTheorems, WellFoundedInduction, TLAPS

\* The sections that come after one another, and the outcomes that are not a
\* refusal.
Accepted == {"accepted", "no_address", "started"}
FromOverrides == {"overrides"} \cup Accepted
FromDebug == {"debug"} \cup FromOverrides
FromRetry == {"retry"} \cup FromDebug
FromUpstream == {"upstream"} \cup FromRetry
FromHealthCheck == {"health_check"} \cup FromUpstream
FromRoutes == {"routes"} \cup FromHealthCheck
FromServer == {"server"} \cup FromRoutes

\* The first n routes, each by itself, have prefixes of their own, and agree on
\* the endpoint of every backend they share.
Valid(n) == \A i \in 1 .. n : RouteIsValid(config.routes[i])

Distinct(n) ==
    \A i, j \in 1 .. n :
        config.routes[i].path_prefix = config.routes[j].path_prefix => i = j

Shared(i, j) == Range(config.routes[i].backends) \cap Range(config.routes[j].backends) # {}

Agree(n) ==
    \A i, j \in 1 .. n :
        Shared(i, j) => EndpointOf(config.routes[i]) = EndpointOf(config.routes[j])

\* What the two loops have collected from the first n routes.
PrefixesOf(n) == {config.routes[i].path_prefix : i \in 1 .. n}

EndpointsOf(n) ==
    UNION {{<<b, EndpointOf(config.routes[i])>> : b \in Range(config.routes[i].backends)} :
                i \in 1 .. n}

\* The configurations that are to be accepted.
Consistent ==
    LET n == Len(config.routes)
    IN  /\ config.file = "yaml"
        /\ config.bad = {}
        /\ config.endpoint \in AbsoluteEndpoints
        /\ config.routes # <<>>
        /\ Valid(n) /\ Distinct(n) /\ Agree(n)

\* The inductive invariant.
ValidateInv ==
    LET n == Len(config.routes)
    IN  /\ config \in Configs
        /\ section \in {"file", "rejected"} \cup FromServer
        /\ route \in Nat
        /\ section \in FromServer => config.file = "yaml"
        /\ section \in FromRoutes => ~Bad(ServerSettings) /\ config.routes # <<>>
        /\ section \in FromHealthCheck => Valid(n) /\ Distinct(n)
        /\ section \in FromUpstream =>
             ~Bad(HealthCheckSettings) /\ config.endpoint \in AbsoluteEndpoints
        /\ section \in FromRetry => ~Bad(UpstreamSettings)
        /\ section \in FromDebug => ~Bad(RetrySettings)
        /\ section \in FromOverrides => ~Bad(DebugSettings)
        /\ section \in Accepted => Agree(n)
        /\ section \in {"file", "server"} => seen_prefixes = {} /\ route = 1
        /\ section = "routes" =>
             /\ route \in 1 .. n
             /\ seen_prefixes = PrefixesOf(route - 1)
             /\ Valid(route - 1) /\ Distinct(route - 1)
        /\ section \in {"file"} \cup (FromServer \ FromOverrides) => endpoint_by_backend = {}
        /\ section \in FromHealthCheck \ FromOverrides => route = 1
        /\ section = "overrides" =>
             /\ route \in 1 .. n
             /\ endpoint_by_backend = EndpointsOf(route - 1)
             /\ Agree(route - 1)
        /\ section = "rejected" => ~Consistent

\* The two conditions of VerdictExact on pairs of routes, apart.
LEMMA VerdictMeans ==
    ASSUME config \in Configs
    PROVE  VerdictExact <=>
             (section \in {"accepted", "rejected", "no_address", "started"} =>
                (section # "rejected" <=> Consistent))
<1>1. DOMAIN config.routes = 1 .. Len(config.routes)
  BY ConfigAssumption
<1> QED
  BY <1>1 DEF VerdictExact, Consistent, Valid, Distinct, Agree, Shared

\* Config::validate keeps it.
LEMMA ValidateInOrder == Spec => []ValidateInv
<1> USE DEF Accepted, FromOverrides, FromDebug, FromRetry, FromUpstream, FromHealthCheck,
            FromRoutes, FromServer
<1>1. Init => ValidateInv
  BY DEF Init, ValidateInv
<1>2. ValidateInv /\ [Next]_vars => ValidateInv'
  <2> SUFFICES ASSUME ValidateInv, [Next]_vars PROVE ValidateInv'
    OBVIOUS
  <2> DEFINE n == Len(config.routes)
  <2>0. /\ config' = config
        /\ n \in Nat
        /\ config.routes # <<>> => 1 \in 1 .. n
        /\ Valid(0) /\ Distinct(0) /\ Agree(0) /\ PrefixesOf(0) = {} /\ EndpointsOf(0) = {}
    <3>1. config' = config
      BY DEF Next, vars, LoadFromFile, ValidateServer, ValidateRoute, ValidateHealthCheck,
             ValidateUpstream, ValidateRetry, ValidateDebug, ValidateOverrides, SocketAddr
    <3>2. n \in Nat /\ (config.routes # <<>> => 1 \in 1 .. n)
      <4>1. config.routes \in Seq(Range(config.routes))
        BY ConfigAssumption DEF ValidateInv
      <4> QED
        BY <4>1
    <3> QED
      BY <3>1, <3>2 DEF Valid, Distinct, Agree, PrefixesOf, EndpointsOf
  <2>1. \A m \in Nat : /\ Valid(m)' <=> Valid(m)
                       /\ Distinct(m)' <=> Distinct(m)
                       /\ Agree(m)' <=> Agree(m)
                       /\ PrefixesOf(m)' = PrefixesOf(m)
                       /\ EndpointsOf(m)' = EndpointsOf(m)
    BY <2>0 DEF Valid, Distinct, Agree, Shared, PrefixesOf, EndpointsOf, EndpointOf,
                RouteIsValid
  <2>2. Consistent' <=> Consistent
    BY <2>0, <2>1 DEF Consistent
  <2>3. \A settings : Bad(settings)' <=> Bad(settings)
    BY <2>0 DEF Bad
  <2>4. \A settings : Bad(settings) => ~Consistent
    BY DEF Bad, Consistent
  <2>5. CASE LoadFromFile
    BY <2>0, <2>1, <2>2, <2>3, <2>5 DEF LoadFromFile, Judge, ValidateInv, Consistent
  <2>6. CASE ValidateServer
    BY <2>0, <2>1, <2>2, <2>3, <2>4, <2>6 DEF ValidateServer, Judge, ValidateInv, Consistent
  <2>7. CASE ValidateRoute
    <3> DEFINE r == config.routes[route]
    <3>1. /\ section = "routes" /\ route \in 1 .. n /\ route - 1 \in Nat
          /\ seen_prefixes = PrefixesOf(route - 1)
          /\ Valid(route - 1) /\ Distinct(route - 1)
          /\ endpoint_by_backend' = {} /\ config.file = "yaml"
          /\ ~Bad(ServerSettings) /\ config.routes # <<>>
      BY <2>7 DEF ValidateRoute, ValidateInv
    <3>2. CASE RouteIsValid(r) /\ r.path_prefix \notin seen_prefixes
      <4>1. Valid(route)
        BY <3>1, <3>2 DEF Valid
      <4>2. Distinct(route)
        BY <3>1, <3>2 DEF Distinct, PrefixesOf
      <4>3. seen_prefixes \cup {r.path_prefix} = PrefixesOf(route)
        BY <3>1 DEF PrefixesOf
      <4>4. seen_prefixes' = PrefixesOf(route)
        BY <2>7, <3>2, <4>3 DEF ValidateRoute
      <4>5. CASE route < n
        <5>1. route' = route + 1 /\ section' = "routes" /\ (route + 1) - 1 = route
          BY <2>7, <3>1, <3>2, <4>5 DEF ValidateRoute
        <5> QED
          BY <2>0, <2>1, <2>3, <3>1, <4>1, <4>2, <4>4, <4>5, <5>1 DEF ValidateInv
      <4>6. CASE ~(route < n)
        <5>1. route' = 1 /\ section' = "health_check" /\ route = n
          BY <2>0, <2>7, <3>1, <3>2, <4>6 DEF ValidateRoute
        <5> QED
          BY <2>0, <2>1, <2>3, <3>1, <4>1, <4>2, <4>4, <5>1 DEF ValidateInv
      <4> QED
        BY <4>5, <4>6
    <3>3. CASE ~(RouteIsValid(r) /\ r.path_prefix \notin seen_prefixes)
      <4>1. section' = "rejected" /\ route' = route
        BY <2>7, <3>3 DEF ValidateRoute
      <4>2. ~(Valid(n) /\ Distinct(n))
        <5>1. CASE ~RouteIsValid(r)
          BY <3>1, <5>1 DEF Valid
        <5>2. CASE r.path_prefix \in seen_prefixes
          <6>1. PICK i \in 1 .. route - 1 : config.routes[i].path_prefix = r.path_prefix
            BY <3>1, <5>2 DEF PrefixesOf
          <6> QED
            BY <2>0, <3>1, <6>1 DEF Distinct
        <5> QED
          BY <3>3, <5>1, <5>2
      <4>3. ~Consistent
        BY <4>2 DEF Consistent
      <4> QED
        BY <2>0, <2>2, <3>1, <4>1, <4>3 DEF ValidateInv
    <3> QED
      BY <3>2, <3>3
  <2>8. CASE ValidateHealthCheck
    BY <2>0, <2>1, <2>2, <2>3, <2>4, <2>8
    DEF ValidateHealthCheck, Judge, ValidateInv, Consistent
  <2>9. CASE ValidateUpstream
    BY <2>0, <2>1, <2>2, <2>3, <2>4, <2>9 DEF ValidateUpstream, Judge, ValidateInv
  <2>10. CASE ValidateRetry
    BY <2>0, <2>1, <2>2, <2>3, <2>4, <2>10 DEF ValidateRetry, Judge, ValidateInv
  <2>11. CASE ValidateDebug
    BY <2>0, <2>1, <2>2, <2>3, <2>4, <2>11 DEF ValidateDebug, Judge, ValidateInv
  <2>12. CASE ValidateOverrides
    <3> DEFINE r == config.routes[route]
               used == Range(r.backends)
               conflict == \E pair \in endpoint_by_backend :
                              pair[1] \in used /\ pair[2] # EndpointOf(r)
    <3>1. /\ section = "overrides" /\ route \in 1 .. n /\ route - 1 \in Nat
          /\ endpoint_by_backend = EndpointsOf(route - 1)
          /\ Agree(route - 1)
      BY <2>12 DEF ValidateOverrides, ValidateInv
    <3>2. conflict <=> \E i \in 1 .. route - 1 :
                          Shared(i, route) /\ EndpointOf(config.routes[i]) # EndpointOf(r)
      <4>1. ASSUME NEW pair \in endpoint_by_backend, pair[1] \in used, pair[2] # EndpointOf(r)
            PROVE  \E i \in 1 .. route - 1 :
                      Shared(i, route) /\ EndpointOf(config.routes[i]) # EndpointOf(r)
        <5>1. PICK i \in 1 .. route - 1 :
                \E b \in Range(config.routes[i].backends) :
                    pair = <<b, EndpointOf(config.routes[i])>>
          BY <3>1, <4>1 DEF EndpointsOf
        <5> QED
          BY <4>1, <5>1 DEF Shared
      <4>2. ASSUME NEW i \in 1 .. route - 1, Shared(i, route),
                   EndpointOf(config.routes[i]) # EndpointOf(r)
            PROVE  conflict
        <5>1. PICK b \in Range(config.routes[i].backends) : b \in used
          BY <4>2 DEF Shared
        <5> DEFINE pair == <<b, EndpointOf(config.routes[i])>>
        <5>2. pair \in endpoint_by_backend
          BY <3>1, <5>1 DEF EndpointsOf
        <5>3. pair[1] = b /\ pair[2] = EndpointOf(config.routes[i])
          OBVIOUS
        <5> HIDE DEF pair
        <5> QED
          BY <4>2, <5>1, <5>2, <5>3
      <4> QED
        BY <4>1, <4>2
    <3>3. CASE conflict
      <4>1. section' = "rejected" /\ route' = route
        BY <2>12, <3>3 DEF ValidateOverrides
      <4>2. ~Agree(n)
        <5>1. PICK i \in 1 .. route - 1 :
                Shared(i, route) /\ EndpointOf(config.routes[i]) # EndpointOf(r)
          BY <3>2, <3>3
        <5> QED
          BY <2>0, <3>1, <5>1 DEF Agree
      <4>3. ~Consistent
        BY <4>2 DEF Consistent
      <4> QED
        BY <2>0, <2>2, <4>1, <4>3 DEF ValidateInv
    <3>4. CASE ~conflict
      <4>1. Agree(route)
        <5> SUFFICES ASSUME NEW i \in 1 .. route, NEW j \in 1 .. route, Shared(i, j)
                     PROVE  EndpointOf(config.routes[i]) = EndpointOf(config.routes[j])
          BY DEF Agree
        <5>1. Shared(j, i)
          BY DEF Shared
        <5>2. CASE i = route /\ j = route
          BY <5>2
        <5>3. CASE i # route /\ j # route
          <6>1. i \in 1 .. route - 1 /\ j \in 1 .. route - 1
            BY <3>1, <5>3
          <6> QED
            BY <3>1, <6>1 DEF Agree
        <5>4. CASE i = route /\ j # route
          <6>1. j \in 1 .. route - 1
            BY <3>1, <5>4
          <6> QED
            BY <3>2, <3>4, <5>1, <5>4, <6>1
        <5>5. CASE i # route /\ j = route
          <6>1. i \in 1 .. route - 1
            BY <3>1, <5>5
          <6> QED
            BY <3>2, <3>4, <5>5, <6>1
        <5> QED
          BY <5>2, <5>3, <5>4, <5>5
      <4>2. endpoint_by_backend' = EndpointsOf(route)
        <5>1. endpoint_by_backend' = endpoint_by_backend \cup {<<b, EndpointOf(r)>> : b \in used}
          BY <2>12, <3>4 DEF ValidateOverrides
        <5> QED
          BY <3>1, <5>1 DEF EndpointsOf
      <4>3. CASE route < n
        <5>1. route' = route + 1 /\ section' = "overrides" /\ (route + 1) - 1 = route
          BY <2>12, <3>1, <3>4, <4>3 DEF ValidateOverrides
        <5> QED
          BY <2>0, <2>1, <2>3, <3>1, <4>1, <4>2, <4>3, <5>1 DEF ValidateInv
      <4>4. CASE ~(route < n)
        <5>1. route' = route /\ section' = "accepted" /\ route = n
          BY <2>0, <2>12, <3>1, <3>4, <4>4 DEF ValidateOverrides
        <5> QED
          BY <2>0, <2>1, <2>3, <3>1, <4>1, <5>1 DEF ValidateInv
      <4> QED
        BY <4>3, <4>4
    <3> QED
      BY <3>3, <3>4
  <2>13. CASE SocketAddr
    BY <2>0, <2>1, <2>3, <2>13 DEF SocketAddr, ValidateInv
  <2>14. CASE UNCHANGED vars
    BY <2>0, <2>1, <2>2, <2>3, <2>14 DEF vars, ValidateInv
  <2> QED
    BY <2>5, <2>6, <2>7, <2>8, <2>9, <2>10, <2>11, <2>12, <2>13, <2>14 DEF Next
<1> QED
  BY <1>1, <1>2, PTL DEF Spec

\* Whatever order Config::validate looks at the parts in, what it accepts is exactly
\* the consistent configurations.
THEOREM VerdictAlwaysExact == Spec => []VerdictExact
<1>1. ValidateInv => VerdictExact
  <2> SUFFICES ASSUME ValidateInv PROVE VerdictExact
    OBVIOUS
  <2>1. config \in Configs
    BY DEF ValidateInv
  <2>2. ASSUME section \in Accepted PROVE Consistent
    <3>1. config.bad = {}
      BY <2>1, <2>2, ConfigAssumption
      DEF ValidateInv, Bad, Accepted, FromOverrides, FromDebug, FromRetry, FromUpstream,
          FromHealthCheck, FromRoutes
    <3> QED
      BY <2>2, <3>1
      DEF ValidateInv, Consistent, Accepted, FromOverrides, FromDebug, FromRetry,
          FromUpstream, FromHealthCheck, FromRoutes, FromServer
  <2>3. section = "rejected" => ~Consistent
    BY DEF ValidateInv
  <2> QED
    BY <2>1, <2>2, <2>3, VerdictMeans DEF Accepted
<1> QED
  BY <1>1, ValidateInOrder, PTL

\* The active checker never gets two checks for one backend from a configuration
\* that validate_route_health_endpoint_overrides has let pass.
THEOREM OneCheckAlways == Spec => []OneCheckPerBackend
<1>1. ValidateInv => OneCheckPerBackend
  <2> SUFFICES ASSUME ValidateInv, section = "accepted",
                      NEW c \in UniqueBackendChecks, NEW d \in UniqueBackendChecks,
                      c[1] = d[1]
               PROVE  c[2] = d[2]
    BY DEF OneCheckPerBackend
  <2>1. DOMAIN config.routes = 1 .. Len(config.routes) /\ Agree(Len(config.routes))
    BY ConfigAssumption DEF ValidateInv, Accepted
  <2>2. ASSUME NEW e \in UniqueBackendChecks
        PROVE  \E i \in 1 .. Len(config.routes) :
                 /\ e[1] \in Range(config.routes[i].backends)
                 /\ e[2] = EndpointOf(config.routes[i])
    BY <2>1 DEF UniqueBackendChecks, Range
  <2>3. PICK i \in 1 .. Len(config.routes) :
          c[1] \in Range(config.routes[i].backends) /\ c[2] = EndpointOf(config.routes[i])
    BY <2>2
  <2>4. PICK j \in 1 .. Len(config.routes) :
          d[1] \in Range(config.routes[j].backends) /\ d[2] = EndpointOf(config.routes[j])
    BY <2>2
  <2> QED
    BY <2>1, <2>3, <2>4 DEF Agree, Shared
<1> QED
  BY <1>1, ValidateInOrder, PTL

-----------------------------------------------------------------------------
(* Routing *)

\* A set of natural numbers that is not empty has a least element.
LEMMA LeastNat ==
    ASSUME NEW S \in SUBSET Nat, S # {}
    PROVE  \E n \in S : \A m \in S : n <= m
<1>1. PICK n \in S : \A m \in S : ~(<<m, n>> \in OpToRel(<, Nat))
  BY NatLessThanWellFounded, WFMin
<1>2. ASSUME NEW m \in S, m < n PROVE FALSE
  BY <1>1, <1>2 DEF OpToRel
<1> QED
  BY <1>2

\* prefix is the beginning of path, and path ends there or goes on with a slash.
Leads(prefix, path) ==
    /\ Len(prefix) <= Len(path)
    /\ \A i \in 1 .. Len(prefix) : prefix[i] = path[i]
    /\ Len(prefix) < Len(path) => path[Len(prefix) + 1] = "/"

\* That is what path == p || path.starts_with("{p}/") comes to.
LEMMA MatchesLeads ==
    ASSUME NEW path, path \in Seq(Range(path)), NEW prefix, prefix \in Seq(Range(prefix))
    PROVE  Matches(path, prefix) <=> Leads(prefix, path)
<1> DEFINE S == Range(prefix) \cup {"/"}
           n == Len(prefix)
           long == Append(prefix, "/")
<1>1. prefix \in Seq(S)
  BY DEF Range
<1> HIDE DEF S
<1>2. /\ long \in Seq(S \cup {"/"}) /\ Len(long) = n + 1
      /\ \A i \in 1 .. n : long[i] = prefix[i]
      /\ long[n + 1] = "/"
      /\ n \in Nat /\ Len(path) \in Nat
      /\ DOMAIN prefix = 1 .. n /\ DOMAIN path = 1 .. Len(path)
  BY <1>1
<1>3. IsPrefix(long, path) <=>
        n + 1 <= Len(path) /\ SubSeq(long, 1, n + 1) = SubSeq(path, 1, n + 1)
  BY <1>2 DEF IsPrefix
<1>4. SubSeq(long, 1, n + 1) = long
  <2> HIDE DEF long, n
  <2> QED
    BY <1>2
<1> HIDE DEF long
<1>5. ASSUME n + 1 <= Len(path)
      PROVE  /\ Len(SubSeq(path, 1, n + 1)) = n + 1
             /\ DOMAIN SubSeq(path, 1, n + 1) = 1 .. n + 1
             /\ \A i \in 1 .. n + 1 : SubSeq(path, 1, n + 1)[i] = path[i]
  <2> HIDE DEF n
  <2> QED
    BY <1>2, <1>5
<1>6. ASSUME path = prefix PROVE Leads(prefix, path)
  BY <1>2, <1>6 DEF Leads
<1>7. ASSUME IsPrefix(long, path) PROVE Leads(prefix, path)
  <2>1. n + 1 <= Len(path) /\ long = SubSeq(path, 1, n + 1)
    BY <1>3, <1>4, <1>7
  <2>2. \A i \in 1 .. n + 1 : long[i] = path[i]
    BY <1>5, <2>1
  <2>3. \A i \in 1 .. n : i \in 1 .. n + 1
    BY <1>2
  <2>4. path[n + 1] = "/" /\ n <= Len(path)
    BY <1>2, <2>1, <2>2
  <2> QED
    BY <1>2, <2>2, <2>3, <2>4 DEF Leads
<1>8. ASSUME Leads(prefix, path), n = Len(path) PROVE path = prefix
  <2>1. \A i \in 1 .. n : prefix[i] = path[i]
    BY <1>8 DEF Leads
  <2>2. prefix = [i \in 1 .. n |-> prefix[i]] /\ path = [i \in 1 .. n |-> path[i]]
    BY <1>2, <1>8
  <2> QED
    BY <2>1, <2>2
<1>9. ASSUME Leads(prefix, path), n < Len(path) PROVE IsPrefix(long, path)
  <2> DEFINE start == SubSeq(path, 1, n + 1)
  <2>1. n + 1 <= Len(path)
    BY <1>2, <1>9
  <2>2. DOMAIN start = 1 .. n + 1 /\ \A i \in 1 .. n + 1 : start[i] = path[i]
    BY <1>5, <2>1
  <2>3. \A i \in 1 .. n + 1 : long[i] = path[i]
    <3>1. \A i \in 1 .. n + 1 : i \in 1 .. n \/ i = n + 1
      BY <1>2
    <3> QED
      BY <1>2, <1>9, <3>1 DEF Leads
  <2>4. long = [i \in 1 .. n + 1 |-> long[i]] /\ start = [i \in 1 .. n + 1 |-> start[i]]
    <3>1. DOMAIN long = 1 .. n + 1
      BY <1>2
    <3>2. long = [i \in DOMAIN long |-> long[i]]
      BY <1>2
    <3>3. start = [i \in DOMAIN start |-> start[i]]
      BY <1>2, <2>1
    <3> QED
      BY <2>2, <3>1, <3>2, <3>3
  <2>5. long = start
    <3> HIDE DEF start
    <3> QED
      BY <2>2, <2>3, <2>4
  <2> QED
    BY <1>3, <1>4, <2>1, <2>5
<1>10. Leads(prefix, path) => n = Len(path) \/ n < Len(path)
  <2> SUFFICES ASSUME Leads(prefix, path) PROVE n = Len(path) \/ n < Len(path)
    OBVIOUS
  <2>1. n <= Len(path)
    BY DEF Leads
  <2>2. n \in Nat /\ Len(path) \in Nat
    BY <1>2
  <2> HIDE DEF n
  <2> QED
    BY <2>1, <2>2
<1> QED
  BY <1>6, <1>7, <1>8, <1>9, <1>10 DEF Matches, long

\* A prefix that matches a path is the beginning of it.
LEMMA MatchBegins ==
    ASSUME NEW path, path \in Seq(Range(path)),
           NEW prefix, prefix \in Seq(Range(prefix)), Matches(path, prefix)
    PROVE  /\ Len(prefix) \in Nat /\ Len(path) \in Nat /\ Len(prefix) <= Len(path)
           /\ \A i \in 1 .. Len(prefix) : prefix[i] = path[i]
<1>1. Leads(prefix, path)
  BY MatchesLeads
<1> QED
  BY <1>1 DEF Leads

\* Of one length, only one prefix matches a path.
LEMMA OneOfALength ==
    ASSUME NEW path, path \in Seq(Range(path)),
           NEW p, p \in Seq(Range(p)), Matches(path, p),
           NEW q, q \in Seq(Range(q)), Matches(path, q),
           Len(p) = Len(q)
    PROVE  p = q
<1>1. \A i \in 1 .. Len(p) : p[i] = q[i]
  <2>1. \A i \in 1 .. Len(p) : p[i] = path[i]
    BY MatchBegins
  <2>2. \A i \in 1 .. Len(q) : q[i] = path[i]
    BY MatchBegins
  <2> QED
    BY <2>1, <2>2
<1>2. DOMAIN p = 1 .. Len(p) /\ DOMAIN q = 1 .. Len(p)
  OBVIOUS
<1>3. p = [i \in 1 .. Len(p) |-> p[i]] /\ q = [i \in 1 .. Len(p) |-> q[i]]
  BY <1>2
<1> QED
  BY <1>1, <1>3

\* Routes as validate accepts them.
Routable(routes) ==
    /\ routes \in Seq(Range(routes))
    /\ \A i \in DOMAIN routes : routes[i].path_prefix \in Seq(Range(routes[i].path_prefix))
    /\ \A i, j \in DOMAIN routes : routes[i].path_prefix = routes[j].path_prefix => i = j

\* i is the route of path: no other that matches has a prefix as long.
Longest(path, routes, i) ==
    /\ i \in DOMAIN routes
    /\ Matches(path, routes[i].path_prefix)
    /\ \A j \in DOMAIN routes : Matches(path, routes[j].path_prefix) =>
          Len(routes[j].path_prefix) <= Len(routes[i].path_prefix)

\* match_route returns the longest match; max_by_key has no tie to break.
LEMMA MatchChooses ==
    ASSUME NEW path, path \in Seq(Range(path)), NEW routes, Routable(routes),
           NEW i, Longest(path, routes, i)
    PROVE  MatchRoute(path, routes) = i
<1> DEFINE matching == {j \in DOMAIN routes : Matches(path, routes[j].path_prefix)}
           longest == {j \in matching : \A k \in matching :
                         Len(routes[k].path_prefix) <= Len(routes[j].path_prefix)}
<1>1. i \in longest /\ matching # {}
  BY DEF Longest
<1>2. ASSUME NEW j \in longest PROVE j = i
  <2>1. /\ routes[i].path_prefix \in Seq(Range(routes[i].path_prefix))
        /\ routes[j].path_prefix \in Seq(Range(routes[j].path_prefix))
        /\ Matches(path, routes[i].path_prefix) /\ Matches(path, routes[j].path_prefix)
    BY <1>1, <1>2 DEF Routable
  <2>2. Len(routes[i].path_prefix) \in Nat /\ Len(routes[j].path_prefix) \in Nat
    BY <2>1
  <2>3. Len(routes[i].path_prefix) = Len(routes[j].path_prefix)
    BY <1>1, <1>2, <2>2
  <2>4. routes[i].path_prefix = routes[j].path_prefix
    BY <2>1, <2>3, OneOfALength
  <2> QED
    BY <1>1, <1>2, <2>4 DEF Routable
<1>3. longest = {i}
  BY <1>1, <1>2
<1>4. i \in Nat
  BY <1>1 DEF Routable
<1>5. Max({i}) = i
  BY <1>4 DEF Max
<1>6. MatchRoute(path, routes) = IF matching = {} THEN NoRoute ELSE Max(longest)
  BY DEF MatchRoute
<1> QED
  BY <1>1, <1>3, <1>5, <1>6

\* A path that some route matches has a longest one.
LEMMA LongestExists ==
    ASSUME NEW path, path \in Seq(Range(path)), NEW routes, Routable(routes),
           NEW j \in DOMAIN routes, Matches(path, routes[j].path_prefix)
    PROVE  \E i : Longest(path, routes, i)
<1> DEFINE matching == {i \in DOMAIN routes : Matches(path, routes[i].path_prefix)}
           rest(i) == Len(path) - Len(routes[i].path_prefix)
           R == {rest(i) : i \in matching}
<1>1. \A i \in matching :
        /\ Len(routes[i].path_prefix) \in Nat /\ Len(path) \in Nat
        /\ Len(routes[i].path_prefix) <= Len(path)
  BY MatchBegins DEF Routable
<1>2. R \in SUBSET Nat /\ R # {}
  BY <1>1
<1>3. PICK m \in R : \A k \in R : m <= k
  <2> HIDE DEF R
  <2> QED
    BY <1>2, LeastNat
<1>4. PICK i \in matching : m = rest(i)
  OBVIOUS
<1>5. ASSUME NEW k \in matching
      PROVE  Len(routes[k].path_prefix) <= Len(routes[i].path_prefix)
  <2>1. rest(i) <= rest(k)
    BY <1>3, <1>4
  <2> QED
    BY <1>1, <2>1
<1>6. Longest(path, routes, i)
  BY <1>5 DEF Longest
<1> QED
  BY <1>6

\* validate accepts only routes that are told apart by their prefixes.
LEMMA AcceptedRoutable ==
    ASSUME ValidateInv, section = "accepted"
    PROVE  Routable(config.routes)
<1> DEFINE rs == config.routes
           n == Len(rs)
<1>1. /\ rs \in Seq(Range(rs))
      /\ \A r \in Range(rs) : r.path_prefix \in Seq(Range(r.path_prefix))
  BY ConfigAssumption DEF ValidateInv
<1>2. n \in Nat /\ DOMAIN rs = 1 .. n
  BY <1>1
<1>3. \A i \in 1 .. n : rs[i] \in Range(rs)
  BY <1>2 DEF Range
<1>4. \A i, j \in 1 .. n : rs[i].path_prefix = rs[j].path_prefix => i = j
  BY DEF ValidateInv, Distinct, Accepted, FromOverrides, FromDebug, FromRetry,
         FromUpstream, FromHealthCheck
<1> QED
  BY <1>1, <1>2, <1>3, <1>4 DEF Routable

-----------------------------------------------------------------------------
(* Segments *)

\* A segment begins at the start of a path or after a slash.
LEMMA StartsWithin ==
    ASSUME NEW p, p \in Seq(Range(p)), NEW s \in Starts(p)
    PROVE  /\ s \in 1 .. Len(p) + 1
           /\ s = 1 \/ (s - 1 \in 1 .. Len(p) /\ p[s - 1] = "/")
BY DEF Starts

\* Every segment ends, at a slash or at the end of the path, and not before it
\* begins.
LEMMA EndOf ==
    ASSUME NEW p, p \in Seq(Range(p)), NEW s \in 1 .. Len(p) + 1
    PROVE  /\ End(p, s) \in s .. Len(p) + 1
           /\ End(p, s) <= Len(p) => p[End(p, s)] = "/"
           /\ \A i \in s .. End(p, s) - 1 : p[i] # "/"
<1> DEFINE E == {i \in s .. Len(p) + 1 : i > Len(p) \/ p[i] = "/"}
<1>1. Len(p) \in Nat
  OBVIOUS
<1>2. E \in SUBSET Nat /\ Len(p) + 1 \in E
  BY <1>1
<1>3. PICK m \in E : \A k \in E : m <= k
  <2> HIDE DEF E
  <2> QED
    BY <1>2, LeastNat
<1>4. End(p, s) \in E /\ \A k \in E : End(p, s) <= k
  <2>1. End(p, s) = CHOOSE x \in E : \A y \in E : x <= y
    BY DEF End, Min
  <2> HIDE DEF E
  <2> QED
    BY <1>3, <2>1
<1>5. ASSUME NEW i \in s .. End(p, s) - 1, p[i] = "/" PROVE FALSE
  <2>1. i \in E
    BY <1>1, <1>4, <1>5
  <2>2. End(p, s) <= i
    BY <1>4, <2>1
  <2>3. End(p, s) \in Int
    BY <1>2, <1>4
  <2> QED
    BY <2>2, <2>3
<1> QED
  BY <1>1, <1>4, <1>5

\* There is only one such place.
LEMMA EndIs ==
    ASSUME NEW p, p \in Seq(Range(p)), NEW s \in 1 .. Len(p) + 1,
           NEW e \in s .. Len(p) + 1,
           e <= Len(p) => p[e] = "/",
           \A i \in s .. e - 1 : p[i] # "/"
    PROVE  End(p, s) = e
<1>1. Len(p) \in Nat
  OBVIOUS
<1> DEFINE x == End(p, s)
<1>2. /\ x \in s .. Len(p) + 1 /\ (x <= Len(p) => p[x] = "/")
      /\ \A i \in s .. x - 1 : p[i] # "/"
  BY EndOf
<1> HIDE DEF x
<1>3. ~(x < e) /\ ~(e < x)
  BY <1>1, <1>2
<1>4. x = e
  BY <1>1, <1>2, <1>3
<1> QED
  BY <1>4 DEF x

\* The text of a segment.
Text(p, s) == Segments(p)[s]

\* It reaches from where the segment begins to where it ends.
LEMMA TextOf ==
    ASSUME NEW p, p \in Seq(Range(p)), NEW s \in Starts(p)
    PROVE  /\ Len(Text(p, s)) = End(p, s) - s
           /\ Text(p, s) = [i \in 1 .. End(p, s) - s |-> Text(p, s)[i]]
           /\ \A i \in 1 .. End(p, s) - s : Text(p, s)[i] = p[s + i - 1]
<1> DEFINE e == End(p, s)
           t == SubSeq(p, s, e - 1)
<1>1. Len(p) \in Nat /\ s \in 1 .. Len(p) + 1 /\ e \in s .. Len(p) + 1
  BY StartsWithin, EndOf
<1>2. Text(p, s) = t
  BY DEF Segments, Text
<1> HIDE DEF e
<1>3. \A i \in s .. e - 1 : p[i] \in Range(p)
  BY <1>1
<1>4. /\ t \in Seq(Range(p))
      /\ Len(t) = IF s <= e - 1 THEN (e - 1) - s + 1 ELSE 0
      /\ \A i \in 1 .. (e - 1) - s + 1 : t[i] = p[s + i - 1]
  BY <1>1, <1>3, SubSeqProperties
<1> HIDE DEF t
<1>5. Len(t) = e - s /\ \A i \in 1 .. e - s : t[i] = p[s + i - 1]
  BY <1>1, <1>4
<1>6. DOMAIN t = 1 .. e - s /\ t = [i \in DOMAIN t |-> t[i]]
  BY <1>4, <1>5
<1> QED
  BY <1>2, <1>5, <1>6 DEF e

\* Every place of a text is in a segment, or in the slash or the end after it.
LEMMA SegmentAt ==
    ASSUME NEW p, p \in Seq(Range(p)), NEW i \in 1 .. Len(p) + 1
    PROVE  \E s \in Starts(p) : s <= i /\ i <= End(p, s)
<1> DEFINE D == {i - s : s \in {x \in Starts(p) : x <= i}}
<1>1. Len(p) \in Nat
  OBVIOUS
<1>2. \A x \in Starts(p) : x \in 1 .. Len(p) + 1
  BY StartsWithin
<1>3. D \in SUBSET Nat /\ i - 1 \in D
  BY <1>1, <1>2 DEF Starts
<1>4. PICK d \in D : \A k \in D : d <= k
  <2> HIDE DEF D
  <2> QED
    BY <1>3, LeastNat
<1>5. PICK s \in Starts(p) : s <= i /\ d = i - s
  BY <1>4
<1>6. s \in 1 .. Len(p) + 1
  BY <1>2, <1>5
<1> DEFINE e == End(p, s)
<1>7. e \in s .. Len(p) + 1 /\ (e <= Len(p) => p[e] = "/")
  BY <1>6, EndOf
<1> HIDE DEF e
<1>8. ASSUME e < i PROVE FALSE
  <2>1. e \in 1 .. Len(p) /\ p[e] = "/" /\ e + 1 <= i
    BY <1>1, <1>6, <1>7, <1>8
  <2>2. e + 1 \in Starts(p)
    BY <2>1 DEF Starts
  <2>3. i - (e + 1) \in D
    BY <2>1, <2>2
  <2>4. i - s <= i - (e + 1)
    BY <1>4, <1>5, <2>3
  <2> QED
    BY <1>6, <1>7, <2>4
<1>9. i <= e
  BY <1>1, <1>7, <1>8
<1> QED
  BY <1>5, <1>9 DEF e

\* The first segments of a path are those of a prefix that leads it ...
LEMMA LeadsCovers ==
    ASSUME NEW p, p \in Seq(Range(p)), NEW q, q \in Seq(Range(q)), Leads(p, q)
    PROVE  Covers(p, q)
<1>1. /\ Len(p) \in Nat /\ Len(q) \in Nat /\ Len(p) <= Len(q)
      /\ \A i \in 1 .. Len(p) : p[i] = q[i]
      /\ Len(p) < Len(q) => q[Len(p) + 1] = "/"
      /\ DOMAIN p = 1 .. Len(p) /\ DOMAIN q = 1 .. Len(q)
  BY DEF Leads
<1>2. ASSUME NEW s \in Starts(p) PROVE s \in Starts(q)
  <2>1. s = 1 \/ (s - 1 \in 1 .. Len(p) /\ p[s - 1] = "/" /\ s \in 1 .. Len(p) + 1)
    BY StartsWithin
  <2>2. CASE s = 1
    BY <2>2 DEF Starts
  <2>3. CASE s - 1 \in 1 .. Len(p) /\ p[s - 1] = "/" /\ s \in 1 .. Len(p) + 1
    <3>1. s - 1 \in DOMAIN q /\ q[s - 1] = "/" /\ s = (s - 1) + 1
      BY <1>1, <2>3
    <3> QED
      BY <3>1 DEF Starts
  <2> QED
    BY <2>1, <2>2, <2>3
<1>3. ASSUME NEW s \in Starts(p) PROVE Segments(p)[s] = Segments(q)[s]
  <2> DEFINE e == End(p, s)
  <2>1. s \in Starts(q) /\ s \in 1 .. Len(p) + 1 /\ s \in 1 .. Len(q) + 1
    BY <1>1, <1>2, StartsWithin
  <2>2. /\ e \in s .. Len(p) + 1 /\ (e <= Len(p) => p[e] = "/")
        /\ \A i \in s .. e - 1 : p[i] # "/"
    BY <2>1, EndOf
  <2> HIDE DEF e
  <2>3. e \in s .. Len(q) + 1
    BY <1>1, <2>1, <2>2
  <2>4. e <= Len(q) => q[e] = "/"
    <3>1. CASE e <= Len(p)
      BY <1>1, <2>1, <2>2, <3>1
    <3>2. CASE e = Len(p) + 1
      BY <1>1, <3>2
    <3> QED
      BY <1>1, <2>2, <3>1, <3>2
  <2>5. \A i \in s .. e - 1 : q[i] # "/"
    <3>1. \A i \in s .. e - 1 : i \in 1 .. Len(p)
      BY <1>1, <2>1, <2>2
    <3> QED
      BY <1>1, <2>2, <3>1
  <2>6. End(q, s) = e
    BY <2>1, <2>3, <2>4, <2>5, EndIs
  <2> DEFINE t == Text(p, s)
             u == Text(q, s)
  <2>7. t = [i \in 1 .. e - s |-> t[i]] /\ \A i \in 1 .. e - s : t[i] = p[s + i - 1]
    BY TextOf DEF e
  <2>8. u = [i \in 1 .. e - s |-> u[i]] /\ \A i \in 1 .. e - s : u[i] = q[s + i - 1]
    BY <2>1, <2>6, TextOf
  <2> HIDE DEF t, u
  <2>9. \A i \in 1 .. e - s : t[i] = u[i]
    <3>1. \A i \in 1 .. e - s : s + i - 1 \in 1 .. Len(p)
      BY <1>1, <2>1, <2>2
    <3> QED
      BY <1>1, <2>7, <2>8, <3>1
  <2>10. t = u
    BY <2>7, <2>8, <2>9
  <2> QED
    BY <2>10 DEF t, u, Text
<1> QED
  BY <1>2, <1>3 DEF Covers

\* ... and the other way round: what covers the first segments of a path leads it.
LEMMA CoversLeads ==
    ASSUME NEW p, p \in Seq(Range(p)), NEW q, q \in Seq(Range(q)), Covers(p, q)
    PROVE  Leads(p, q)
<1>1. Len(p) \in Nat /\ Len(q) \in Nat /\ DOMAIN p = 1 .. Len(p)
  OBVIOUS
\* A segment ends in both at the same place and has the same text.
<1>2. ASSUME NEW s \in Starts(p)
      PROVE  /\ s \in 1 .. Len(p) + 1 /\ s \in 1 .. Len(q) + 1
             /\ End(p, s) \in s .. Len(p) + 1 /\ End(p, s) \in s .. Len(q) + 1
             /\ End(q, s) = End(p, s)
             /\ End(p, s) <= Len(q) => q[End(p, s)] = "/"
             /\ \A i \in s .. End(p, s) - 1 : p[i] = q[i]
  <2> DEFINE e == End(p, s)
             f == End(q, s)
             t == Text(p, s)
  <2>1. s \in Starts(q) /\ Text(q, s) = t
    BY DEF Covers, Text
  <2>2. s \in 1 .. Len(p) + 1 /\ s \in 1 .. Len(q) + 1
    BY <2>1, StartsWithin
  <2>3. /\ e \in s .. Len(p) + 1 /\ f \in s .. Len(q) + 1 /\ (f <= Len(q) => q[f] = "/")
    BY <2>2, EndOf
  <2> HIDE DEF e, f, t
  <2>4. Len(t) = e - s /\ \A i \in 1 .. e - s : t[i] = p[s + i - 1]
    BY TextOf DEF e, t
  <2>5. Len(t) = f - s /\ \A i \in 1 .. f - s : t[i] = q[s + i - 1]
    BY <2>1, TextOf DEF f
  <2>6. f = e
    BY <1>1, <2>2, <2>3, <2>4, <2>5
  <2>7. ASSUME NEW i \in s .. e - 1 PROVE p[i] = q[i]
    <3>1. (i - s) + 1 \in 1 .. e - s /\ s + ((i - s) + 1) - 1 = i
      BY <1>1, <2>2, <2>3
    <3>2. t[(i - s) + 1] = p[s + ((i - s) + 1) - 1] /\ t[(i - s) + 1] = q[s + ((i - s) + 1) - 1]
      BY <2>4, <2>5, <2>6, <3>1
    <3> QED
      BY <3>1, <3>2
  <2> QED
    BY <2>2, <2>3, <2>6, <2>7 DEF e, f
<1>3. ASSUME NEW i \in 1 .. Len(p) PROVE i <= Len(q) /\ p[i] = q[i]
  <2>1. CASE p[i] = "/"
    <3>1. i + 1 \in Starts(q)
      BY <1>1, <2>1 DEF Starts, Covers
    <3>2. (i + 1) - 1 \in 1 .. Len(q) /\ q[(i + 1) - 1] = "/"
      BY <1>1, <3>1, StartsWithin
    <3>3. (i + 1) - 1 = i
      OBVIOUS
    <3> QED
      BY <1>1, <2>1, <3>2, <3>3
  <2>2. CASE p[i] # "/"
    <3>1. i \in 1 .. Len(p) + 1
      BY <1>1
    <3>2. PICK s \in Starts(p) : s <= i /\ i <= End(p, s)
      BY <3>1, SegmentAt
    <3>3. s \in 1 .. Len(p) + 1
      BY <1>2
    <3>4. End(p, s) <= Len(p) => p[End(p, s)] = "/"
      BY <3>3, EndOf
    <3>5. End(p, s) \in s .. Len(p) + 1 /\ End(p, s) \in s .. Len(q) + 1
      BY <1>2
    <3> DEFINE e == End(p, s)
    <3> HIDE DEF e
    <3>6. e # i /\ e \in Int /\ s \in Int /\ i <= e /\ s <= i /\ e <= Len(q) + 1
      BY <1>1, <2>2, <3>2, <3>3, <3>4, <3>5 DEF e
    <3>7. i \in s .. e - 1 /\ i <= Len(q)
      BY <1>1, <3>6
    <3> QED
      BY <1>2, <3>7 DEF e
  <2> QED
    BY <2>1, <2>2
<1>4. Len(p) <= Len(q) /\ (Len(p) < Len(q) => q[Len(p) + 1] = "/")
  <2>1. Len(p) + 1 \in 1 .. Len(p) + 1
    BY <1>1
  <2>2. PICK s \in Starts(p) : s <= Len(p) + 1 /\ Len(p) + 1 <= End(p, s)
    BY <2>1, SegmentAt
  <2>3. /\ End(p, s) \in s .. Len(p) + 1 /\ End(p, s) \in s .. Len(q) + 1
        /\ End(p, s) <= Len(q) => q[End(p, s)] = "/"
    BY <1>2
  <2>4. End(p, s) = Len(p) + 1
    BY <1>1, <2>2, <2>3
  <2> QED
    BY <1>1, <2>3, <2>4
<1> QED
  BY <1>1, <1>3, <1>4 DEF Leads

\* The segments of a text can be counted, and of two prefixes that lead one path
\* the longer has more.
LEMMA LongerHasMore ==
    ASSUME NEW path, path \in Seq(Range(path)),
           NEW p, p \in Seq(Range(p)), Leads(p, path),
           NEW q, q \in Seq(Range(q)), Leads(q, path),
           Len(p) < Len(q)
    PROVE  Cardinality(Starts(p)) < Cardinality(Starts(q))
<1>1. /\ Len(p) \in Nat /\ Len(q) \in Nat /\ Len(path) \in Nat
      /\ DOMAIN q = 1 .. Len(q)
  OBVIOUS
<1>2. /\ Len(q) <= Len(path)
      /\ \A i \in 1 .. Len(p) : p[i] = path[i]
      /\ \A i \in 1 .. Len(q) : q[i] = path[i]
      /\ Len(p) < Len(path) => path[Len(p) + 1] = "/"
  BY DEF Leads
<1>3. Leads(p, q)
  <2>1. \A i \in 1 .. Len(p) : i \in 1 .. Len(q)
    BY <1>1
  <2>2. Len(p) + 1 \in 1 .. Len(q) /\ Len(p) < Len(path)
    BY <1>1, <1>2
  <2> QED
    BY <1>1, <1>2, <2>1, <2>2 DEF Leads
<1>4. Starts(p) \subseteq Starts(q)
  BY <1>3, LeadsCovers DEF Covers
<1>5. (Len(p) + 1) + 1 \in Starts(q)
  <2>1. Len(p) + 1 \in DOMAIN q /\ q[Len(p) + 1] = "/"
    BY <1>1, <1>3 DEF Leads
  <2> QED
    BY <2>1 DEF Starts
<1>6. (Len(p) + 1) + 1 \notin Starts(p)
  <2>1. \A s \in Starts(p) : s \in 1 .. Len(p) + 1
    BY StartsWithin
  <2> QED
    BY <1>1, <2>1
<1>7. IsFiniteSet(Starts(q))
  <2>1. Starts(q) \subseteq 1 .. Len(q) + 1
    BY StartsWithin
  <2>2. IsFiniteSet(1 .. Len(q) + 1)
    BY <1>1, FS_Interval
  <2> QED
    BY <2>1, <2>2, FS_Subset
<1>8. /\ IsFiniteSet(Starts(p)) /\ Cardinality(Starts(p)) <= Cardinality(Starts(q))
      /\ Cardinality(Starts(q)) # Cardinality(Starts(p))
  BY <1>4, <1>5, <1>6, <1>7, FS_Subset
<1>9. Cardinality(Starts(p)) \in Nat /\ Cardinality(Starts(q)) \in Nat
  BY <1>7, <1>8, FS_CardinalityType
<1> QED
  BY <1>8, <1>9

\* The order of the routes in the file does not matter to match_route, for every
\* configuration that is accepted and every path: no two routes have one prefix,
\* so no two that match are as long.
THEOREM RouteOrderNeverMatters == Spec => []RouteOrderIrrelevant
<1>1. ValidateInv => RouteOrderIrrelevant
  <2> DEFINE rs == config.routes
             n == Len(rs)
             back == Reverse(rs)
  <2> SUFFICES ASSUME ValidateInv, section = "accepted", NEW path \in Paths
               PROVE  MatchRoute(path, back) = IF MatchRoute(path, rs) = NoRoute THEN NoRoute
                                               ELSE n + 1 - MatchRoute(path, rs)
    BY DEF RouteOrderIrrelevant
  <2>1. path \in Seq(Range(path))
    BY ConfigAssumption
  <2>2. /\ rs \in Seq(Range(rs)) /\ n \in Nat /\ DOMAIN rs = 1 .. n
        /\ \A i \in 1 .. n : rs[i].path_prefix \in Seq(Range(rs[i].path_prefix))
    BY AcceptedRoutable DEF Routable
  <2>3. \A i, j \in 1 .. n : rs[i].path_prefix = rs[j].path_prefix => i = j
    BY <2>2, AcceptedRoutable DEF Routable
  <2>4. Routable(rs)
    BY AcceptedRoutable
  <2>5. /\ back = [i \in 1 .. n |-> rs[(n - i) + 1]]
        /\ DOMAIN back = 1 .. n
        /\ \A i \in 1 .. n : back[i] = rs[(n - i) + 1] /\ (n - i) + 1 \in 1 .. n
    BY <2>2 DEF Reverse
  <2> HIDE DEF rs, n, back
  <2>6. Routable(back)
    <3>1. back \in Seq(Range(back))
      <4>1. \A i \in 1 .. n : back[i] \in Range(back)
        BY <2>5 DEF Range
      <4>2. back = [i \in 1 .. n |-> back[i]]
        BY <2>5
      <4>3. back \in [1 .. n -> Range(back)]
        BY <4>1, <4>2
      <4> QED
        BY <2>2, <4>3, SeqDef
    <3>2. \A i, j \in 1 .. n : back[i].path_prefix = back[j].path_prefix => i = j
      <4> SUFFICES ASSUME NEW i \in 1 .. n, NEW j \in 1 .. n,
                          back[i].path_prefix = back[j].path_prefix
                   PROVE  i = j
        OBVIOUS
      <4>1. (n - i) + 1 = (n - j) + 1
        BY <2>3, <2>5
      <4> QED
        BY <2>2, <4>1
    <3> QED
      BY <2>2, <2>5, <3>1, <3>2 DEF Routable
  <2>7. CASE \A i \in 1 .. n : ~Matches(path, rs[i].path_prefix)
    <3>1. \A i \in 1 .. n : ~Matches(path, back[i].path_prefix)
      BY <2>5, <2>7
    <3> QED
      BY <2>2, <2>5, <2>7, <3>1 DEF MatchRoute
  <2>8. CASE \E i \in 1 .. n : Matches(path, rs[i].path_prefix)
    <3>1. PICK i : Longest(path, rs, i)
      BY <2>1, <2>2, <2>4, <2>8, LongestExists
    <3>2. MatchRoute(path, rs) = i /\ i \in 1 .. n
      BY <2>1, <2>2, <2>4, <3>1, MatchChooses DEF Longest
    <3> DEFINE k == (n - i) + 1
    <3>3. k \in 1 .. n /\ (n - k) + 1 = i /\ back[k] = rs[i] /\ k = n + 1 - i
      BY <2>2, <2>5, <3>2
    <3>4. Longest(path, back, k)
      BY <2>2, <2>5, <3>1, <3>3 DEF Longest
    <3>5. MatchRoute(path, back) = k
      BY <2>1, <2>6, <3>4, MatchChooses
    <3>6. i # NoRoute
      BY <2>2, <3>2 DEF NoRoute
    <3> QED
      BY <3>2, <3>3, <3>5, <3>6
  <2> QED
    BY <2>7, <2>8
<1> QED
  BY <1>1, ValidateInOrder, PTL

\* match_route, which compares texts, works by whole segments: in every
\* configuration that is accepted, and for every path, it returns the one route
\* whose prefix covers the most leading segments, and None only if none does.
THEOREM AlwaysRoutedBySegments == Spec => []RoutedBySegments
<1>1. ValidateInv => RoutedBySegments
  <2> DEFINE rs == config.routes
             prefix(i) == rs[i].path_prefix
             covering(path) == {i \in DOMAIN rs : Covers(prefix(i), path)}
             segments(i) == Cardinality(Starts(prefix(i)))
  <2> SUFFICES ASSUME ValidateInv, section = "accepted", NEW path \in Paths
               PROVE  IF covering(path) = {} THEN MatchRoute(path, rs) = NoRoute
                      ELSE /\ MatchRoute(path, rs) \in covering(path)
                           /\ \A i \in covering(path) \ {MatchRoute(path, rs)} :
                                segments(i) < segments(MatchRoute(path, rs))
    BY DEF RoutedBySegments
  <2>1. path \in Seq(Range(path))
    BY ConfigAssumption
  <2>2. Routable(rs)
    BY AcceptedRoutable
  <2> HIDE DEF rs
  <2>3. ASSUME NEW i \in DOMAIN rs
        PROVE  /\ prefix(i) \in Seq(Range(prefix(i)))
               /\ Matches(path, prefix(i)) <=> Leads(prefix(i), path)
               /\ Matches(path, prefix(i)) <=> Covers(prefix(i), path)
    <3>1. prefix(i) \in Seq(Range(prefix(i)))
      BY <2>2 DEF Routable
    <3> DEFINE p == prefix(i)
    <3> HIDE DEF p
    <3>2. p \in Seq(Range(p))
      BY <3>1 DEF p
    <3>3. Matches(path, p) <=> Leads(p, path)
      BY <2>1, <3>2, MatchesLeads
    <3>4. Leads(p, path) <=> Covers(p, path)
      BY <2>1, <3>2, LeadsCovers, CoversLeads
    <3> QED
      BY <3>2, <3>3, <3>4 DEF p
  <2>4. CASE covering(path) = {}
    <3>1. {i \in DOMAIN rs : Matches(path, rs[i].path_prefix)} = {}
      BY <2>3, <2>4
    <3> QED
      BY <2>4, <3>1 DEF MatchRoute
  <2>5. CASE covering(path) # {}
    <3>1. PICK j \in DOMAIN rs : Matches(path, prefix(j))
      BY <2>3, <2>5
    <3>2. PICK c : Longest(path, rs, c)
      BY <2>1, <2>2, <3>1, LongestExists
    <3>3. MatchRoute(path, rs) = c /\ c \in DOMAIN rs /\ Matches(path, prefix(c))
      BY <2>1, <2>2, <3>2, MatchChooses DEF Longest
    <3>4. ASSUME NEW i \in DOMAIN rs, Covers(prefix(i), path), i # c
          PROVE  segments(i) < segments(c)
      <4> DEFINE p == prefix(i)
                 q == prefix(c)
      <4>1. /\ p \in Seq(Range(p)) /\ q \in Seq(Range(q))
            /\ Matches(path, p) /\ Matches(path, q)
            /\ Leads(p, path) /\ Leads(q, path)
        BY <2>3, <3>3, <3>4
      <4>2. Len(p) <= Len(q) /\ p # q
        BY <2>2, <3>2, <3>3, <3>4, <4>1 DEF Longest, Routable
      <4> HIDE DEF p, q
      <4>3. Len(p) # Len(q) /\ Len(p) \in Nat /\ Len(q) \in Nat
        BY <2>1, <4>1, <4>2, OneOfALength
      <4>4. Len(p) < Len(q)
        BY <4>2, <4>3
      <4>5. Cardinality(Starts(p)) < Cardinality(Starts(q))
        BY <2>1, <4>1, <4>4, LongerHasMore
      <4> QED
        BY <4>5 DEF p, q
    <3> QED
      BY <2>3, <2>5, <3>3, <3>4
  <2> QED
    BY <2>4, <2>5
<1> QED
  BY <1>1, ValidateInOrder, PTL
=============================================================================
