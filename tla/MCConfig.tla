------------------------------ MODULE MCConfig ------------------------------
(* Small configurations for TLC: routes that overlap, clash or are flawed. *)
EXTENDS Config

MCUsable == {"b1", "b2"}
MCAbsolute == {"/health", "/ready"}

\* Prefixes /, /a and /a/a, and two that overlap them only as text.
Good(ps, endpoints) ==
    [path_prefix : ps,
     backends : {<<"b1">>, <<"b1", "b2">>, <<"b2", "b2">>},
     health_check_endpoint : endpoints,
     bad : {{}}]

P1 == {<<"/">>, <<"/", "a">>, <<"/", "a", "/", "a">>}
P2 == P1 \cup {<<"/", "a", "a">>, <<"/", "a", "/">>}

File(rs, endpoint, bad) ==
    [file |-> "yaml", routes |-> rs, endpoint |-> endpoint, bad |-> bad,
     host_is_address |-> TRUE]

\* One thing is wrong with the route.
Flawed ==
    LET good == [path_prefix |-> <<"/", "a">>, backends |-> <<"b1">>,
                 health_check_endpoint |-> "none", bad |-> {}]
    IN  {[good EXCEPT !.path_prefix = <<>>], [good EXCEPT !.path_prefix = <<"a">>],
         [good EXCEPT !.backends = <<>>], [good EXCEPT !.backends = <<"b1", "https">>],
         [good EXCEPT !.health_check_endpoint = "health"],
         [good EXCEPT !.bad = {"read_timeout_ms"}], good}

\* Two or three routes that may clash; a flawed route first or second; a bad
\* setting in one section; no route at all; a file that is missing or no YAML;
\* a host that is a name.
MCConfigs ==
    {File(<<r, s, t>>, "/health", {}) :
        r \in Good(P1, {"none"}), s \in Good(P1, {"none", "/ready"}),
        t \in Good(P1, {"none", "/ready", "/health"})}
    \cup {File(<<r, s>>, "/ready", {}) : r, s \in Good(P2, {"none", "/ready"})}
    \cup {File(<<r, s>>, "/health", {}) : r, s \in Flawed}
    \cup {File(<<r>>, e, bad) :
            r \in Flawed, e \in {"/health", "health"},
            bad \in {{f} : f \in {"port", "interval_sec", "read_timeout_ms",
                                  "max_attempts", "auth_token"}} \cup {{}}}
    \cup {File(<<>>, "/health", {})}
    \cup {[File(<<r>>, "/health", {}) EXCEPT !.file = f, !.host_is_address = h] :
            r \in Flawed, f \in {"yaml", "other", "missing"}, h \in BOOLEAN}

\* Paths of at most 6 characters.
MCPaths == {p \in UNION {[1 .. n -> {"/", "a"}] : n \in 1 .. 6} : p[1] = "/"}
=============================================================================
