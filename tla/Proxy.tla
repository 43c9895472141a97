------------------------------- MODULE Proxy --------------------------------
(***************************************************************************)
(* The request path (src/src/http/mod.rs): handle_request,                 *)
(* forward_with_retries and forward_request, for concurrent requests to    *)
(* one route, over the load balancer (src/src/balancing/mod.rs), the       *)
(* upstream client (src/src/upstream/mod.rs) and the health manager.       *)
(*                                                                         *)
(* A request moves from one shared access or await to the next; between    *)
(* two of them the others move.  At an await the client may also be gone,  *)
(* which drops the future.  Calls of the health manager are whole here;    *)
(* HealthThreads takes them apart.                                         *)
(*                                                                         *)
(* Abstractions.  A method is "safe" (GET, HEAD, OPTIONS, TRACE),          *)
(* "idempotent" (PUT, DELETE) or "unsafe" (any other).  A status is known  *)
(* by the two questions the proxy asks of it: is it a passive failure, and *)
(* is it in retry_on_statuses.  The retry budget is spent or not, and the  *)
(* clock spends it at any time.                                            *)
(***************************************************************************)
EXTENDS BackendHealth, FiniteSets, Sequences, Functions

CONSTANTS
    Requests,           \* requests that may arrive, each once
    Pool,               \* route.backends, a sequence
    Balancing,          \* route.balancing
    MaxAttempts,        \* bound: retry.max_attempts is 1 .. MaxAttempts
    RetryIdempotent,    \* retry.retry_idempotent_methods
    BackoffConfigured,  \* retry.backoff_ms > 0
    MaxBufferedBodies,  \* upstream.max_buffered_bodies
    CounterPeriod       \* bound: the AtomicU64 counter is kept modulo this

\* RetryConfig, UpstreamConfig and RouteConfig are validated before the proxy
\* runs.  The counter is only used modulo the length of a list of at most
\* Len(Pool) backends, so a common multiple of those lengths loses nothing.
ASSUME ProxyAssumption ==
    /\ IsFiniteSet(Requests)
    /\ Pool \in Seq(Range(Pool)) /\ Pool # <<>>
    /\ Balancing \in {"round_robin", "first_healthy"}
    /\ MaxAttempts \in Nat \ {0}
    /\ RetryIdempotent \in BOOLEAN
    /\ BackoffConfigured \in BOOLEAN
    /\ MaxBufferedBodies \in Nat \ {0}
    /\ CounterPeriod \in Nat \ {0}
    /\ \A n \in 1 .. Len(Pool) : CounterPeriod % n = 0

VARIABLES
    max_attempts,   \* retry.max_attempts, fixed when the process starts
    req,            \* req[r]: the locals of r's handle_request
    permits,        \* AppState::buffer_semaphore
    counter,        \* RouteBalancer::counter
    health          \* health[b]: b's BackendHealth

vars == <<max_attempts, req, permits, counter, health>>

Backends == Range(Pool)
NoBackend == "no backend"
Methods == {"safe", "idempotent", "unsafe"}

\* handle_request returns at "streaming" (the body of an upstream response
\* still flows) or at "over"; at "gone" its future has been dropped.
Stages == {"idle", "select", "acquire", "buffering", "attempt", "forwarding",
           "backoff", "streaming", "over", "gone"}

Request == [stage : Stages,
            method : Methods,
            backend : Backends \cup {NoBackend},
            attempted : SUBSET Backends,    \* attempted_backends
            attempt : 1 .. max_attempts,
            spent : BOOLEAN,                \* elapsed >= total_timeout
            sends : Nat,                    \* calls of upstream.forward
            probe : BOOLEAN]                \* sent to a half-open backend

Unborn == [stage |-> "idle", method |-> "safe", backend |-> NoBackend,
           attempted |-> {}, attempt |-> 1, spent |-> FALSE, sends |-> 0,
           probe |-> FALSE]

Init ==
    /\ max_attempts \in 1 .. MaxAttempts
    /\ req = [r \in Requests |-> Unborn]
    /\ permits = MaxBufferedBodies
    /\ counter = 0
    /\ health = [b \in Backends |-> Fresh]

-----------------------------------------------------------------------------
(* Which requests are buffered and replayed *)

\* Mutant: every method is replayed.
RetryableWhatever(m) == max_attempts > 1

\* should_retry_request and is_retryable_method.
Retryable(m) ==
    /\ max_attempts > 1
    /\ m = "safe" \/ (RetryIdempotent /\ m = "idempotent")

\* should_prebuffer_request.
Prebuffered(m) == m # "safe"

-----------------------------------------------------------------------------
(* Choosing a backend *)

\* healthy_backends polls every backend of the route.
Polled == [b \in Backends |-> PollEjection(health[b])]

\* Mutant: the backends already tried are not left out.
EligibleAgain(excluded) == {i \in DOMAIN Pool : Offered(Polled[Pool[i]])}

\* http's select_backend: the healthy backends, less the tried ones, in the
\* order of the pool.  Each is known by its place there.
Eligible(excluded) ==
    {i \in DOMAIN Pool : Offered(Polled[Pool[i]]) /\ Pool[i] \notin excluded}

\* The place that n others come before.
Nth(places, n) == CHOOSE i \in places : Cardinality({j \in places : j < i}) = n

\* RouteBalancer::select on a list that is not empty, at one count of the counter.
Choice(eligible, count) ==
    Nth(eligible, IF Balancing = "round_robin" THEN count % Cardinality(eligible) ELSE 0)

Selected(eligible) == Pool[Choice(eligible, counter)]

NextCounter ==
    IF Balancing = "round_robin" THEN (counter + 1) % CounterPeriod ELSE counter

HalfOpen(h) == h.probing /\ ~h.healthy

\* q with upstream.forward to backend b begun.
Send(q, b, h) ==
    [q EXCEPT !.stage = "forwarding", !.backend = b, !.sends = @ + 1,
              !.probe = HalfOpen(h)]

\* q with the proxy's own response, which has no upstream body.
Answer(q) == [q EXCEPT !.stage = "over"]

-----------------------------------------------------------------------------
(* handle_request *)

\* A request is admitted to the route.
Arrive(r) ==
    /\ req[r].stage = "idle"
    /\ \E m \in Methods :
        req' = [req EXCEPT ![r].method = m,
                           ![r].stage = IF Retryable(m) THEN "acquire" ELSE "select"]
    /\ UNCHANGED <<permits, counter, health>>

\* An internal route, an oversized content-length, or no route.
AnswerAtOnce(r) ==
    /\ req[r].stage = "idle"
    /\ req' = [req EXCEPT ![r] = Answer(@)]
    /\ UNCHANGED <<permits, counter, health>>

Acquire(r) ==
    /\ req[r].stage = "acquire"
    /\ permits > 0
    /\ permits' = permits - 1
    /\ req' = [req EXCEPT ![r].stage = "buffering"]
    /\ UNCHANGED <<counter, health>>

\* buffer_capacity_exceeded
AcquireFails(r) ==
    /\ req[r].stage = "acquire"
    /\ permits = 0
    /\ req' = [req EXCEPT ![r] = Answer(@)]
    /\ UNCHANGED <<permits, counter, health>>

\* buffer_request_body returns the body: the permit goes back, and the request
\* is sent to the backend it chose before, or enters the retry loop.
BufferDone(r) ==
    /\ req[r].stage = "buffering"
    /\ permits' = permits + 1
    /\ \/ /\ Retryable(req[r].method)
          /\ req' = [req EXCEPT ![r].stage = "attempt"]
       \/ /\ ~Retryable(req[r].method)
          /\ req' = [req EXCEPT ![r] = Send(@, @.backend, health[@.backend])]
    /\ UNCHANGED <<counter, health>>

\* Mutant: the permit is not returned when the body cannot be read.
BufferFailsKeepsPermit(r) ==
    /\ req[r].stage = "buffering"
    /\ req' = [req EXCEPT ![r] = Answer(@)]
    /\ UNCHANGED <<permits, counter, health>>

\* Too large, timed out or not readable.
BufferFails(r) ==
    /\ req[r].stage = "buffering"
    /\ permits' = permits + 1
    /\ req' = [req EXCEPT ![r] = Answer(@)]
    /\ UNCHANGED <<counter, health>>

\* A request that is not replayed chooses its one backend, before its body is
\* buffered if it is to be.
SelectOnce(r) ==
    /\ req[r].stage = "select"
    /\ health' = Polled
    /\ LET eligible == Eligible({})
       IN  \/ /\ eligible = {}       \* no_healthy_backends
              /\ req' = [req EXCEPT ![r] = Answer(@)]
              /\ UNCHANGED counter
           \/ /\ eligible # {}
              /\ counter' = NextCounter
              /\ \/ /\ Prebuffered(req[r].method)
                    /\ req' = [req EXCEPT ![r].stage = "acquire",
                                          ![r].backend = Selected(eligible)]
                 \/ /\ ~Prebuffered(req[r].method)
                    /\ LET b == Selected(eligible)
                       IN  req' = [req EXCEPT ![r] = Send(@, b, Polled[b])]
    /\ UNCHANGED permits

-----------------------------------------------------------------------------
(* forward_with_retries *)

\* q sent to b, which attempted_backends remembers.
Try(q, b, h) == [Send(q, b, h) EXCEPT !.attempted = q.attempted \cup {b}]

\* Mutant: with no backend left the loop waits for one.
AttemptOrWait(r) ==
    /\ req[r].stage = "attempt"
    /\ ~req[r].spent
    /\ health' = Polled
    /\ LET eligible == Eligible(req[r].attempted)
       IN  /\ eligible # {}
           /\ counter' = NextCounter
           /\ LET b == Selected(eligible)
              IN  req' = [req EXCEPT ![r] = Try(@, b, Polled[b])]
    /\ UNCHANGED permits

\* The top of the loop, with budget left: the next untried backend, or
\* no_healthy_backends / retry_exhausted.
Attempt(r) ==
    /\ req[r].stage = "attempt"
    /\ ~req[r].spent
    /\ health' = Polled
    /\ LET eligible == Eligible(req[r].attempted)
       IN  \/ /\ eligible = {}
              /\ req' = [req EXCEPT ![r] = Answer(@)]
              /\ UNCHANGED counter
           \/ /\ eligible # {}
              /\ counter' = NextCounter
              /\ LET b == Selected(eligible)
                 IN  req' = [req EXCEPT ![r] = Try(@, b, Polled[b])]
    /\ UNCHANGED permits

\* retry_budget_exhausted
AttemptTooLate(r) ==
    /\ req[r].stage = "attempt"
    /\ req[r].spent
    /\ req' = [req EXCEPT ![r] = Answer(@)]
    /\ UNCHANGED <<permits, counter, health>>

\* Mutant: one attempt too many.
LastAttemptOffByOne(q, retryable) ==
    ~Retryable(q.method) \/ ~retryable \/ q.attempt > max_attempts \/ q.spent

\* The response of this attempt goes to the client.
LastAttempt(q, retryable) ==
    ~Retryable(q.method) \/ ~retryable \/ q.attempt >= max_attempts \/ q.spent

\* q after forward_request has returned: an upstream response has a body to
\* stream, the proxy's own 502 or 504 has not.
Deliver(q, result) ==
    [q EXCEPT !.stage = IF result = "error" THEN "over" ELSE "streaming"]

\* forward_request returns (upstream.forward is under connect_timeout): the
\* outcome is recorded with the health manager, then the retry loop judges it.
UpstreamReturns(r) ==
    /\ req[r].stage = "forwarding"
    /\ \E result \in {"success", "passive_failure", "error"},
          retryable \in BOOLEAN :
        /\ health' = [health EXCEPT ![req[r].backend] =
                        IF result = "success" THEN RecordSuccess(@)
                                              ELSE RecordFailure(@)]
        /\ \/ /\ \/ LastAttempt(req[r], retryable)
                 \/ BackoffConfigured       \* backoff >= remaining
              /\ req' = [req EXCEPT ![r] = Deliver(@, result)]
           \/ /\ ~LastAttempt(req[r], retryable)
              /\ BackoffConfigured
              /\ req' = [req EXCEPT ![r].stage = "backoff"]
           \/ /\ ~LastAttempt(req[r], retryable)
              /\ ~BackoffConfigured
              /\ req' = [req EXCEPT ![r].stage = "attempt", ![r].attempt = @ + 1]
    /\ UNCHANGED <<permits, counter>>

\* Mutant: the attempt after a backoff is not counted.
BackoffEndsUncounted(r) ==
    /\ req[r].stage = "backoff"
    /\ req' = [req EXCEPT ![r].stage = "attempt"]
    /\ UNCHANGED <<permits, counter, health>>

BackoffEnds(r) ==
    /\ req[r].stage = "backoff"
    /\ req' = [req EXCEPT ![r].stage = "attempt", ![r].attempt = @ + 1]
    /\ UNCHANGED <<permits, counter, health>>

\* The clock: started.elapsed() reaches total_timeout.
BudgetSpent(r) ==
    /\ req[r].stage \in {"buffering", "attempt", "forwarding", "backoff"}
    /\ Retryable(req[r].method)
    /\ ~req[r].spent
    /\ req' = [req EXCEPT ![r].spent = TRUE]
    /\ UNCHANGED <<permits, counter, health>>

-----------------------------------------------------------------------------
(* After the handler, and around it *)

\* The upstream body ends, within its limits.
StreamEnds(r) ==
    /\ req[r].stage = "streaming"
    /\ req' = [req EXCEPT ![r].stage = "over"]
    /\ UNCHANGED <<permits, counter, health>>

\* limit_body_stream fails (size, read error, idle timeout) and calls
\* response_error_hook, long after the response was recorded as a success.
StreamFails(r) ==
    /\ req[r].stage = "streaming"
    /\ req' = [req EXCEPT ![r].stage = "over"]
    /\ health' = [health EXCEPT ![req[r].backend] = RecordFailure(@)]
    /\ UNCHANGED <<permits, counter>>

\* The client closes its connection during an await: hyper drops the future,
\* and with it the permit.  Nothing is recorded.
ClientGone(r) ==
    /\ req[r].stage \in {"buffering", "forwarding", "backoff", "streaming"}
    /\ permits' = IF req[r].stage = "buffering" THEN permits + 1 ELSE permits
    /\ req' = [req EXCEPT ![r].stage = "gone"]
    /\ UNCHANGED <<counter, health>>

\* The active checker records what it found at b (see Startup).
ActiveCheck(b) ==
    /\ health' \in {[health EXCEPT ![b] = RecordSuccess(@)],
                    [health EXCEPT ![b] = RecordFailure(@)]}
    /\ UNCHANGED <<req, permits, counter>>

EjectionExpires(b) ==
    /\ health[b].ejected_until = "running"
    /\ health' = [health EXCEPT ![b] = Expire(@)]
    /\ UNCHANGED <<req, permits, counter>>

-----------------------------------------------------------------------------
\* What the handler of r does next, its client being there.
Progress(r) ==
    /\ UNCHANGED max_attempts
    /\ \/ Acquire(r)
       \/ AcquireFails(r)
       \/ BufferDone(r)
       \/ BufferFails(r)
       \/ SelectOnce(r)
       \/ Attempt(r)
       \/ AttemptTooLate(r)
       \/ UpstreamReturns(r)
       \/ BackoffEnds(r)

\* What happens around the handlers.
Environment ==
    /\ UNCHANGED max_attempts
    /\ \/ \E r \in Requests :
            \/ Arrive(r)
            \/ AnswerAtOnce(r)
            \/ BudgetSpent(r)
            \/ StreamEnds(r)
            \/ StreamFails(r)
            \/ ClientGone(r)
       \/ \E b \in Backends : ActiveCheck(b) \/ EjectionExpires(b)

Next == Environment \/ \E r \in Requests : Progress(r)

\* Every await of the handler ends: the body under client_body_timeout and a
\* byte limit, the upstream under connect_timeout, the backoff by the timer.
Fairness == \A r \in Requests : WF_vars(Progress(r))

Spec == Init /\ [][Next]_vars /\ Fairness

-----------------------------------------------------------------------------
\* Every variable keeps its type; in particular the semaphore never goes below
\* zero and the attempt never passes max_attempts.
TypeOK ==
    /\ max_attempts \in 1 .. MaxAttempts
    /\ req \in [Requests -> Request]
    /\ permits \in 0 .. MaxBufferedBodies
    /\ counter \in 0 .. CounterPeriod - 1
    /\ health \in [Backends -> Health]

\* No permit is lost or made up: the semaphore plus the requests whose body is
\* being read is always max_buffered_bodies, whichever way each of them left
\* (body read, error, client gone).  It says nothing of the bodies that have been
\* read: handle_request drops the permit before it forwards (see BodiesBounded).
PermitsConserved ==
    permits + Cardinality({r \in Requests : req[r].stage = "buffering"})
        = MaxBufferedBodies

\* q's body is in memory: being read, or kept by ReplayableRequest until the retry
\* loop is over.  Left out, as they need not be there: the body of a safe method,
\* and one that is sent once, which goes to the upstream client.
BodyHeld(q) ==
    /\ q.method # "safe"
    /\ \/ q.stage = "buffering"
       \/ Retryable(q.method) /\ q.stage \in {"attempt", "forwarding", "backoff"}

\* config's upstream.max_buffered_bodies: the "maximum number of request bodies
\* that may be buffered in memory simultaneously".  Violated: a body stays in
\* memory through forwarding, backoff and retries after its permit is back.
BodiesBounded == Cardinality({r \in Requests : BodyHeld(req[r])}) <= MaxBufferedBodies

\* A request may be sent to upstreams more than once.
ReplayAllowed(m) == m = "safe" \/ (m = "idempotent" /\ RetryIdempotent)

\* A request reaches upstreams at most max_attempts times, and one whose
\* method is not safe to replay at most once, whatever failed on the way.
SendsBounded ==
    \A r \in Requests :
        req[r].sends <= IF ReplayAllowed(req[r].method) THEN max_attempts ELSE 1

\* A replayed request never goes to the same backend twice, however health
\* changes between its attempts.
NoBackendTwice ==
    \A r \in Requests :
        Retryable(req[r].method) => req[r].sends = Cardinality(req[r].attempted)

\* Requests, late body errors and active checks together strand no backend:
\* it is healthy, ejected or half-open.
NoneStranded ==
    \A b \in Backends :
        health[b].healthy \/ health[b].ejected_until # "none" \/ health[b].probing

\* Liveness.  Every request that arrives is answered, unless its client leaves:
\* neither the retry loop nor the wait for a permit holds it for ever.
EveryRequestAnswered ==
    \A r \in Requests :
        (req[r].stage # "idle") ~> (req[r].stage \in {"streaming", "over", "gone"})

\* How far a stage is from the end of the request, within one attempt.
Ahead(stage) ==
    CASE stage \in {"over", "gone"} -> 0
      [] stage = "streaming" -> 1
      [] stage = "backoff" -> 2
      [] stage = "forwarding" -> 3
      [] stage = "attempt" -> 4
      [] stage = "buffering" -> 5
      [] stage = "acquire" -> 6
      [] stage = "select" -> 7
      [] stage = "idle" -> 8

\* An upper bound of the steps q has still to make.
StepsLeft(q) ==
    2 * (4 * (max_attempts - q.attempt) + Ahead(q.stage)) + IF q.spent THEN 0 ELSE 1

\* Nothing that happens to a request, or around it, takes it further from its
\* answer: whatever it goes through, it is over within 8 * max_attempts + 9
\* steps of its own, so only a step that never comes could keep it open.
WindsDown ==
    [][\A r \in Requests :
          req'[r] # req[r] => StepsLeft(req[r])' \in 0 .. StepsLeft(req[r]) - 1]_vars

Breaker ==
    INSTANCE CircuitBreaker WITH circuit <- [b \in Backends |-> AsCircuit(health[b])]

\* Refinement.  With any number of requests, late body errors and active checks
\* recording at once, every backend's record behaves as a circuit breaker: it
\* opens at the FailureThreshold-th failure in a row and no other, and an
\* ejected backend is never closed by a late success, only by its window
\* running out and the first result after that.
ActsAsBreaker == Breaker!Spec

\* A half-open backend is decided by a single probe request: no second request
\* is sent to it while the first is on its way.
SingleProbe ==
    \A r, s \in Requests :
        /\ r # s
        /\ req[r].stage = "forwarding" /\ req[r].probe
        /\ req[s].stage = "forwarding" /\ req[s].probe
        /\ req[r].backend = req[s].backend
        => ~HalfOpen(health[req[r].backend])
=============================================================================
