# ferrum-proxy in TLA+

TLA+ models of ferrum-proxy (the Rust sources are in `src/src/`), TLC
configurations that check them on small instances, and TLAPS proofs of the
results that matter most for instances of any size. `PROJECT.json` holds the
machine-readable side: components, runs, mutants, the map from definitions to
source lines, findings, hazards and theorems.

To check a run: `tlc -config MCServer.cfg MCServer`; to check the proofs of a
module: `tlapm ServerProofs.tla`.

## 1. Inventory

ferrum-proxy is an HTTP/1 reverse proxy on tokio. Worker threads run one task
per client connection, one background task checks backends, and the accept loop
owns start and shutdown. All of them share one `AppState`.

| Component | Source | State | Operations | Shared with |
|---|---|---|---|---|
| Health manager | `health/mod.rs` | per backend: `healthy`, `probing`, two consecutive counters (atomics; `probing` is acquire/release, the rest `Relaxed`), `ejected_until` (mutex) | `record_success`, `record_failure`, `healthy_backends`, `backend_statuses` | every request task, both checker passes, body error hooks |
| Active checker | `health/mod.rs`, `http/mod.rs` | a watch receiver, an interval | the background pass loop, the startup pass, `startup_dead_pools` | the health manager, the shutdown channel |
| Server | `server/mod.rs` | listener, `watch` shutdown channel, `ConnectionTracker` (an atomic count and a `Notify`) | bind, accept, drain, one task per connection | connection tasks |
| Request path | `http/mod.rs` | `buffer_semaphore`, the locals of each request | `handle_request`, `forward_with_retries`, `forward_request`, internal routes | balancer, health manager, upstream client, telemetry |
| Load balancer | `balancing/mod.rs` | one counter per route | `select` | request tasks |
| Upstream client | `upstream/mod.rs` | connection pool (hyper) | `forward`, header rewriting, `limit_body_stream` and its error hooks | health manager (through the hooks) |
| Router | `routing/mod.rs` | none | `match_route` | request path |
| Configuration | `config/mod.rs` | none after load | `load_from_file`, `validate` and the methods it calls, `socket_addr` | everyone: its verdict is what the others assume |
| Telemetry | `telemetry/mod.rs` | counters, a ring of 32 transitions | `record_*`, rendering | written by all, read by the metrics endpoint only |
| Entry points | `main.rs`, `lib.rs` | none | load, run, exit | configuration, server |
| Benchmark tools | `bin/*.rs` | child processes, ports, a runtime directory; a request count in the stub backend | spawn, wait until ready, run scenarios, clean up | the proxy and stub backends, as processes; not modelled (section 6) |

What is hard here, and what correctness means for it:

* **Health manager: lock-free interleaving.** `record_success`,
  `record_failure` and the eligibility filter are sequences of separate atomic
  accesses that race on one backend. A backend must never be left neither
  healthy, nor ejected, nor half-open: nothing but a success would bring it
  back, and it is sent no requests that could succeed.
* **Drain: lost wakeups and late notifications.** The count and the `Notify`
  are two objects. A reported drain must be true, and a drain that is over
  should be noticed.
* **Startup: two passes at once.** The checker is spawned before the startup
  pass; both feed the same counters. Startup must abort exactly on a dead pool.
* **Requests: many exits.** Permits must come back by every one of them; a
  request must not be sent again when it may not be replayed, nor twice to one
  backend, and must be answered in the end, while clients leave, health changes
  between attempts and a body fails after its status was a success.
* **Exchanges: two bodies and several timers at once.** The request body goes
  up while the response comes down; either may stall, break or cross its limit.
  A limit must hold whatever the chunks, no part may pass for the whole, every
  failure must be counted once, and a client's fault must not be the backend's.
* **Metrics: read while written.** A scrape loads counters one by one; what it
  shows must not lack its cause.
* **Configuration: consistency between routes.** An accepted configuration
  must give one health check per backend and one route per path.

## 2. Modules

| Module | Models | Uses |
|---|---|---|
| `HealthThreads` | the health manager, one action per atomic access | refines `HealthCalls` |
| `HealthThreadsProofs` | theorems about it | `HealthThreads`, TLAPS |
| `BackendHealth` | the same calls as whole transitions of one backend's record | |
| `HealthCalls` | whole calls for any backends, one after the other: abstract | `BackendHealth`, refined by `HealthThreads` |
| `Startup` | startup, the startup pass and the background checker | `BackendHealth` |
| `StartupProofs` | theorems about it | `Startup`, TLAPS |
| `Server` | accept loop, connection tasks, tracker, drain | |
| `ServerProofs` | theorems about it | `Server`, TLAPS |
| `CircuitBreaker` | what the health manager promises: abstract | |
| `Proxy` | requests of one route, semaphore, balancer, retries, streaming | `BackendHealth`, refines `CircuitBreaker` |
| `ProxyProofs` | theorems about it, the refinement among them | `Proxy`, TLAPS |
| `Exchange` | what one exchange promises the request path: abstract | |
| `Upstream` | one exchange: buffering, `forward`, both bodies, heads | refines `Exchange` |
| `UpstreamProofs` | theorems about it, the refinement among them | `Upstream`, TLAPS |
| `Telemetry` | counters, ring, scrapes | `BackendHealth` |
| `TelemetryProofs` | theorems about it | `Telemetry`, TLAPS |
| `Router` | `match_route` and its segment-wise reference | |
| `Config` | from the file to `socket_addr`, and what is made of an accepted configuration | `Router` |
| `ConfigProofs` | theorems about both | `Config`, TLAPS |
| `MC*` | constants for TLC | the module of that name |

### HealthThreads

State: the five fields of `BackendHealth` as functions of the backend, and per
thread a label `pc`, the backend `at`, the count `seen` that a `fetch_add`
returned, and the last `verdict` of the filter. Each action is one load, store,
`fetch_add` or critical section; the labels `s_*`, `f_*` and `h_*` are the
accesses of `record_success`, `record_failure` and the filter in source order.

* `probing` is accessed with acquire and release, everything else `Relaxed`.
  The model interleaves the accesses sequentially; reorderings of accesses to
  *different* atomics that a weak memory architecture could show are not
  explored, here or in `Telemetry`: in this the models are stronger than what
  the language guarantees.
* The counters saturate at their threshold: they are only compared with `>=`.
* `ejected_until` is `none`, `running` or `expired`; the clock turns one into
  the next at any time. `eject_backend` and `is_backend_ejected` hold the mutex
  and are one action each for what they do under it.

### BackendHealth, Startup and Proxy

`BackendHealth` gives each call as a function from a record to a record.
`Startup` and `Proxy` use it, because what they ask is how *calls* of different
origin mix; how the accesses inside calls mix is the subject of `HealthThreads`.
What allows the step from one to the other is `CallsAreWhole`: under
`SerialSpec`, where no two calls for one backend overlap, `HealthThreads` refines
`HealthCalls`, the specification whose steps are the functions of
`BackendHealth`. `Outcome(b)` is the refinement mapping: the record as it will be
when the call under way for b has returned. Calls that do overlap need not act
as a sequence of whole calls, and for them `HealthThreads` itself is the model,
with `NoLimbo` and `Readmitted`.

In `Startup`, `up[b]` says once and for all whether b passes its checks, so that
"reachable" has a meaning to compare the verdict with. `WindowOutlastsStartup`
separates configurations whose ejection outlives the startup pass from others.

In `Proxy` a request moves from one await or shared access to the next: `select`
(healthy backends, balancer), `acquire`, `buffering`, `attempt`, `forwarding`,
`backoff`, `streaming`. A method is safe, idempotent or unsafe; a status is known
by whether it is a passive failure and whether it is retryable; the retry budget
is spent or not, and the clock may spend it at any time. `ClientGone` is the drop
of the handler's future by hyper. Internal routes, an oversized content-length
and an unknown path are one immediate answer. `max_attempts` is chosen at the
start, from the default of 1 (nothing is retried) up to `MaxAttempts`.

A permit is held from `acquire` to the end of `buffering` and no longer, as in the
code. `PermitsConserved` says that none is lost on the way, which bounds the
bodies being *read*; it does not bound the bodies in memory, because the retry
loop keeps the one it may send again. `BodyHeld` says which bodies are there for
certain, and `BodiesBounded`, what the configuration documents of
`max_buffered_bodies`, is violated (section 5).

`CircuitBreaker` has one circuit per backend: closed with a count of failures in
a row, open with a window that is running or over, half-open. `AsCircuit` maps a
record to it: open while `ejected_until` is set, else half-open if `probing`,
else closed if `healthy`; a record with none of these is no state of a circuit.
Late successes of requests sent before an ejection may set `healthy` while the
window runs, and `ActsAsBreaker` says that this does not close the circuit.

### Upstream and Exchange

`Upstream` follows one request with one backend from `handle_request` to the end
of the response. `mode` says whether the body is streamed, buffered after the
choice of the backend, or buffered for replay. A body is a record: the declared
length, the bytes taken from its source and the bytes passed on, and how it
ended; `Grown` is the accounting of `limit_body_stream` and of
`buffer_request_body`, `Fed` and `TimedOut` are what a source can do next. Four
parties move independently: the handler, the client, the upstream, and hyper's
client task, which pulls the request body also after the response has come
(`UploadStep`, `UploadDropped`). `errors` and `verdicts` are the calls of
`record_proxy_error` and of `record_success` or `record_failure`.

Heads are built in one step, from every head the constants allow: a field is
absent, the client's or the proxy's, the `Connection` fields are a sequence of
sets of names. `Dispatch` forgets them, as nothing later depends on them.

`Exchange` is the same without bodies, timers and heads: one verdict when it
returns, at most one more when the body of a response fails, none after the
client has left, and it always returns. These are the steps `Proxy` takes in
`BufferFails`, `UpstreamReturns`, `StreamEnds`, `StreamFails` and `ClientGone`.

### Telemetry

A task has a sequence of operations still to make, in the order in which the code
makes them: count the request, look for a backend, time the upstream, record a
result, count an error, count the response. Each operation is one action, and
tasks interleave between any two. Two of them are awaited, the body that is
buffered and the upstream: there the client may leave, the handler's future is
dropped and the rest of its operations with it (`ClientGone`). A retry makes
another attempt, or finds no backend, or finds its budget spent before it looks
for one (`Again`). `Render` is the sequence of loads a scrape makes. The rest of `record_success` and `record_failure` is one action
(`JudgeSuccess`, `JudgeFailure`), followed by the two accesses of the transition
it logs. Kinds of errors are counted together, statuses by origin. `retries`,
`lost` (attempts dropped by a client that left) and `pushed` (all transitions
pushed, in order) are histories that no step reads: `ResponsesAccounted` and
`RingExact` compare the counters and the ring with them.

### Server

The label `server` follows `run_with_shutdown_kind` and `wait_for_zero`:
`check` of the count, creation of the `Notified` future and its wake are separate
steps, and `tracker.close()` is two (`fetch_sub`, then `notify_waiters`). hyper's
connection future is external: after `graceful_shutdown` it finishes the request
in progress or ends.

### Config and Router

`LoadFromFile`, one action per section of `validate`, in the code's order, one
turn of a loop per route, and `SocketAddr`, the first thing `server::run` does. A value that a check looks at alone is valid or bad; prefixes,
backends and endpoints are kept, because checks compare them. A prefix or path
is a sequence over `"/"` and one other character.

The reference that `RoutedBySegments` compares `match_route` with knows nothing
of prefixes of text. It cuts prefix and path at their slashes (`Segments`, a
function from the place where a segment begins to its text), lets a prefix cover
a path when every segment of the prefix is the segment of the path at the same
place (`Covers`), and asks for the covering route with the most segments.

## 3. Runs

| Run | Expect | Shows |
|---|---|---|
| `threads` | pass | two threads, any mix of calls on one backend: `NoLimbo`, the inductive invariant `StrandedIsOwed`, and `Readmitted`: a backend that stops failing and is asked for again and again is offered again and again |
| `server` | pass | `TrackerExact`, `DrainedMeansEmpty` and `DrainEnds` with three connections |
| `server_wakeup` | violation | `ShutsDownAfterDraining`: the lost wakeup |
| `startup` | pass | with `failure_threshold` 1 and a long window: `DeadPoolAborts`, `NoFalseAbort`, `CheckerStops` |
| `startup_threshold` | violation | `DeadPoolAborts` at the default threshold 3 |
| `proxy_retry` | pass | `PermitsConserved`, `SendsBounded`, `NoBackendTwice`, `NoneStranded` with retries and backoff, and `WindsDown`: no step takes a request back |
| `proxy_live` | pass | `EveryRequestAnswered`, and `ActsAsBreaker`: the refinement of `CircuitBreaker` |
| `proxy_probe` | violation | `SingleProbe` |
| `proxy_bodies` | violation | `BodiesBounded`: more bodies in memory than `max_buffered_bodies` |
| `config` | pass | `VerdictExact`, `OneCheckPerBackend`, `RouteOrderIrrelevant`, `RoutedBySegments` |
| `upstream` | pass | `LimitsHold`, `EndedMeansWhole`, `RefusedOnlyOverLimit`, `FailuresCountedOnce`, `ClientFaultsStayOut`, `HeadIsProxys`, and `ImplementsExchange`: the refinement of `Exchange`, with its liveness |
| `telemetry` | pass | `ErrorsExplainResponses`, `DownIsExplained`; `ResponsesAccounted`: responses come to requests and retries, less the attempts of clients that left; `RingExact`: the ring is, entry by entry, the end of the history of transitions |

Every property of a passing run has a mutant in `PROJECT.json`: a definition
changed as a plausible bug would change it, under which TLC finds the property
violated. The mutated forms stand before the definitions they replace, marked
"Mutant".

### Bounds

* `HealthThreads`: one backend is enough for safety, because no access touches
  two backends; with two threads one can owe a repair while the other goes
  through a re-ejection and a new half-open window, call after call. Thresholds
  of 2 make counting differ from a single event. The theorems lift all of these.
* `Server`: three connections, each accepted once: one can close, and still have
  its notification to make, while another is open and a third is accepted.
* `Startup`: two routes, one with both backends and one with one of them, so a
  shared and an unshared backend both occur.
* `Proxy`: two requests that compete for one permit; two backends where retries
  are asked about, one where liveness or probes are. A request arrives once.
  `CounterPeriod` keeps the balancer's 64-bit counter modulo a common multiple of
  the lengths it is reduced by; the wrap at 2^64 is not modelled. With one
  backend, as in `proxy_live`, a second attempt finds none left, and both
  `max_attempts` 1 and more occur.
* `Upstream`: limits of 2 and 3 bytes, bodies of one byte below, at and above
  them, in chunks of one or two, so that a chunk ends below, at and beyond a
  limit; a name of each kind that a `Connection` field can nominate, and two such
  fields.
* `Telemetry`: two tasks, one of which can scrape while the other records; two
  jobs of up to three attempts, so that a threshold of 2 is reached with a retry
  under way and a third result follows the end of the ejection;
  a ring of two, which is full at the third transition, so that dropping the
  oldest entry differs from dropping the newest or all. 750 thousand states.
* `Config`: two or three routes over nested prefixes, since conflicts between
  routes that are not neighbours need three; every single flaw of a route and one
  bad setting of each section; all paths of up to six characters.

### Fairness

* `HealthThreads`: weak fairness of a call that has begun (it neither blocks nor
  awaits) and of the clock. Nothing makes a call begin; `Readmitted` assumes in
  its own premise that the backend is asked for.
* `Server`: weak fairness of the drain, whose only wait is under a timeout; none
  for connections, as a client may never finish.
* `Startup`: weak fairness of a background check (`check_timeout_ms`), strong
  fairness of noticing the shutdown, since `select!` polls its branches in random
  order and so does not pass over a ready branch for ever.
* `Proxy`: weak fairness of the handler, all of whose awaits are bounded:
  `client_body_timeout_ms`, `connect_timeout_ms` (which covers the wait for
  response headers) and the backoff timer. None for clients or bodies.
* `Upstream`: weak fairness of the handler between its awaits and of the timers
  of the two awaits, body buffering and the call. None for the client, the
  upstream or hyper: a response body may flow for ever.

`CHECK_DEADLOCK FALSE` appears where the process or the computation really ends
(`Server`, `Startup`, `Config`, `Upstream`, `Telemetry`).

## 4. Proofs

`HealthThreadsProofs`, for any set of backends and threads and any positive
thresholds (`ThresholdAssumption`, which `HealthCheckConfig::validate` ensures):

* `TypeCorrect`: `Spec => []TypeOK`. It is inductive as it stands; `BumpType`
  and `CountsType` are the arithmetic facts it needs.
* `DebtAlwaysCovered`: `Spec => []StrandedIsOwed`.
* `NeverInLimbo`: `Spec => []NoLimbo`.

`NoLimbo` speaks of moments without a record call under way, and so says nothing
about the state in the middle of one: it is not inductive. `StrandedIsOwed` says
it for every state: if a backend has none of its three claims, some thread has
the repairing store still to make (`healthy := true` after a probe's
success; the ejection after a failed probe or at the threshold). It is inductive because each
access that clears a claim is followed, in the same call, by the store that
repairs it, and because what one thread owes no other thread can take from it.
It implies `NoLimbo`, as an owing thread is a recording one.

* `SerialCallsAreWhole`: `SerialSpec => CallsAreWhole`, the refinement of
  `HealthCalls`. The inductive invariant is `SerialInv`: types, `NoOverlap`, and
  `CallFacts`, which says at each label what the call has already done to the
  record and relies on: the counter it cleared is still 0, and the `probing` it
  loaded, or cleared, is still so. The whole effect of a call is laid at its
  first store, and every later access leaves `Outcome` as it is. The clock is the
  hard case: a window that runs out in the middle of a call is a turn of its own
  after the call, unless the call is about to eject again, and then it is no
  turn at all. This refinement, and the types of `HealthThreads`, are proved and
  not asked of TLC in a run.

`ServerProofs`, for any finite set of connections (`ConnsAssumption`):

* `ServerTypeCorrect`: `Spec => []TypeOK`;
* `TrackerAlwaysExact`: `Spec => []TrackerExact`;
* `DrainedIsTrue`: `Spec => []DrainedMeansEmpty`.

All three follow from `DrainInvariant`, the induction over
`DrainInv == TypeOK /\ TrackerExact /\ DrainedMeansEmpty`. `DrainedMeansEmpty`
alone is not inductive: the answer "drained" is given on the counter, so it needs
the counter to be exact, and it stays true because the accept loop, once it has
answered, accepts nobody, which is the part of `TypeOK` that ties the answer to
the stage of the loop. The cardinality steps
rest on `OpenFinite`, `SameConns`, `SameOpen` and the library's facts on finite
sets.

`StartupProofs`, for any backends, routes and pools (`StartupAssumption`: there is
a route, no pool is empty and routes that share a backend agree on its health
endpoint, all of which `Config` shows `validate` to ensure):

* `StartupTypeCorrect`: `Spec => []TypeOK`;
* `NeverFalselyAborted`: `Spec => []NoFalseAbort`, for any thresholds. The
  verdict is given on the records, so the invariant is about them, `UpIsOffered`:
  a backend that is up is healthy and not ejected, since neither pass ever
  records a failure for it.
* `DeadPoolsAbort`: `Spec => []DeadPoolAborts`, under the two conditions of the
  run `startup`, `FailureThreshold = 1` and `WindowOutlastsStartup`. Without them it is
  false (section 5). The invariant, `DeadIsDown`, says that until the pools are
  judged a dead backend is either ejected with its window running, or untouched
  and still to be checked by the startup pass.

`ProxyProofs`, for any pool, any set of requests that is finite, any
configuration of retries and any number of permits (`ProxyAssumption`):

* `NeverStranded`: `Spec => []NoneStranded`, and `ProxyImplementsBreaker`:
  `Spec => ActsAsBreaker`, the refinement of `CircuitBreaker`, step by step. Both
  rest on `AllSound`: to `NoneStranded` it adds that a healthy backend's failures
  are below the threshold, without which a circuit could be closed at a count at
  which the breaker has to be open.
* `ProxyTypeCorrect`, `PermitsAlwaysConserved`, `SendsAlwaysBounded` and
  `NeverSameBackendTwice`: the invariants of `proxy_retry`, from `RequestInv`.
  None but the types is inductive: how often a request was sent must be
  tied to its stage, its attempt and the backends it has tried (`RequestOK`), and
  a permit to a request that is buffering. That the balancer gives a replayed
  request a new backend is `SelectedIsEligible`, for both algorithms and any pool
  that lists a backend more than once; `NthExists`, that a set of at least n
  places has an n-th, is shown by a least counterexample, since the prover has no
  induction over data.
* `EveryRequestWindsDown`: `Spec => WindsDown`. `StepsLeft` measures what a
  request has still before it: the attempts left, then the stages of the present
  one, then whether the budget is spent. Every step that changes a request makes
  it smaller, for any `max_attempts`, so the retry loop cannot go round for ever,
  whatever health, the clock, the client and other requests do. It is the safety
  half of `EveryRequestAnswered`; the other half is that the next step comes,
  which is fairness. It needs `RequestInv`, since the measure is a natural number
  only while the attempt is within its bound.
* `RoundRobinTakesTurns`: while the eligible backends stay the same, each is
  selected exactly once in as many selections as there are backends, wherever the
  counter stands. `Choice(eligible, count)` is `select` at one value of the
  counter; the place that it gives is the one of that rank (`NthIs`), and among n
  counts in a row each remainder modulo n comes up once (`Rotation`). The counter
  is kept modulo `CounterPeriod`, which changes no remainder (`ModuloMultiple`).

`UpstreamProofs`, for any limits, lengths, chunks, names and `Connection` fields
(`UpstreamAssumption`):

* `UpstreamTypeCorrect`, `LimitsAlwaysHold`, `EndedIsWhole`,
  `OnlyOverLimitRefused`, `EveryFailureCountedOnce` and `ClientFaultsKeptOut`,
  from `ExchangeInv`. What the accounting of one body keeps true is `BodyOK`;
  the rest of the invariant says which of the handler, the hook of the request
  body and the hook of the response body can have seen a failure at each stage,
  which is why no two count the same one.
* `HeadAlwaysProxys`, from `HeadInv`.
* `UpstreamImplementsExchange`: `Spec => Ex!Init /\ [][Ex!Next]_(Ex!vars)`, the
  safety part of `ImplementsExchange`.

`ConfigProofs`, for any configuration and any path (`ConfigAssumption`: a bad
setting belongs to a section, and routes, prefixes and paths are sequences):

* `VerdictAlwaysExact`, `OneCheckAlways` and `RouteOrderNeverMatters`, from
  `ValidateInv`: a section that is passed is in order, the two loops have
  dealt with the routes before the present one, and a refusal has a reason. The
  verdict alone says nothing before the end and so is not inductive. The order of
  routes does not matter because prefixes that match a path are beginnings
  of it (`MatchBegins`), two beginnings of one length are the same
  (`OneOfALength`) and accepted routes share none; `LongestExists` shows that
  `match_route` has a longest to choose.
* `AlwaysRoutedBySegments`: the route that `match_route` takes by comparing text
  is the one the segments ask for. A prefix matches exactly when it covers the
  path by whole segments; and of two prefixes that cover one path the longer text
  has strictly more segments, so the longest match and the most segments are the
  same route. Segments are known by where they begin, so no recursion over the
  path is involved.

`TelemetryProofs`, for any finite set of tasks, any number of jobs and attempts,
any thresholds and any size of the ring (`TelemetryAssumption`,
`ThresholdAssumption`):

* `TelemetryTypeCorrect`, `ErrorsAlwaysExplain`, `DownAlwaysExplained`,
  `ResponsesAlwaysAccounted` and `RingAlwaysExact`, from `TelemetryInv`. None is
  inductive: a counter is right only together with what the tasks are
  about to write to it, and a report only together with what is still to be read.
  So the invariant says, of every task, that the operations still before it are
  in the order of the code (`Ordered`: the error before the response that
  tells of it, the failure before its judgement, the gauge before the loads); of
  the counters, that they are in step with the numbers of tasks that are to write
  them (`CausesFirst`, `Balanced`), a response that is awaited still being
  before its task, so that a client that leaves takes exactly one away; of the retries, that with the attempts
  left they stay within the jobs (`RetriesLeft`); and of a report half read, what
  it may be relied on for (`ReportOK`). The sequences of the code are
  shown to be ordered once, by joining their pieces (`Joined`); how the numbers of
  tasks change when one task goes on (`MadeOne`, `SetOut`) is shown apart from
  what the operation does (`Effect`), so the twenty actions share one argument.

Only model-checked:

* the liveness properties (`Readmitted`, `DrainEnds`, `CheckerStops`,
  `EveryRequestAnswered` and that part of `ImplementsExchange`),
  which need reasoning about fairness and `ENABLED`.

Induction over data is out of the prover's reach too. No definition of the models
is recursive, and where a proof would use it, as in `NthExists` and
`LongestExists`, it takes a least counterexample instead (`LeastNat`).

## 5. Findings

* **Lost wakeup in the drain** (`server/mod.rs:180-181`). `wait_for_zero` loads
  the count and then creates the `Notified` future; the last `close()` between
  the two notifies nobody. The server waits out the whole
  `graceful_shutdown_timeout_ms` with no connection left and reports a timeout.
* **`fail_on_startup_dead_pool` at the default threshold** (`http/mod.rs:138`).
  One pass counts one failure per backend, below the default threshold of 3.
* **Half-open is not a single probe** (`health/mod.rs:232`). Every request is
  offered a half-open backend until a result is recorded.
* **`max_buffered_bodies` does not bound the bodies in memory**
  (`http/mod.rs:265`). `config/mod.rs:97` calls it the "maximum number of request
  bodies that may be buffered in memory simultaneously". The permit goes back when
  the body is read, and the body stays through forwarding, backoff and retries
  (also through the one attempt of a request that is not replayed, line 329,
  until hyper has sent it). With one permit, two idempotent requests that may be
  retried hold two bodies.

Observations that no run is about:

* Between the two stores of a probe's success (`probing := false`, then
  `healthy := true`) the filter refuses a backend that has just recovered.
* Under races fewer than `recovery_threshold` successes can set `healthy`, but
  only while the backend is ejected.
* `fail_on_startup_dead_pool` also misses a dead pool at threshold 1 when an
  ejection window ends before the pools are judged (`health/mod.rs:186`): the
  dead backend is then half-open and so offered. `DeadPoolAborts` fails on
  `Startup` with `FailureThreshold` 1 and `WindowOutlastsStartup = FALSE`.
* A failing client body on the streaming path surfaces as an upstream error and
  counts against the backend.
* A backend that answers a good status and then stalls its body alternates
  success and failure, so its consecutive failures never reach a threshold of 2.
* The idle timer of a response body also runs while the client does not read, so
  a slow client can make a backend fail. A response to HEAD with a large
  content-length is a 502 and a failure. Trailers are dropped.
* Only the first `Connection` field is read for names to strip, and a client may
  nominate `x-request-id`, which then does not reach the upstream.
* The health pages end an ejection that has run out: looking moves a backend into
  its half-open state. Entering that state is logged nowhere, the ring of
  transitions is read by nobody, and under races its order may differ from the
  order in which the flags changed.
* A check that times out counts as a 502, which an `active_success_status` range
  that reaches 502 takes for a success.
* Retries advance the balancer's counter like first attempts: with two backends,
  one of them always failing, every first attempt may land on the failing one.
* `validate` accepts a `server.host` that `socket_addr` then refuses, a host name
  for one.
* An accept error ends the server without a drain. A panic in a connection task
  would leave its count in the tracker.
* When retries end for want of a backend, a real upstream response seen in an
  earlier attempt is replaced by a 503; the retry budget does not cut short an
  attempt under way.
* `ferrum_proxy_responses_total` is not what its help text says, "Total responses
  sent by status code." (`telemetry/mod.rs:340`): `complete_request` runs once per
  attempt (`http/mod.rs:702`), so it counts the answers of a retried request that
  no client saw, and none for a client that left while its request was awaited.
  `ResponsesAccounted` says by how much the counter is off; it does not say that
  the help text holds.
* A prefix that ends in `/` is accepted and serves only itself and paths with an
  empty next segment: `/` does not serve `/a`. `RoutedBySegments` states the rule
  that `match_route` follows.

## 6. Not modelled

* hyper and tokio internals: external, by the way the code uses them.
* The text of log lines and of the metrics page, and the sum of latencies: layout
  and data no property is about.
* The serde defaults, and what makes a single value of the configuration valid.
* The spelling of URIs and header values.
* Which internal route answers what, beyond what it reads; the debug token only
  decides whether it is read.
* `lib.rs`, which only declares modules; the exit codes of `main`.
* The benchmark tools (`bin/*.rs`), which are no part of the proxy. The runner
  only starts other programs and waits for them, and what could be said of it
  rests on those: a port is picked, released and bound again later, and any
  program that answers `ok` there, or shows the proxy's metrics, is taken for the
  process expected (`benchmark_runner.rs:505-509`); `cargo build` and `wrk` have
  no deadline, and the deadline of `wait_until_ready` is looked at only between
  two fetches, each bounded per read.
* The difference between the signals that end the server: all drain and exit.

## 7. Plan

Done, in this order: `HealthThreads` and its proofs; `Server` and its proofs;
`BackendHealth` and `Startup`; `Proxy`; `Router` and `Config`; `Exchange` and
`Upstream`; `CircuitBreaker`; `Telemetry`.

Then the proofs: of `Startup`, `Proxy`, `Upstream`, `Config` and `Telemetry`, the
three refinements among them. Every invariant that a passing run
checks is a theorem, and so are the action property `WindsDown` and the safety
part of the three refinements; what the balancer promises of one round over a
list that does not change is one too.

To model, where it pays: several routes in `Proxy` that share a backend;
the spread of the balancer while the set of healthy backends changes.
