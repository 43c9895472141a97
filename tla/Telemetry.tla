----------------------------- MODULE Telemetry ------------------------------
(***************************************************************************)
(* What the metrics say (src/src/telemetry/mod.rs): the counters that      *)
(* request tasks and the active checker write, each write on its own, and  *)
(* the /metrics and /health/backends endpoints of src/src/http/mod.rs that *)
(* read them while the writers go on.                                      *)
(*                                                                         *)
(* A task works through the operations its code makes on the telemetry and *)
(* the health manager, in the order of the code, and the two awaits among  *)
(* them: the client may leave there, which drops the handler's future, and *)
(* the rest of the operations with it.  There is one backend.              *)
(*                                                                         *)
(* Abstractions.  A response counts as "upstream" (it came from there),    *)
(* "failure" (the proxy's own 400, 408, 413, 502, 503 or 504) or "plain"   *)
(* (an internal endpoint, a 401 or a 404); the kinds of errors are counted *)
(* together.  Log lines, the sum of latencies and the error of a request   *)
(* body that fails while it is streamed (Upstream has it) are left out.    *)
(* The sleep between two attempts is a task that is idle: a client that    *)
(* leaves there just has no retry.                                         *)
(***************************************************************************)
EXTENDS BackendHealth, Sequences, FiniteSets

CONSTANTS
    Tasks,              \* tasks that may be at work at once
    MaxJobs,            \* bound: jobs they begin in all
    MaxAttempts,        \* retry.max_attempts
    ExposeMetrics,      \* debug.expose_metrics
    ExposeHealth,       \* debug.expose_backend_health
    MaxTransitions      \* MAX_TRANSITIONS

ASSUME TelemetryAssumption ==
    /\ IsFiniteSet(Tasks)
    /\ MaxJobs \in Nat
    /\ MaxAttempts \in Nat \ {0}
    /\ ExposeMetrics \in BOOLEAN
    /\ ExposeHealth \in BOOLEAN
    /\ MaxTransitions \in Nat \ {0}

VARIABLES
    todo,           \* todo[t]: the operations t has still to make
    attempt,        \* attempt[t]: of t's request; 0 if it cannot be repeated
    body,           \* body[t]: t's response has an upstream body
    jobs,           \* jobs begun
    retries,        \* history: attempts whose response was dropped for another
    lost,           \* history: attempts that were dropped before their response
    health,         \* the BackendHealth of the backend
    request_count,
    latency_count,  \* upstream_latency_count
    failures,       \* backend_failures of the backend
    statuses,       \* response_statuses, by where the response came from
    errors,         \* proxy_errors
    transitions,    \* health_transitions_total
    ring,           \* health_transitions, the reasons
    pushed,         \* history: the reasons of all that were pushed, in order
    report          \* report[t]: what t's last render_prometheus has read

counters == <<request_count, latency_count, failures, statuses, errors>>
log == <<transitions, ring, pushed>>
vars == <<todo, attempt, body, jobs, retries, lost, health, counters, log, report>>

Origins == {"upstream", "failure", "plain"}

NoReport == [complete |-> FALSE, offered |-> TRUE, failures |-> 0,
             answered |-> 0, errors |-> 0]

Init ==
    /\ todo = [t \in Tasks |-> <<>>]
    /\ attempt = [t \in Tasks |-> 0]
    /\ body = [t \in Tasks |-> FALSE]
    /\ jobs = 0
    /\ retries = 0
    /\ lost = 0
    /\ health = Fresh
    /\ request_count = 0
    /\ latency_count = 0
    /\ failures = 0
    /\ statuses = [o \in Origins |-> 0]
    /\ errors = 0
    /\ transitions = 0
    /\ ring = <<>>
    /\ pushed = <<>>
    /\ report = [t \in Tasks |-> NoReport]

-----------------------------------------------------------------------------
(* What the code does, as sequences of operations *)

Failure == << <<"count_failure">>, <<"judge_failure">> >>
Success == << <<"judge_success">> >>

\* Mutant: the response is counted before the error behind it.
ProxyFailureStatusFirst == << <<"status", "failure">>, <<"error">> >>

\* An answer of the proxy's own: record_proxy_error, then complete_request.
ProxyFailure == << <<"error">>, <<"status", "failure">> >>

\* Mutant: complete_request is left to the attempt that is answered with.
ForwardedAnsweredOnce ==
    {<< <<"latency">> >> \o Failure,
     << <<"latency">> >> \o Success \o << <<"status", "upstream">> >>}

\* forward_request, once upstream.forward is awaited: a success, a passive
\* failure, or an UpstreamError.
Forwarded ==
    {<< <<"latency">> >> \o Success \o << <<"status", "upstream">> >>,
     << <<"latency">> >> \o Failure \o << <<"status", "upstream">> >>,
     << <<"latency">> >> \o Failure \o ProxyFailure}

\* What comes before it: a request that may be repeated is buffered before a
\* backend is selected, one that must not be repeated after it, and one that is
\* streamed not at all.
Repeatable == << <<"request">>, <<"buffer">>, <<"poll">> >>
Once == {<< <<"request">>, <<"poll">>, <<"buffer">> >>, << <<"request">>, <<"poll">> >>}

\* An attempt after the first: another forward_request; or no backend left, or the
\* budget found spent before a backend is looked for, and then it is the last.
Final == {<< <<"poll">> >> \o ProxyFailure, ProxyFailure}
Again == {<< <<"poll">> >> \o ops : ops \in Forwarded} \cup Final

\* The operations that t awaits before they are made: buffer_request_body, and
\* upstream.forward, which record_upstream_latency follows.
Awaits == {<<"buffer">>, <<"latency">>}

\* Mutant: the counters are rendered before the backends are looked at.
RenderThenPoll ==
    << <<"load_failures">>, <<"gauge">>, <<"load_statuses">>, <<"load_errors">> >>

\* metrics_response: backend_statuses is evaluated first, then
\* render_prometheus loads the counters one after the other.
Render ==
    << <<"gauge">>, <<"load_failures">>, <<"load_statuses">>, <<"load_errors">> >>

\* handle_internal_route: an endpoint that is not exposed is routed as any
\* other path, and without the token it is a 401 that reads nothing.
Internal ==
    {<<>>}
        \cup (IF ExposeMetrics THEN {Render} ELSE {})
        \cup (IF ExposeHealth THEN {<< <<"poll">> >>} ELSE {})

-----------------------------------------------------------------------------
(* Jobs *)

Idle(t) == todo[t] = <<>>

\* t has ops to make; they may end with the response of an upstream.
SetsOut(t, ops) ==
    /\ Idle(t)
    /\ todo' = [todo EXCEPT ![t] = ops]
    /\ body' = [body EXCEPT ![t] = ops[Len(ops)] = <<"status", "upstream">>]

\* t begins a job; tries is 1 if it may be attempted again.
Begin(t, ops, tries) ==
    /\ SetsOut(t, ops)
    /\ jobs < MaxJobs
    /\ jobs' = jobs + 1
    /\ attempt' = [attempt EXCEPT ![t] = tries]
    /\ report' = [report EXCEPT ![t] = NoReport]
    /\ UNCHANGED <<retries, lost, health, counters, log>>

\* An internal endpoint, a 401 or a 404.
AnswerInternally(t) ==
    \E ops \in Internal :
        Begin(t, << <<"request">> >> \o ops \o << <<"status", "plain">> >>, 0)

\* The proxy refuses: size, buffers, body, budget, or no backend found healthy.
Refuse(t) ==
    \E ops \in {<<>>, << <<"poll">> >>, << <<"buffer">> >>,
                << <<"poll">>, <<"buffer">> >>, << <<"buffer">>, <<"poll">> >>} :
        Begin(t, << <<"request">> >> \o ops \o ProxyFailure, 0)

Forward(t) ==
    \E ops \in Forwarded :
        \/ Begin(t, Repeatable \o ops, 1)
        \/ \E before \in Once : Begin(t, before \o ops, 0)

\* run_active_check_pass_with_client records a result.
ActiveCheck(t) == \E ops \in {Success, Failure} : Begin(t, ops, 0)

\* Mutant: one retry too many.
RetryTooOften(t) ==
    /\ attempt[t] \in 1 .. MaxAttempts
    /\ \E ops \in Again :
        /\ SetsOut(t, ops)
        /\ attempt' = [attempt EXCEPT ![t] = IF ops \in Final THEN 0 ELSE @ + 1]
    /\ retries' = retries + 1
    /\ UNCHANGED <<jobs, lost, health, counters, log, report>>

\* The loop of forward_with_retries drops the response and goes round again.
Retry(t) ==
    /\ attempt[t] \in 1 .. MaxAttempts - 1
    /\ \E ops \in Again :
        /\ SetsOut(t, ops)
        /\ attempt' = [attempt EXCEPT ![t] = IF ops \in Final THEN 0 ELSE @ + 1]
    /\ retries' = retries + 1
    /\ UNCHANGED <<jobs, lost, health, counters, log, report>>

\* response_error_hook: the body fails after the response was counted.
BodyFails(t) ==
    /\ body[t]
    /\ SetsOut(t, << <<"error">> >> \o Failure)
    /\ attempt' = [attempt EXCEPT ![t] = 0]
    /\ UNCHANGED <<jobs, retries, lost, health, counters, log, report>>

\* The client leaves at an await: hyper drops the future of the handler, and what
\* it had still to count is not counted.
ClientGone(t) ==
    /\ ~Idle(t)
    /\ todo[t][1] \in Awaits
    /\ todo' = [todo EXCEPT ![t] = <<>>]
    /\ attempt' = [attempt EXCEPT ![t] = 0]
    /\ body' = [body EXCEPT ![t] = FALSE]
    /\ lost' = lost + 1
    /\ UNCHANGED <<jobs, retries, health, counters, log, report>>

-----------------------------------------------------------------------------
(* Operations *)

\* t makes its next operation, op, and goes on.
Does(t, op) ==
    /\ ~Idle(t)
    /\ todo[t][1] = op
    /\ todo' = [todo EXCEPT ![t] = Tail(@)]
    /\ UNCHANGED <<attempt, body, jobs, retries, lost>>

RecordRequest(t) ==
    /\ Does(t, <<"request">>)
    /\ request_count' = request_count + 1
    /\ UNCHANGED <<health, latency_count, failures, statuses, errors, log, report>>

\* buffer_request_body has the whole body, or gives up on it.
Buffer(t) == Does(t, <<"buffer">>) /\ UNCHANGED <<health, counters, log, report>>

RecordUpstreamLatency(t) ==
    /\ Does(t, <<"latency">>)
    /\ latency_count' = latency_count + 1
    /\ UNCHANGED <<health, request_count, failures, statuses, errors, log, report>>

RecordBackendFailure(t) ==
    /\ Does(t, <<"count_failure">>)
    /\ failures' = failures + 1
    /\ UNCHANGED <<health, request_count, latency_count, statuses, errors, log, report>>

RecordResponseStatus(t) ==
    \E o \in Origins :
        /\ Does(t, <<"status", o>>)
        /\ statuses' = [statuses EXCEPT ![o] = @ + 1]
        /\ UNCHANGED <<health, request_count, latency_count, failures, errors, log, report>>

RecordProxyError(t) ==
    /\ Does(t, <<"error">>)
    /\ errors' = errors + 1
    /\ UNCHANGED <<health, request_count, latency_count, failures, statuses, log, report>>

\* The reason of the transition that the record of a result makes, if it does.
SuccessReason(h) ==
    CASE h.probing -> "probe_succeeded"
      [] ~h.probing /\ ~h.healthy /\ RecordSuccess(h).healthy -> "success_threshold"
      [] OTHER -> "none"
FailureReason(h) ==
    CASE h.probing -> "probe_failed"
      [] ~h.probing /\ h.healthy /\ ~RecordFailure(h).healthy -> "failure_threshold"
      [] OTHER -> "none"

\* The rest of record_success or record_failure, in one step (HealthThreads
\* takes it apart): h becomes the new record, and a transition is logged when
\* the caller gets to it.
Judges(t, op, h, reason) ==
    /\ ~Idle(t)
    /\ todo[t][1] = op
    /\ health' = h
    /\ todo' = [todo EXCEPT ![t] =
                  IF reason = "none" THEN Tail(@)
                  ELSE << <<"count_transition">>, <<"push", reason>> >> \o Tail(@)]
    /\ UNCHANGED <<attempt, body, jobs, retries, lost, counters, log, report>>

JudgeSuccess(t) ==
    Judges(t, <<"judge_success">>, RecordSuccess(health), SuccessReason(health))
JudgeFailure(t) ==
    Judges(t, <<"judge_failure">>, RecordFailure(health), FailureReason(health))

CountTransition(t) ==
    /\ Does(t, <<"count_transition">>)
    /\ transitions' = transitions + 1
    /\ UNCHANGED <<health, counters, ring, pushed, report>>

Reasons == {"probe_succeeded", "success_threshold", "probe_failed", "failure_threshold"}

\* Mutant: a ring that is full takes no more.
PushTransitionIfRoom(t) ==
    \E reason \in Reasons :
        /\ Does(t, <<"push", reason>>)
        /\ ring' = IF Len(ring) >= MaxTransitions THEN ring ELSE Append(ring, reason)
        /\ pushed' = Append(pushed, reason)
        /\ UNCHANGED <<health, counters, transitions, report>>

PushTransition(t) ==
    \E reason \in Reasons :
        /\ Does(t, <<"push", reason>>)
        /\ ring' = Append(IF Len(ring) >= MaxTransitions THEN Tail(ring) ELSE ring, reason)
        /\ pushed' = Append(pushed, reason)
        /\ UNCHANGED <<health, counters, transitions, report>>

\* healthy_backends, and backend_statuses for /health/backends: an ejection
\* that has run out ends.
Poll(t) ==
    /\ Does(t, <<"poll">>)
    /\ health' = PollEjection(health)
    /\ UNCHANGED <<counters, log, report>>

\* backend_statuses for /metrics.
Gauge(t) ==
    /\ Does(t, <<"gauge">>)
    /\ health' = PollEjection(health)
    /\ report' = [report EXCEPT ![t].offered = Offered(PollEjection(health))]
    /\ UNCHANGED <<counters, log>>

LoadFailures(t) ==
    /\ Does(t, <<"load_failures">>)
    /\ report' = [report EXCEPT ![t].failures = failures]
    /\ UNCHANGED <<health, counters, log>>

LoadStatuses(t) ==
    /\ Does(t, <<"load_statuses">>)
    /\ report' = [report EXCEPT ![t].answered = statuses["failure"]]
    /\ UNCHANGED <<health, counters, log>>

LoadErrors(t) ==
    /\ Does(t, <<"load_errors">>)
    /\ report' = [report EXCEPT ![t].errors = errors, ![t].complete = TRUE]
    /\ UNCHANGED <<health, counters, log>>

EjectionExpires ==
    /\ health.ejected_until = "running"
    /\ health' = Expire(health)
    /\ UNCHANGED <<todo, attempt, body, jobs, retries, lost, counters, log, report>>

-----------------------------------------------------------------------------
Next ==
    \/ \E t \in Tasks :
        \/ AnswerInternally(t)
        \/ Refuse(t)
        \/ Forward(t)
        \/ ActiveCheck(t)
        \/ Retry(t)
        \/ BodyFails(t)
        \/ ClientGone(t)
        \/ RecordRequest(t)
        \/ Buffer(t)
        \/ RecordUpstreamLatency(t)
        \/ RecordBackendFailure(t)
        \/ RecordResponseStatus(t)
        \/ RecordProxyError(t)
        \/ JudgeSuccess(t)
        \/ JudgeFailure(t)
        \/ CountTransition(t)
        \/ PushTransition(t)
        \/ Poll(t)
        \/ Gauge(t)
        \/ LoadFailures(t)
        \/ LoadStatuses(t)
        \/ LoadErrors(t)
    \/ EjectionExpires

Spec == Init /\ [][Next]_vars

-----------------------------------------------------------------------------
\* How many tasks have an operation in ops before them.
Pending(ops) == Cardinality({t \in Tasks : \E i \in DOMAIN todo[t] : todo[t][i] \in ops})
Answers == {<<"status", o>> : o \in Origins}

\* Every variable keeps its type; no task attempts a request too often.
TypeOK ==
    /\ attempt \in [Tasks -> 0 .. MaxAttempts]
    /\ body \in [Tasks -> BOOLEAN]
    /\ jobs \in 0 .. MaxJobs
    /\ retries \in 0 .. MaxJobs * (MaxAttempts - 1)
    /\ health \in Health
    /\ \A n \in {lost, request_count, latency_count, failures, errors, transitions} : n \in Nat
    /\ statuses \in [Origins -> Nat]
    /\ \A i \in DOMAIN ring : ring[i] \in Reasons

\* A scrape never shows a response of the proxy's own without the error behind
\* it: the error is written first and read last.
ErrorsExplainResponses ==
    \A t \in Tasks : report[t].complete => report[t].answered <= report[t].errors

\* A scrape that shows the backend down also shows the failures that brought it
\* down: they are counted before the record is touched, and loaded after the
\* backends were looked at.
DownIsExplained ==
    \A t \in Tasks :
        report[t].complete /\ ~report[t].offered => report[t].failures >= FailureThreshold

\* ferrum_proxy_responses_total counts attempts, not the "responses sent" of its
\* help text: complete_request runs in every attempt that is not dropped, so the
\* responses come to the requests, one more for each retry whose response nobody
\* saw, and one fewer for each client that left first, whatever the tasks are in
\* the middle of.  And every response of an upstream has been timed.
ResponsesAccounted ==
    /\ statuses["upstream"] + statuses["failure"] + statuses["plain"] + Pending(Answers) + lost
        = request_count + Pending({<<"request">>}) + retries
    /\ statuses["upstream"] <= latency_count

\* r holds the last of p, in order: MaxTransitions of them, or all there are.
Latest(r, p) ==
    /\ Len(r) = IF Len(p) < MaxTransitions THEN Len(p) ELSE MaxTransitions
    /\ \A i \in 1 .. Len(r) : r[i] = p[(Len(p) - Len(r)) + i]

\* The ring holds the latest MaxTransitions transitions that were pushed, all of
\* them while they are fewer, in the order they came; and every transition that
\* was counted was pushed, or is by a task that is about to: the count and the
\* push are two steps (record_health_transition).
RingExact ==
    /\ Latest(ring, pushed)
    /\ Len(pushed) + Cardinality({t \in Tasks :
            ~Idle(t) /\ todo[t][1] \in {<<"push", r>> : r \in Reasons}}) = transitions
=============================================================================
