------------------------------ MODULE Upstream ------------------------------
(***************************************************************************)
(* One exchange with one backend: the buffering of the request body and    *)
(* forward_request of src/src/http/mod.rs, and UpstreamClient::forward of  *)
(* src/src/upstream/mod.rs with limit_body_stream on both bodies.          *)
(*                                                                         *)
(* The handler, the client, the upstream and the task of hyper's client    *)
(* that pulls the request body all move on their own: the upstream may     *)
(* answer before it has the whole request, and the request body may fail   *)
(* while the response is on its way.                                       *)
(*                                                                         *)
(* Abstractions.  A body is a number of bytes that come in chunks.  A head *)
(* says of each field whether it is absent, the client's or the proxy's    *)
(* own; the Connection fields are a sequence of sets of nominated names.   *)
(* A timer that runs while a body is awaited may fire at any time.         *)
(***************************************************************************)
EXTENDS Naturals, Sequences

CONSTANTS
    MaxRequestBody,     \* upstream.max_request_body_bytes
    MaxResponseBody,    \* upstream.max_response_body_bytes
    LongestBody,        \* bound: no source sends more bytes than this
    LargestChunk,       \* bound: nor more of them in one chunk
    NoLength,           \* stands for a content-length that is absent
    HopByHop,           \* the names sanitize_hop_by_hop_headers always strips
    Own,                \* the names apply_forwarding_headers sets
    EndToEnd,           \* other names
    Connections         \* the Connection fields a client may send

ASSUME UpstreamAssumption ==
    /\ MaxRequestBody \in Nat \ {0}
    /\ MaxResponseBody \in Nat \ {0}
    /\ LongestBody \in Nat
    /\ LargestChunk \in Nat
    /\ NoLength \notin Nat
    /\ HopByHop \cap Own = {}
    /\ EndToEnd \cap (HopByHop \cup Own) = {}
    /\ {"content-length", "x-request-id"} \subseteq EndToEnd
    /\ <<>> \in Connections
    /\ \A fields \in Connections : fields \in Seq(SUBSET (HopByHop \cup Own \cup EndToEnd))

VARIABLES
    stage,      \* where the handler is; "over" when the response has ended too
    mode,       \* how the request body is handled
    upload,     \* the request body, on its way to the buffer or the upstream
    download,   \* the response body
    received,   \* the head of the client's request
    forwarded,  \* the head that forward builds of it
    status,     \* what answers the client
    errors,     \* the kinds given to record_proxy_error, in order
    verdicts    \* the calls of record_success and record_failure, in order

vars == <<stage, mode, upload, download, received, forwarded, status, errors, verdicts>>

-----------------------------------------------------------------------------
(* Bodies *)

Lengths == 0 .. LongestBody
Failures == {"too_large", "read_failed", "idle"}

\* A body whose source is the network, or one that is in memory (Full).
Body == [declared : Lengths \cup {NoLength},
         in_memory : BOOLEAN,
         taken : Lengths,       \* bytes the source has yielded
         passed : Lengths,      \* bytes handed on
         state : {"open", "ended", "dropped"} \cup Failures]

Incoming(length) == [declared |-> length, in_memory |-> FALSE, taken |-> 0,
                     passed |-> 0, state |-> "open"]
Full(length) == [Incoming(length) EXCEPT !.in_memory = TRUE]

\* The sizes of the chunk the source may yield next; Full has a single one.
Chunks(body) ==
    IF body.in_memory
    THEN {body.declared - body.taken} \ {0}
    ELSE {n \in 1 .. LargestChunk :
            body.taken + n <= IF body.declared = NoLength THEN LongestBody
                                                          ELSE body.declared}

\* The framing of HTTP: a declared length is neither more nor less.
MayEnd(body) == body.declared \in {NoLength, body.taken}

\* Mutant: the limit itself is too much.
GrownBelow(body, n, limit) ==
    IF body.taken + n >= limit
    THEN [body EXCEPT !.taken = @ + n, !.state = "too_large"]
    ELSE [body EXCEPT !.taken = @ + n, !.passed = @ + n]

\* Mutant: the chunk is judged before it is counted.
GrownUnlessOver(body, n, limit) ==
    IF body.taken > limit
    THEN [body EXCEPT !.taken = @ + n, !.state = "too_large"]
    ELSE [body EXCEPT !.taken = @ + n, !.passed = @ + n]

\* Mutant: a body over its limit is cut short.
GrownOrCut(body, n, limit) ==
    IF body.taken + n > limit
    THEN [body EXCEPT !.taken = @ + n, !.state = "ended"]
    ELSE [body EXCEPT !.taken = @ + n, !.passed = @ + n]

\* A chunk of n bytes goes through limit_body_stream or into the buffer.
Grown(body, n, limit) ==
    IF body.taken + n > limit
    THEN [body EXCEPT !.taken = @ + n, !.state = "too_large"]
    ELSE [body EXCEPT !.taken = @ + n, !.passed = @ + n]

\* What the source of an open body does next: it yields a chunk, ends or fails.
Fed(body, limit) ==
    {Grown(body, n, limit) : n \in Chunks(body)}
        \cup (IF MayEnd(body) THEN {[body EXCEPT !.state = "ended"]} ELSE {})
        \cup (IF body.in_memory THEN {} ELSE {[body EXCEPT !.state = "read_failed"]})

\* It yields nothing for idle_timeout.
TimedOut(body) == [body EXCEPT !.state = "idle"]

Dropped(body) == IF body.state = "open" THEN [body EXCEPT !.state = "dropped"] ELSE body

\* content_length_exceeds
Exceeds(length, limit) == length # NoLength /\ length > limit

\* The kinds of RequestBufferError and of the stream "client request body".
RequestKind(failure) ==
    CASE failure = "too_large"   -> "request_body_too_large"
      [] failure = "read_failed" -> "client_request_body_read_failed"
      [] failure = "idle"        -> "client_body_timeout"

\* The kinds of the stream "upstream response body".
ResponseKind(failure) ==
    CASE failure = "too_large"   -> "response_body_too_large"
      [] failure = "read_failed" -> "upstream_response_body_read_failed"
      [] failure = "idle"        -> "upstream_response_body_timeout"

RequestKinds == {RequestKind(f) : f \in Failures}

-----------------------------------------------------------------------------
(* Heads *)

Names == HopByHop \cup Own \cup EndToEnd
MessageHead == [fields : [Names -> {"absent", "client", "proxy"}], connection : Connections]
NoHead == [fields |-> [n \in Names |-> "absent"], connection |-> <<>>]

\* What handle_request makes of the head: every request has an id.
Identified(h) ==
    [h EXCEPT !.fields["x-request-id"] = IF @ = "absent" THEN "proxy" ELSE @]

\* headers.get(CONNECTION) reads the first field only.
Nominated(h) == IF h.connection = <<>> THEN {} ELSE h.connection[1]

\* sanitize_hop_by_hop_headers
Sanitized(h) ==
    [fields |-> [n \in Names |->
        IF n \in HopByHop \cup Nominated(h) THEN "absent" ELSE h.fields[n]],
     connection |-> <<>>]

\* apply_forwarding_headers: the client's own are removed, the proxy's inserted.
WithForwarding(h) ==
    [h EXCEPT !.fields = [n \in Names |-> IF n \in Own THEN "proxy" ELSE @[n]]]

\* ReplayableRequest::to_request
Replayed(h) ==
    IF mode = "replayed" THEN [h EXCEPT !.fields["content-length"] = "proxy"] ELSE h

\* Mutant: the proxy's fields are in place when the nominated ones are stripped.
UpstreamHeadOwnFirst(h) == Sanitized(WithForwarding(Replayed(h)))

\* The head that forward sends.
UpstreamHead(h) == WithForwarding(Sanitized(Replayed(h)))

-----------------------------------------------------------------------------
Init ==
    /\ stage = "arrived"
    /\ mode \in {"streamed", "prebuffered", "replayed"}
    /\ upload \in {Incoming(length) : length \in Lengths \cup {NoLength}}
    /\ download = Incoming(0)
    /\ received = NoHead
    /\ forwarded = NoHead
    /\ status = "none"
    /\ errors = <<>>
    /\ verdicts = <<>>

\* The handler returns a response of its own, counted under kind.
Refused(kind, code) ==
    /\ stage' = "over"
    /\ status' = code
    /\ errors' = Append(errors, kind)
    /\ UNCHANGED <<mode, download, received, forwarded, verdicts>>

\* The declared length is over the limit: 413 before anything is read.
RefuseDeclared ==
    /\ stage = "arrived"
    /\ Exceeds(upload.declared, MaxRequestBody)
    /\ upload' = Dropped(upload)
    /\ Refused("request_body_too_large", "413")

\* Mutant: every body is streamed.
AcceptUnbuffered ==
    /\ stage = "arrived"
    /\ ~Exceeds(upload.declared, MaxRequestBody)
    /\ stage' = "forwarding"
    /\ UNCHANGED <<mode, upload, download, received, forwarded, status, errors, verdicts>>

\* The body is buffered first, or goes straight to forward.
Accept ==
    /\ stage = "arrived"
    /\ ~Exceeds(upload.declared, MaxRequestBody)
    /\ stage' = IF mode = "streamed" THEN "forwarding" ELSE "buffering"
    /\ UNCHANGED <<mode, upload, download, received, forwarded, status, errors, verdicts>>

\* RequestBufferError::into_response
BufferStatus(failure) ==
    CASE failure = "too_large"   -> "413"
      [] failure = "read_failed" -> "400"
      [] failure = "idle"        -> "408"

\* buffer_request_body returns, or takes another chunk.
Buffer(body) ==
    \/ /\ body.state \in Failures
       /\ upload' = body
       /\ Refused(RequestKind(body.state), BufferStatus(body.state))
    \/ /\ body.state = "ended"
       /\ upload' = Full(body.passed)
       /\ stage' = "forwarding"
       /\ UNCHANGED <<mode, download, received, forwarded, status, errors, verdicts>>
    \/ /\ body.state = "open"
       /\ upload' = body
       /\ UNCHANGED <<stage, mode, download, received, forwarded, status, errors, verdicts>>

BufferStep ==
    /\ stage = "buffering"
    /\ \E body \in Fed(upload, MaxRequestBody) : Buffer(body)

\* Mutant: the body is read without a timer.
BufferNeverTimesOut == FALSE

BufferTimesOut ==
    /\ stage = "buffering"
    /\ Buffer(TimedOut(upload))

-----------------------------------------------------------------------------
(* UpstreamClient::forward, and what forward_request makes of its result *)

\* bad_gateway_response
GatewayStatus(kind) == IF kind = "upstream_connect_timeout" THEN "504" ELSE "502"

\* forward returns an UpstreamError: a verdict, an error and a response.
Failed(kind) ==
    /\ stage' = "over"
    /\ verdicts' = Append(verdicts, "failure")
    /\ errors' = Append(errors, kind)
    /\ status' = GatewayStatus(kind)
    /\ UNCHANGED <<mode, download, received, forwarded>>

\* build_upstream_uri fails; a validated backend URL always parses.
UriInvalid ==
    /\ stage = "forwarding"
    /\ upload' = Dropped(upload)
    /\ Failed("invalid_upstream_uri")

\* The head is built from the client's.
BuildHead ==
    /\ stage = "forwarding"
    /\ \E fields \in [Names -> {"absent", "client"}], connection \in Connections :
        LET h == Identified([fields |-> fields, connection |-> connection])
        IN  /\ received' = h
            /\ forwarded' = UpstreamHead(h)
    /\ stage' = "sending"
    /\ UNCHANGED <<mode, upload, download, status, errors, verdicts>>

\* client.request is called; the heads are not looked at again.
Dispatch ==
    /\ stage = "sending"
    /\ stage' = "calling"
    /\ received' = NoHead
    /\ forwarded' = NoHead
    /\ UNCHANGED <<mode, upload, download, status, errors, verdicts>>

\* The timeout around client.request.
ConnectTimesOut ==
    /\ stage = "calling"
    /\ Failed("upstream_connect_timeout")
    /\ UNCHANGED upload

\* The connector fails, by its own connect timeout too: nothing has been sent.
ConnectFails ==
    /\ stage = "calling"
    /\ upload.taken = 0 /\ upload.state = "open"
    /\ \E kind \in {"upstream_connection_refused", "upstream_request_failed"} : Failed(kind)
    /\ upload' = Dropped(upload)

\* classify_request_error of anything later: a broken connection, a response
\* that does not parse, or a request body that failed.
CallBreaks ==
    /\ stage = "calling"
    /\ Failed("invalid_upstream_response")
    /\ upload' = Dropped(upload)

\* The head of the response arrives, perhaps before the request has ended.  A
\* response to HEAD declares a length and has no body.
Respond ==
    /\ stage = "calling"
    /\ upload.state \in {"open", "ended"}
    /\ \E length \in Lengths \cup {NoLength}, bodiless \in BOOLEAN,
          verdict \in {"success", "failure"} :
        \/ /\ Exceeds(length, MaxResponseBody)
           /\ Failed("response_body_too_large")
        \/ /\ ~Exceeds(length, MaxResponseBody)
           /\ stage' = "responding"
           /\ status' = "upstream"
           /\ verdicts' = Append(verdicts, verdict)
           /\ download' = Incoming(IF bodiless THEN 0 ELSE length)
           /\ UNCHANGED <<mode, received, forwarded, errors>>
    /\ UNCHANGED upload

-----------------------------------------------------------------------------
(* The bodies, pulled by hyper *)

\* limit_body_stream on the request body, with request_error_hook.
Upload(body) ==
    /\ upload' = body
    /\ errors' = IF body.state \in Failures THEN Append(errors, RequestKind(body.state))
                                            ELSE errors
    /\ UNCHANGED <<stage, mode, download, received, forwarded, status, verdicts>>

\* Mutant: the stream is polled again after it has failed.
UploadStepAgain ==
    /\ stage \in {"calling", "responding", "over"}
    /\ upload.state \notin {"ended", "dropped"}
    /\ \/ \E body \in Fed(upload, MaxRequestBody) : Upload(body)
       \/ ~upload.in_memory /\ Upload(TimedOut(upload))

UploadStep ==
    /\ stage \in {"calling", "responding", "over"}
    /\ upload.state = "open"
    /\ \/ \E body \in Fed(upload, MaxRequestBody) : Upload(body)
       \/ ~upload.in_memory /\ Upload(TimedOut(upload))

\* The upstream has answered or the call has failed, and hyper lets go of the
\* rest of the request.
UploadDropped ==
    /\ stage \in {"responding", "over"}
    /\ upload.state = "open"
    /\ Upload(Dropped(upload))

\* Mutant: a response body that fails is not counted as an error.
DownloadUncounted(body) ==
    /\ download' = body
    /\ stage' = IF body.state = "open" THEN "responding" ELSE "over"
    /\ verdicts' = IF body.state \in Failures THEN Append(verdicts, "failure") ELSE verdicts
    /\ UNCHANGED <<mode, upload, received, forwarded, status, errors>>

\* limit_body_stream on the response body, with response_error_hook.
Download(body) ==
    /\ download' = body
    /\ stage' = IF body.state = "open" THEN "responding" ELSE "over"
    /\ errors' = IF body.state \in Failures THEN Append(errors, ResponseKind(body.state))
                                            ELSE errors
    /\ verdicts' = IF body.state \in Failures THEN Append(verdicts, "failure") ELSE verdicts
    /\ UNCHANGED <<mode, upload, received, forwarded, status>>

DownloadStep ==
    /\ stage = "responding"
    /\ \/ \E body \in Fed(download, MaxResponseBody) : Download(body)
       \/ Download(TimedOut(download))

\* hyper drops the handler or the response because the client is gone, or
\* forward_with_retries drops the response to try again.
Leave ==
    /\ stage \in {"buffering", "calling", "responding"}
    /\ stage' = "gone"
    /\ upload' = Dropped(upload)
    /\ download' = Dropped(download)
    /\ UNCHANGED <<mode, received, forwarded, status, errors, verdicts>>

-----------------------------------------------------------------------------
Next ==
    \/ RefuseDeclared
    \/ Accept
    \/ BufferStep
    \/ BufferTimesOut
    \/ UriInvalid
    \/ BuildHead
    \/ Dispatch
    \/ ConnectTimesOut
    \/ ConnectFails
    \/ CallBreaks
    \/ Respond
    \/ UploadStep
    \/ UploadDropped
    \/ DownloadStep
    \/ Leave

\* The handler runs between its awaits, and the timers of the two awaits fire.
\* Nothing is asked of the client, the upstream or hyper.
Fairness ==
    /\ WF_vars(RefuseDeclared \/ Accept \/ BuildHead \/ Dispatch)
    /\ WF_vars(BufferTimesOut)
    /\ WF_vars(ConnectTimesOut)

Spec == Init /\ [][Next]_vars /\ Fairness

-----------------------------------------------------------------------------
\* Every variable keeps its type; no exchange counts more than two errors or
\* gives more than two verdicts.
TypeOK ==
    /\ stage \in {"arrived", "buffering", "forwarding", "sending", "calling",
                  "responding", "over", "gone"}
    /\ mode \in {"streamed", "prebuffered", "replayed"}
    /\ upload \in Body
    /\ download \in Body
    /\ received \in MessageHead
    /\ forwarded \in MessageHead
    /\ status \in {"none", "400", "408", "413", "502", "504", "upstream"}
    /\ Len(errors) <= 2
    /\ Len(verdicts) <= 2

\* Neither the buffer nor the upstream ever holds more of the request than
\* max_request_body_bytes, nor the client more of the response than
\* max_response_body_bytes, declared or not and however it is cut into chunks.
LimitsHold ==
    /\ upload.passed <= MaxRequestBody
    /\ download.passed <= MaxResponseBody

\* A body that ends for its receiver is the whole body: no limit, timer or
\* error makes limit_body_stream pass off a part for the whole.
EndedMeansWhole ==
    \A body \in {upload, download} :
        body.state = "ended" => /\ body.passed = body.taken
                                /\ body.declared \in {NoLength, body.passed}

\* Only a body over its limit is refused for its size; one of exactly the
\* limit is not.
RefusedOnlyOverLimit ==
    /\ upload.state = "too_large" => upload.taken > MaxRequestBody
    /\ download.state = "too_large" => download.taken > MaxResponseBody
    /\ status = "413" => \/ upload.taken > MaxRequestBody
                         \/ Exceeds(upload.declared, MaxRequestBody)

Count(b) == IF b THEN 1 ELSE 0

\* Every failure of a body or of the exchange is in the proxy error metrics,
\* exactly once: the failure of each body, and the proxy's own 413, 502 and 504.
FailuresCountedOnce ==
    Len(errors) = Count(upload.state \in Failures)
                  + Count(download.state \in Failures)
                  + Count(status \in {"502", "504"})
                  + Count(status = "413" /\ upload.state = "dropped")

\* A body that is buffered first cannot hurt the backend: whatever the client
\* does with it, its failure is answered by the proxy and no verdict is given.
ClientFaultsStayOut ==
    mode # "streamed" /\ (\E i \in DOMAIN errors : errors[i] \in RequestKinds)
        => verdicts = <<>>

\* The head the upstream gets: the proxy's own fields are the proxy's, whatever
\* the client sent or nominated; no hop-by-hop field passes; and a field that
\* is end to end and not nominated arrives as the client sent it (the length of
\* a replayed body apart), the request id among them.
HeadIsProxys ==
    stage = "sending" =>
        /\ \A n \in Own : forwarded.fields[n] = "proxy"
        /\ \A n \in HopByHop : forwarded.fields[n] = "absent"
        /\ \A n \in EndToEnd :
             (\A i \in DOMAIN received.connection : n \notin received.connection[i])
                => \/ forwarded.fields[n] = received.fields[n]
                   \/ n = "content-length" /\ mode = "replayed"

-----------------------------------------------------------------------------
\* What the exchange looks like to the request path.
Phase ==
    CASE stage \in {"arrived", "buffering", "forwarding", "sending", "calling"} -> "asked"
      [] stage = "responding" -> "streaming"
      [] stage = "over"       -> IF status \in {"400", "408", "413"} THEN "refused" ELSE "closed"
      [] stage = "gone"       -> "gone"

Ex == INSTANCE Exchange WITH phase <- Phase

\* Refinement.  The exchange gives one verdict when it returns, at most one
\* more when the body of a response fails, none when the client has left, and
\* always returns: the idle timer, the byte limit and connect_timeout see to it.
ImplementsExchange == Ex!Spec
=============================================================================
