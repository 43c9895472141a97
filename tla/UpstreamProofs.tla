--------------------------- MODULE UpstreamProofs ---------------------------
(***************************************************************************)
(* Proofs about Upstream, for every limit, body and head.                  *)
(*                                                                         *)
(* ExchangeInv is the inductive invariant.  BodyOK says of each body what  *)
(* limit_body_stream keeps true of it; the rest ties the stage of the      *)
(* exchange to the status, the verdicts and the state of the two bodies,   *)
(* so that a failure is counted by exactly one of the places that can see  *)
(* it.  The point of a buffered body is that it is in memory and within    *)
(* the limit when it is sent: it can no longer fail.  The heads have an    *)
(* invariant of their own, HeadInv.                                        *)
(***************************************************************************)
EXTENDS Upstream, SequenceTheorems, TLAPS

-----------------------------------------------------------------------------
(* One body *)

\* A body under a limit: it has been handed on in full unless its last chunk
\* was one too many, and it ends only when it is whole.  One that is in memory
\* is within the limit, so nothing can go wrong with it.
BodyOK(body, limit) ==
    /\ body \in Body
    /\ body.declared # NoLength => body.taken <= body.declared
    /\ body.in_memory => /\ body.declared # NoLength
                         /\ body.declared <= limit
                         /\ body.state \notin Failures
    /\ body.passed <= limit
    /\ body.state # "too_large" => body.passed = body.taken
    /\ body.state = "too_large" => body.taken > limit
    /\ body.state = "ended" => body.declared \in {NoLength, body.taken}

\* A body that a chunk of n bytes has been added to, or that has stopped.
LEMMA GrownFields ==
    ASSUME NEW body \in Body, NEW n \in Nat, NEW limit \in Nat,
           body.taken + n \in Lengths, body.passed + n \in Lengths
    PROVE  /\ Grown(body, n, limit) \in Body
           /\ Grown(body, n, limit).declared = body.declared
           /\ Grown(body, n, limit).in_memory = body.in_memory
           /\ Grown(body, n, limit).taken = body.taken + n
           /\ \/ /\ body.taken + n > limit
                 /\ Grown(body, n, limit).state = "too_large"
                 /\ Grown(body, n, limit).passed = body.passed
              \/ /\ ~(body.taken + n > limit)
                 /\ Grown(body, n, limit).state = body.state
                 /\ Grown(body, n, limit).passed = body.passed + n
BY Zenon DEF Grown, Body, Failures

\* A body whose state changes and nothing else.
Stopped(body, why) == [body EXCEPT !.state = why]

\* Only the state of a body that stops changes.
LEMMA StoppedFields ==
    ASSUME NEW body \in Body, NEW why \in {"open", "ended", "dropped"} \cup Failures
    PROVE  /\ Stopped(body, why) \in Body
           /\ Stopped(body, why).declared = body.declared
           /\ Stopped(body, why).in_memory = body.in_memory
           /\ Stopped(body, why).taken = body.taken
           /\ Stopped(body, why).passed = body.passed
           /\ Stopped(body, why).state = why
BY Zenon DEF Stopped, Body

\* A body that is dropped, or whose source is idle, stays in order.
LEMMA StoppedOK ==
    ASSUME NEW limit \in Nat, NEW body, BodyOK(body, limit), body.state = "open",
           NEW why \in {"dropped", "ended", "read_failed", "idle"},
           why = "ended" => MayEnd(body),
           why \in {"read_failed", "idle"} => ~body.in_memory
    PROVE  /\ BodyOK(Stopped(body, why), limit)
           /\ Stopped(body, why).in_memory = body.in_memory
           /\ Stopped(body, why).declared = body.declared
           /\ Stopped(body, why).state = why
<1>1. body \in Body /\ why \in {"open", "ended", "dropped"} \cup Failures
  BY DEF BodyOK, Failures
<1> QED
  BY <1>1, StoppedFields DEF BodyOK, MayEnd, Failures

\* Whatever the source of an open body does, limit_body_stream keeps it in order.
LEMMA FedOK ==
    ASSUME NEW limit \in Nat, NEW body, BodyOK(body, limit), body.state = "open",
           NEW next \in Fed(body, limit)
    PROVE  /\ BodyOK(next, limit)
           /\ next.in_memory = body.in_memory
           /\ next.declared = body.declared
           /\ next.state \in {"open", "ended"} \cup Failures
<1>1. body \in Body /\ body.taken \in Lengths /\ body.passed = body.taken
  BY DEF BodyOK, Body
<1>2. body.declared \in Lengths \cup {NoLength} /\ LongestBody \in Nat
  BY <1>1, UpstreamAssumption DEF Body
<1>3. ASSUME NEW n \in Chunks(body), next = Grown(body, n, limit)
      PROVE  /\ BodyOK(next, limit)
             /\ next.in_memory = body.in_memory
             /\ next.declared = body.declared
             /\ next.state \in {"open", "ended"} \cup Failures
  <2>1. /\ n \in Nat
        /\ body.taken + n \in Lengths
        /\ body.declared # NoLength => body.taken + n <= body.declared
    <3>1. CASE body.in_memory
      <4>1. body.declared \in Lengths /\ n = body.declared - body.taken
        BY <1>2, <1>3, <3>1 DEF BodyOK, Chunks
      <4>2. body.taken <= body.declared
        BY <3>1 DEF BodyOK
      <4> QED
        BY <1>1, <1>2, <4>1, <4>2 DEF Lengths
    <3>2. CASE ~body.in_memory
      <4>1. /\ n \in Nat
            /\ body.taken + n <= IF body.declared = NoLength THEN LongestBody
                                                             ELSE body.declared
        BY <1>3, <3>2, UpstreamAssumption DEF Chunks
      <4> QED
        BY <1>1, <1>2, <4>1 DEF Lengths
    <3> QED
      BY <3>1, <3>2
  <2>2. /\ next \in Body /\ next.declared = body.declared
        /\ next.in_memory = body.in_memory /\ next.taken = body.taken + n
        /\ \/ /\ body.taken + n > limit
              /\ next.state = "too_large" /\ next.passed = body.passed
           \/ /\ ~(body.taken + n > limit)
              /\ next.state = body.state /\ next.passed = body.passed + n
    BY <1>1, <1>3, <2>1, GrownFields
  <2>3. body.taken \in Nat /\ (body.declared # NoLength => body.declared \in Nat)
    BY <1>1, <1>2 DEF Lengths
  <2> QED
    BY <1>1, <2>1, <2>2, <2>3 DEF BodyOK, Failures
<1>4. CASE MayEnd(body) /\ next = Stopped(body, "ended")
  BY <1>4, StoppedOK
<1>5. CASE ~body.in_memory /\ next = Stopped(body, "read_failed")
  BY <1>5, StoppedOK DEF Failures
<1> QED
  BY <1>3, <1>4, <1>5 DEF Fed, Stopped

\* A body that the handler drops is open no longer.
LEMMA DroppedOK ==
    ASSUME NEW limit \in Nat, NEW body, BodyOK(body, limit)
    PROVE  /\ BodyOK(Dropped(body), limit)
           /\ Dropped(body).in_memory = body.in_memory
           /\ Dropped(body).declared = body.declared
           /\ Dropped(body).taken = body.taken
           /\ body.state # "open" => Dropped(body).state = body.state
           /\ body.state = "open" => Dropped(body).state = "dropped"
<1>1. CASE body.state = "open"
  <2>1. Dropped(body) = Stopped(body, "dropped")
    BY <1>1 DEF Dropped, Stopped
  <2>2. Stopped(body, "dropped").taken = body.taken
    BY StoppedFields DEF BodyOK
  <2> QED
    BY <1>1, <2>1, <2>2, StoppedOK DEF Failures
<1>2. CASE body.state # "open"
  BY <1>2 DEF Dropped
<1> QED
  BY <1>1, <1>2

\* A body that begins.
LEMMA IncomingOK ==
    ASSUME NEW limit \in Nat, NEW length \in Lengths \cup {NoLength}
    PROVE  /\ BodyOK(Incoming(length), limit)
           /\ Incoming(length).state = "open"
           /\ ~Incoming(length).in_memory
           /\ Incoming(length).declared = length
<1>1. 0 \in Lengths
  BY UpstreamAssumption DEF Lengths
<1>2. length # NoLength => 0 <= length
  BY UpstreamAssumption DEF Lengths
<1> QED
  BY <1>1, <1>2 DEF Incoming, BodyOK, Body, Failures

\* A body that was buffered and is sent from memory.
LEMMA FullOK ==
    ASSUME NEW limit \in Nat, NEW length \in Lengths, length <= limit
    PROVE  /\ BodyOK(Full(length), limit)
           /\ Full(length).state = "open"
           /\ Full(length).in_memory
<1>1. 0 \in Lengths /\ length # NoLength /\ 0 <= length
  BY UpstreamAssumption DEF Lengths
<1>2. /\ Full(length) \in Body
      /\ Full(length).declared = length
      /\ Full(length).in_memory
      /\ Full(length).taken = 0
      /\ Full(length).passed = 0
      /\ Full(length).state = "open"
  BY <1>1, Zenon DEF Full, Incoming, Body, Failures
<1> QED
  BY <1>1, <1>2 DEF BodyOK, Failures

-----------------------------------------------------------------------------
(* The exchange *)

\* The refusals that the proxy makes itself.
Refusals == {"400", "408", "413"}

\* The stages before the upstream is called.
Before == {"arrived", "buffering", "forwarding", "sending"}

\* What record_proxy_error may be given.
Kinds == RequestKinds \cup {ResponseKind(f) : f \in Failures}
            \cup {"invalid_upstream_uri", "upstream_connect_timeout",
                  "upstream_connection_refused", "upstream_request_failed",
                  "invalid_upstream_response"}

\* None of these errors is one of the client's body.
Innocent(kinds) == \A i \in DOMAIN kinds : kinds[i] \notin RequestKinds

\* The inductive invariant.
ExchangeInv ==
    /\ stage \in Before \cup {"calling", "responding", "over", "gone"}
    /\ mode \in {"streamed", "prebuffered", "replayed"}
    /\ status \in {"none", "502", "504", "upstream"} \cup Refusals
    /\ errors \in Seq(Kinds)
    /\ verdicts \in Seq({"success", "failure"}) /\ Len(verdicts) <= 2
    /\ BodyOK(upload, MaxRequestBody)
    /\ BodyOK(download, MaxResponseBody) /\ ~download.in_memory
    /\ FailuresCountedOnce
    \* what each stage says
    /\ stage \in {"arrived", "buffering"} => ~upload.in_memory
    /\ stage \in Before => upload.state = "open"
    /\ stage \in Before \cup {"calling"} => status = "none" /\ verdicts = <<>>
    /\ stage \in Before \cup {"calling", "responding"} => download.state = "open"
    /\ stage = "responding" => status = "upstream" /\ Len(verdicts) = 1
    /\ stage = "gone" => status \in {"none", "upstream"} /\ upload.state # "open"
    \* what each status says
    /\ status # "upstream" => download.state \notin Failures
    /\ status \in Refusals => stage = "over" /\ upload.state # "open" /\ verdicts = <<>>
    /\ status = "413" => \/ upload.taken > MaxRequestBody
                         \/ Exceeds(upload.declared, MaxRequestBody)
    \* a body that was buffered is in memory
    /\ mode # "streamed" =>
        /\ stage \notin {"arrived", "buffering"} /\ upload.state = "open" => upload.in_memory
        /\ Innocent(errors) \/ status \in Refusals

\* The kinds of the two streams and of the exchange are told apart.
LEMMA KindsApart ==
    /\ \A f \in Failures : RequestKind(f) \in RequestKinds /\ RequestKind(f) \in Kinds
    /\ \A f \in Failures : ResponseKind(f) \in Kinds \ RequestKinds
    /\ "request_body_too_large" \in Kinds
    /\ {"invalid_upstream_uri", "upstream_connect_timeout", "upstream_connection_refused",
        "upstream_request_failed", "invalid_upstream_response",
        "response_body_too_large"} \subseteq Kinds \ RequestKinds
<1>1. RequestKinds = {"request_body_too_large", "client_request_body_read_failed",
                      "client_body_timeout"}
  BY DEF RequestKinds, RequestKind, Failures
<1>2. {ResponseKind(f) : f \in Failures} =
        {"response_body_too_large", "upstream_response_body_read_failed",
         "upstream_response_body_timeout"}
  BY DEF ResponseKind, Failures
<1>3. \A f \in Failures : RequestKind(f) \in RequestKinds
  BY DEF RequestKinds
<1>4. \A f \in Failures : ResponseKind(f) \in {ResponseKind(g) : g \in Failures}
  OBVIOUS
<1> QED
  BY <1>1, <1>2, <1>3, <1>4 DEF Kinds

\* One more error.
LEMMA OneMore ==
    ASSUME NEW e \in Seq(Kinds), NEW k \in Kinds
    PROVE  /\ Append(e, k) \in Seq(Kinds)
           /\ Len(Append(e, k)) = Len(e) + 1
           /\ Innocent(e) /\ k \notin RequestKinds => Innocent(Append(e, k))
BY DEF Innocent

\* A first verdict, and one more.
LEMMA Verdict ==
    ASSUME NEW v \in Seq({"success", "failure"}), NEW w \in {"success", "failure"}
    PROVE  /\ Append(v, w) \in Seq({"success", "failure"})
           /\ Len(Append(v, w)) = Len(v) + 1
           /\ v = <<>> => Append(v, w) = <<w>> /\ Len(v) = 0
<1>1. Append(v, w) \in Seq({"success", "failure"}) /\ Len(Append(v, w)) = Len(v) + 1
  OBVIOUS
<1>2. Append(<<>>, w) = <<w>> /\ Len(<<>>) = 0
  OBVIOUS
<1> QED
  BY <1>1, <1>2

\* forward's own failures: one error, one verdict, and a 502 or a 504.
LEMMA FailedStep ==
    ASSUME ExchangeInv, stage \in {"forwarding", "calling"},
           NEW kind \in Kinds \ RequestKinds, Failed(kind),
           upload' = upload \/ upload' = Dropped(upload)
    PROVE  ExchangeInv'
<1> USE DEF ExchangeInv, Before
<1>1. /\ stage' = "over" /\ mode' = mode /\ download' = download
      /\ status' \in {"502", "504"}
      /\ verdicts' \in Seq({"success", "failure"}) /\ Len(verdicts') = 1
  BY Verdict DEF Failed, GatewayStatus
<1>2. /\ errors' \in Seq(Kinds) /\ Len(errors') = Len(errors) + 1
      /\ Innocent(errors) => Innocent(errors')
  BY OneMore DEF Failed
<1>3. /\ BodyOK(upload', MaxRequestBody)
      /\ upload'.in_memory = upload.in_memory
      /\ upload'.state \in Failures <=> upload.state \in Failures
      /\ upload'.state = "open" => upload.state = "open"
  BY DroppedOK, UpstreamAssumption DEF Failures
<1>4. FailuresCountedOnce'
  BY <1>1, <1>2, <1>3 DEF FailuresCountedOnce, Count, Failures
<1> QED
  BY <1>1, <1>2, <1>3, <1>4 DEF Refusals

\* The handler's own refusals.
LEMMA RefusedStep ==
    ASSUME ExchangeInv, stage \in {"arrived", "buffering"},
           NEW kind \in Kinds, NEW code \in Refusals, Refused(kind, code),
           BodyOK(upload', MaxRequestBody),
           \/ upload'.state = "dropped" /\ code = "413"
           \/ upload'.state \in Failures,
           code = "413" => \/ upload'.taken > MaxRequestBody
                           \/ Exceeds(upload'.declared, MaxRequestBody)
    PROVE  ExchangeInv'
<1> USE DEF ExchangeInv, Before
<1>1. /\ stage' = "over" /\ mode' = mode /\ download' = download
      /\ status' = code /\ verdicts' = <<>> /\ verdicts = <<>>
  BY DEF Refused
<1>2. errors' \in Seq(Kinds) /\ Len(errors') = Len(errors) + 1
  BY OneMore DEF Refused
<1>3. FailuresCountedOnce'
  BY <1>1, <1>2 DEF FailuresCountedOnce, Count, Failures, Refusals
<1> QED
  BY <1>1, <1>2, <1>3 DEF Refusals, Failures

\* The exchange stays in order.
LEMMA ExchangeInOrder == Spec => []ExchangeInv
<1>1. Init => ExchangeInv
  <2> SUFFICES ASSUME Init PROVE ExchangeInv
    OBVIOUS
  <2>1. /\ BodyOK(upload, MaxRequestBody) /\ upload.state = "open" /\ ~upload.in_memory
        /\ BodyOK(download, MaxResponseBody) /\ download.state = "open" /\ ~download.in_memory
    <3>1. 0 \in Lengths \cup {NoLength}
      BY UpstreamAssumption DEF Lengths
    <3> QED
      BY <3>1, IncomingOK, UpstreamAssumption DEF Init
  <2>2. errors = <<>> /\ Len(errors) = 0 /\ errors \in Seq(Kinds)
    BY DEF Init
  <2>3. verdicts = <<>> /\ Len(verdicts) = 0 /\ verdicts \in Seq({"success", "failure"})
    BY DEF Init
  <2>4. FailuresCountedOnce
    BY <2>1, <2>2 DEF Init, FailuresCountedOnce, Count, Failures
  <2>5. Innocent(errors)
    BY <2>2 DEF Innocent
  <2> QED
    BY <2>1, <2>2, <2>3, <2>4, <2>5 DEF Init, ExchangeInv, Before, Refusals, Failures
<1>2. ExchangeInv /\ [Next]_vars => ExchangeInv'
  <2> SUFFICES ASSUME ExchangeInv, [Next]_vars PROVE ExchangeInv'
    OBVIOUS
  <2> USE DEF ExchangeInv, Before
  <2>0. MaxRequestBody \in Nat /\ MaxResponseBody \in Nat
    BY UpstreamAssumption
  <2>1. CASE RefuseDeclared
    <3>1. /\ BodyOK(upload', MaxRequestBody) /\ upload'.state = "dropped"
          /\ upload'.declared = upload.declared
      BY <2>0, <2>1, DroppedOK DEF RefuseDeclared
    <3> QED
      BY <2>1, <3>1, RefusedStep, KindsApart DEF RefuseDeclared, Refusals
  <2>2. CASE Accept
    BY <2>2 DEF Accept, FailuresCountedOnce, Refusals
  <2>3. ASSUME NEW body, Buffer(body), stage = "buffering", BodyOK(body, MaxRequestBody),
               ~body.in_memory
        PROVE  ExchangeInv'
    <3>1. CASE body.state \in Failures
      <4>1. RequestKind(body.state) \in Kinds
        BY <3>1, KindsApart
      <4>2. /\ upload' = body
            /\ Refused(RequestKind(body.state), BufferStatus(body.state))
        BY <2>3, <3>1 DEF Buffer, Failures
      <4>3. /\ BufferStatus(body.state) \in Refusals
            /\ BufferStatus(body.state) = "413" => body.taken > MaxRequestBody
        BY <2>3, <3>1 DEF BufferStatus, Failures, Refusals, BodyOK
      <4> QED
        BY <2>3, <3>1, <4>1, <4>2, <4>3, RefusedStep
    <3>2. CASE body.state = "ended"
      <4>1. /\ upload' = Full(body.passed) /\ stage' = "forwarding"
            /\ UNCHANGED <<mode, download, received, forwarded, status, errors, verdicts>>
        BY <2>3, <3>2 DEF Buffer, Failures
      <4>2. body.passed \in Lengths /\ body.passed <= MaxRequestBody
        BY <2>3 DEF BodyOK, Body
      <4>3. BodyOK(upload', MaxRequestBody) /\ upload'.state = "open" /\ upload'.in_memory
        BY <2>0, <4>1, <4>2, FullOK
      <4>4. FailuresCountedOnce'
        BY <2>3, <4>1, <4>3 DEF FailuresCountedOnce, Failures, Count
      <4> QED
        BY <2>3, <4>1, <4>3, <4>4 DEF Refusals
    <3>3. CASE body.state = "open"
      <4>1. /\ upload' = body
            /\ UNCHANGED <<stage, mode, download, received, forwarded, status, errors, verdicts>>
        BY <2>3, <3>3 DEF Buffer, Failures
      <4>2. FailuresCountedOnce'
        BY <2>3, <3>3, <4>1 DEF FailuresCountedOnce, Failures, Count
      <4> QED
        BY <2>3, <3>3, <4>1, <4>2 DEF Refusals
    <3> QED
      BY <2>3, <3>1, <3>2, <3>3 DEF Buffer
  <2>4. CASE BufferStep
    <3>1. PICK body \in Fed(upload, MaxRequestBody) : Buffer(body)
      BY <2>4 DEF BufferStep
    <3> QED
      BY <2>0, <2>3, <2>4, <3>1, FedOK DEF BufferStep
  <2>5. CASE BufferTimesOut
    <3>1. TimedOut(upload) = Stopped(upload, "idle")
      BY DEF TimedOut, Stopped
    <3> QED
      BY <2>0, <2>3, <2>5, <3>1, StoppedOK DEF BufferTimesOut
  <2>6. CASE UriInvalid
    BY <2>6, FailedStep, KindsApart DEF UriInvalid
  <2>7. CASE BuildHead \/ Dispatch
    BY <2>7 DEF BuildHead, Dispatch, FailuresCountedOnce, Refusals
  <2>8. CASE ConnectTimesOut \/ ConnectFails \/ CallBreaks
    BY <2>8, FailedStep, KindsApart DEF ConnectTimesOut, ConnectFails, CallBreaks
  <2>9. CASE Respond
    <3>1. CASE Failed("response_body_too_large")
      BY <2>9, <3>1, FailedStep, KindsApart DEF Respond
    <3>2. CASE \E length \in Lengths \cup {NoLength}, bodiless \in BOOLEAN,
                 verdict \in {"success", "failure"} :
                 /\ stage' = "responding"
                 /\ status' = "upstream"
                 /\ verdicts' = Append(verdicts, verdict)
                 /\ download' = Incoming(IF bodiless THEN 0 ELSE length)
                 /\ UNCHANGED <<mode, received, forwarded, errors>>
      <4>1. PICK length \in Lengths \cup {NoLength}, verdict \in {"success", "failure"} :
              /\ verdicts' = Append(verdicts, verdict)
              /\ download' = Incoming(length)
        <5>1. 0 \in Lengths
          BY UpstreamAssumption DEF Lengths
        <5> QED
          BY <3>2, <5>1
      <4>2. /\ stage' = "responding" /\ status' = "upstream"
            /\ mode' = mode /\ errors' = errors /\ upload' = upload
            /\ stage = "calling"
        BY <2>9, <3>2 DEF Respond
      <4>3. verdicts' \in Seq({"success", "failure"}) /\ Len(verdicts') = 1
        BY <4>1, <4>2, Verdict
      <4>4. /\ BodyOK(download', MaxResponseBody)
            /\ download'.state = "open" /\ ~download'.in_memory
        BY <2>0, <4>1, IncomingOK
      <4>5. FailuresCountedOnce'
        BY <4>2, <4>4 DEF FailuresCountedOnce, Failures, Count
      <4> QED
        BY <4>2, <4>3, <4>4, <4>5 DEF Refusals, Failures
    <3> QED
      BY <2>9, <3>1, <3>2 DEF Respond
  <2>10. ASSUME NEW body, Upload(body), stage \in {"calling", "responding", "over"},
                upload.state = "open", BodyOK(body, MaxRequestBody),
                body.in_memory = upload.in_memory
         PROVE  ExchangeInv'
    <3>1. /\ upload' = body /\ UNCHANGED <<stage, mode, download, status, verdicts>>
      BY <2>10 DEF Upload
    <3>2. /\ errors' \in Seq(Kinds)
          /\ body.state \in Failures => Len(errors') = Len(errors) + 1
          /\ body.state \notin Failures => errors' = errors
      BY <2>10, OneMore, KindsApart DEF Upload
    <3>3. body.in_memory => body.state \notin Failures
      BY <2>10 DEF BodyOK
    <3>4. status \notin Refusals
      BY <2>10
    <3>5. FailuresCountedOnce'
      BY <2>10, <3>1, <3>2, <3>4 DEF FailuresCountedOnce, Failures, Count, Refusals
    <3>6. mode # "streamed" => Innocent(errors')
      BY <2>10, <3>2, <3>3, <3>4
    <3> QED
      BY <2>10, <3>1, <3>2, <3>3, <3>4, <3>5, <3>6 DEF Refusals
  <2>11. CASE UploadStep
    <3>1. TimedOut(upload) = Stopped(upload, "idle")
      BY DEF TimedOut, Stopped
    <3> QED
      BY <2>0, <2>10, <2>11, <3>1, FedOK, StoppedOK DEF UploadStep
  <2>12. CASE UploadDropped
    BY <2>0, <2>10, <2>12, DroppedOK DEF UploadDropped
  <2>13. ASSUME NEW body, Download(body), stage = "responding",
                BodyOK(body, MaxResponseBody), ~body.in_memory
         PROVE  ExchangeInv'
    <3>1. /\ download' = body /\ UNCHANGED <<mode, upload, status>>
          /\ stage' = IF body.state = "open" THEN "responding" ELSE "over"
      BY <2>13 DEF Download
    <3>2. /\ errors' \in Seq(Kinds)
          /\ body.state \in Failures => Len(errors') = Len(errors) + 1
          /\ body.state \notin Failures => errors' = errors
          /\ Innocent(errors) => Innocent(errors')
      BY <2>13, OneMore, KindsApart DEF Download
    <3>3. /\ verdicts' \in Seq({"success", "failure"})
          /\ body.state \in Failures => Len(verdicts') = 2
          /\ body.state \notin Failures => verdicts' = verdicts
      <4>1. verdicts \in Seq({"success", "failure"}) /\ Len(verdicts) = 1
        BY <2>13
      <4>2. verdicts' = IF body.state \in Failures THEN Append(verdicts, "failure")
                                                   ELSE verdicts
        BY <2>13 DEF Download
      <4>3. /\ Append(verdicts, "failure") \in Seq({"success", "failure"})
            /\ Len(Append(verdicts, "failure")) = 2
        <5>1. "failure" \in {"success", "failure"}
          OBVIOUS
        <5>2. /\ Append(verdicts, "failure") \in Seq({"success", "failure"})
              /\ Len(Append(verdicts, "failure")) = Len(verdicts) + 1
          BY <4>1, <5>1, Verdict, Zenon
        <5> QED
          BY <4>1, <5>2
      <4> QED
        BY <4>1, <4>2, <4>3
    <3>4. FailuresCountedOnce'
      BY <2>13, <3>1, <3>2 DEF FailuresCountedOnce, Failures, Count
    <3>5. status' = "upstream" /\ Len(verdicts) = 1 /\ stage' \in {"responding", "over"}
      BY <2>13, <3>1
    <3>6. stage' = "responding" => body.state = "open" /\ verdicts' = verdicts
      BY <3>1, <3>3 DEF Failures
    <3>7. Len(verdicts') <= 2
      <4>1. CASE body.state \in Failures
        <5>1. Len(verdicts') = 2
          BY <3>3, <4>1, Zenon
        <5> QED
          BY <5>1
      <4>2. CASE body.state \notin Failures
        <5>1. Len(verdicts') = 1
          BY <3>3, <3>5, <4>2, Zenon
        <5> QED
          BY <5>1
      <4> QED
        BY <4>1, <4>2
    <3> QED
      BY <2>13, <3>1, <3>2, <3>3, <3>4, <3>5, <3>6, <3>7 DEF Refusals
  <2>14. CASE DownloadStep
    <3>1. TimedOut(download) = Stopped(download, "idle")
      BY DEF TimedOut, Stopped
    <3> QED
      BY <2>0, <2>13, <2>14, <3>1, FedOK, StoppedOK DEF DownloadStep
  <2>15. CASE Leave
    <3>1. /\ upload' = Dropped(upload) /\ download' = Dropped(download)
          /\ stage' = "gone" /\ stage \in {"buffering", "calling", "responding"}
          /\ UNCHANGED <<mode, status, errors, verdicts>>
      BY <2>15 DEF Leave
    <3>2. /\ BodyOK(upload', MaxRequestBody)
          /\ upload'.state # "open"
          /\ upload'.state \in Failures <=> upload.state \in Failures
      BY <2>0, <3>1, DroppedOK DEF Failures
    <3>3. /\ BodyOK(download', MaxResponseBody) /\ ~download'.in_memory
          /\ download'.state = "dropped"
      BY <2>0, <3>1, DroppedOK
    <3>4. FailuresCountedOnce'
      BY <3>1, <3>2, <3>3 DEF FailuresCountedOnce, Failures, Count
    <3> QED
      BY <3>1, <3>2, <3>3, <3>4 DEF Refusals, Failures
  <2>16. CASE UNCHANGED vars
    BY <2>16 DEF vars, FailuresCountedOnce
  <2> QED
    BY <2>1, <2>2, <2>4, <2>5, <2>6, <2>7, <2>8, <2>9, <2>11, <2>12, <2>14, <2>15, <2>16
    DEF Next
<1> QED
  BY <1>1, <1>2, PTL DEF Spec

-----------------------------------------------------------------------------
(* Heads *)

\* Reading a head that a client may send.
LEMMA HeadType ==
    /\ NoHead \in MessageHead
    /\ \A fields \in [Names -> {"absent", "client"}], connection \in Connections :
         LET h == Identified([fields |-> fields, connection |-> connection])
         IN  h \in MessageHead
<1>1. NoHead \in MessageHead
  BY UpstreamAssumption DEF NoHead, MessageHead
<1>2. ASSUME NEW fields \in [Names -> {"absent", "client"}], NEW connection \in Connections
      PROVE  Identified([fields |-> fields, connection |-> connection]) \in MessageHead
  <2> DEFINE id == IF fields["x-request-id"] = "absent" THEN "proxy"
                                                        ELSE fields["x-request-id"]
             named == [fields EXCEPT !["x-request-id"] = id]
  <2>1. "x-request-id" \in Names
    BY UpstreamAssumption DEF Names
  <2>2. named \in [Names -> {"absent", "client", "proxy"}]
    BY <2>1
  <2>3. Identified([fields |-> fields, connection |-> connection])
          = [fields |-> named, connection |-> connection]
    BY DEF Identified
  <2> QED
    BY <2>2, <2>3 DEF MessageHead
<1> QED
  BY <1>1, <1>2

\* What forward makes of a head, field by field: the forwarding fields are set
\* last, so that nothing the client nominates removes them.
LEMMA HeadFields ==
    ASSUME NEW h \in MessageHead
    PROVE  /\ UpstreamHead(h) \in MessageHead
           /\ \A n \in Own : UpstreamHead(h).fields[n] = "proxy"
           /\ \A n \in HopByHop : UpstreamHead(h).fields[n] = "absent"
           /\ \A n \in EndToEnd \ Nominated(h) :
                \/ UpstreamHead(h).fields[n] = h.fields[n]
                \/ n = "content-length" /\ mode = "replayed"
<1> DEFINE r == Replayed(h)
<1>1. /\ h.fields \in [Names -> {"absent", "client", "proxy"}]
      /\ h.connection \in Connections
      /\ h = [fields |-> h.fields, connection |-> h.connection]
  BY DEF MessageHead
<1>2. /\ r.fields \in [Names -> {"absent", "client", "proxy"}]
      /\ r.connection = h.connection
      /\ \A n \in Names : \/ r.fields[n] = h.fields[n]
                          \/ n = "content-length" /\ mode = "replayed"
  <2>1. CASE mode = "replayed"
    <3> DEFINE f == [h.fields EXCEPT !["content-length"] = "proxy"]
    <3>1. r = [fields |-> f, connection |-> h.connection]
      BY <1>1, <2>1 DEF Replayed
    <3>2. /\ f \in [Names -> {"absent", "client", "proxy"}]
          /\ \A n \in Names : f[n] = h.fields[n] \/ n = "content-length"
      BY <1>1
    <3> HIDE DEF f
    <3>3. r.fields = f /\ r.connection = h.connection
      BY <3>1
    <3> QED
      BY <2>1, <3>2, <3>3
  <2>2. CASE mode # "replayed"
    BY <1>1, <2>2 DEF Replayed
  <2> QED
    BY <2>1, <2>2
<1> HIDE DEF r
<1>3. Nominated(r) = Nominated(h)
  BY <1>2 DEF Nominated
<1> DEFINE clean == [n \in Names |->
                       IF n \in HopByHop \cup Nominated(h) THEN "absent" ELSE r.fields[n]]
           set == [n \in Names |-> IF n \in Own THEN "proxy" ELSE clean[n]]
<1>4. Sanitized(r) = [fields |-> clean, connection |-> <<>>]
  BY <1>3 DEF Sanitized
<1>5. UpstreamHead(h) = [fields |-> set, connection |-> <<>>]
  <2> HIDE DEF clean
  <2>1. UpstreamHead(h) = WithForwarding([fields |-> clean, connection |-> <<>>])
    BY <1>4 DEF UpstreamHead, r
  <2> QED
    BY <2>1 DEF WithForwarding
<1>6. clean \in [Names -> {"absent", "client", "proxy"}]
  BY <1>2
<1>7. set \in [Names -> {"absent", "client", "proxy"}]
  <2> HIDE DEF clean
  <2> QED
    BY <1>6
<1>8. UpstreamHead(h) \in MessageHead /\ UpstreamHead(h).fields = set
  <2> HIDE DEF set
  <2> QED
    BY <1>5, <1>7, UpstreamAssumption DEF MessageHead
<1>9. \A n \in Own : set[n] = "proxy"
  BY DEF Names
<1>10. \A n \in HopByHop : set[n] = "absent"
  BY UpstreamAssumption DEF Names
<1>11. \A n \in EndToEnd \ Nominated(h) : set[n] = r.fields[n]
  BY UpstreamAssumption DEF Names
<1>12. \A n \in EndToEnd \ Nominated(h) :
         set[n] = h.fields[n] \/ (n = "content-length" /\ mode = "replayed")
  <2> HIDE DEF set
  <2> QED
    BY <1>2, <1>11 DEF Names
<1> HIDE DEF set
<1> QED
  BY <1>8, <1>9, <1>10, <1>12

\* The invariant of the heads.
HeadInv ==
    /\ stage \in {"arrived", "buffering", "forwarding", "sending", "calling",
                  "responding", "over", "gone"}
    /\ received \in MessageHead
    /\ forwarded \in MessageHead
    /\ HeadIsProxys

\* BuildHead establishes it and nothing else touches a head that is being sent.
LEMMA HeadsInOrder == Spec => []HeadInv
<1>1. Init => HeadInv
  BY HeadType DEF Init, HeadInv, HeadIsProxys
<1>2. HeadInv /\ [Next]_vars => HeadInv'
  <2> SUFFICES ASSUME HeadInv, [Next]_vars PROVE HeadInv'
    OBVIOUS
  <2> USE DEF HeadInv
  <2>1. CASE BuildHead
    <3>1. PICK h \in MessageHead : received' = h /\ forwarded' = UpstreamHead(h)
      BY <2>1, HeadType DEF BuildHead
    <3>2. stage' = "sending" /\ mode' = mode
      BY <2>1 DEF BuildHead
    <3>3. ASSUME NEW n \in EndToEnd,
                 \A i \in DOMAIN h.connection : n \notin h.connection[i]
          PROVE  n \notin Nominated(h)
      <4>1. h.connection \in Connections
        BY DEF MessageHead
      <4>2. h.connection \in Seq(SUBSET Names)
        BY <4>1, UpstreamAssumption DEF Names
      <4>3. h.connection # <<>> => 1 \in DOMAIN h.connection
        BY <4>2, EmptySeq, LenProperties
      <4> QED
        BY <3>3, <4>3 DEF Nominated
    <3>4. /\ forwarded' \in MessageHead
          /\ \A n \in Own : forwarded'.fields[n] = "proxy"
          /\ \A n \in HopByHop : forwarded'.fields[n] = "absent"
          /\ \A n \in EndToEnd \ Nominated(h) :
               \/ forwarded'.fields[n] = received'.fields[n]
               \/ n = "content-length" /\ mode' = "replayed"
      BY <3>1, <3>2, HeadFields
    <3>5. HeadIsProxys'
      BY <3>1, <3>3, <3>4 DEF HeadIsProxys
    <3>6. (received \in MessageHead)' /\ (forwarded \in MessageHead)'
      BY <3>1, <3>4 DEF MessageHead, Names
    <3> QED
      BY <3>2, <3>5, <3>6
  <2>2. CASE Dispatch
    BY <2>2, HeadType DEF Dispatch, HeadIsProxys, MessageHead, NoHead
  <2>3. CASE RefuseDeclared \/ Accept
    BY <2>3 DEF RefuseDeclared, Accept, Refused, HeadIsProxys
  <2>4. CASE BufferStep \/ BufferTimesOut
    BY <2>4 DEF BufferStep, BufferTimesOut, Buffer, Refused, HeadIsProxys
  <2>5. CASE UriInvalid \/ ConnectTimesOut \/ ConnectFails \/ CallBreaks \/ Respond
    BY <2>5 DEF UriInvalid, ConnectTimesOut, ConnectFails, CallBreaks, Respond, Failed,
                HeadIsProxys
  <2>6. CASE UploadStep \/ UploadDropped \/ DownloadStep
    BY <2>6 DEF UploadStep, UploadDropped, Upload, DownloadStep, Download, HeadIsProxys
  <2>7. CASE Leave
    BY <2>7 DEF Leave, HeadIsProxys
  <2>8. CASE UNCHANGED vars
    BY <2>8 DEF vars, HeadIsProxys
  <2> QED
    BY <2>1, <2>2, <2>3, <2>4, <2>5, <2>6, <2>7, <2>8 DEF Next
<1> QED
  BY <1>1, <1>2, PTL DEF Spec

-----------------------------------------------------------------------------
(* What follows *)

\* TypeOK, for every limit, every length and every head: an exchange counts at
\* most two errors and gives at most two verdicts.
THEOREM UpstreamTypeCorrect == Spec => []TypeOK
<1>1. ExchangeInv /\ HeadInv => TypeOK
  <2> SUFFICES ASSUME ExchangeInv, HeadInv PROVE TypeOK
    OBVIOUS
  <2>1. Len(errors) <= 2
    BY DEF ExchangeInv, FailuresCountedOnce, Count, Failures, Refusals
  <2> QED
    BY <2>1 DEF ExchangeInv, HeadInv, TypeOK, BodyOK, Before, Refusals
<1> QED
  BY <1>1, ExchangeInOrder, HeadsInOrder, PTL

\* limit_body_stream and buffer_request_body let no more through than their limit,
\* however the source cuts its body into chunks and whatever it declares.
THEOREM LimitsAlwaysHold == Spec => []LimitsHold
<1>1. ExchangeInv => LimitsHold
  BY DEF ExchangeInv, BodyOK, LimitsHold
<1> QED
  BY <1>1, ExchangeInOrder, PTL

\* No limit, timer or error ever passes off a part of a body for the whole.
THEOREM EndedIsWhole == Spec => []EndedMeansWhole
<1>1. ExchangeInv => EndedMeansWhole
  BY DEF ExchangeInv, BodyOK, EndedMeansWhole
<1> QED
  BY <1>1, ExchangeInOrder, PTL

\* Only a body over its limit is refused for its size, for every limit.
THEOREM OnlyOverLimitRefused == Spec => []RefusedOnlyOverLimit
<1>1. ExchangeInv => RefusedOnlyOverLimit
  BY DEF ExchangeInv, BodyOK, RefusedOnlyOverLimit
<1> QED
  BY <1>1, ExchangeInOrder, PTL

\* Every failure is given to record_proxy_error once: the hooks of the two
\* streams, the early refusals and forward's own errors never overlap.
THEOREM EveryFailureCountedOnce == Spec => []FailuresCountedOnce
<1>1. ExchangeInv => FailuresCountedOnce
  BY DEF ExchangeInv
<1> QED
  BY <1>1, ExchangeInOrder, PTL

\* A client whose body is buffered first never costs the backend a verdict.
THEOREM ClientFaultsKeptOut == Spec => []ClientFaultsStayOut
<1>1. ExchangeInv => ClientFaultsStayOut
  BY DEF ExchangeInv, ClientFaultsStayOut, Innocent
<1> QED
  BY <1>1, ExchangeInOrder, PTL

\* The head that forward builds is the proxy's, for every set of names and every
\* list of Connection fields.
THEOREM HeadAlwaysProxys == Spec => []HeadIsProxys
<1>1. HeadInv => HeadIsProxys
  BY DEF HeadInv
<1> QED
  BY <1>1, HeadsInOrder, PTL

\* What forward_request promises the request path and the health manager, fairness
\* apart: one verdict when it returns, at most one more when the body of a response
\* fails, none when the client has left.
THEOREM UpstreamImplementsExchange == Spec => Ex!Init /\ [][Ex!Next]_(Ex!vars)
<1>1. Init => Ex!Init
  BY DEF Init, Ex!Init, Phase
<1>2. ExchangeInv /\ [Next]_vars => [Ex!Next]_(Ex!vars)
  <2> SUFFICES ASSUME ExchangeInv, [Next]_vars
               PROVE  Ex!Next \/ (Phase' = Phase /\ verdicts' = verdicts)
    BY DEF Ex!vars
  <2> USE DEF Before, Refusals
  <2>1. ASSUME stage \in Before \cup {"calling"}
        PROVE  Phase = "asked" /\ verdicts = <<>>
    BY <2>1 DEF Phase, ExchangeInv
  <2>2. ASSUME NEW kind, stage \in {"forwarding", "calling"}, Failed(kind) PROVE Ex!Next
    <3>1. Phase' = "closed" /\ verdicts' = Append(verdicts, "failure")
      BY <2>2 DEF Failed, GatewayStatus, Phase
    <3>2. Phase = "asked" /\ verdicts = <<>>
      BY <2>1, <2>2
    <3>3. verdicts' = <<"failure">>
      BY <3>1, <3>2
    <3> QED
      BY <3>1, <3>2, <3>3 DEF Ex!Next, Ex!Return, Ex!Fail
  <2>3. ASSUME NEW kind, NEW code \in Refusals, stage \in Before, Refused(kind, code)
        PROVE  Ex!Next
    <3>1. Phase' = "refused" /\ verdicts' = verdicts
      BY <2>3 DEF Refused, Phase
    <3> QED
      BY <2>1, <2>3, <3>1 DEF Ex!Next, Ex!Return, Ex!Refuse
  <2>4. CASE RefuseDeclared
    BY <2>3, <2>4 DEF RefuseDeclared
  <2>5. CASE Accept \/ BuildHead \/ Dispatch
    BY <2>5 DEF Accept, BuildHead, Dispatch, Phase
  <2>6. ASSUME NEW body, Buffer(body), stage = "buffering"
        PROVE  Ex!Next \/ (Phase' = Phase /\ verdicts' = verdicts)
    <3>1. CASE body.state \in Failures /\ Refused(RequestKind(body.state), BufferStatus(body.state))
      <4>1. BufferStatus(body.state) \in Refusals
        BY <3>1 DEF BufferStatus, Failures
      <4> QED
        BY <2>3, <2>6, <3>1, <4>1
    <3>2. CASE stage' \in {"buffering", "forwarding"} /\ verdicts' = verdicts
      BY <2>6, <3>2 DEF Phase
    <3> QED
      BY <2>6, <3>1, <3>2 DEF Buffer
  <2>7. CASE BufferStep \/ BufferTimesOut
    BY <2>6, <2>7 DEF BufferStep, BufferTimesOut
  <2>8. CASE UriInvalid \/ ConnectTimesOut \/ ConnectFails \/ CallBreaks
    BY <2>2, <2>8 DEF UriInvalid, ConnectTimesOut, ConnectFails, CallBreaks
  <2>9. CASE Respond
    <3>1. CASE Failed("response_body_too_large")
      BY <2>2, <2>9, <3>1 DEF Respond
    <3>2. CASE \E v \in {"success", "failure"} :
                 stage' = "responding" /\ verdicts' = Append(verdicts, v)
      <4>1. PICK v \in {"success", "failure"} :
              stage' = "responding" /\ verdicts' = Append(verdicts, v)
        BY <3>2
      <4>2. Phase = "asked" /\ Phase' = "streaming" /\ verdicts = <<>>
        BY <2>1, <2>9, <4>1 DEF Respond, Phase
      <4>3. verdicts' = << v >>
        BY <4>1, <4>2
      <4> QED
        BY <4>2, <4>3 DEF Ex!Next, Ex!Return, Ex!Respond
    <3> QED
      BY <2>9, <3>1, <3>2 DEF Respond
  <2>10. CASE UploadStep \/ UploadDropped
    BY <2>10 DEF UploadStep, UploadDropped, Upload, Phase
  <2>11. ASSUME NEW body, Download(body), stage = "responding"
         PROVE  Ex!Next \/ (Phase' = Phase /\ verdicts' = verdicts)
    <3>1. Phase = "streaming" /\ status' = "upstream"
      BY <2>11 DEF Phase, ExchangeInv, Download
    <3>2. CASE body.state = "open"
      BY <2>11, <3>1, <3>2 DEF Download, Phase, Failures
    <3>3. CASE body.state # "open"
      <4>1. Phase' = "closed"
        BY <2>11, <3>1, <3>3 DEF Download, Phase
      <4> QED
        BY <2>11, <3>1, <4>1 DEF Download, Ex!Next, Ex!EndBody, Ex!FailBody
    <3> QED
      BY <3>2, <3>3
  <2>12. CASE DownloadStep
    BY <2>11, <2>12 DEF DownloadStep
  <2>13. CASE Leave
    <3>1. Phase \in {"asked", "streaming"} /\ Phase' = "gone" /\ verdicts' = verdicts
      BY <2>13 DEF Leave, Phase
    <3> QED
      BY <3>1 DEF Ex!Next, Ex!Leave
  <2>14. CASE UNCHANGED vars
    BY <2>14 DEF vars, Phase
  <2> QED
    BY <2>4, <2>5, <2>7, <2>8, <2>9, <2>10, <2>12, <2>13, <2>14 DEF Next
<1> QED
  BY <1>1, <1>2, ExchangeInOrder, PTL DEF Spec
=============================================================================
