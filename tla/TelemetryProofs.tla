--------------------------- MODULE TelemetryProofs --------------------------
(***************************************************************************)
(* Proofs about Telemetry, for any number of tasks and jobs, any attempts, *)
(* thresholds and size of the ring.                                        *)
(*                                                                         *)
(* The properties speak of what has been counted and what a scrape has     *)
(* read.  Both depend on what the tasks are in the middle of, so the       *)
(* inductive invariant TelemetryInv says                                   *)
(*   - that the operations before each task are in the order of the code   *)
(*     (Ordered), however many were made already;                          *)
(*   - that every counter is in step with the tasks that are still to      *)
(*     write it (CausesFirst, Balanced), and the retries with the attempts *)
(*     that are left (RetriesLeft); a client that leaves takes the         *)
(*     response of its attempt out of the balance;                         *)
(*   - what a report that is half read may already be relied on for        *)
(*     (ReportInv).                                                        *)
(* An operation is proved in two halves: how the numbers of tasks about to *)
(* count change when a task makes it (Made), whatever it does, and what it *)
(* does (Effect), whoever makes it.                                        *)
(***************************************************************************)
EXTENDS Telemetry, FiniteSetTheorems, SequenceTheorems, TLAPS

-----------------------------------------------------------------------------
(* The operations a task has still to make *)

Pushes == {<<"push", r>> : r \in Reasons}
Reads == {<<"gauge">>, <<"load_failures">>, <<"load_statuses">>, <<"load_errors">>}
Others == {<<"request">>, <<"buffer">>, <<"poll">>, <<"latency">>, <<"count_failure">>,
           <<"judge_failure">>, <<"judge_success">>, <<"error">>, <<"count_transition">>}
Operations == Answers \cup Pushes \cup Reads \cup Others

\* What comes before and after an operation in the code.
Before(op, earlier) ==
    /\ earlier \notin Answers
    /\ op # <<"request">>
    /\ op = <<"status", "failure">> => earlier = <<"error">>
    /\ op = <<"judge_failure">> => earlier = <<"count_failure">>
    /\ op \in Pushes <=> earlier = <<"count_transition">>
    /\ op = <<"load_failures">> <=> earlier = <<"gauge">>
    /\ op = <<"load_statuses">> <=> earlier = <<"load_failures">>
    /\ op = <<"load_errors">> <=> earlier = <<"load_statuses">>
    /\ op = <<"gauge">> => earlier = <<"request">>
    /\ earlier = <<"load_errors">> => op = <<"status", "plain">>

\* These never come last.
Unfinished == {<<"count_transition">>, <<"gauge">>, <<"load_failures">>, <<"load_statuses">>,
               <<"load_errors">>}

Chain(s) ==
    /\ s \in Seq(Operations)
    /\ \A i \in 2 .. Len(s) : Before(s[i], s[i - 1])

\* s has one of ops in it, or at its head.
Has(s, ops) == \E i \in 1 .. Len(s) : s[i] \in ops
First(s, ops) == Len(s) > 0 /\ s[1] \in ops

\* The operations are in the order of the code, and a response is counted after
\* what is awaited.
Ordered(s) ==
    /\ Chain(s)
    /\ Len(s) > 0 => s[Len(s)] \notin Unfinished
    /\ Has(s, Awaits) => Has(s, Answers)

\* A response of an upstream that has been timed already.
Timed(s) == Has(s, {<<"status", "upstream">>}) /\ ~Has(s, {<<"latency">>})

-----------------------------------------------------------------------------
(* The inductive invariant *)

\* The tasks with one of ops still to make, with one of ops to make next, and with
\* a response to count that has been timed, when d are the operations to make.
Holding(d, ops) == {t \in Tasks : Has(d[t], ops)}
AtHead(d, ops) == {t \in Tasks : First(d[t], ops)}
AllTimed(d) == {t \in Tasks : Timed(d[t])}

\* The attempts that the requests under way may still make, when a are the attempts.
Left(a) == {p \in Tasks \X (1 .. MaxAttempts - 1) : a[p[1]] >= 1 /\ a[p[1]] <= p[2]}

\* A record that has been brought down at some time and not made up since.
Struck(h) == ~h.healthy \/ h.ejected_until # "none" \/ h.probing

Reports == [complete : BOOLEAN, offered : BOOLEAN, failures : Nat, answered : Nat, errors : Nat]

\* What a report r shows when s is still to be read and the counters are at
\* f failures and e errors.
ReportOK(r, s, f, e) ==
    /\ r \in Reports
    /\ r.answered <= e
    /\ r.complete => ~Has(s, Reads) /\ r.answered <= r.errors
    /\ ~r.offered => f >= FailureThreshold
    /\ r.complete \/ First(s, {<<"load_statuses">>, <<"load_errors">>}) =>
         (~r.offered => r.failures >= FailureThreshold)

TypeInv ==
    /\ todo \in [Tasks -> Seq(Operations)]
    /\ attempt \in [Tasks -> 0 .. MaxAttempts]
    /\ body \in [Tasks -> BOOLEAN]
    /\ jobs \in 0 .. MaxJobs
    /\ retries \in Nat /\ lost \in Nat
    /\ health \in Health
    /\ request_count \in Nat /\ latency_count \in Nat /\ failures \in Nat /\ errors \in Nat
    /\ statuses \in [Origins -> Nat]
    /\ transitions \in Nat
    /\ ring \in Seq(Reasons) /\ pushed \in Seq(Reasons)
    /\ report \in [Tasks -> Reports]

\* An error is counted before the response that tells of it, a failure before it is
\* judged, and the latency before the response.
CausesFirst ==
    /\ statuses["failure"] + Cardinality(AtHead(todo, {<<"status", "failure">>})) <= errors
    /\ health.consecutive_failures + Cardinality(AtHead(todo, {<<"judge_failure">>})) <= failures
    /\ Struck(health) => failures >= FailureThreshold
    /\ statuses["upstream"] + Cardinality(AllTimed(todo)) <= latency_count

\* What has been counted and what is still to be counted come to the same.
Balanced ==
    /\ statuses["upstream"] + statuses["failure"] + statuses["plain"]
            + Cardinality(Holding(todo, Answers)) + lost
        = request_count + Cardinality(Holding(todo, {<<"request">>})) + retries
    /\ Len(pushed) + Cardinality(AtHead(todo, Pushes)) = transitions
    /\ Latest(ring, pushed)

RetriesLeft == retries + Cardinality(Left(attempt)) <= jobs * (MaxAttempts - 1)

ReportInv == \A t \in Tasks : ReportOK(report[t], todo[t], failures, errors)

TelemetryInv ==
    /\ TypeInv
    /\ \A t \in Tasks : Ordered(todo[t])
    /\ CausesFirst
    /\ Balanced
    /\ RetriesLeft
    /\ ReportInv

-----------------------------------------------------------------------------
(* Sequences of operations *)

\* The operations that are told apart.
LEMMA OpsApart ==
    /\ \A r \in Reasons : <<"push", r>> \in Pushes /\ <<"push", r>> \in Operations
    /\ \A o \in Origins : <<"status", o>> \in Answers /\ <<"status", o>> \in Operations
    /\ Answers \cap (Pushes \cup Reads \cup Others) = {}
    /\ Pushes \cap (Reads \cup Others) = {}
    /\ Reads \cap Others = {}
BY DEF Answers, Pushes, Reads, Others, Operations

\* A chain, its first and its last operation, and all it has.
Piece(s, first, last, has) ==
    /\ Chain(s) /\ Len(s) > 0 /\ s[1] = first /\ s[Len(s)] = last
    /\ has = {s[i] : i \in 1 .. Len(s)}

\* Two chains make one if the second may follow the first.
LEMMA Joined ==
    ASSUME NEW a, NEW b, NEW f, NEW g, NEW l, NEW m, NEW A, NEW B,
           Piece(a, f, g, A), Piece(b, l, m, B), Before(l, g)
    PROVE  Piece(a \o b, f, m, A \cup B)
<1>1. /\ a \in Seq(Operations) /\ b \in Seq(Operations)
      /\ Len(a) \in Nat /\ Len(b) \in Nat /\ Len(a) > 0 /\ Len(b) > 0
  BY DEF Piece, Chain
<1>2. /\ a \o b \in Seq(Operations) /\ Len(a \o b) = Len(a) + Len(b)
      /\ \A i \in 1 .. Len(a) + Len(b) :
           (a \o b)[i] = IF i <= Len(a) THEN a[i] ELSE b[i - Len(a)]
  BY <1>1
<1>3. ASSUME NEW i \in 2 .. Len(a \o b)
      PROVE  Before((a \o b)[i], (a \o b)[i - 1])
  <2>1. CASE i <= Len(a)
    <3>1. (a \o b)[i] = a[i] /\ (a \o b)[i - 1] = a[i - 1] /\ i \in 2 .. Len(a)
      BY <1>1, <1>2, <2>1
    <3> QED
      BY <3>1 DEF Piece, Chain
  <2>2. CASE i = Len(a) + 1
    <3>1. (a \o b)[i] = b[1] /\ (a \o b)[i - 1] = a[Len(a)]
      BY <1>1, <1>2, <2>2
    <3> QED
      BY <3>1 DEF Piece
  <2>3. CASE i > Len(a) + 1
    <3> DEFINE j == i - Len(a)
    <3>1. (a \o b)[i] = b[j] /\ (a \o b)[i - 1] = b[j - 1] /\ j \in 2 .. Len(b)
      BY <1>1, <1>2, <2>3
    <3> QED
      BY <3>1 DEF Piece, Chain
  <2> QED
    BY <1>1, <1>2, <2>1, <2>2, <2>3
<1>4. (a \o b)[1] = f /\ (a \o b)[Len(a \o b)] = m
  BY <1>1, <1>2 DEF Piece
<1>5. A \cup B = {(a \o b)[i] : i \in 1 .. Len(a \o b)}
  <2>1. A = {a[i] : i \in 1 .. Len(a)} /\ B = {b[i] : i \in 1 .. Len(b)}
    BY DEF Piece
  <2>2. ASSUME NEW i \in 1 .. Len(b)
        PROVE  i + Len(a) \in 1 .. Len(a \o b) /\ (a \o b)[i + Len(a)] = b[i]
    BY <1>1, <1>2
  <2>3. ASSUME NEW i \in 1 .. Len(a)
        PROVE  i \in 1 .. Len(a \o b) /\ (a \o b)[i] = a[i]
    BY <1>1, <1>2
  <2>4. ASSUME NEW i \in 1 .. Len(a \o b)
        PROVE  (a \o b)[i] \in A \cup B
    <3>1. CASE i <= Len(a)
      BY <1>1, <1>2, <2>1, <3>1
    <3>2. CASE i > Len(a)
      <4>1. i - Len(a) \in 1 .. Len(b) /\ (a \o b)[i] = b[i - Len(a)]
        BY <1>1, <1>2, <3>2
      <4> QED
        BY <4>1, <2>1
    <3> QED
      BY <1>1, <1>2, <3>1, <3>2
  <2> DEFINE C == {(a \o b)[i] : i \in 1 .. Len(a \o b)}
  <2>5. A \subseteq C
    BY <2>1, <2>3
  <2>6. B \subseteq C
    BY <2>1, <2>2
  <2>7. C \subseteq A \cup B
    BY <2>4
  <2> QED
    BY <2>5, <2>6, <2>7
<1>6. Chain(a \o b) /\ Len(a \o b) > 0
  BY <1>1, <1>2, <1>3 DEF Chain
<1> QED
  BY <1>4, <1>5, <1>6, Zenon DEF Piece

\* The rest of an ordered sequence is ordered.
LEMMA RestOrdered ==
    ASSUME NEW s, Ordered(s), Len(s) > 0
    PROVE  /\ Ordered(Tail(s))
           /\ Tail(s) = <<>> \/ (Len(Tail(s)) > 0 /\ Before(Tail(s)[1], s[1]))
           /\ \A ops : Has(s, ops) <=> s[1] \in ops \/ Has(Tail(s), ops)
           /\ s[1] \in Unfinished => Len(Tail(s)) > 0
<1>1. s \in Seq(Operations) /\ Len(s) \in Nat
  BY DEF Ordered, Chain
<1>2. /\ Tail(s) \in Seq(Operations) /\ Len(Tail(s)) = Len(s) - 1
      /\ \A i \in 1 .. Len(s) - 1 : Tail(s)[i] = s[i + 1]
  BY <1>1
<1>3. \A i \in 2 .. Len(Tail(s)) : Before(Tail(s)[i], Tail(s)[i - 1])
  <2>1. ASSUME NEW i \in 2 .. Len(Tail(s))
        PROVE  Before(Tail(s)[i], Tail(s)[i - 1])
    <3>1. Tail(s)[i] = s[i + 1] /\ Tail(s)[i - 1] = s[(i + 1) - 1] /\ i + 1 \in 2 .. Len(s)
      BY <1>1, <1>2
    <3> QED
      BY <3>1 DEF Ordered, Chain
  <2> QED
    BY <2>1
<1>4. Len(Tail(s)) > 0 => Tail(s)[Len(Tail(s))] \notin Unfinished
  BY <1>1, <1>2 DEF Ordered
<1>5. Len(Tail(s)) > 0 => Before(Tail(s)[1], s[1])
  <2>1. Len(Tail(s)) > 0 => Tail(s)[1] = s[2] /\ 2 \in 2 .. Len(s) /\ 2 - 1 = 1
    BY <1>1, <1>2
  <2> QED
    BY <2>1 DEF Ordered, Chain
<1>6. ASSUME NEW ops
      PROVE  Has(s, ops) <=> s[1] \in ops \/ Has(Tail(s), ops)
  <2>1. Has(s, ops) => s[1] \in ops \/ Has(Tail(s), ops)
    <3>1. ASSUME NEW i \in 2 .. Len(s), s[i] \in ops
          PROVE  Has(Tail(s), ops)
      <4>1. Tail(s)[i - 1] = s[i] /\ i - 1 \in 1 .. Len(Tail(s))
        BY <1>1, <1>2
      <4> QED
        BY <4>1, <3>1 DEF Has
    <3> QED
      BY <1>1, <3>1 DEF Has
  <2>2. s[1] \in ops => Has(s, ops)
    BY <1>1 DEF Has
  <2>3. Has(Tail(s), ops) => Has(s, ops)
    BY <1>1, <1>2 DEF Has
  <2> QED
    BY <2>1, <2>2, <2>3
<1>7. Tail(s) = <<>> \/ Len(Tail(s)) > 0
  BY <1>1, <1>2
<1>8. s[1] \in Unfinished => Len(Tail(s)) > 0
  BY <1>1, <1>2 DEF Ordered
<1>9. Has(Tail(s), Awaits) => Has(Tail(s), Answers)
  <2>1. Has(Tail(s), Awaits) => Len(Tail(s)) > 0 /\ s[1] \notin Answers
    BY <1>1, <1>2, <1>5 DEF Has, Before
  <2> QED
    BY <1>6, <2>1, Zenon DEF Ordered
<1>10. Ordered(Tail(s))
  BY <1>2, <1>3, <1>4, <1>9 DEF Ordered, Chain
<1> QED
  BY <1>5, <1>6, <1>7, <1>8, <1>10
-----------------------------------------------------------------------------
(* The programs *)

\* What follows what in them.
LEMMA Follows ==
    /\ \A op \in {<<"buffer">>, <<"poll">>, <<"gauge">>, <<"error">>, <<"status", "plain">>} :
         Before(op, <<"request">>)
    /\ \A op \in {<<"poll">>, <<"latency">>, <<"error">>} : Before(op, <<"buffer">>)
    /\ \A op \in {<<"buffer">>, <<"latency">>, <<"error">>, <<"status", "plain">>} :
         Before(op, <<"poll">>)
    /\ \A op \in {<<"judge_success">>, <<"count_failure">>} : Before(op, <<"latency">>)
    /\ Before(<<"judge_failure">>, <<"count_failure">>)
    /\ Before(<<"status", "upstream">>, <<"judge_success">>)
    /\ \A op \in {<<"error">>, <<"status", "upstream">>} : Before(op, <<"judge_failure">>)
    /\ \A op \in {<<"count_failure">>, <<"status", "failure">>} : Before(op, <<"error">>)
    /\ Before(<<"load_failures">>, <<"gauge">>)
    /\ Before(<<"load_statuses">>, <<"load_failures">>)
    /\ Before(<<"load_errors">>, <<"load_statuses">>)
    /\ Before(<<"status", "plain">>, <<"load_errors">>)
<1> USE OpsApart DEF Before, Answers, Pushes, Origins
<1>1. \A op \in {<<"buffer">>, <<"poll">>, <<"gauge">>, <<"error">>, <<"status", "plain">>} :
         Before(op, <<"request">>)
  OBVIOUS
<1>12. \A op \in {<<"poll">>, <<"latency">>, <<"error">>} : Before(op, <<"buffer">>)
  OBVIOUS
<1>2. \A op \in {<<"buffer">>, <<"latency">>, <<"error">>, <<"status", "plain">>} :
         Before(op, <<"poll">>)
  OBVIOUS
<1>3. \A op \in {<<"judge_success">>, <<"count_failure">>} : Before(op, <<"latency">>)
  OBVIOUS
<1>4. Before(<<"judge_failure">>, <<"count_failure">>)
  OBVIOUS
<1>5. Before(<<"status", "upstream">>, <<"judge_success">>)
  OBVIOUS
<1>6. \A op \in {<<"error">>, <<"status", "upstream">>} : Before(op, <<"judge_failure">>)
  OBVIOUS
<1>7. \A op \in {<<"count_failure">>, <<"status", "failure">>} : Before(op, <<"error">>)
  OBVIOUS
<1>8. Before(<<"load_failures">>, <<"gauge">>)
  OBVIOUS
<1>9. Before(<<"load_statuses">>, <<"load_failures">>)
  OBVIOUS
<1>10. Before(<<"load_errors">>, <<"load_statuses">>)
  OBVIOUS
<1>11. Before(<<"status", "plain">>, <<"load_errors">>)
  OBVIOUS
<1> HIDE DEF Before
<1> QED
  BY <1>1, <1>2, <1>3, <1>4, <1>5, <1>6, <1>7, <1>8, <1>9, <1>10, <1>11, <1>12

\* The pieces that the code puts together.
LEMMA Pieces ==
    /\ Piece(<< <<"request">> >>, <<"request">>, <<"request">>, {<<"request">>})
    /\ Piece(<< <<"poll">> >>, <<"poll">>, <<"poll">>, {<<"poll">>})
    /\ Piece(<< <<"error">> >>, <<"error">>, <<"error">>, {<<"error">>})
    /\ Piece(<< <<"buffer">> >>, <<"buffer">>, <<"buffer">>, {<<"buffer">>})
    /\ Piece(<< <<"latency">> >>, <<"latency">>, <<"latency">>, {<<"latency">>})
    /\ Piece(<< <<"poll">>, <<"buffer">> >>, <<"poll">>, <<"buffer">>, {<<"poll">>, <<"buffer">>})
    /\ Piece(<< <<"buffer">>, <<"poll">> >>, <<"buffer">>, <<"poll">>, {<<"poll">>, <<"buffer">>})
    /\ Piece(Repeatable, <<"request">>, <<"poll">>, {<<"request">>, <<"buffer">>, <<"poll">>})
    /\ Piece(<< <<"request">>, <<"poll">>, <<"buffer">> >>, <<"request">>, <<"buffer">>, {<<"request">>, <<"poll">>, <<"buffer">>})
    /\ Piece(<< <<"request">>, <<"poll">> >>, <<"request">>, <<"poll">>, {<<"request">>, <<"poll">>})
    /\ Piece(Success, <<"judge_success">>, <<"judge_success">>, {<<"judge_success">>})
    /\ Piece(Failure, <<"count_failure">>, <<"judge_failure">>, {<<"count_failure">>, <<"judge_failure">>})
    /\ Piece(ProxyFailure, <<"error">>, <<"status", "failure">>, {<<"error">>, <<"status", "failure">>})
    /\ Piece(<< <<"status", "upstream">> >>, <<"status", "upstream">>, <<"status", "upstream">>, {<<"status", "upstream">>})
    /\ Piece(<< <<"status", "plain">> >>, <<"status", "plain">>, <<"status", "plain">>, {<<"status", "plain">>})
    /\ Piece(Render, <<"gauge">>, <<"load_errors">>, {<<"gauge">>, <<"load_failures">>, <<"load_statuses">>, <<"load_errors">>})
<1> USE OpsApart, Follows DEF Piece, Chain, Operations, Others, Reads, Origins, Success, Failure,
    ProxyFailure, Render, Repeatable
<1>1. Piece(<< <<"request">> >>, <<"request">>, <<"request">>, {<<"request">>})
  OBVIOUS
<1>2. Piece(<< <<"poll">> >>, <<"poll">>, <<"poll">>, {<<"poll">>})
  OBVIOUS
<1>3. Piece(<< <<"error">> >>, <<"error">>, <<"error">>, {<<"error">>})
  OBVIOUS
<1>4. Piece(<< <<"buffer">> >>, <<"buffer">>, <<"buffer">>, {<<"buffer">>})
  OBVIOUS
<1>11. Piece(<< <<"latency">> >>, <<"latency">>, <<"latency">>, {<<"latency">>})
  OBVIOUS
<1>12. Piece(<< <<"poll">>, <<"buffer">> >>, <<"poll">>, <<"buffer">>, {<<"poll">>, <<"buffer">>})
  OBVIOUS
<1>13. Piece(<< <<"buffer">>, <<"poll">> >>, <<"buffer">>, <<"poll">>, {<<"poll">>, <<"buffer">>})
  OBVIOUS
<1>14. Piece(Repeatable, <<"request">>, <<"poll">>, {<<"request">>, <<"buffer">>, <<"poll">>})
  OBVIOUS
<1>15. Piece(<< <<"request">>, <<"poll">>, <<"buffer">> >>, <<"request">>, <<"buffer">>, {<<"request">>, <<"poll">>, <<"buffer">>})
  OBVIOUS
<1>16. Piece(<< <<"request">>, <<"poll">> >>, <<"request">>, <<"poll">>, {<<"request">>, <<"poll">>})
  OBVIOUS
<1>5. Piece(Success, <<"judge_success">>, <<"judge_success">>, {<<"judge_success">>})
  OBVIOUS
<1>6. Piece(Failure, <<"count_failure">>, <<"judge_failure">>, {<<"count_failure">>, <<"judge_failure">>})
  OBVIOUS
<1>7. Piece(ProxyFailure, <<"error">>, <<"status", "failure">>, {<<"error">>, <<"status", "failure">>})
  OBVIOUS
<1>8. Piece(<< <<"status", "upstream">> >>, <<"status", "upstream">>, <<"status", "upstream">>, {<<"status", "upstream">>})
  OBVIOUS
<1>9. Piece(<< <<"status", "plain">> >>, <<"status", "plain">>, <<"status", "plain">>, {<<"status", "plain">>})
  OBVIOUS
<1>10. Piece(Render, <<"gauge">>, <<"load_errors">>, {<<"gauge">>, <<"load_failures">>, <<"load_statuses">>, <<"load_errors">>})
  OBVIOUS
<1> HIDE DEF Piece, Success, Failure, ProxyFailure, Render, Repeatable
<1> QED
  BY <1>1, <1>2, <1>3, <1>4, <1>5, <1>6, <1>7, <1>8, <1>9, <1>10, <1>11, <1>12, <1>13, <1>14,
     <1>15, <1>16

\* A sequence that a task may set out with, with or without the request counted, a
\* response, and loads for a scrape.
Program(s, request, answer, reads) ==
    /\ Ordered(s)
    /\ Len(s) > 0
    /\ s[1] \notin Pushes \cup {<<"status", "failure">>, <<"judge_failure">>}
    /\ ~Timed(s)
    /\ Has(s, {<<"request">>}) <=> request
    /\ Has(s, Answers) <=> answer
    /\ Has(s, Reads) => reads

\* A chain that ends as it should is a program.
LEMMA PieceProgram ==
    ASSUME NEW s, NEW first, NEW last, NEW has, Piece(s, first, last, has),
           NEW request \in BOOLEAN, NEW answer \in BOOLEAN, NEW reads \in BOOLEAN,
           last \notin Unfinished,
           first \notin Pushes \cup {<<"status", "failure">>, <<"judge_failure">>},
           <<"status", "upstream">> \in has => <<"latency">> \in has,
           <<"request">> \in has <=> request,
           (\E op \in has : op \in Answers) <=> answer,
           (\E op \in has : op \in Reads) => reads,
           answer \/ ~\E op \in has : op \in Awaits
    PROVE  Program(s, request, answer, reads)
<1>1. Chain(s) /\ Len(s) > 0 /\ s[1] = first /\ s[Len(s)] = last
  BY DEF Piece
<1>2. \A ops : Has(s, ops) <=> \E op \in has : op \in ops
  BY DEF Piece, Has
<1>3. ~Timed(s)
  BY <1>2 DEF Timed
<1>4. Has(s, {<<"request">>}) <=> request
  BY <1>2
<1>5. (Has(s, Answers) <=> answer) /\ (Has(s, Reads) => reads)
  BY <1>2
<1>6. Has(s, Awaits) => Has(s, Answers)
  BY <1>2, <1>5
<1> QED
  BY <1>1, <1>3, <1>4, <1>5, <1>6 DEF Program, Ordered

\* The end of a request that is answered: s begins with first and counts the
\* response, which has been timed if it is an upstream's.
Ending(s, first) ==
    \E last, has :
        /\ Piece(s, first, last, has)
        /\ last \notin Unfinished
        /\ <<"status", "upstream">> \in has => <<"latency">> \in has
        /\ <<"request">> \notin has
        /\ \E op \in has : op \in Answers
        /\ ~\E op \in has : op \in Reads

\* The answers of the proxy's own, and of forward_request.
LEMMA Endings ==
    /\ Ending(ProxyFailure, <<"error">>)
    /\ \A ops \in Forwarded : Ending(ops, <<"latency">>)
<1>1. Ending(ProxyFailure, <<"error">>)
  <2> DEFINE has == {<<"error">>, <<"status", "failure">>}
  <2>1. /\ <<"status", "failure">> \notin Unfinished
        /\ <<"status", "upstream">> \in has => <<"latency">> \in has
        /\ <<"request">> \notin has
    BY OpsApart DEF Unfinished
  <2>2. \E op \in has : op \in Answers
    BY OpsApart DEF Origins
  <2>3. ~\E op \in has : op \in Reads
    BY OpsApart DEF Others, Origins
  <2>4. Piece(ProxyFailure, <<"error">>, <<"status", "failure">>, has)
    BY Pieces
  <2> HIDE DEF has
  <2> QED
    BY <2>1, <2>2, <2>3, <2>4, Zenon DEF Ending
<1>2. Ending(<< <<"latency">> >> \o Success \o << <<"status", "upstream">> >>, <<"latency">>)
  <2> DEFINE has == {<<"latency">>, <<"judge_success">>} \cup {<<"status", "upstream">>}
  <2>1. Piece(<< <<"latency">> >> \o Success, <<"latency">>, <<"judge_success">>,
            {<<"latency">>, <<"judge_success">>})
    <3>1. {<<"latency">>, <<"judge_success">>} = {<<"latency">>} \cup {<<"judge_success">>}
      OBVIOUS
    <3> QED
      BY <3>1, Pieces, Follows, Joined
  <2>2. Piece(<< <<"latency">> >> \o Success \o << <<"status", "upstream">> >>, <<"latency">>,
            <<"status", "upstream">>, has)
    BY <2>1, Pieces, Follows, Joined
  <2>3. /\ <<"status", "upstream">> \notin Unfinished
        /\ <<"status", "upstream">> \in has => <<"latency">> \in has
        /\ <<"request">> \notin has
    BY OpsApart DEF Unfinished
  <2>4. \E op \in has : op \in Answers
    BY OpsApart DEF Origins
  <2>5. ~\E op \in has : op \in Reads
    BY OpsApart DEF Others, Origins
  <2> HIDE DEF has
  <2> QED
    BY <2>2, <2>3, <2>4, <2>5, Zenon DEF Ending
<1>3. Piece(<< <<"latency">> >> \o Failure, <<"latency">>, <<"judge_failure">>,
          {<<"latency">>, <<"count_failure">>, <<"judge_failure">>})
  <2>1. {<<"latency">>, <<"count_failure">>, <<"judge_failure">>}
          = {<<"latency">>} \cup {<<"count_failure">>, <<"judge_failure">>}
    OBVIOUS
  <2> QED
    BY <2>1, Pieces, Follows, Joined
<1>4. Ending(<< <<"latency">> >> \o Failure \o << <<"status", "upstream">> >>, <<"latency">>)
  <2> DEFINE has == {<<"latency">>, <<"count_failure">>, <<"judge_failure">>} \cup {<<"status", "upstream">>}
  <2>2. Piece(<< <<"latency">> >> \o Failure \o << <<"status", "upstream">> >>, <<"latency">>,
            <<"status", "upstream">>, has)
    BY <1>3, Pieces, Follows, Joined
  <2>3. /\ <<"status", "upstream">> \notin Unfinished
        /\ <<"status", "upstream">> \in has => <<"latency">> \in has
        /\ <<"request">> \notin has
    BY OpsApart DEF Unfinished
  <2>4. \E op \in has : op \in Answers
    BY OpsApart DEF Origins
  <2>5. ~\E op \in has : op \in Reads
    BY OpsApart DEF Others, Origins
  <2> HIDE DEF has
  <2> QED
    BY <2>2, <2>3, <2>4, <2>5, Zenon DEF Ending
<1>5. Ending(<< <<"latency">> >> \o Failure \o ProxyFailure, <<"latency">>)
  <2> DEFINE has == {<<"latency">>, <<"count_failure">>, <<"judge_failure">>}
                      \cup {<<"error">>, <<"status", "failure">>}
  <2>2. Piece(<< <<"latency">> >> \o Failure \o ProxyFailure, <<"latency">>,
            <<"status", "failure">>, has)
    BY <1>3, Pieces, Follows, Joined
  <2>3. /\ <<"status", "failure">> \notin Unfinished
        /\ <<"status", "upstream">> \in has => <<"latency">> \in has
        /\ <<"request">> \notin has
    BY OpsApart DEF Unfinished
  <2>4. \E op \in has : op \in Answers
    BY OpsApart DEF Origins
  <2>5. ~\E op \in has : op \in Reads
    BY OpsApart DEF Others, Origins
  <2> HIDE DEF has
  <2> QED
    BY <2>2, <2>3, <2>4, <2>5, Zenon DEF Ending
<1> QED
  BY <1>1, <1>2, <1>4, <1>5, Zenon DEF Forwarded

\* What leads to such an end.
Leads(a, last, has) ==
    /\ \E first \in {<<"request">>, <<"poll">>} : Piece(a, first, last, has)
    /\ has \subseteq {<<"request">>, <<"buffer">>, <<"poll">>}

\* Together they are a program.
LEMMA LeadsToEnding ==
    ASSUME NEW a, NEW g, NEW A, Leads(a, g, A), NEW s, NEW first, Ending(s, first),
           Before(first, g), NEW request \in BOOLEAN, <<"request">> \in A <=> request
    PROVE  Program(a \o s, request, TRUE, FALSE)
<1>1. PICK f \in {<<"request">>, <<"poll">>} : Piece(a, f, g, A)
  BY DEF Leads
<1>2. PICK last, has :
        /\ Piece(s, first, last, has)
        /\ last \notin Unfinished
        /\ <<"status", "upstream">> \in has => <<"latency">> \in has
        /\ <<"request">> \notin has
        /\ \E op \in has : op \in Answers
        /\ ~\E op \in has : op \in Reads
  BY Zenon DEF Ending
<1>3. Piece(a \o s, f, last, A \cup has)
  BY <1>1, <1>2, Joined
<1>4. f \notin Pushes \cup {<<"status", "failure">>, <<"judge_failure">>}
  BY <1>1, OpsApart DEF Others
<1>5. <<"status", "upstream">> \notin A /\ ~\E op \in A : op \in Reads
  BY OpsApart DEF Leads, Others, Origins
<1>6. /\ <<"status", "upstream">> \in A \cup has => <<"latency">> \in A \cup has
      /\ <<"request">> \in A \cup has <=> request
      /\ \E op \in A \cup has : op \in Answers
      /\ ~\E op \in A \cup has : op \in Reads
  BY <1>2, <1>5
<1> QED
  BY <1>2, <1>3, <1>4, <1>6, PieceProgram

\* The attempts after the first.
LEMMA AgainPrograms == \A ops \in Again : Program(ops, FALSE, TRUE, FALSE)
<1>1. Leads(<< <<"poll">> >>, <<"poll">>, {<<"poll">>})
  BY Pieces DEF Leads
<1>2. <<"request">> \notin {<<"poll">>}
  OBVIOUS
<1>3. ASSUME NEW ops \in Forwarded \cup {ProxyFailure}
      PROVE  Program(<< <<"poll">> >> \o ops, FALSE, TRUE, FALSE)
  <2>1. PICK first \in {<<"latency">>, <<"error">>} : Ending(ops, first)
    BY Endings
  <2>2. Before(first, <<"poll">>)
    BY <2>1, Follows
  <2> QED
    BY <1>1, <1>2, <2>1, <2>2, LeadsToEnding
<1>4. Program(ProxyFailure, FALSE, TRUE, FALSE)
  <2> DEFINE has == {<<"error">>, <<"status", "failure">>}
  <2>1. /\ <<"status", "failure">> \notin Unfinished
        /\ <<"error">> \notin Pushes \cup {<<"status", "failure">>, <<"judge_failure">>}
        /\ <<"status", "upstream">> \in has => <<"latency">> \in has
        /\ ~(<<"request">> \in has)
    BY OpsApart DEF Unfinished, Others, Reads
  <2>2. \E op \in has : op \in Answers
    BY OpsApart DEF Others, Reads, Origins
  <2>3. ~\E op \in has : op \in Reads
    BY OpsApart DEF Others, Origins
  <2> QED
    BY <2>1, <2>2, <2>3, Pieces, PieceProgram
<1> QED
  BY <1>3, <1>4, Zenon DEF Again, Final

\* The first attempt, of a request that may be repeated and of one that may not.
LEMMA ForwardPrograms ==
    \A before \in {Repeatable} \cup Once, ops \in Forwarded :
        Program(before \o ops, TRUE, TRUE, FALSE)
<1>1. ASSUME NEW before \in {Repeatable} \cup Once
      PROVE  \E last \in {<<"poll">>, <<"buffer">>},
                has \in SUBSET {<<"request">>, <<"buffer">>, <<"poll">>} :
                Leads(before, last, has) /\ <<"request">> \in has
  BY Pieces DEF Leads, Once
<1>2. ASSUME NEW before \in {Repeatable} \cup Once, NEW ops \in Forwarded
      PROVE  Program(before \o ops, TRUE, TRUE, FALSE)
  <2>1. PICK last \in {<<"poll">>, <<"buffer">>},
             has \in SUBSET {<<"request">>, <<"buffer">>, <<"poll">>} :
             Leads(before, last, has) /\ <<"request">> \in has
    BY <1>1
  <2>2. Ending(ops, <<"latency">>) /\ Before(<<"latency">>, last)
    BY Endings, Follows
  <2> QED
    BY <2>1, <2>2, LeadsToEnding
<1> QED
  BY <1>2

\* An internal endpoint, one that is not exposed, a 401 or a 404.
LEMMA InternalPrograms ==
    \A ops \in Internal :
        Program(<< <<"request">> >> \o ops \o << <<"status", "plain">> >>, TRUE, TRUE, TRUE)
<1>1. << <<"request">> >> \o <<>> = << <<"request">> >>
  BY ConcatEmptySeq
<1>2. Program(<< <<"request">> >> \o << <<"status", "plain">> >>, TRUE, TRUE, TRUE)
  <2>1. Piece(<< <<"request">> >> \o << <<"status", "plain">> >>, <<"request">>, <<"status", "plain">>,
            {<<"request">>, <<"status", "plain">>})
    <3>1. {<<"request">>, <<"status", "plain">>}
            = {<<"request">>} \cup {<<"status", "plain">>}
      OBVIOUS
    <3> QED
      BY <3>1, Pieces, Follows, Joined
  <2> DEFINE has == {<<"request">>, <<"status", "plain">>}
  <2>2. /\ <<"status", "plain">> \notin Unfinished
        /\ <<"request">> \notin Pushes \cup {<<"status", "failure">>, <<"judge_failure">>}
        /\ <<"status", "upstream">> \in has => <<"latency">> \in has
        /\ <<"request">> \in has
    BY OpsApart DEF Unfinished, Others, Reads
  <2>3. \E op \in has : op \in Answers
    BY OpsApart DEF Others, Reads, Origins
  <2> QED
    BY <2>1, <2>2, <2>3, PieceProgram
<1>3. Program(<< <<"request">> >> \o Render \o << <<"status", "plain">> >>, TRUE, TRUE, TRUE)
  <2>1. Piece(<< <<"request">> >> \o Render, <<"request">>, <<"load_errors">>,
            {<<"request">>, <<"gauge">>, <<"load_failures">>, <<"load_statuses">>, <<"load_errors">>})
    <3>1. {<<"request">>, <<"gauge">>, <<"load_failures">>, <<"load_statuses">>, <<"load_errors">>}
            = {<<"request">>} \cup {<<"gauge">>, <<"load_failures">>, <<"load_statuses">>, <<"load_errors">>}
      OBVIOUS
    <3> QED
      BY <3>1, Pieces, Follows, Joined
  <2>2. Piece(<< <<"request">> >> \o Render \o << <<"status", "plain">> >>, <<"request">>, <<"status", "plain">>,
            {<<"request">>, <<"gauge">>, <<"load_failures">>, <<"load_statuses">>, <<"load_errors">>, <<"status", "plain">>})
    <3>1. {<<"request">>, <<"gauge">>, <<"load_failures">>, <<"load_statuses">>, <<"load_errors">>, <<"status", "plain">>}
            = {<<"request">>, <<"gauge">>, <<"load_failures">>, <<"load_statuses">>, <<"load_errors">>} \cup {<<"status", "plain">>}
      OBVIOUS
    <3> QED
      BY <3>1, <2>1, Pieces, Follows, Joined
  <2> DEFINE has == {<<"request">>, <<"gauge">>, <<"load_failures">>, <<"load_statuses">>, <<"load_errors">>, <<"status", "plain">>}
  <2>3. /\ <<"status", "plain">> \notin Unfinished
        /\ <<"request">> \notin Pushes \cup {<<"status", "failure">>, <<"judge_failure">>}
        /\ <<"status", "upstream">> \in has => <<"latency">> \in has
        /\ <<"request">> \in has
    BY OpsApart DEF Unfinished, Others, Reads
  <2>4. \E op \in has : op \in Answers
    BY OpsApart DEF Others, Reads, Origins
  <2> QED
    BY <2>2, <2>3, <2>4, PieceProgram
<1>4. Program(<< <<"request">> >> \o << <<"poll">> >> \o << <<"status", "plain">> >>, TRUE, TRUE, TRUE)
  <2>1. Piece(<< <<"request">> >> \o << <<"poll">> >>, <<"request">>, <<"poll">>,
            {<<"request">>, <<"poll">>})
    <3>1. {<<"request">>, <<"poll">>}
            = {<<"request">>} \cup {<<"poll">>}
      OBVIOUS
    <3> QED
      BY <3>1, Pieces, Follows, Joined
  <2>2. Piece(<< <<"request">> >> \o << <<"poll">> >> \o << <<"status", "plain">> >>, <<"request">>, <<"status", "plain">>,
            {<<"request">>, <<"poll">>, <<"status", "plain">>})
    <3>1. {<<"request">>, <<"poll">>, <<"status", "plain">>}
            = {<<"request">>, <<"poll">>} \cup {<<"status", "plain">>}
      OBVIOUS
    <3> QED
      BY <3>1, <2>1, Pieces, Follows, Joined
  <2> DEFINE has == {<<"request">>, <<"poll">>, <<"status", "plain">>}
  <2>3. /\ <<"status", "plain">> \notin Unfinished
        /\ <<"request">> \notin Pushes \cup {<<"status", "failure">>, <<"judge_failure">>}
        /\ <<"status", "upstream">> \in has => <<"latency">> \in has
        /\ <<"request">> \in has
    BY OpsApart DEF Unfinished, Others, Reads
  <2>4. \E op \in has : op \in Answers
    BY OpsApart DEF Others, Reads, Origins
  <2> QED
    BY <2>2, <2>3, <2>4, PieceProgram
<1> QED
  BY <1>1, <1>2, <1>3, <1>4 DEF Internal

\* A refusal.
LEMMA RefusePrograms ==
    \A ops \in {<<>>, << <<"poll">> >>, << <<"buffer">> >>,
                << <<"poll">>, <<"buffer">> >>, << <<"buffer">>, <<"poll">> >>} :
        Program(<< <<"request">> >> \o ops \o ProxyFailure, TRUE, TRUE, FALSE)
<1> DEFINE before(ops) == << <<"request">> >> \o ops
<1>1. before(<<>>) = << <<"request">> >>
  BY ConcatEmptySeq
<1>2. Leads(before(<<>>), <<"request">>, {<<"request">>})
  BY <1>1, Pieces DEF Leads
<1>3. ASSUME NEW ops, NEW first \in {<<"poll">>, <<"buffer">>}, NEW last,
             NEW has \in SUBSET {<<"buffer">>, <<"poll">>}, Piece(ops, first, last, has)
      PROVE  Leads(before(ops), last, {<<"request">>} \cup has)
  <2>1. Before(first, <<"request">>)
    BY Follows
  <2>2. Piece(<< <<"request">> >> \o ops, <<"request">>, last, {<<"request">>} \cup has)
    BY <1>3, <2>1, Pieces, Joined
  <2> QED
    BY <2>2 DEF Leads
<1>4. ASSUME NEW ops \in {<< <<"poll">> >>, << <<"buffer">> >>, << <<"poll">>, <<"buffer">> >>,
                          << <<"buffer">>, <<"poll">> >>}
      PROVE  \E first \in {<<"poll">>, <<"buffer">>}, last \in {<<"poll">>, <<"buffer">>},
                has \in SUBSET {<<"buffer">>, <<"poll">>} : Piece(ops, first, last, has)
  BY Pieces
<1> HIDE DEF before
<1>5. ASSUME NEW ops, NEW last \in {<<"request">>, <<"poll">>, <<"buffer">>}, NEW has,
             Leads(before(ops), last, {<<"request">>} \cup has)
      PROVE  Program(before(ops) \o ProxyFailure, TRUE, TRUE, FALSE)
  <2>1. Ending(ProxyFailure, <<"error">>) /\ Before(<<"error">>, last)
    BY Endings, Follows
  <2>2. <<"request">> \in {<<"request">>} \cup has
    OBVIOUS
  <2> QED
    BY <1>5, <2>1, <2>2, LeadsToEnding
<1>6. Program(before(<<>>) \o ProxyFailure, TRUE, TRUE, FALSE)
  <2>1. {<<"request">>} \cup {} = {<<"request">>}
    OBVIOUS
  <2> QED
    BY <1>2, <1>5, <2>1
<1>7. ASSUME NEW ops \in {<< <<"poll">> >>, << <<"buffer">> >>, << <<"poll">>, <<"buffer">> >>,
                          << <<"buffer">>, <<"poll">> >>}
      PROVE  Program(before(ops) \o ProxyFailure, TRUE, TRUE, FALSE)
  <2>1. PICK first \in {<<"poll">>, <<"buffer">>}, last \in {<<"poll">>, <<"buffer">>},
             has \in SUBSET {<<"buffer">>, <<"poll">>} : Piece(ops, first, last, has)
    BY <1>4
  <2>2. Leads(before(ops), last, {<<"request">>} \cup has)
    BY <1>3, <2>1
  <2> QED
    BY <1>5, <2>2
<1>8. \A ops \in {<<>>, << <<"poll">> >>, << <<"buffer">> >>,
                   << <<"poll">>, <<"buffer">> >>, << <<"buffer">>, <<"poll">> >>} :
        Program(before(ops) \o ProxyFailure, TRUE, TRUE, FALSE)
  BY <1>6, <1>7
<1> QED
  BY <1>8, Zenon DEF before

\* Results that are recorded without a response: of an active check, and of a body
\* that failed.
LEMMA ResultPrograms ==
    \A ops \in {Success, Failure, << <<"error">> >> \o Failure} : Program(ops, FALSE, FALSE, FALSE)
<1>1. Program(Success, FALSE, FALSE, FALSE)
  <2> DEFINE has == {<<"judge_success">>}
  <2>1. /\ <<"judge_success">> \notin Unfinished
        /\ <<"judge_success">> \notin Pushes \cup {<<"status", "failure">>, <<"judge_failure">>}
        /\ <<"status", "upstream">> \in has => <<"latency">> \in has
        /\ ~(<<"request">> \in has)
    BY OpsApart DEF Unfinished, Others, Reads
  <2>2. ~\E op \in has : op \in Answers
    BY OpsApart DEF Others, Reads, Origins
  <2>3. (~\E op \in has : op \in Reads) /\ (~\E op \in has : op \in Awaits)
    BY OpsApart DEF Others, Origins, Awaits
  <2> QED
    BY <2>1, <2>2, <2>3, Pieces, PieceProgram
<1>2. Program(Failure, FALSE, FALSE, FALSE)
  <2> DEFINE has == {<<"count_failure">>, <<"judge_failure">>}
  <2>1. /\ <<"judge_failure">> \notin Unfinished
        /\ <<"count_failure">> \notin Pushes \cup {<<"status", "failure">>, <<"judge_failure">>}
        /\ <<"status", "upstream">> \in has => <<"latency">> \in has
        /\ ~(<<"request">> \in has)
    BY OpsApart DEF Unfinished, Others, Reads
  <2>2. ~\E op \in has : op \in Answers
    BY OpsApart DEF Others, Reads, Origins
  <2>3. (~\E op \in has : op \in Reads) /\ (~\E op \in has : op \in Awaits)
    BY OpsApart DEF Others, Origins, Awaits
  <2> QED
    BY <2>1, <2>2, <2>3, Pieces, PieceProgram
<1>3. Program(<< <<"error">> >> \o Failure, FALSE, FALSE, FALSE)
  <2>1. Piece(<< <<"error">> >> \o Failure, <<"error">>, <<"judge_failure">>,
            {<<"error">>, <<"count_failure">>, <<"judge_failure">>})
    <3>1. {<<"error">>, <<"count_failure">>, <<"judge_failure">>}
            = {<<"error">>} \cup {<<"count_failure">>, <<"judge_failure">>}
      OBVIOUS
    <3> QED
      BY <3>1, Pieces, Follows, Joined
  <2> DEFINE has == {<<"error">>, <<"count_failure">>, <<"judge_failure">>}
  <2>2. /\ <<"judge_failure">> \notin Unfinished
        /\ <<"error">> \notin Pushes \cup {<<"status", "failure">>, <<"judge_failure">>}
        /\ <<"status", "upstream">> \in has => <<"latency">> \in has
        /\ ~(<<"request">> \in has)
    BY OpsApart DEF Unfinished, Others, Reads
  <2>3. ~\E op \in has : op \in Answers
    BY OpsApart DEF Others, Reads, Origins
  <2>4. (~\E op \in has : op \in Reads) /\ (~\E op \in has : op \in Awaits)
    BY OpsApart DEF Others, Origins, Awaits
  <2> QED
    BY <2>1, <2>2, <2>3, <2>4, PieceProgram
<1> QED
  BY <1>1, <1>2, <1>3
-----------------------------------------------------------------------------
(* One operation made *)

\* s is what is left of q when its first operation has been made: the rest of it,
\* after a transition to log if the operation was a judgement.
Rest(q, s) ==
    \/ s = Tail(q)
    \/ /\ q[1] \in {<<"judge_success">>, <<"judge_failure">>}
       /\ \E r \in Reasons : s = << <<"count_transition">>, <<"push", r>> >> \o Tail(q)

\* What the first operation of q says of what is left.
Follow(q, s) ==
    /\ Ordered(s)
    /\ Has(q, Answers) <=> q[1] \in Answers \/ Has(s, Answers)
    /\ q[1] \in Answers => ~Has(s, Answers)
    /\ Has(q, {<<"request">>}) <=> q[1] = <<"request">>
    /\ ~Has(s, {<<"request">>})
    /\ First(s, {<<"status", "failure">>}) => q[1] = <<"error">>
    /\ First(s, {<<"judge_failure">>}) => q[1] = <<"count_failure">>
    /\ First(s, Pushes) <=> q[1] = <<"count_transition">>
    /\ Timed(s) => Timed(q) \/ q[1] = <<"latency">>
    /\ q[1] = <<"status", "upstream">> => Timed(q) /\ ~Timed(s)
    /\ Has(s, Reads) => Has(q, Reads)
    /\ q[1] \in Reads => Has(q, Reads)
    /\ First(s, {<<"load_statuses">>, <<"load_errors">>}) =>
         q[1] \in {<<"load_failures">>, <<"load_statuses">>}
    /\ q[1] = <<"load_errors">> => ~Has(s, Reads)

\* A task with nothing to do is not about to count anything.
LEMMA EmptyHas == \A ops : ~Has(<<>>, ops)
BY DEF Has

\* Without a transition to log, what follows is the tail.
LEMMA RestFollows ==
    ASSUME NEW q, Ordered(q), Len(q) > 0
    PROVE  Follow(q, Tail(q))
<1> DEFINE s == Tail(q)
<1>1. /\ Ordered(s)
      /\ s = <<>> \/ (Len(s) > 0 /\ Before(s[1], q[1]))
      /\ \A ops : Has(q, ops) <=> q[1] \in ops \/ Has(s, ops)
      /\ q[1] \in Unfinished => Len(s) > 0
  BY RestOrdered
<1>2. s \in Seq(Operations) /\ Len(s) \in Nat /\ Len(<<>>) = 0
  BY <1>1 DEF Ordered, Chain
<1> HIDE DEF s
<1>3. s = <<>> => \A ops : ~Has(s, ops) /\ ~First(s, ops)
  BY <1>2 DEF Has, First
<1>4. q[1] \in Answers => s = <<>>
  BY <1>1 DEF Before
<1>5. ~Has(s, {<<"request">>})
  <2>1. \A i \in 2 .. Len(s) : s[i] # <<"request">>
    BY <1>1 DEF Ordered, Chain, Before
  <2>2. CASE Len(s) > 0
    <3>1. s[1] # <<"request">>
      BY <1>1, <1>2, <2>2 DEF Before
    <3> QED
      BY <1>2, <2>1, <3>1 DEF Has
  <2> QED
    BY <1>2, <2>2 DEF Has
<1>6. First(s, {<<"status", "failure">>}) => q[1] = <<"error">>
  BY <1>1, <1>3 DEF Before, First
<1>7. First(s, {<<"judge_failure">>}) => q[1] = <<"count_failure">>
  BY <1>1, <1>3 DEF Before, First
<1>8. First(s, Pushes) <=> q[1] = <<"count_transition">>
  <2>1. <<"count_transition">> \in Unfinished
    BY DEF Unfinished
  <2> QED
    BY <1>1, <1>2, <1>3, <2>1 DEF Before, First
<1>9. Timed(s) => Timed(q) \/ q[1] = <<"latency">>
  BY <1>1 DEF Timed
<1>10. q[1] = <<"status", "upstream">> => Timed(q) /\ ~Timed(s)
  <2>1. <<"status", "upstream">> \in Answers /\ <<"status", "upstream">> # <<"latency">>
    BY OpsApart DEF Origins
  <2> QED
    BY <1>1, <1>3, <1>4, <2>1 DEF Timed
<1>11. First(s, {<<"load_statuses">>, <<"load_errors">>}) =>
         q[1] \in {<<"load_failures">>, <<"load_statuses">>}
  BY <1>1, <1>3 DEF Before, First
<1>12. q[1] = <<"load_errors">> => ~Has(s, Reads)
  <2>1. SUFFICES ASSUME q[1] = <<"load_errors">>, s # <<>>
                 PROVE  ~Has(s, Reads)
    BY <1>3
  <2>2. Len(s) > 0 /\ s[1] = <<"status", "plain">>
    BY <1>1, <2>1 DEF Before
  <2>3. s[1] \in Answers /\ s[1] \notin Reads
    BY <2>2, OpsApart DEF Origins
  <2>4. /\ Tail(s) = <<>> \/ Before(Tail(s)[1], s[1])
        /\ Has(s, Reads) <=> s[1] \in Reads \/ Has(Tail(s), Reads)
    BY <1>1, <2>2, RestOrdered
  <2>5. Tail(s) = <<>>
    BY <2>3, <2>4 DEF Before
  <2> QED
    BY <2>3, <2>4, <2>5, EmptyHas, Zenon
<1>13. Follow(q, s)
  BY <1>1, <1>3, <1>4, <1>5, <1>6, <1>7, <1>8, <1>9, <1>10, <1>11, <1>12, Zenon DEF Follow
<1> QED
  BY <1>13 DEF s

\* The two operations that log a transition, and then the rest.
LEMMA LogFollows ==
    ASSUME NEW q, Ordered(q), Len(q) > 0, NEW r \in Reasons,
           q[1] \in {<<"judge_success">>, <<"judge_failure">>}
    PROVE  Follow(q, << <<"count_transition">>, <<"push", r>> >> \o Tail(q))
<1> DEFINE new == << <<"count_transition">>, <<"push", r>> >>
           rest == Tail(q)
           s == new \o rest
<1>1. Follow(q, rest)
  BY RestFollows
<1>2. /\ rest = <<>> \/ (Len(rest) > 0 /\ Before(rest[1], q[1]))
      /\ rest \in Seq(Operations)
  BY RestOrdered DEF Ordered, Chain
<1>3. /\ <<"push", r>> \in Pushes /\ <<"push", r>> \notin Answers \cup Reads \cup Others
      /\ <<"count_transition">> \notin Answers \cup Reads \cup Pushes
      /\ <<"count_transition">> \notin {<<"request">>, <<"latency">>, <<"status", "failure">>,
            <<"status", "upstream">>, <<"judge_failure">>, <<"load_statuses">>, <<"load_errors">>}
      /\ <<"push", r>> \notin Unfinished \cup {<<"request">>, <<"latency">>, <<"status", "upstream">>}
      /\ <<"push", r>> \notin Awaits /\ <<"count_transition">> \notin Awaits
  BY OpsApart DEF Others, Unfinished, Awaits
<1>4. Piece(new, <<"count_transition">>, <<"push", r>>, {<<"count_transition">>, <<"push", r>>})
  <2>1. Before(<<"push", r>>, <<"count_transition">>)
    BY OpsApart DEF Before, Others
  <2>2. new \in Seq(Operations) /\ Len(new) = 2 /\ new[1] = <<"count_transition">>
        /\ new[2] = <<"push", r>>
    BY OpsApart DEF Operations, Others
  <2> HIDE DEF new
  <2>3. {<<"count_transition">>, <<"push", r>>} = {new[i] : i \in 1 .. Len(new)}
    BY <2>2
  <2> QED
    BY <2>1, <2>2, <2>3 DEF Piece, Chain
<1>5. /\ s[1] = <<"count_transition">> /\ Len(s) > 0 /\ Ordered(s)
      /\ \A ops : Has(s, ops) <=>
           <<"count_transition">> \in ops \/ <<"push", r>> \in ops \/ Has(rest, ops)
  <2>1. CASE rest = <<>>
    <3>1. new \in Seq(Operations)
      BY <1>4 DEF Piece, Chain
    <3> HIDE DEF new, rest
    <3>2. s = new
      BY <2>1, <3>1, ConcatEmptySeq
    <3> HIDE DEF s
    <3>3. \A ops : ~Has(rest, ops)
      BY <2>1, EmptyHas, Zenon
    <3>4. \A ops : Has(new, ops) <=> <<"count_transition">> \in ops \/ <<"push", r>> \in ops
      BY <1>4 DEF Piece, Has
    <3> QED
      BY <1>3, <1>4, <3>2, <3>3, <3>4 DEF Piece, Ordered
  <2>2. CASE rest # <<>>
    <3> DEFINE has == {rest[i] : i \in 1 .. Len(rest)}
    <3>1. Piece(rest, rest[1], rest[Len(rest)], has) /\ rest[Len(rest)] \notin Unfinished
      BY <1>1, <1>2, <2>2 DEF Follow, Ordered, Piece
    <3>2. Before(rest[1], <<"push", r>>)
      BY <1>2, <1>3, <2>2 DEF Before, Others
    <3>3. \A ops : Has(rest, ops) <=> \E op \in has : op \in ops
      BY DEF Has
    <3> HIDE DEF has
    <3>4. Piece(s, <<"count_transition">>, rest[Len(rest)],
                {<<"count_transition">>, <<"push", r>>} \cup has)
      BY <1>4, <3>1, <3>2, Joined
    <3> HIDE DEF s
    <3>5. \A ops : Has(s, ops) <=>
            \E op \in {<<"count_transition">>, <<"push", r>>} \cup has : op \in ops
      BY <3>4 DEF Piece, Has
    <3>6. Has(s, Awaits) => Has(s, Answers)
      <4>1. Has(rest, Awaits) => Has(rest, Answers)
        BY <1>1 DEF Follow, Ordered
      <4>2. Has(s, Awaits) => Has(rest, Awaits)
        BY <1>3, <3>3, <3>5
      <4>3. Has(rest, Answers) => Has(s, Answers)
        BY <3>3, <3>5
      <4> QED
        BY <4>1, <4>2, <4>3
    <3>7. Ordered(s)
      BY <3>1, <3>4, <3>6 DEF Piece, Ordered
    <3> QED
      BY <3>3, <3>4, <3>5, <3>7 DEF Piece
  <2> QED
    BY <2>1, <2>2
<1> HIDE DEF s, rest, new
<1>6. \A ops \in {Answers, Reads, {<<"request">>}, {<<"latency">>}, {<<"status", "upstream">>}} :
        Has(s, ops) <=> Has(rest, ops)
  BY <1>3, <1>5
<1>7. Timed(s) <=> Timed(rest)
  BY <1>6 DEF Timed
<1>8. /\ q[1] \notin Answers \cup Reads
      /\ q[1] \notin {<<"request">>, <<"latency">>, <<"count_transition">>, <<"status", "upstream">>}
  BY OpsApart DEF Others
<1>9. /\ ~First(s, {<<"status", "failure">>})
      /\ ~First(s, {<<"judge_failure">>})
      /\ ~First(s, Pushes)
      /\ ~First(s, {<<"load_statuses">>, <<"load_errors">>})
  BY <1>3, <1>5 DEF First
<1>10. Follow(q, s)
  BY <1>1, <1>5, <1>6, <1>7, <1>8, <1>9, Zenon DEF Follow
<1> QED
  BY <1>10 DEF s, rest, new
-----------------------------------------------------------------------------
(* Counting tasks *)

One(p) == IF p THEN 1 ELSE 0

\* Two sets of tasks that differ in one task at most.
LEMMA CardTurn ==
    ASSUME NEW t \in Tasks, NEW A \in SUBSET Tasks, NEW B \in SUBSET Tasks,
           \A u \in Tasks \ {t} : u \in A <=> u \in B
    PROVE  /\ Cardinality(A) \in Nat /\ Cardinality(B) \in Nat
           /\ Cardinality(B) + One(t \in A) = Cardinality(A) + One(t \in B)
<1>1. IsFiniteSet(A) /\ IsFiniteSet(B)
  BY FS_Subset, TelemetryAssumption
<1>2. Cardinality(A) \in Nat /\ Cardinality(B) \in Nat
  BY <1>1, FS_CardinalityType
<1>3. CASE t \in A <=> t \in B
  <2>1. A = B
    BY <1>3
  <2> QED
    BY <1>2, <2>1
<1>4. CASE t \in A /\ t \notin B
  <2>1. A = B \cup {t}
    BY <1>4
  <2>2. Cardinality(A) = Cardinality(B) + 1
    BY <1>1, <1>4, <2>1, FS_AddElement
  <2> QED
    BY <1>2, <1>4, <2>2 DEF One
<1>5. CASE t \notin A /\ t \in B
  <2>1. B = A \cup {t}
    BY <1>5
  <2>2. Cardinality(B) = Cardinality(A) + 1
    BY <1>1, <1>5, <2>1, FS_AddElement
  <2> QED
    BY <1>2, <1>5, <2>2 DEF One
<1> QED
  BY <1>3, <1>4, <1>5

\* The same when it is said otherwise which of them t is in.
LEMMA CardTurns ==
    ASSUME NEW t \in Tasks, NEW A \in SUBSET Tasks, NEW B \in SUBSET Tasks,
           \A u \in Tasks \ {t} : u \in A <=> u \in B,
           NEW p, NEW q, t \in A <=> p, t \in B <=> q
    PROVE  /\ Cardinality(A) \in Nat /\ Cardinality(B) \in Nat
           /\ Cardinality(B) + One(p) = Cardinality(A) + One(q)
BY CardTurn DEF One

\* One task's turn: how the numbers of tasks change when t alone goes on.
LEMMA TurnHolding ==
    ASSUME NEW d, NEW e, NEW t \in Tasks, \A u \in Tasks \ {t} : e[u] = d[u], NEW ops
    PROVE  /\ Cardinality(Holding(d, ops)) \in Nat /\ Cardinality(Holding(e, ops)) \in Nat
           /\ Cardinality(Holding(e, ops)) + One(Has(d[t], ops))
                = Cardinality(Holding(d, ops)) + One(Has(e[t], ops))
<1>1. /\ Holding(d, ops) \in SUBSET Tasks /\ Holding(e, ops) \in SUBSET Tasks
      /\ \A u \in Tasks \ {t} : u \in Holding(d, ops) <=> u \in Holding(e, ops)
      /\ t \in Holding(d, ops) <=> Has(d[t], ops)
      /\ t \in Holding(e, ops) <=> Has(e[t], ops)
  BY DEF Holding
<1> QED
  BY <1>1, CardTurns

\* The same for the operation that comes next ...
LEMMA TurnAtHead ==
    ASSUME NEW d, NEW e, NEW t \in Tasks, \A u \in Tasks \ {t} : e[u] = d[u], NEW ops
    PROVE  /\ Cardinality(AtHead(d, ops)) \in Nat /\ Cardinality(AtHead(e, ops)) \in Nat
           /\ Cardinality(AtHead(e, ops)) + One(First(d[t], ops))
                = Cardinality(AtHead(d, ops)) + One(First(e[t], ops))
<1>1. /\ AtHead(d, ops) \in SUBSET Tasks /\ AtHead(e, ops) \in SUBSET Tasks
      /\ \A u \in Tasks \ {t} : u \in AtHead(d, ops) <=> u \in AtHead(e, ops)
      /\ t \in AtHead(d, ops) <=> First(d[t], ops)
      /\ t \in AtHead(e, ops) <=> First(e[t], ops)
  BY DEF AtHead
<1> QED
  BY <1>1, CardTurns

\* ... and for the responses that have been timed.
LEMMA TurnTimed ==
    ASSUME NEW d, NEW e, NEW t \in Tasks, \A u \in Tasks \ {t} : e[u] = d[u]
    PROVE  /\ Cardinality(AllTimed(d)) \in Nat /\ Cardinality(AllTimed(e)) \in Nat
           /\ Cardinality(AllTimed(e)) + One(Timed(d[t]))
                = Cardinality(AllTimed(d)) + One(Timed(e[t]))
<1>1. /\ AllTimed(d) \in SUBSET Tasks /\ AllTimed(e) \in SUBSET Tasks
      /\ \A u \in Tasks \ {t} : u \in AllTimed(d) <=> u \in AllTimed(e)
      /\ t \in AllTimed(d) <=> Timed(d[t])
      /\ t \in AllTimed(e) <=> Timed(e[t])
  BY DEF AllTimed
<1> QED
  BY <1>1, CardTurns

\* How the numbers change when a task makes op ...
Made(op, d, e) ==
    /\ Cardinality(Holding(e, Answers)) + One(op \in Answers) = Cardinality(Holding(d, Answers))
    /\ Cardinality(Holding(e, {<<"request">>})) + One(op = <<"request">>)
         = Cardinality(Holding(d, {<<"request">>}))
    /\ Cardinality(AtHead(e, {<<"status", "failure">>})) + One(op = <<"status", "failure">>)
         <= Cardinality(AtHead(d, {<<"status", "failure">>})) + One(op = <<"error">>)
    /\ Cardinality(AtHead(e, {<<"judge_failure">>})) + One(op = <<"judge_failure">>)
         <= Cardinality(AtHead(d, {<<"judge_failure">>})) + One(op = <<"count_failure">>)
    /\ Cardinality(AtHead(e, Pushes)) + One(op \in Pushes)
         = Cardinality(AtHead(d, Pushes)) + One(op = <<"count_transition">>)
    /\ Cardinality(AllTimed(e)) + One(op = <<"status", "upstream">>)
         <= Cardinality(AllTimed(d)) + One(op = <<"latency">>)

\* ... or sets out.
Added(request, answer, d, e) ==
    /\ Cardinality(Holding(e, Answers)) = Cardinality(Holding(d, Answers)) + One(answer)
    /\ Cardinality(Holding(e, {<<"request">>}))
         = Cardinality(Holding(d, {<<"request">>})) + One(request)
    /\ Cardinality(AtHead(e, {<<"status", "failure">>}))
         = Cardinality(AtHead(d, {<<"status", "failure">>}))
    /\ Cardinality(AtHead(e, {<<"judge_failure">>})) = Cardinality(AtHead(d, {<<"judge_failure">>}))
    /\ Cardinality(AtHead(e, Pushes)) = Cardinality(AtHead(d, Pushes))
    /\ Cardinality(AllTimed(e)) = Cardinality(AllTimed(d))

Counted(d) ==
    /\ \A ops \in {Answers, {<<"request">>}} : Cardinality(Holding(d, ops)) \in Nat
    /\ \A ops \in {{<<"status", "failure">>}, {<<"judge_failure">>}, Pushes} :
         Cardinality(AtHead(d, ops)) \in Nat
    /\ Cardinality(AllTimed(d)) \in Nat

\* The change in the numbers when t makes its next operation ...
LEMMA MadeOne ==
    ASSUME NEW d, NEW e, NEW t \in Tasks, \A u \in Tasks \ {t} : e[u] = d[u],
           Ordered(d[t]), Len(d[t]) > 0, Rest(d[t], e[t])
    PROVE  Follow(d[t], e[t]) /\ Made(d[t][1], d, e) /\ Counted(d) /\ Counted(e)
<1> DEFINE q == d[t]
           s == e[t]
<1>1. Follow(q, s)
  BY RestFollows, LogFollows DEF Rest
<1>2. Counted(d) /\ Counted(e)
  BY TurnHolding, TurnAtHead, TurnTimed DEF Counted
<1>3. First(q, Pushes) <=> q[1] \in Pushes
  BY DEF First
<1>4. \A op : First(q, {op}) <=> q[1] = op
  BY DEF First
<1>5. \A ops : Cardinality(Holding(d, ops)) \in Nat /\ Cardinality(Holding(e, ops)) \in Nat
  BY TurnHolding
<1>6. \A ops : Cardinality(Holding(e, ops)) + One(Has(q, ops))
                  = Cardinality(Holding(d, ops)) + One(Has(s, ops))
  BY TurnHolding DEF One
<1>17. \A ops : Cardinality(AtHead(d, ops)) \in Nat /\ Cardinality(AtHead(e, ops)) \in Nat
  BY TurnAtHead
<1>18. \A ops : Cardinality(AtHead(e, ops)) + One(First(q, ops))
                  = Cardinality(AtHead(d, ops)) + One(First(s, ops))
  BY TurnAtHead DEF One
<1>7. Cardinality(AllTimed(e)) + One(Timed(q)) = Cardinality(AllTimed(d)) + One(Timed(s))
  BY TurnTimed
<1> HIDE DEF q, s
<1>8. ASSUME NEW ops, Has(q, ops) <=> q[1] \in ops \/ Has(s, ops), q[1] \in ops => ~Has(s, ops)
      PROVE  Cardinality(Holding(e, ops)) + One(q[1] \in ops) = Cardinality(Holding(d, ops))
  BY <1>5, <1>6, <1>8 DEF One
<1>9. ASSUME NEW ops, NEW cause, First(s, ops) => q[1] = cause
      PROVE  Cardinality(AtHead(e, ops)) + One(First(q, ops))
                <= Cardinality(AtHead(d, ops)) + One(q[1] = cause)
  BY <1>17, <1>18, <1>9 DEF One
<1>10. Cardinality(Holding(e, Answers)) + One(q[1] \in Answers) = Cardinality(Holding(d, Answers))
  BY <1>1, <1>8 DEF Follow
<1>11. Cardinality(Holding(e, {<<"request">>})) + One(q[1] = <<"request">>)
         = Cardinality(Holding(d, {<<"request">>}))
  <2> DEFINE ops == {<<"request">>}
  <2>1. /\ Has(q, ops) <=> q[1] \in ops \/ Has(s, ops)
        /\ q[1] \in ops => ~Has(s, ops)
        /\ q[1] \in ops <=> q[1] = <<"request">>
    BY <1>1 DEF Follow
  <2> HIDE DEF ops
  <2>2. Cardinality(Holding(e, ops)) + One(q[1] \in ops) = Cardinality(Holding(d, ops))
    BY <1>8, <2>1
  <2>3. Cardinality(Holding(e, ops)) + One(q[1] = <<"request">>) = Cardinality(Holding(d, ops))
    BY <2>1, <2>2 DEF One
  <2> QED
    BY <2>3 DEF ops
<1>12. ASSUME NEW op, NEW cause, First(s, {op}) => q[1] = cause
       PROVE  Cardinality(AtHead(e, {op})) + One(q[1] = op)
                <= Cardinality(AtHead(d, {op})) + One(q[1] = cause)
  <2> DEFINE ops == {op}
  <2>1. First(q, ops) <=> q[1] = op
    BY <1>4
  <2>2. First(s, ops) => q[1] = cause
    BY <1>12
  <2> HIDE DEF ops
  <2>3. Cardinality(AtHead(e, ops)) + One(First(q, ops))
          <= Cardinality(AtHead(d, ops)) + One(q[1] = cause)
    BY <1>9, <2>2
  <2>4. Cardinality(AtHead(e, ops)) + One(q[1] = op)
          <= Cardinality(AtHead(d, ops)) + One(q[1] = cause)
    BY <2>1, <2>3 DEF One
  <2> QED
    BY <2>4 DEF ops
<1>13. Cardinality(AtHead(e, Pushes)) + One(q[1] \in Pushes)
         = Cardinality(AtHead(d, Pushes)) + One(q[1] = <<"count_transition">>)
  BY <1>1, <1>3, <1>17, <1>18 DEF One, Follow
<1>14. Cardinality(AllTimed(e)) + One(q[1] = <<"status", "upstream">>)
         <= Cardinality(AllTimed(d)) + One(q[1] = <<"latency">>)
  BY <1>1, <1>2, <1>7 DEF One, Follow, Counted
<1>15. /\ First(s, {<<"status", "failure">>}) => q[1] = <<"error">>
       /\ First(s, {<<"judge_failure">>}) => q[1] = <<"count_failure">>
  BY <1>1, Zenon DEF Follow
<1>16. Made(q[1], d, e)
  BY <1>10, <1>11, <1>12, <1>13, <1>14, <1>15, Zenon DEF Made
<1> QED
  BY <1>1, <1>2, <1>16 DEF q, s

\* ... and when t, idle so far, sets out with a program.
LEMMA SetOut ==
    ASSUME NEW d, NEW e, NEW t \in Tasks, \A u \in Tasks \ {t} : e[u] = d[u],
           d[t] = <<>>, NEW request \in BOOLEAN, NEW answer \in BOOLEAN, NEW reads \in BOOLEAN,
           Program(e[t], request, answer, reads)
    PROVE  Added(request, answer, d, e) /\ Counted(d) /\ Counted(e)
<1> DEFINE q == d[t]
           s == e[t]
<1>1. Counted(d) /\ Counted(e)
  BY TurnHolding, TurnAtHead, TurnTimed DEF Counted
<1>2. \A ops : ~Has(q, ops) /\ ~First(q, ops)
  BY EmptyHas DEF First
<1>3. ~Timed(q) /\ ~Timed(s)
  BY <1>2 DEF Timed, Program
<1>4. \A ops \in {{<<"status", "failure">>}, {<<"judge_failure">>}, Pushes} : ~First(s, ops)
  BY DEF Program, First
<1>5. (Has(s, Answers) <=> answer) /\ (Has(s, {<<"request">>}) <=> request)
  BY DEF Program
<1> HIDE DEF q, s
<1>6. \A ops : Cardinality(Holding(e, ops)) + One(Has(q, ops))
                = Cardinality(Holding(d, ops)) + One(Has(s, ops))
  BY TurnHolding DEF q, s
<1>7. \A ops : Cardinality(AtHead(e, ops)) + One(First(q, ops))
                = Cardinality(AtHead(d, ops)) + One(First(s, ops))
  BY TurnAtHead DEF q, s
<1>8. Cardinality(AllTimed(e)) + One(Timed(q)) = Cardinality(AllTimed(d)) + One(Timed(s))
  BY TurnTimed DEF q, s
<1>9. Cardinality(Holding(e, Answers)) = Cardinality(Holding(d, Answers)) + One(answer)
  BY <1>1, <1>2, <1>5, <1>6 DEF One, Counted
<1>10. Cardinality(Holding(e, {<<"request">>}))
         = Cardinality(Holding(d, {<<"request">>})) + One(request)
  BY <1>1, <1>2, <1>5, <1>6 DEF One, Counted
<1>11. ASSUME NEW ops \in {{<<"status", "failure">>}, {<<"judge_failure">>}, Pushes}
       PROVE  Cardinality(AtHead(e, ops)) = Cardinality(AtHead(d, ops))
  <2>1. Cardinality(AtHead(d, ops)) \in Nat /\ Cardinality(AtHead(e, ops)) \in Nat
    BY <1>1, Zenon DEF Counted
  <2>2. ~First(s, ops) /\ ~First(q, ops)
    BY <1>2, <1>4
  <2> QED
    BY <2>1, <2>2, <1>7 DEF One
<1>12. Cardinality(AllTimed(e)) = Cardinality(AllTimed(d))
  BY <1>1, <1>3, <1>8 DEF One, Counted
<1> QED
  BY <1>1, <1>9, <1>10, <1>11, <1>12 DEF Added
-----------------------------------------------------------------------------
(* Health, reports and attempts *)

\* A count of results in a row goes up by one at most.
LEMMA BumpOne ==
    ASSUME NEW limit \in Nat, NEW count \in 0 .. limit
    PROVE  Bump(count, limit) \in 0 .. limit /\ Bump(count, limit) <= count + 1
BY DEF Bump

\* No success strikes a record ...
LEMMA SuccessStrikes ==
    ASSUME NEW h \in Health
    PROVE  /\ RecordSuccess(h) \in Health
           /\ RecordSuccess(h).consecutive_failures = 0
           /\ Struck(RecordSuccess(h)) => Struck(h)
<1> USE DEF Health
<1>1. /\ Bump(h.consecutive_successes, RecoveryThreshold) \in 0 .. RecoveryThreshold
      /\ 0 \in 0 .. RecoveryThreshold /\ 0 \in 0 .. FailureThreshold
  BY ThresholdAssumption, BumpOne
<1> QED
  BY <1>1, Zenon DEF RecordSuccess, Restore, Struck

\* ... and a failure only when it is one of FailureThreshold in a row.
LEMMA FailureStrikes ==
    ASSUME NEW h \in Health
    PROVE  /\ RecordFailure(h) \in Health
           /\ RecordFailure(h).consecutive_failures <= h.consecutive_failures + 1
           /\ Struck(RecordFailure(h)) =>
                Struck(h) \/ h.consecutive_failures + 1 >= FailureThreshold
<1> USE DEF Health
<1> DEFINE bumped == Bump(h.consecutive_failures, FailureThreshold)
           d == RecordFailure(h)
<1>1. /\ bumped \in 0 .. FailureThreshold /\ bumped <= h.consecutive_failures + 1
      /\ 0 \in 0 .. RecoveryThreshold /\ 0 \in 0 .. FailureThreshold
      /\ h.consecutive_failures \in 0 .. FailureThreshold
  BY ThresholdAssumption, BumpOne
<1>2. d \in Health
  BY <1>1, Zenon DEF RecordFailure, Eject
<1>3. d.consecutive_failures \in {0, h.consecutive_failures, bumped}
  BY <1>1, Zenon DEF RecordFailure, Eject
<1>4. Struck(d) => Struck(h) \/ bumped >= FailureThreshold
  BY <1>1, Zenon DEF RecordFailure, Eject, Struck
<1> HIDE DEF bumped, d
<1>5. /\ d.consecutive_failures <= h.consecutive_failures + 1
      /\ bumped >= FailureThreshold => h.consecutive_failures + 1 >= FailureThreshold
  BY <1>1, <1>3, ThresholdAssumption
<1> QED
  BY <1>2, <1>4, <1>5 DEF d

\* A poll and the clock strike nothing; what a poll does not offer is struck.
LEMMA PollStrikes ==
    ASSUME NEW h \in Health
    PROVE  /\ PollEjection(h) \in Health
           /\ PollEjection(h).consecutive_failures = h.consecutive_failures
           /\ Struck(PollEjection(h)) => Struck(h)
           /\ ~Offered(PollEjection(h)) => Struck(h)
           /\ Offered(PollEjection(h)) \in BOOLEAN
BY Zenon DEF PollEjection, Health, Struck, Offered, IsEjected

\* The clock: an ejection that runs out.
LEMMA ExpireStrikes ==
    ASSUME NEW h \in Health, h.ejected_until = "running"
    PROVE  /\ Expire(h) \in Health
           /\ Expire(h).consecutive_failures = h.consecutive_failures
           /\ Struck(h)
BY Zenon DEF Expire, Health, Struck

\* A report stays in order while the counters grow, and while its task makes other
\* operations.
LEMMA ReportStays ==
    ASSUME NEW r, NEW s, NEW f \in Nat, NEW e \in Nat, NEW g \in Nat, NEW h \in Nat,
           f <= g, e <= h, ReportOK(r, s, f, e)
    PROVE  ReportOK(r, s, g, h)
BY ThresholdAssumption DEF ReportOK, Reports

\* The same for the task whose report it is.
LEMMA ReportGoesOn ==
    ASSUME NEW r, NEW q, NEW s, NEW f, NEW e, ReportOK(r, q, f, e), Follow(q, s), q[1] \notin Reads
    PROVE  ReportOK(r, s, f, e)
<1>1. ~First(s, {<<"load_statuses">>, <<"load_errors">>})
  BY DEF Follow, Reads
<1>2. Has(s, Reads) => Has(q, Reads)
  BY DEF Follow
<1> QED
  BY <1>1, <1>2, Zenon DEF ReportOK

\* The attempts left are finitely many.
LEMMA LeftFinite ==
    ASSUME NEW a
    PROVE  IsFiniteSet(Left(a)) /\ Cardinality(Left(a)) \in Nat
<1>1. MaxAttempts \in Nat /\ MaxAttempts > 0
  BY TelemetryAssumption
<1>2. IsFiniteSet(1 .. MaxAttempts - 1)
  BY <1>1, FS_Interval
<1>3. IsFiniteSet(Tasks \X (1 .. MaxAttempts - 1))
  BY <1>2, FS_Product, TelemetryAssumption
<1>4. Left(a) \subseteq Tasks \X (1 .. MaxAttempts - 1)
  BY DEF Left
<1> QED
  BY <1>3, <1>4, FS_Subset, FS_CardinalityType

\* A job that begins adds at most MaxAttempts - 1 to them, a retry takes one away,
\* and one that fails in its body has none left.
LEMMA LeftBegin ==
    ASSUME NEW a, NEW b, NEW t \in Tasks, \A u \in Tasks \ {t} : b[u] = a[u]
    PROVE  Cardinality(Left(b)) <= Cardinality(Left(a)) + (MaxAttempts - 1)
<1> DEFINE new == {t} \X (1 .. MaxAttempts - 1)
           all == Left(a) \cup new
<1>1. MaxAttempts \in Nat /\ MaxAttempts > 0
  BY TelemetryAssumption
<1>2. IsFiniteSet(1 .. MaxAttempts - 1) /\ Cardinality(1 .. MaxAttempts - 1) = MaxAttempts - 1
  BY <1>1, FS_Interval
<1>3. IsFiniteSet({t}) /\ Cardinality({t}) = 1
  BY FS_Singleton
<1>4. IsFiniteSet(new) /\ Cardinality(new) = 1 * (MaxAttempts - 1)
  <2> DEFINE single == {t}
             tries == 1 .. MaxAttempts - 1
  <2>1. IsFiniteSet(single) /\ IsFiniteSet(tries) /\ Cardinality(single) = 1
        /\ Cardinality(tries) = MaxAttempts - 1
    BY <1>2, <1>3
  <2> HIDE DEF single, tries
  <2>2. /\ IsFiniteSet(single \X tries)
        /\ Cardinality(single \X tries) = Cardinality(single) * Cardinality(tries)
    BY <2>1, FS_Product, Zenon
  <2>3. /\ IsFiniteSet(single \X tries)
        /\ Cardinality(single \X tries) = 1 * (MaxAttempts - 1)
    BY <2>1, <2>2, Zenon
  <2> QED
    BY <2>3, Zenon DEF single, tries
<1>5. Left(b) \subseteq all
  <2>1. SUFFICES ASSUME NEW p \in Left(b), p \notin new
                 PROVE  p \in Left(a)
    OBVIOUS
  <2>2. p \in Tasks \X (1 .. MaxAttempts - 1) /\ p[1] \in Tasks /\ p[1] # t
    BY <2>1 DEF Left
  <2> QED
    BY <2>2 DEF Left
<1> HIDE DEF new
<1>6. IsFiniteSet(Left(a)) /\ Cardinality(Left(a)) \in Nat /\ Cardinality(Left(b)) \in Nat
  BY LeftFinite
<1>7. /\ IsFiniteSet(all)
      /\ Cardinality(all) = Cardinality(Left(a)) + Cardinality(new) - Cardinality(Left(a) \cap new)
  BY <1>4, <1>6, FS_Union
<1>8. IsFiniteSet(Left(a) \cap new)
  BY <1>6, FS_Intersection
<1> HIDE DEF all
<1>9. Cardinality(Left(b)) <= Cardinality(all)
  BY <1>5, <1>7, FS_Subset
<1>10. Cardinality(Left(a) \cap new) \in Nat
  BY <1>8, FS_CardinalityType
<1>11. Cardinality(new) = MaxAttempts - 1
  BY <1>1, <1>4
<1> QED
  BY <1>1, <1>6, <1>7, <1>9, <1>10, <1>11

\* A retry takes one of the attempts left.
LEMMA LeftRetry ==
    ASSUME NEW a, NEW b, NEW t \in Tasks, \A u \in Tasks \ {t} : b[u] = a[u],
           a[t] \in 1 .. MaxAttempts - 1, b[t] = a[t] + 1
    PROVE  Cardinality(Left(b)) + 1 = Cardinality(Left(a))
<1> DEFINE p == <<t, a[t]>>
<1>1. MaxAttempts \in Nat /\ MaxAttempts > 0
  BY TelemetryAssumption
<1>2. p \in Left(a)
  BY <1>1 DEF Left
<1>3. Left(b) = Left(a) \ {p}
  <2>1. ASSUME NEW x \in Tasks \X (1 .. MaxAttempts - 1)
        PROVE  x \in Left(b) <=> x \in Left(a) /\ x # p
    <3>1. x = <<x[1], x[2]>> /\ x[1] \in Tasks /\ x[2] \in 1 .. MaxAttempts - 1
      OBVIOUS
    <3>2. x \in Left(b) <=> b[x[1]] >= 1 /\ b[x[1]] <= x[2]
      BY DEF Left
    <3>3. x \in Left(a) <=> a[x[1]] >= 1 /\ a[x[1]] <= x[2]
      BY DEF Left
    <3>4. CASE x[1] # t
      BY <3>1, <3>2, <3>3, <3>4
    <3>5. CASE x[1] = t
      <4>1. x = p <=> x[2] = a[t]
        BY <3>1, <3>5
      <4>2. x[2] \in Nat /\ a[t] \in Nat /\ a[t] >= 1
        BY <1>1, <3>1
      <4> HIDE DEF p
      <4> QED
        BY <3>2, <3>3, <3>5, <4>1, <4>2
    <3> QED
      BY <3>4, <3>5
  <2>2. Left(b) \subseteq Tasks \X (1 .. MaxAttempts - 1)
    BY DEF Left
  <2>3. Left(a) \subseteq Tasks \X (1 .. MaxAttempts - 1)
    BY DEF Left
  <2> HIDE DEF p
  <2> QED
    BY <2>1, <2>2, <2>3
<1>4. IsFiniteSet(Left(a)) /\ Cardinality(Left(a)) \in Nat
  BY LeftFinite
<1> HIDE DEF p
<1>5. Cardinality(Left(a) \ {p}) = Cardinality(Left(a)) - 1
  BY <1>2, <1>4, FS_RemoveElement
<1> QED
  BY <1>3, <1>4, <1>5

\* A body that fails, a client that leaves or a final answer leaves the request none.
LEMMA LeftEnds ==
    ASSUME NEW a, NEW b, NEW t \in Tasks, \A u \in Tasks \ {t} : b[u] = a[u], b[t] = 0
    PROVE  Cardinality(Left(b)) <= Cardinality(Left(a))
<1>1. Left(b) \subseteq Left(a)
  <2>1. SUFFICES ASSUME NEW p \in Left(b)
                 PROVE  p \in Left(a)
    OBVIOUS
  <2>2. p \in Tasks \X (1 .. MaxAttempts - 1) /\ p[1] \in Tasks /\ p[1] # t
    BY <2>1 DEF Left
  <2> QED
    BY <2>2 DEF Left
<1>2. IsFiniteSet(Left(a))
  BY LeftFinite
<1> QED
  BY <1>1, <1>2, FS_Subset
-----------------------------------------------------------------------------
(* Operations keep the invariant *)

\* t makes op, the first of its operations.
Takes(t, op) ==
    /\ Len(todo[t]) > 0 /\ todo[t][1] = op
    /\ \E s : todo' = [todo EXCEPT ![t] = s] /\ Rest(todo[t], s)
    /\ attempt' = attempt /\ body' = body /\ jobs' = jobs /\ retries' = retries /\ lost' = lost

\* What op does to the counters, the record and the ring.
Effect(op) ==
    /\ statuses'["upstream"] = statuses["upstream"] + One(op = <<"status", "upstream">>)
    /\ statuses'["failure"] = statuses["failure"] + One(op = <<"status", "failure">>)
    /\ statuses'["plain"] = statuses["plain"] + One(op = <<"status", "plain">>)
    /\ errors' = errors + One(op = <<"error">>)
    /\ failures' = failures + One(op = <<"count_failure">>)
    /\ request_count' = request_count + One(op = <<"request">>)
    /\ latency_count' = latency_count + One(op = <<"latency">>)
    /\ transitions' = transitions + One(op = <<"count_transition">>)
    /\ health'.consecutive_failures <= health.consecutive_failures + One(op = <<"judge_failure">>)
    /\ Struck(health') =>
         \/ Struck(health)
         \/ op = <<"judge_failure">> /\ health.consecutive_failures + 1 >= FailureThreshold
    /\ Len(pushed') = Len(pushed) + One(op \in Pushes)
    /\ Latest(ring, pushed) => Latest(ring', pushed')

\* Where an operation leaves the tasks.
LEMMA TakenOn ==
    ASSUME TypeInv, \A u \in Tasks : Ordered(todo[u]), NEW t \in Tasks, NEW op, Takes(t, op)
    PROVE  /\ todo' \in [Tasks -> Seq(Operations)]
           /\ \A u \in Tasks \ {t} : todo'[u] = todo[u]
           /\ \A u \in Tasks : Ordered(todo'[u])
           /\ Follow(todo[t], todo'[t])
           /\ Made(op, todo, todo') /\ Counted(todo) /\ Counted(todo')
<1>1. PICK s : todo' = [todo EXCEPT ![t] = s] /\ Rest(todo[t], s)
  BY DEF Takes
<1>2. todo \in [Tasks -> Seq(Operations)]
  BY DEF TypeInv
<1>3. todo'[t] = s /\ \A u \in Tasks \ {t} : todo'[u] = todo[u]
  BY <1>1, <1>2
<1>4. Ordered(todo[t]) /\ Len(todo[t]) > 0 /\ todo[t][1] = op /\ Rest(todo[t], todo'[t])
  BY <1>1, <1>3 DEF Takes
<1>5. /\ Follow(todo[t], todo'[t])
      /\ Made(op, todo, todo') /\ Counted(todo) /\ Counted(todo')
  BY <1>3, <1>4, MadeOne
<1>6. Ordered(todo'[t])
  BY <1>5 DEF Follow
<1>7. todo' \in [Tasks -> Seq(Operations)]
  BY <1>1, <1>2, <1>3, <1>6 DEF Ordered, Chain
<1> QED
  BY <1>3, <1>5, <1>6, <1>7

\* The counters stay in step with what is still to be counted.
LEMMA EffectCounts ==
    ASSUME TelemetryInv, TypeInv', NEW t \in Tasks, NEW op, Takes(t, op), Effect(op)
    PROVE  CausesFirst' /\ Balanced' /\ RetriesLeft'
<1> DEFINE up == One(op = <<"status", "upstream">>)
           failed == One(op = <<"status", "failure">>)
           plain == One(op = <<"status", "plain">>)
           answer == One(op \in Answers)
           error == One(op = <<"error">>)
           failure == One(op = <<"count_failure">>)
           judged == One(op = <<"judge_failure">>)
           request == One(op = <<"request">>)
           latency == One(op = <<"latency">>)
           transition == One(op = <<"count_transition">>)
           push == One(op \in Pushes)
<1>1. /\ up \in 0 .. 1 /\ failed \in 0 .. 1 /\ plain \in 0 .. 1 /\ answer \in 0 .. 1
      /\ error \in 0 .. 1 /\ failure \in 0 .. 1 /\ judged \in 0 .. 1 /\ request \in 0 .. 1
      /\ latency \in 0 .. 1 /\ transition \in 0 .. 1 /\ push \in 0 .. 1
  BY DEF One
<1>2. answer = up + failed + plain
  BY DEF One, Answers, Origins
<1>3. op = <<"judge_failure">> => judged = 1
  BY DEF One
<1>5. Made(op, todo, todo') /\ Counted(todo) /\ Counted(todo')
  BY TakenOn DEF TelemetryInv
<1>6. /\ statuses["upstream"] \in Nat /\ statuses["failure"] \in Nat /\ statuses["plain"] \in Nat
      /\ health.consecutive_failures \in Nat /\ health'.consecutive_failures \in Nat
      /\ Len(pushed) \in Nat /\ FailureThreshold \in Nat
      /\ retries \in Nat /\ lost \in Nat /\ request_count \in Nat /\ latency_count \in Nat /\ failures \in Nat
      /\ errors \in Nat /\ transitions \in Nat
  BY ThresholdAssumption, TelemetryAssumption DEF TelemetryInv, TypeInv, Health, Origins
<1>7. /\ Cardinality(Holding(todo', Answers)) + answer = Cardinality(Holding(todo, Answers))
      /\ Cardinality(Holding(todo', {<<"request">>})) + request
           = Cardinality(Holding(todo, {<<"request">>}))
      /\ Cardinality(AtHead(todo', {<<"status", "failure">>})) + failed
           <= Cardinality(AtHead(todo, {<<"status", "failure">>})) + error
      /\ Cardinality(AtHead(todo', {<<"judge_failure">>})) + judged
           <= Cardinality(AtHead(todo, {<<"judge_failure">>})) + failure
      /\ Cardinality(AtHead(todo', Pushes)) + push
           = Cardinality(AtHead(todo, Pushes)) + transition
      /\ Cardinality(AllTimed(todo')) + up <= Cardinality(AllTimed(todo)) + latency
  BY <1>5, Zenon DEF Made
<1>8. /\ statuses'["upstream"] = statuses["upstream"] + up
      /\ statuses'["failure"] = statuses["failure"] + failed
      /\ statuses'["plain"] = statuses["plain"] + plain
      /\ errors' = errors + error
      /\ failures' = failures + failure
      /\ request_count' = request_count + request
      /\ latency_count' = latency_count + latency
      /\ transitions' = transitions + transition
      /\ health'.consecutive_failures <= health.consecutive_failures + judged
      /\ Struck(health') =>
           \/ Struck(health)
           \/ op = <<"judge_failure">> /\ health.consecutive_failures + 1 >= FailureThreshold
      /\ Len(pushed') = Len(pushed) + push
      /\ Latest(ring, pushed) => Latest(ring', pushed')
  BY Zenon DEF Effect
<1> HIDE DEF up, failed, plain, answer, error, failure, judged, request, latency, transition, push
<1> DEFINE A == Cardinality(Holding(todo, Answers))
           B == Cardinality(Holding(todo', Answers))
           Q == Cardinality(Holding(todo, {<<"request">>}))
           R == Cardinality(Holding(todo', {<<"request">>}))
           E == Cardinality(AtHead(todo, {<<"status", "failure">>}))
           F == Cardinality(AtHead(todo', {<<"status", "failure">>}))
           J == Cardinality(AtHead(todo, {<<"judge_failure">>}))
           K == Cardinality(AtHead(todo', {<<"judge_failure">>}))
           P == Cardinality(AtHead(todo, Pushes))
           S == Cardinality(AtHead(todo', Pushes))
           T == Cardinality(AllTimed(todo))
           U == Cardinality(AllTimed(todo'))
<1>9. /\ A \in Nat /\ B \in Nat /\ Q \in Nat /\ R \in Nat /\ E \in Nat /\ F \in Nat
      /\ J \in Nat /\ K \in Nat /\ P \in Nat /\ S \in Nat /\ T \in Nat /\ U \in Nat
  BY <1>5, Zenon DEF Counted
<1>10. /\ B + answer = A /\ R + request = Q /\ F + failed <= E + error
       /\ K + judged <= J + failure /\ S + push = P + transition /\ U + up <= T + latency
  BY <1>7, Zenon
<1>11. /\ statuses["failure"] + E <= errors
       /\ health.consecutive_failures + J <= failures
       /\ Struck(health) => failures >= FailureThreshold
       /\ statuses["upstream"] + T <= latency_count
       /\ statuses["upstream"] + statuses["failure"] + statuses["plain"] + A + lost
            = request_count + Q + retries
       /\ Len(pushed) + P = transitions
       /\ Latest(ring, pushed)
  BY Zenon DEF TelemetryInv, CausesFirst, Balanced
<1> HIDE DEF A, B, Q, R, E, F, J, K, P, S, T, U
<1>12. statuses'["failure"] + F <= errors'
  <2>1. /\ statuses["failure"] \in Nat /\ errors \in Nat /\ E \in Nat /\ F \in Nat
        /\ failed \in 0 .. 1 /\ error \in 0 .. 1
        /\ statuses["failure"] + E <= errors /\ F + failed <= E + error
        /\ statuses'["failure"] = statuses["failure"] + failed /\ errors' = errors + error
    BY <1>1, <1>2, <1>3, <1>6, <1>8, <1>9, <1>10, <1>11, Zenon
  <2> QED
    BY <2>1
<1>13. health'.consecutive_failures + K <= failures'
  <2>1. /\ health.consecutive_failures \in Nat /\ health'.consecutive_failures \in Nat
        /\ failures \in Nat /\ J \in Nat /\ K \in Nat /\ judged \in 0 .. 1 /\ failure \in 0 .. 1
        /\ health.consecutive_failures + J <= failures /\ K + judged <= J + failure
        /\ health'.consecutive_failures <= health.consecutive_failures + judged
        /\ failures' = failures + failure
    BY <1>1, <1>2, <1>3, <1>6, <1>8, <1>9, <1>10, <1>11, Zenon
  <2> QED
    BY <2>1
<1>14. Struck(health') => failures' >= FailureThreshold
  <2>1. /\ health.consecutive_failures \in Nat /\ FailureThreshold \in Nat
        /\ failures \in Nat /\ J \in Nat /\ K \in Nat /\ judged \in 0 .. 1 /\ failure \in 0 .. 1
        /\ health.consecutive_failures + J <= failures /\ K + judged <= J + failure
        /\ failures' = failures + failure
    BY <1>1, <1>6, <1>8, <1>9, <1>10, <1>11, Zenon
  <2>2. CASE Struck(health)
    <3>1. failures >= FailureThreshold
      BY <1>11, <2>2, Zenon
    <3> QED
      BY <2>1, <3>1
  <2>3. CASE op = <<"judge_failure">> /\ health.consecutive_failures + 1 >= FailureThreshold
    <3>1. judged = 1
      BY <1>3, <2>3, Zenon
    <3> QED
      BY <2>1, <2>3, <3>1
  <2> QED
    BY <1>8, <2>2, <2>3, Zenon
<1>15. statuses'["upstream"] + U <= latency_count'
  <2>1. /\ statuses["upstream"] \in Nat /\ latency_count \in Nat /\ T \in Nat /\ U \in Nat
        /\ up \in 0 .. 1 /\ latency \in 0 .. 1
        /\ statuses["upstream"] + T <= latency_count /\ U + up <= T + latency
        /\ statuses'["upstream"] = statuses["upstream"] + up /\ latency_count' = latency_count + latency
    BY <1>1, <1>2, <1>3, <1>6, <1>8, <1>9, <1>10, <1>11, Zenon
  <2> QED
    BY <2>1
<1>16. statuses'["upstream"] + statuses'["failure"] + statuses'["plain"] + B + lost'
         = request_count' + R + retries'
  <2>1. /\ statuses["upstream"] \in Nat /\ statuses["failure"] \in Nat /\ statuses["plain"] \in Nat
        /\ A \in Nat /\ B \in Nat /\ Q \in Nat /\ R \in Nat /\ request_count \in Nat /\ retries \in Nat
        /\ lost \in Nat /\ lost' = lost
        /\ up \in 0 .. 1 /\ failed \in 0 .. 1 /\ plain \in 0 .. 1 /\ request \in 0 .. 1
        /\ answer = up + failed + plain /\ B + answer = A /\ R + request = Q
        /\ statuses["upstream"] + statuses["failure"] + statuses["plain"] + A + lost
            = request_count + Q + retries
        /\ statuses'["upstream"] = statuses["upstream"] + up
        /\ statuses'["failure"] = statuses["failure"] + failed
        /\ statuses'["plain"] = statuses["plain"] + plain
        /\ request_count' = request_count + request /\ retries' = retries
    BY <1>1, <1>2, <1>3, <1>6, <1>8, <1>9, <1>10, <1>11, Zenon DEF Takes
  <2> DEFINE sum == statuses["upstream"] + statuses["failure"] + statuses["plain"]
  <2>2. /\ sum \in Nat /\ answer \in Nat
        /\ statuses'["upstream"] + statuses'["failure"] + statuses'["plain"] = sum + answer
    BY <2>1
  <2>3. sum + A + lost = request_count + Q + retries
    BY <2>1
  <2> HIDE DEF sum
  <2>4. (sum + answer) + B + lost' = request_count' + R + retries'
    BY <2>1, <2>2, <2>3
  <2> QED
    BY <2>2, <2>4
<1>17. Len(pushed') + S = transitions'
  <2>1. /\ P \in Nat /\ S \in Nat /\ transitions \in Nat /\ transition \in 0 .. 1 /\ push \in 0 .. 1
        /\ Len(pushed) \in Nat /\ Len(pushed) + P = transitions
        /\ Len(pushed') = Len(pushed) + push
        /\ S + push = P + transition /\ transitions' = transitions + transition
    BY <1>1, <1>2, <1>3, <1>6, <1>8, <1>9, <1>10, <1>11, Zenon
  <2> DEFINE l == Len(pushed)
             m == Len(pushed')
  <2>2. l \in Nat /\ l + P = transitions /\ m = l + push
    BY <2>1
  <2> HIDE DEF l, m
  <2>3. m + S = transitions'
    BY <2>1, <2>2
  <2> QED
    BY <2>3 DEF m
<1>18. Latest(ring', pushed')
  BY <1>8, <1>11, Zenon
<1>19. CausesFirst'
  BY <1>12, <1>13, <1>14, <1>15, Zenon DEF CausesFirst, F, K, U
<1>20. Balanced'
  BY <1>16, <1>17, <1>18, Zenon DEF Balanced, B, R, S
<1>21. RetriesLeft'
  BY DEF TelemetryInv, RetriesLeft, Takes
<1> QED
  BY <1>19, <1>20, <1>21

\* An operation that reads no counter leaves the reports in order.
LEMMA EffectReports ==
    ASSUME TelemetryInv, TypeInv', NEW t \in Tasks, NEW op, Takes(t, op), Effect(op),
           op \notin Reads, report' = report
    PROVE  ReportInv'
<1>1. /\ \A u \in Tasks \ {t} : todo'[u] = todo[u]
      /\ Follow(todo[t], todo'[t])
  BY TakenOn DEF TelemetryInv
<1>2. todo[t][1] \notin Reads
  BY DEF Takes
<1>3. /\ failures \in Nat /\ errors \in Nat /\ failures' \in Nat /\ errors' \in Nat
  BY DEF TelemetryInv, TypeInv
<1>4. failures <= failures' /\ errors <= errors'
  <2>1. failures' = failures + One(op = <<"count_failure">>) /\ errors' = errors + One(op = <<"error">>)
    BY Zenon DEF Effect
  <2>2. One(op = <<"count_failure">>) \in {0, 1} /\ One(op = <<"error">>) \in {0, 1}
    BY DEF One
  <2> QED
    BY <1>3, <2>1, <2>2
<1>5. ASSUME NEW u \in Tasks
      PROVE  ReportOK(report'[u], todo'[u], failures', errors')
  <2>1. ReportOK(report[u], todo[u], failures, errors)
    BY DEF TelemetryInv, ReportInv
  <2>2. ReportOK(report[u], todo'[u], failures, errors)
    <3>1. CASE u = t
      BY <1>1, <1>2, <2>1, <3>1, ReportGoesOn
    <3>2. CASE u # t
      BY <1>1, <2>1, <3>2
    <3> QED
      BY <3>1, <3>2
  <2> QED
    BY <1>3, <1>4, <2>2, ReportStays
<1> QED
  BY <1>5 DEF ReportInv

\* Does is an operation that is made and followed by the tail.
LEMMA DoesTakes ==
    ASSUME TypeInv, NEW t \in Tasks, NEW op, Does(t, op)
    PROVE  Takes(t, op)
<1>1. todo[t] \in Seq(Operations) /\ todo[t] # <<>>
  BY DEF TypeInv, Does, Idle
<1>2. Len(todo[t]) > 0
  BY <1>1
<1>3. todo' = [todo EXCEPT ![t] = Tail(todo[t])] /\ Rest(todo[t], Tail(todo[t]))
  BY DEF Does, Rest
<1> QED
  BY <1>2, <1>3 DEF Takes, Does

\* What every operation keeps, once its effect is known.
LEMMA OpKeeps ==
    ASSUME TelemetryInv, TypeInv', NEW t \in Tasks, NEW op, Takes(t, op), Effect(op), ReportInv'
    PROVE  TelemetryInv'
BY TakenOn, EffectCounts DEF TelemetryInv

\* An operation that only adds to a counter.
LEMMA CountersKeep ==
    ASSUME TelemetryInv, NEW t \in Tasks,
           \/ RecordRequest(t) \/ RecordUpstreamLatency(t) \/ RecordBackendFailure(t)
           \/ RecordResponseStatus(t) \/ RecordProxyError(t) \/ CountTransition(t)
    PROVE  TelemetryInv'
<1>1. TypeInv /\ health \in Health
  BY DEF TelemetryInv, TypeInv
<1>2. CASE RecordRequest(t)
  <2>1. Takes(t, <<"request">>)
    BY <1>1, <1>2, DoesTakes DEF RecordRequest
  <2>2. TypeInv'
    <3>1. todo' \in [Tasks -> Seq(Operations)]
      BY <2>1, TakenOn DEF TelemetryInv
    <3> QED
      BY <1>1, <1>2, <2>1, <3>1 DEF TypeInv, RecordRequest, counters, log, Takes
  <2>3. Effect(<<"request">>) /\ report' = report
    BY <1>1, <1>2, OpsApart DEF Effect, One, TypeInv, Health, Origins, RecordRequest, counters, log, Others
  <2>4. <<"request">> \notin Reads
    BY OpsApart DEF Others
  <2> QED
    BY <2>1, <2>2, <2>3, <2>4, OpKeeps, EffectReports
<1>3. CASE RecordUpstreamLatency(t)
  <2>1. Takes(t, <<"latency">>)
    BY <1>1, <1>3, DoesTakes DEF RecordUpstreamLatency
  <2>2. TypeInv'
    <3>1. todo' \in [Tasks -> Seq(Operations)]
      BY <2>1, TakenOn DEF TelemetryInv
    <3> QED
      BY <1>1, <1>3, <2>1, <3>1 DEF TypeInv, RecordUpstreamLatency, counters, log, Takes
  <2>3. Effect(<<"latency">>) /\ report' = report
    BY <1>1, <1>3, OpsApart DEF Effect, One, TypeInv, Health, Origins, RecordUpstreamLatency, counters, log, Others
  <2>4. <<"latency">> \notin Reads
    BY OpsApart DEF Others
  <2> QED
    BY <2>1, <2>2, <2>3, <2>4, OpKeeps, EffectReports
<1>4. CASE RecordBackendFailure(t)
  <2>1. Takes(t, <<"count_failure">>)
    BY <1>1, <1>4, DoesTakes DEF RecordBackendFailure
  <2>2. TypeInv'
    <3>1. todo' \in [Tasks -> Seq(Operations)]
      BY <2>1, TakenOn DEF TelemetryInv
    <3> QED
      BY <1>1, <1>4, <2>1, <3>1 DEF TypeInv, RecordBackendFailure, counters, log, Takes
  <2>3. Effect(<<"count_failure">>) /\ report' = report
    BY <1>1, <1>4, OpsApart DEF Effect, One, TypeInv, Health, Origins, RecordBackendFailure, counters, log, Others
  <2>4. <<"count_failure">> \notin Reads
    BY OpsApart DEF Others
  <2> QED
    BY <2>1, <2>2, <2>3, <2>4, OpKeeps, EffectReports
<1>5. CASE RecordProxyError(t)
  <2>1. Takes(t, <<"error">>)
    BY <1>1, <1>5, DoesTakes DEF RecordProxyError
  <2>2. TypeInv'
    <3>1. todo' \in [Tasks -> Seq(Operations)]
      BY <2>1, TakenOn DEF TelemetryInv
    <3> QED
      BY <1>1, <1>5, <2>1, <3>1 DEF TypeInv, RecordProxyError, counters, log, Takes
  <2>3. Effect(<<"error">>) /\ report' = report
    BY <1>1, <1>5, OpsApart DEF Effect, One, TypeInv, Health, Origins, RecordProxyError, counters, log, Others
  <2>4. <<"error">> \notin Reads
    BY OpsApart DEF Others
  <2> QED
    BY <2>1, <2>2, <2>3, <2>4, OpKeeps, EffectReports
<1>6. CASE CountTransition(t)
  <2>1. Takes(t, <<"count_transition">>)
    BY <1>1, <1>6, DoesTakes DEF CountTransition
  <2>2. TypeInv'
    <3>1. todo' \in [Tasks -> Seq(Operations)]
      BY <2>1, TakenOn DEF TelemetryInv
    <3> QED
      BY <1>1, <1>6, <2>1, <3>1 DEF TypeInv, CountTransition, counters, log, Takes
  <2>3. Effect(<<"count_transition">>) /\ report' = report
    BY <1>1, <1>6, OpsApart DEF Effect, One, TypeInv, Health, Origins, CountTransition, counters, log, Others
  <2>4. <<"count_transition">> \notin Reads
    BY OpsApart DEF Others
  <2> QED
    BY <2>1, <2>2, <2>3, <2>4, OpKeeps, EffectReports
<1>7. CASE RecordResponseStatus(t)
  <2>1. PICK o \in Origins :
          /\ Does(t, <<"status", o>>)
          /\ statuses' = [statuses EXCEPT ![o] = @ + 1]
          /\ UNCHANGED <<health, request_count, latency_count, failures, errors, log, report>>
    BY <1>7 DEF RecordResponseStatus
  <2> DEFINE op == <<"status", o>>
  <2>2. Takes(t, op)
    BY <1>1, <2>1, DoesTakes
  <2>3. TypeInv'
    <3>1. todo' \in [Tasks -> Seq(Operations)]
      BY <2>2, TakenOn DEF TelemetryInv
    <3>2. statuses \in [Origins -> Nat] /\ statuses' \in [Origins -> Nat]
      BY <1>1, <2>1 DEF TypeInv
    <3> QED
      BY <1>1, <2>1, <2>2, <3>1, <3>2 DEF TypeInv, log, Takes
  <2>4. Effect(op) /\ report' = report
    <3>1. statuses \in [Origins -> Nat]
      BY <1>1 DEF TypeInv
    <3>2. \A p \in Origins : statuses'[p] = statuses[p] + One(op = <<"status", p>>)
      BY <2>1, <3>1 DEF One
    <3>3. "upstream" \in Origins /\ "failure" \in Origins /\ "plain" \in Origins
      BY DEF Origins
    <3>4. \A c \in Others \cup Pushes : op # c
      BY OpsApart
    <3>5. /\ One(op = <<"error">>) = 0 /\ One(op = <<"count_failure">>) = 0
          /\ One(op = <<"request">>) = 0 /\ One(op = <<"latency">>) = 0
          /\ One(op = <<"count_transition">>) = 0 /\ One(op = <<"judge_failure">>) = 0
          /\ One(op \in Pushes) = 0
      BY <3>4 DEF One, Others
    <3>6. /\ Len(pushed) \in Nat /\ errors \in Nat /\ failures \in Nat /\ request_count \in Nat /\ latency_count \in Nat
          /\ transitions \in Nat /\ health.consecutive_failures \in Nat
      BY <1>1 DEF TypeInv, Health
    <3> HIDE DEF op
    <3> QED
      BY <2>1, <3>2, <3>3, <3>4, <3>5, <3>6 DEF Effect, log
  <2>5. op \notin Reads
    BY OpsApart
  <2> QED
    BY <2>2, <2>3, <2>4, <2>5, OpKeeps, EffectReports
<1> QED
  BY <1>2, <1>3, <1>4, <1>5, <1>6, <1>7

\* An operation that adds to no counter.
LEMMA QuietEffect ==
    ASSUME TypeInv, NEW op \in Reads \cup {<<"buffer">>, <<"poll">>, <<"judge_success">>},
           UNCHANGED <<counters, log>>, health' \in Health,
           health'.consecutive_failures <= health.consecutive_failures,
           Struck(health') => Struck(health)
    PROVE  Effect(op)
<1>1. /\ op \notin Answers \cup Pushes
      /\ op \notin {<<"error">>, <<"count_failure">>, <<"request">>, <<"latency">>,
                   <<"count_transition">>, <<"judge_failure">>}
  BY OpsApart DEF Others, Reads
<1>2. \A o \in Origins : op # <<"status", o>>
  BY <1>1, OpsApart
<1>3. /\ One(op = <<"error">>) = 0 /\ One(op = <<"count_failure">>) = 0
      /\ One(op = <<"request">>) = 0 /\ One(op = <<"latency">>) = 0
      /\ One(op = <<"count_transition">>) = 0 /\ One(op = <<"judge_failure">>) = 0
      /\ One(op = <<"status", "upstream">>) = 0 /\ One(op = <<"status", "failure">>) = 0
      /\ One(op = <<"status", "plain">>) = 0 /\ One(op \in Pushes) = 0
  BY <1>1, <1>2 DEF One, Origins
<1>4. /\ Len(pushed) \in Nat /\ errors \in Nat /\ failures \in Nat /\ request_count \in Nat /\ latency_count \in Nat
      /\ transitions \in Nat /\ health.consecutive_failures \in Nat
      /\ statuses["upstream"] \in Nat /\ statuses["failure"] \in Nat /\ statuses["plain"] \in Nat
  BY DEF TypeInv, Health, Origins
<1> QED
  BY <1>1, <1>3, <1>4 DEF Effect, counters, log

\* Judges is an operation that may be followed by a transition to log.
LEMMA JudgesTakes ==
    ASSUME TypeInv, NEW t \in Tasks, NEW op \in {<<"judge_success">>, <<"judge_failure">>},
           NEW h, NEW reason \in Reasons \cup {"none"}, Judges(t, op, h, reason)
    PROVE  Takes(t, op)
<1>1. todo[t] \in Seq(Operations) /\ todo[t] # <<>>
  BY DEF TypeInv, Judges, Idle
<1>2. Len(todo[t]) > 0
  BY <1>1
<1> DEFINE s == IF reason = "none" THEN Tail(todo[t])
                ELSE << <<"count_transition">>, <<"push", reason>> >> \o Tail(todo[t])
<1>3. todo' = [todo EXCEPT ![t] = s] /\ todo[t][1] = op
  BY DEF Judges
<1>4. Rest(todo[t], s)
  BY <1>3 DEF Rest
<1> HIDE DEF s
<1> QED
  BY <1>2, <1>3, <1>4 DEF Takes, Judges

\* A result that is judged: the record goes down only when enough failures were counted.
LEMMA JudgesKeep ==
    ASSUME TelemetryInv, NEW t \in Tasks, JudgeSuccess(t) \/ JudgeFailure(t)
    PROVE  TelemetryInv'
<1>1. TypeInv /\ health \in Health
  BY DEF TelemetryInv, TypeInv
<1>2. SuccessReason(health) \in Reasons \cup {"none"} /\ FailureReason(health) \in Reasons \cup {"none"}
  BY DEF SuccessReason, FailureReason, Reasons
<1>3. CASE JudgeSuccess(t)
  <2>1. /\ Takes(t, <<"judge_success">>)
        /\ health' = RecordSuccess(health) /\ UNCHANGED <<counters, log, report>>
    BY <1>1, <1>2, <1>3, JudgesTakes DEF JudgeSuccess, Judges
  <2>2. /\ health' \in Health /\ health'.consecutive_failures = 0
        /\ Struck(health') => Struck(health)
    BY <1>1, <2>1, SuccessStrikes
  <2>3. TypeInv'
    <3>1. todo' \in [Tasks -> Seq(Operations)]
      BY <2>1, TakenOn DEF TelemetryInv
    <3> QED
      BY <1>1, <2>1, <2>2, <3>1 DEF TypeInv, Takes, counters, log
  <2>4. Effect(<<"judge_success">>)
    <3>1. health'.consecutive_failures <= health.consecutive_failures
      BY <1>1, <2>2 DEF Health
    <3> QED
      BY <1>1, <2>1, <2>2, <3>1, QuietEffect
  <2>5. <<"judge_success">> \notin Reads
    BY OpsApart DEF Others
  <2> QED
    BY <2>1, <2>3, <2>4, <2>5, OpKeeps, EffectReports
<1>4. CASE JudgeFailure(t)
  <2>1. /\ Takes(t, <<"judge_failure">>)
        /\ health' = RecordFailure(health) /\ UNCHANGED <<counters, log, report>>
    BY <1>1, <1>2, <1>4, JudgesTakes DEF JudgeFailure, Judges
  <2>2. /\ health' \in Health
        /\ health'.consecutive_failures <= health.consecutive_failures + 1
        /\ Struck(health') => Struck(health) \/ health.consecutive_failures + 1 >= FailureThreshold
    BY <1>1, <2>1, FailureStrikes
  <2>3. TypeInv'
    <3>1. todo' \in [Tasks -> Seq(Operations)]
      BY <2>1, TakenOn DEF TelemetryInv
    <3> QED
      BY <1>1, <2>1, <2>2, <3>1 DEF TypeInv, Takes, counters, log
  <2>4. Effect(<<"judge_failure">>)
    BY <1>1, <2>1, <2>2, OpsApart DEF Effect, One, TypeInv, Health, Origins, counters, log, Others
  <2>5. <<"judge_failure">> \notin Reads
    BY OpsApart DEF Others
  <2> QED
    BY <2>1, <2>3, <2>4, <2>5, OpKeeps, EffectReports
<1> QED
  BY <1>3, <1>4

\* A ring that takes the next transition, and drops its oldest when it is full,
\* still holds the latest.
LEMMA LatestPushed ==
    ASSUME NEW r \in Seq(Reasons), NEW p \in Seq(Reasons), Latest(r, p), NEW x \in Reasons
    PROVE  Latest(Append(IF Len(r) >= MaxTransitions THEN Tail(r) ELSE r, x), Append(p, x))
<1>1. MaxTransitions \in Nat /\ MaxTransitions > 0 /\ Len(r) \in Nat /\ Len(p) \in Nat
  BY TelemetryAssumption
<1> DEFINE kept == IF Len(r) >= MaxTransitions THEN Tail(r) ELSE r
           dropped == IF Len(r) >= MaxTransitions THEN 1 ELSE 0
           R == Append(kept, x)
           P == Append(p, x)
<1>2. /\ Len(r) = IF Len(p) < MaxTransitions THEN Len(p) ELSE MaxTransitions
      /\ \A i \in 1 .. Len(r) : r[i] = p[(Len(p) - Len(r)) + i]
  BY DEF Latest
<1>3. /\ kept \in Seq(Reasons) /\ Len(kept) = Len(r) - dropped
      /\ \A i \in 1 .. Len(kept) : kept[i] = r[i + dropped]
  <2>1. CASE Len(r) >= MaxTransitions
    <3>1. Tail(r) \in Seq(Reasons) /\ Len(Tail(r)) = Len(r) - 1
          /\ \A i \in 1 .. Len(r) - 1 : Tail(r)[i] = r[i + 1]
      BY <1>1, <2>1
    <3> QED
      BY <2>1, <3>1
  <2>2. CASE ~(Len(r) >= MaxTransitions)
    <3>1. \A i \in 1 .. Len(r) : i + 0 = i
      BY <1>1
    <3> QED
      BY <1>1, <2>2, <3>1
  <2> QED
    BY <2>1, <2>2
<1>4. dropped \in 0 .. 1 /\ (dropped = 1 <=> Len(r) >= MaxTransitions)
  OBVIOUS
<1> HIDE DEF kept, dropped
<1>5. /\ Len(R) = Len(kept) + 1 /\ Len(P) = Len(p) + 1
      /\ R[Len(kept) + 1] = x /\ P[Len(p) + 1] = x
      /\ \A i \in 1 .. Len(kept) : R[i] = kept[i]
      /\ \A i \in 1 .. Len(p) : P[i] = p[i]
  BY <1>3
<1> HIDE DEF R, P
<1> DEFINE l == Len(r)
           m == Len(p)
           n == Len(kept)
<1>6. /\ l \in Nat /\ m \in Nat /\ n = l - dropped /\ Len(R) = n + 1 /\ Len(P) = m + 1
      /\ l = IF m < MaxTransitions THEN m ELSE MaxTransitions
      /\ dropped = 1 <=> l >= MaxTransitions
  BY <1>1, <1>2, <1>3, <1>4, <1>5
<1> HIDE DEF l, m, n
<1>7. Len(R) = IF Len(P) < MaxTransitions THEN Len(P) ELSE MaxTransitions
  BY <1>1, <1>4, <1>6
<1>8. ASSUME NEW i \in 1 .. Len(R)
      PROVE  R[i] = P[(Len(P) - Len(R)) + i]
  <2>1. CASE i = n + 1
    <3>1. (Len(P) - Len(R)) + i = m + 1
      BY <1>4, <1>6, <2>1
    <3> QED
      BY <1>5, <2>1, <3>1 DEF m, n
  <2>2. CASE i # n + 1
    <3>1. n \in Nat
      BY <1>1, <1>4, <1>6
    <3>2. i \in 1 .. n /\ i \in Nat
      BY <1>6, <2>2, <3>1
    <3>3. i + dropped \in 1 .. l
      <4>1. n = l - dropped /\ l \in Nat /\ (dropped = 0 \/ dropped = 1) /\ n \in Nat
        BY <1>4, <1>6, <3>1
      <4> QED
        BY <3>2, <4>1
    <3> DEFINE j == (m - l) + (i + dropped)
    <3>4. j = (Len(P) - Len(R)) + i /\ j \in 1 .. m
      BY <1>1, <1>4, <1>6, <3>2, <3>3
    <3>5. R[i] = r[i + dropped]
      BY <1>3, <1>5, <3>2 DEF n
    <3>6. r[i + dropped] = p[j]
      BY <1>2, <3>3 DEF l, m
    <3> HIDE DEF j
    <3>7. P[j] = p[j]
      BY <1>5, <3>4 DEF m
    <3> QED
      BY <3>4, <3>5, <3>6, <3>7
  <2> QED
    BY <2>1, <2>2
<1>9. Latest(R, P)
  BY <1>7, <1>8 DEF Latest
<1> QED
  BY <1>9 DEF R, P, kept

\* A transition that is pushed.
LEMMA PushKeeps ==
    ASSUME TelemetryInv, NEW t \in Tasks, PushTransition(t)
    PROVE  TelemetryInv'
<1>1. TypeInv /\ ring \in Seq(Reasons) /\ pushed \in Seq(Reasons)
  BY DEF TelemetryInv, TypeInv
<1>2. PICK reason \in Reasons :
        /\ Does(t, <<"push", reason>>)
        /\ ring' = Append(IF Len(ring) >= MaxTransitions THEN Tail(ring) ELSE ring, reason)
        /\ pushed' = Append(pushed, reason)
        /\ UNCHANGED <<health, counters, transitions, report>>
  BY DEF PushTransition
<1> DEFINE op == <<"push", reason>>
<1>3. Takes(t, op)
  BY <1>1, <1>2, DoesTakes
<1>4. op \in Pushes /\ op \notin Answers \cup Reads \cup Others
  BY OpsApart
<1> HIDE DEF op
<1>5. /\ ring' \in Seq(Reasons) /\ pushed' \in Seq(Reasons)
      /\ Len(pushed') = Len(pushed) + 1
      /\ Latest(ring, pushed) => Latest(ring', pushed')
  <2>1. MaxTransitions \in Nat /\ MaxTransitions > 0 /\ Len(ring) \in Nat
    BY <1>1, TelemetryAssumption
  <2>2. pushed' \in Seq(Reasons) /\ Len(pushed') = Len(pushed) + 1
    BY <1>1, <1>2
  <2>3. Latest(ring, pushed) => Latest(ring', pushed')
    BY <1>1, <1>2, LatestPushed
  <2>4. Len(ring) >= MaxTransitions => Tail(ring) \in Seq(Reasons)
    BY <1>1, <2>1
  <2>5. ring' \in Seq(Reasons)
    BY <1>1, <1>2, <2>4
  <2> QED
    BY <2>2, <2>3, <2>5
<1>6. TypeInv'
  <2>1. todo' \in [Tasks -> Seq(Operations)]
    BY <1>3, TakenOn DEF TelemetryInv
  <2> QED
    BY <1>1, <1>2, <1>3, <1>5, <2>1 DEF TypeInv, Takes, counters
<1>7. Effect(op)
  <2>1. /\ One(op = <<"error">>) = 0 /\ One(op = <<"count_failure">>) = 0
        /\ One(op = <<"request">>) = 0 /\ One(op = <<"latency">>) = 0
        /\ One(op = <<"count_transition">>) = 0 /\ One(op = <<"judge_failure">>) = 0
        /\ One(op \in Pushes) = 1
    BY <1>4 DEF One, Others
  <2>2. /\ One(op = <<"status", "upstream">>) = 0 /\ One(op = <<"status", "failure">>) = 0
        /\ One(op = <<"status", "plain">>) = 0
    BY <1>4, OpsApart DEF One, Origins
  <2>3. /\ errors \in Nat /\ failures \in Nat /\ request_count \in Nat /\ latency_count \in Nat
        /\ transitions \in Nat /\ health.consecutive_failures \in Nat
        /\ statuses["upstream"] \in Nat /\ statuses["failure"] \in Nat /\ statuses["plain"] \in Nat
    BY <1>1 DEF TypeInv, Health, Origins
  <2> QED
    BY <1>2, <1>4, <1>5, <2>1, <2>2, <2>3 DEF Effect, counters
<1>8. op \notin Reads /\ report' = report
  BY <1>2, <1>4
<1> QED
  BY <1>3, <1>6, <1>7, <1>8, OpKeeps, EffectReports

\* A body that has been buffered: nothing is counted.
LEMMA BufferKeeps ==
    ASSUME TelemetryInv, NEW t \in Tasks, Buffer(t)
    PROVE  TelemetryInv'
<1>1. TypeInv /\ health \in Health
  BY DEF TelemetryInv, TypeInv
<1>2. /\ Takes(t, <<"buffer">>)
      /\ health' = health /\ UNCHANGED <<counters, log, report>>
  BY <1>1, DoesTakes DEF Buffer
<1>3. TypeInv'
  <2>1. todo' \in [Tasks -> Seq(Operations)]
    BY <1>2, TakenOn DEF TelemetryInv
  <2> QED
    BY <1>1, <1>2, <2>1 DEF TypeInv, Takes, counters, log
<1>4. Effect(<<"buffer">>)
  <2>1. health'.consecutive_failures <= health.consecutive_failures
    BY <1>1, <1>2 DEF Health
  <2> QED
    BY <1>1, <1>2, <2>1, QuietEffect
<1>5. <<"buffer">> \notin Reads
  BY OpsApart DEF Others
<1> QED
  BY <1>2, <1>3, <1>4, <1>5, OpKeeps, EffectReports

\* A poll changes the record and counts nothing.
LEMMA PollKeeps ==
    ASSUME TelemetryInv, NEW t \in Tasks, Poll(t)
    PROVE  TelemetryInv'
<1>1. TypeInv /\ health \in Health
  BY DEF TelemetryInv, TypeInv
<1>2. /\ Takes(t, <<"poll">>)
      /\ health' = PollEjection(health) /\ UNCHANGED <<counters, log, report>>
  BY <1>1, DoesTakes DEF Poll
<1>3. /\ health' \in Health
      /\ health'.consecutive_failures = health.consecutive_failures
      /\ Struck(health') => Struck(health)
  BY <1>1, <1>2, PollStrikes
<1>4. TypeInv'
  <2>1. todo' \in [Tasks -> Seq(Operations)]
    BY <1>2, TakenOn DEF TelemetryInv
  <2> QED
    BY <1>1, <1>2, <1>3, <2>1 DEF TypeInv, Takes, counters, log
<1>5. Effect(<<"poll">>)
  <2>1. health'.consecutive_failures <= health.consecutive_failures
    BY <1>1, <1>3 DEF Health
  <2> QED
    BY <1>1, <1>2, <1>3, <2>1, QuietEffect
<1>6. <<"poll">> \notin Reads
  BY OpsApart DEF Others
<1> QED
  BY <1>2, <1>4, <1>5, <1>6, OpKeeps, EffectReports

-----------------------------------------------------------------------------
(* A scrape *)

\* A load leaves everything else alone.
LEMMA ReadKeeps ==
    ASSUME TelemetryInv, NEW t \in Tasks, NEW op \in Reads, Does(t, op), UNCHANGED <<counters, log>>,
           health' \in Health, health'.consecutive_failures = health.consecutive_failures,
           Struck(health') => Struck(health),
           NEW r, report' = [report EXCEPT ![t] = r],
           Follow(todo[t], todo'[t]) => ReportOK(r, todo'[t], failures, errors)
    PROVE  TelemetryInv'
<1>1. TypeInv
  BY DEF TelemetryInv
<1>2. Takes(t, op)
  BY <1>1, DoesTakes
<1>3. /\ todo' \in [Tasks -> Seq(Operations)]
      /\ \A u \in Tasks \ {t} : todo'[u] = todo[u]
      /\ ReportOK(r, todo'[t], failures, errors)
  BY <1>2, TakenOn DEF TelemetryInv
<1>4. report \in [Tasks -> Reports] /\ r \in Reports
  BY <1>1, <1>3 DEF TypeInv, ReportOK
<1>5. TypeInv'
  BY <1>1, <1>2, <1>3, <1>4 DEF TypeInv, Takes, counters, log
<1>6. Effect(op)
  <2>1. health'.consecutive_failures <= health.consecutive_failures
    BY <1>1 DEF TypeInv, Health
  <2> QED
    BY <1>1, <2>1, QuietEffect
<1>7. ReportInv'
  <2>1. ASSUME NEW u \in Tasks
        PROVE  ReportOK(report'[u], todo'[u], failures', errors')
    <3>1. failures' = failures /\ errors' = errors
      BY DEF counters
    <3>2. CASE u = t
      <4>1. report'[u] = r
        BY <1>4, <3>2
      <4> QED
        BY <1>3, <3>1, <3>2, <4>1, Zenon
    <3>3. CASE u # t
      <4>1. report'[u] = report[u] /\ todo'[u] = todo[u]
        BY <1>3, <1>4, <3>3
      <4>2. ReportOK(report[u], todo[u], failures, errors)
        BY DEF TelemetryInv, ReportInv
      <4> QED
        BY <3>1, <4>1, <4>2, Zenon
    <3> QED
      BY <3>2, <3>3
  <2> QED
    BY <2>1 DEF ReportInv
<1> QED
  BY <1>2, <1>5, <1>6, <1>7, OpKeeps

\* Each load in turn: what the report lacks is still to be read.
LEMMA ScrapeKeeps ==
    ASSUME TelemetryInv, NEW t \in Tasks,
           Gauge(t) \/ LoadFailures(t) \/ LoadStatuses(t) \/ LoadErrors(t)
    PROVE  TelemetryInv'
<1> DEFINE q == todo[t]
           old == report[t]
<1>1. /\ TypeInv /\ health \in Health /\ failures \in Nat /\ errors \in Nat
      /\ statuses["failure"] \in Nat /\ report \in [Tasks -> Reports] /\ old \in Reports
  BY DEF TelemetryInv, TypeInv, Origins
<1>2. ReportOK(old, q, failures, errors)
  BY DEF TelemetryInv, ReportInv
<1>3. /\ old.answered <= errors
      /\ old.complete => ~Has(q, Reads) /\ old.answered <= old.errors
      /\ ~old.offered => failures >= FailureThreshold
      /\ old.complete \/ First(q, {<<"load_statuses">>, <<"load_errors">>}) =>
           (~old.offered => old.failures >= FailureThreshold)
  BY <1>2 DEF ReportOK
<1>4. /\ <<"gauge">> \in Reads /\ <<"load_failures">> \in Reads /\ <<"load_statuses">> \in Reads
      /\ <<"load_errors">> \in Reads
  BY DEF Reads
<1>5. CASE Gauge(t)
  <2> DEFINE r == [old EXCEPT !.offered = Offered(PollEjection(health))]
  <2>1. /\ Does(t, <<"gauge">>) /\ q[1] = <<"gauge">> /\ UNCHANGED <<counters, log>>
        /\ health' = PollEjection(health)
        /\ report' = [report EXCEPT ![t] = r]
    BY <1>5, Zenon DEF Gauge, Does
  <2>2. /\ health' \in Health /\ health'.consecutive_failures = health.consecutive_failures
        /\ Struck(health') => Struck(health)
    BY <1>1, <2>1, PollStrikes
  <2>3. /\ r \in Reports /\ r.answered = old.answered /\ r.errors = old.errors
        /\ r.complete = old.complete /\ r.failures = old.failures
        /\ ~r.offered => Struck(health)
    BY <1>1, PollStrikes, Zenon DEF Reports
  <2> HIDE DEF r
  <2>4. Struck(health) => failures >= FailureThreshold
    BY DEF TelemetryInv, CausesFirst
  <2>5. ASSUME Follow(q, todo'[t])
        PROVE  ReportOK(r, todo'[t], failures, errors)
    <3>1. ~r.complete
      BY <1>3, <1>4, <2>1, <2>3, <2>5 DEF Follow
    <3>2. ~First(todo'[t], {<<"load_statuses">>, <<"load_errors">>})
      BY <2>1, <2>5 DEF Follow
    <3> QED
      BY <1>3, <2>3, <2>4, <3>1, <3>2, Zenon DEF ReportOK
  <2> HIDE DEF q, old
  <2> QED
    BY <1>4, <2>1, <2>2, <2>5, ReadKeeps DEF q
<1>6. CASE LoadFailures(t)
  <2> DEFINE r == [old EXCEPT !.failures = failures]
  <2>1. /\ Does(t, <<"load_failures">>) /\ q[1] = <<"load_failures">> /\ UNCHANGED <<counters, log>>
        /\ health' = health
        /\ report' = [report EXCEPT ![t] = r]
    BY <1>6, Zenon DEF LoadFailures, Does
  <2>2. /\ r \in Reports /\ r.answered = old.answered /\ r.errors = old.errors
        /\ r.complete = old.complete /\ r.failures = failures /\ r.offered = old.offered
    BY <1>1, Zenon DEF Reports
  <2> HIDE DEF r
  <2>3. ASSUME Follow(q, todo'[t])
        PROVE  ReportOK(r, todo'[t], failures, errors)
    <3>1. ~r.complete
      BY <1>3, <1>4, <2>1, <2>2, <2>3 DEF Follow
    <3> QED
      BY <1>3, <2>2, <3>1, Zenon DEF ReportOK
  <2> HIDE DEF q, old
  <2> QED
    BY <1>1, <1>4, <2>1, <2>3, ReadKeeps DEF q
<1>7. CASE LoadStatuses(t)
  <2> DEFINE r == [old EXCEPT !.answered = statuses["failure"]]
  <2>1. /\ Does(t, <<"load_statuses">>) /\ q[1] = <<"load_statuses">> /\ UNCHANGED <<counters, log>>
        /\ health' = health
        /\ report' = [report EXCEPT ![t] = r]
    BY <1>7, Zenon DEF LoadStatuses, Does
  <2>2. /\ r \in Reports /\ r.answered = statuses["failure"] /\ r.errors = old.errors
        /\ r.complete = old.complete /\ r.failures = old.failures /\ r.offered = old.offered
    BY <1>1, Zenon DEF Reports
  <2> HIDE DEF r
  <2>3. statuses["failure"] <= errors
    <3>1. Takes(t, <<"load_statuses">>)
      BY <1>1, <2>1, DoesTakes
    <3>2. Cardinality(AtHead(todo, {<<"status", "failure">>})) \in Nat
      BY <3>1, TakenOn, Zenon DEF TelemetryInv, Counted
    <3>3. statuses["failure"] + Cardinality(AtHead(todo, {<<"status", "failure">>})) <= errors
      BY DEF TelemetryInv, CausesFirst
    <3> QED
      BY <1>1, <3>2, <3>3
  <2>4. First(q, {<<"load_statuses">>, <<"load_errors">>})
    <3>1. Takes(t, <<"load_statuses">>)
      BY <1>1, <2>1, DoesTakes
    <3> QED
      BY <3>1 DEF First, Takes
  <2>5. ASSUME Follow(q, todo'[t])
        PROVE  ReportOK(r, todo'[t], failures, errors)
    <3>1. ~r.complete
      BY <1>3, <1>4, <2>1, <2>2, <2>5 DEF Follow
    <3> QED
      BY <1>3, <2>2, <2>3, <2>4, <3>1, Zenon DEF ReportOK
  <2> HIDE DEF q, old
  <2> QED
    BY <1>1, <1>4, <2>1, <2>5, ReadKeeps DEF q
<1>8. CASE LoadErrors(t)
  <2> DEFINE r == [old EXCEPT !.errors = errors, !.complete = TRUE]
  <2>1. /\ Does(t, <<"load_errors">>) /\ q[1] = <<"load_errors">> /\ UNCHANGED <<counters, log>>
        /\ health' = health
        /\ report' = [report EXCEPT ![t] = r]
    BY <1>1, <1>8, Zenon DEF LoadErrors, Does
  <2>2. /\ r \in Reports /\ r.answered = old.answered /\ r.errors = errors
        /\ r.failures = old.failures /\ r.offered = old.offered
    BY <1>1, Zenon DEF Reports
  <2> HIDE DEF r
  <2>3. First(q, {<<"load_statuses">>, <<"load_errors">>})
    <3>1. Takes(t, <<"load_errors">>)
      BY <1>1, <2>1, DoesTakes
    <3> QED
      BY <3>1 DEF First, Takes
  <2>4. ASSUME Follow(q, todo'[t])
        PROVE  ReportOK(r, todo'[t], failures, errors)
    <3>1. ~Has(todo'[t], Reads)
      BY <2>1, <2>4 DEF Follow
    <3> QED
      BY <1>3, <2>2, <2>3, <3>1, Zenon DEF ReportOK
  <2> HIDE DEF q, old
  <2> QED
    BY <1>1, <1>4, <2>1, <2>4, ReadKeeps DEF q
<1> QED
  BY <1>5, <1>6, <1>7, <1>8
-----------------------------------------------------------------------------
(* Jobs keep the invariant *)

\* A task that sets out, with a response to count for its request or its retry.
LEMMA SetsOutCounts ==
    ASSUME TelemetryInv, NEW t \in Tasks, NEW s, SetsOut(t, s),
           NEW request \in BOOLEAN, NEW answer \in BOOLEAN, NEW reads \in BOOLEAN,
           Program(s, request, answer, reads), UNCHANGED <<health, counters, log>>,
           retries' \in Nat, retries' + One(request) = retries + One(answer), lost' = lost
    PROVE  /\ todo' \in [Tasks -> Seq(Operations)] /\ body' \in [Tasks -> BOOLEAN]
           /\ todo'[t] = s /\ \A u \in Tasks \ {t} : todo'[u] = todo[u]
           /\ \A u \in Tasks : Ordered(todo'[u])
           /\ CausesFirst' /\ Balanced'
<1>1. /\ todo \in [Tasks -> Seq(Operations)] /\ body \in [Tasks -> BOOLEAN]
      /\ todo' = [todo EXCEPT ![t] = s] /\ todo[t] = <<>>
      /\ body' = [body EXCEPT ![t] = s[Len(s)] = <<"status", "upstream">>]
  BY DEF TelemetryInv, TypeInv, SetsOut, Idle
<1>2. Ordered(s) /\ s \in Seq(Operations)
  BY DEF Program, Ordered, Chain
<1>3. /\ todo' \in [Tasks -> Seq(Operations)] /\ body' \in [Tasks -> BOOLEAN]
      /\ todo'[t] = s /\ \A u \in Tasks \ {t} : todo'[u] = todo[u]
  BY <1>1, <1>2
<1>4. \A u \in Tasks : Ordered(todo'[u])
  BY <1>2, <1>3 DEF TelemetryInv
<1>5. Added(request, answer, todo, todo') /\ Counted(todo) /\ Counted(todo')
  <2>1. Program(todo'[t], request, answer, reads)
    BY <1>3
  <2>2. todo[t] = <<>>
    BY <1>1
  <2>3. \A u \in Tasks \ {t} : todo'[u] = todo[u]
    BY <1>3
  <2> QED
    BY <2>1, <2>2, <2>3, SetOut
<1>6. /\ health' = health /\ request_count' = request_count /\ latency_count' = latency_count
      /\ failures' = failures /\ statuses' = statuses /\ errors' = errors
      /\ transitions' = transitions /\ ring' = ring /\ pushed' = pushed
  BY DEF counters, log
<1>7. CausesFirst'
  <2>1. CausesFirst
    BY DEF TelemetryInv
  <2>2. /\ Cardinality(AtHead(todo', {<<"status", "failure">>}))
             = Cardinality(AtHead(todo, {<<"status", "failure">>}))
        /\ Cardinality(AtHead(todo', {<<"judge_failure">>}))
             = Cardinality(AtHead(todo, {<<"judge_failure">>}))
        /\ Cardinality(AllTimed(todo')) = Cardinality(AllTimed(todo))
    BY <1>5, Zenon DEF Added
  <2> QED
    BY <1>6, <2>1, <2>2, Zenon DEF CausesFirst
<1>8. Balanced'
  <2> DEFINE sum == statuses["upstream"] + statuses["failure"] + statuses["plain"]
             A == Cardinality(Holding(todo, Answers))
             B == Cardinality(Holding(todo', Answers))
             Q == Cardinality(Holding(todo, {<<"request">>}))
             R == Cardinality(Holding(todo', {<<"request">>}))
             a == One(answer)
             r == One(request)
  <2>1. Balanced /\ sum + A + lost = request_count + Q + retries
    BY DEF TelemetryInv, Balanced
  <2>2. /\ A \in Nat /\ B \in Nat /\ Q \in Nat /\ R \in Nat
        /\ B = A + a /\ R = Q + r
        /\ Cardinality(AtHead(todo', Pushes)) = Cardinality(AtHead(todo, Pushes))
    BY <1>5, Zenon DEF Added, Counted
  <2>3. a \in Nat /\ r \in Nat
    BY DEF One
  <2>4. /\ statuses["upstream"] \in Nat /\ statuses["failure"] \in Nat /\ statuses["plain"] \in Nat
        /\ request_count \in Nat /\ retries \in Nat /\ lost \in Nat
    BY DEF TelemetryInv, TypeInv, Origins
  <2>5. sum \in Nat
    BY <2>4
  <2>6. retries' + r = retries + a
    OBVIOUS
  <2> HIDE DEF sum, A, B, Q, R, a, r
  <2>7. sum + B + lost = request_count + R + retries'
    <3>1. sum + A + lost = request_count + Q + retries /\ B = A + a /\ R = Q + r
      BY <2>1, <2>2
    <3>2. A \in Nat /\ Q \in Nat /\ retries' \in Nat
      BY <2>2
    <3>3. sum + B + lost = (sum + A + lost) + a
      BY <2>3, <2>4, <2>5, <3>1, <3>2
    <3>4. (request_count + Q + retries) + a = request_count + Q + (retries + a)
      BY <2>3, <2>4, <3>2
    <3>5. request_count + Q + (retries' + r) = request_count + (Q + r) + retries'
      BY <2>3, <2>4, <3>2
    <3> QED
      BY <2>6, <3>1, <3>3, <3>4, <3>5, Zenon
  <2> QED
    BY <1>6, <2>1, <2>2, <2>7, Zenon DEF Balanced, sum, B, R
<1> QED
  BY <1>3, <1>4, <1>7, <1>8

\* The other tasks' reports are as they were.
LEMMA SetsOutReports ==
    ASSUME TelemetryInv, NEW t \in Tasks, \A u \in Tasks \ {t} : todo'[u] = todo[u],
           UNCHANGED <<health, counters, log>>,
           \A u \in Tasks \ {t} : report'[u] = report[u],
           ReportOK(report'[t], todo'[t], failures, errors)
    PROVE  ReportInv'
<1>1. failures' = failures /\ errors' = errors
  BY DEF counters
<1>2. \A u \in Tasks : ReportOK(report[u], todo[u], failures, errors)
  BY DEF TelemetryInv, ReportInv
<1>3. ASSUME NEW u \in Tasks
      PROVE  ReportOK(report'[u], todo'[u], failures', errors')
  <2>1. CASE u = t
    BY <1>1, <2>1
  <2>2. CASE u # t
    BY <1>1, <1>2, <2>2
  <2> QED
    BY <2>1, <2>2
<1> QED
  BY <1>3 DEF ReportInv

\* A job that begins.
LEMMA BeginKeeps ==
    ASSUME TelemetryInv, NEW t \in Tasks, NEW s, NEW tries \in {0, 1}, Begin(t, s, tries),
           NEW counted \in BOOLEAN, NEW reads \in BOOLEAN, Program(s, counted, counted, reads)
    PROVE  TelemetryInv'
<1>1. TypeInv /\ RetriesLeft
  BY DEF TelemetryInv
<1>2. /\ SetsOut(t, s) /\ retries' = retries /\ lost' = lost /\ UNCHANGED <<health, counters, log>>
      /\ jobs < MaxJobs /\ jobs' = jobs + 1
      /\ attempt' = [attempt EXCEPT ![t] = tries]
      /\ report' = [report EXCEPT ![t] = NoReport]
  BY DEF Begin
<1>3. retries' \in Nat /\ retries' + One(counted) = retries + One(counted)
  BY <1>1, <1>2 DEF TypeInv
<1>4. /\ todo' \in [Tasks -> Seq(Operations)] /\ body' \in [Tasks -> BOOLEAN]
      /\ todo'[t] = s /\ \A u \in Tasks \ {t} : todo'[u] = todo[u]
      /\ \A u \in Tasks : Ordered(todo'[u])
      /\ CausesFirst' /\ Balanced'
  BY <1>2, <1>3, SetsOutCounts
<1>5. NoReport \in Reports
  BY DEF NoReport, Reports
<1>6. TypeInv'
  <2>1. /\ attempt \in [Tasks -> 0 .. MaxAttempts] /\ report \in [Tasks -> Reports]
        /\ jobs \in 0 .. MaxJobs
    BY <1>1 DEF TypeInv
  <2>2. attempt' \in [Tasks -> 0 .. MaxAttempts] /\ report' \in [Tasks -> Reports]
    BY <1>2, <1>5, <2>1, TelemetryAssumption
  <2>3. jobs' \in 0 .. MaxJobs
    BY <1>2, <2>1, TelemetryAssumption
  <2> QED
    BY <1>1, <1>2, <1>3, <1>4, <2>2, <2>3 DEF TypeInv, counters, log
<1>7. RetriesLeft'
  <2> DEFINE L == Cardinality(Left(attempt))
             M == Cardinality(Left(attempt'))
             n == MaxAttempts - 1
  <2>1. \A u \in Tasks \ {t} : attempt'[u] = attempt[u]
    BY <1>1, <1>2 DEF TypeInv
  <2>2. M <= L + n
    BY <2>1, LeftBegin
  <2>3. L \in Nat /\ M \in Nat
    BY LeftFinite
  <2>4. n \in Nat /\ jobs \in Nat /\ retries \in Nat /\ jobs' = jobs + 1 /\ retries' = retries
    BY <1>1, <1>2, TelemetryAssumption DEF TypeInv
  <2>5. retries + L <= jobs * n
    BY <1>1 DEF RetriesLeft
  <2> HIDE DEF L, M, n
  <2>6. (jobs + 1) * n = jobs * n + n /\ jobs * n \in Nat
    BY <2>4
  <2>7. retries' + M <= (jobs + 1) * n
    BY <2>2, <2>3, <2>4, <2>5, <2>6
  <2> QED
    BY <2>4, <2>7, Zenon DEF RetriesLeft, M, n
<1>8. ReportInv'
  <2>1. report \in [Tasks -> Reports]
    BY <1>1 DEF TypeInv
  <2>2. report'[t] = NoReport /\ \A u \in Tasks \ {t} : report'[u] = report[u]
    BY <1>2, <2>1
  <2>3. 0 <= errors
    BY <1>1 DEF TypeInv
  <2>4. /\ NoReport.answered = 0 /\ NoReport.complete = FALSE /\ NoReport.offered = TRUE
    BY DEF NoReport
  <2>5. ReportOK(NoReport, todo'[t], failures, errors)
    BY <1>5, <2>3, <2>4, Zenon DEF ReportOK
  <2> QED
    BY <1>2, <1>4, <2>2, <2>5, SetsOutReports
<1> QED
  BY <1>4, <1>6, <1>7, <1>8 DEF TelemetryInv

\* A report that is kept while its task sets out again: no load is added to it.
LEMMA ReportKept ==
    ASSUME TelemetryInv, NEW t \in Tasks, NEW s, NEW request \in BOOLEAN, NEW answer \in BOOLEAN,
           Program(s, request, answer, FALSE)
    PROVE  ReportOK(report[t], s, failures, errors)
<1>1. ~Has(s, Reads) /\ Len(s) > 0 /\ Len(s) \in Nat
  BY DEF Program, Ordered, Chain
<1>2. ~First(s, {<<"load_statuses">>, <<"load_errors">>})
  BY <1>1 DEF First, Has, Reads
<1>3. ReportOK(report[t], todo[t], failures, errors)
  BY DEF TelemetryInv, ReportInv
<1> QED
  BY <1>1, <1>2, <1>3, Zenon DEF ReportOK

\* A retry: an attempt fewer is left, or none, and one response more to count.
LEMMA RetryKeeps ==
    ASSUME TelemetryInv, NEW t \in Tasks, Retry(t)
    PROVE  TelemetryInv'
<1>1. TypeInv /\ RetriesLeft
  BY DEF TelemetryInv
<1>2. PICK s \in Again :
        /\ SetsOut(t, s)
        /\ attempt' = [attempt EXCEPT ![t] = IF s \in Final THEN 0 ELSE @ + 1]
  BY Zenon DEF Retry
<1> DEFINE n == IF s \in Final THEN 0 ELSE attempt[t] + 1
<1>3. /\ attempt[t] \in 1 .. MaxAttempts - 1
      /\ attempt' = [attempt EXCEPT ![t] = n]
      /\ retries' = retries + 1 /\ lost' = lost /\ jobs' = jobs /\ report' = report
      /\ UNCHANGED <<health, counters, log>>
  BY <1>2 DEF Retry
<1>4. Program(s, FALSE, TRUE, FALSE)
  BY AgainPrograms
<1>5. retries' \in Nat /\ retries' + One(FALSE) = retries + One(TRUE)
  BY <1>1, <1>3 DEF TypeInv, One
<1>6. /\ todo' \in [Tasks -> Seq(Operations)] /\ body' \in [Tasks -> BOOLEAN]
      /\ todo'[t] = s /\ \A u \in Tasks \ {t} : todo'[u] = todo[u]
      /\ \A u \in Tasks : Ordered(todo'[u])
      /\ CausesFirst' /\ Balanced'
  BY <1>2, <1>3, <1>4, <1>5, SetsOutCounts
<1>7. TypeInv'
  <2>1. attempt \in [Tasks -> 0 .. MaxAttempts] /\ n \in 0 .. MaxAttempts
    BY <1>1, <1>3, TelemetryAssumption DEF TypeInv
  <2>2. attempt' \in [Tasks -> 0 .. MaxAttempts]
    BY <1>3, <2>1
  <2> QED
    BY <1>1, <1>3, <1>5, <1>6, <2>2 DEF TypeInv, counters, log
<1>8. RetriesLeft'
  <2> DEFINE L == Cardinality(Left(attempt))
             M == Cardinality(Left(attempt'))
             bound == jobs * (MaxAttempts - 1)
             more == [attempt EXCEPT ![t] = attempt[t] + 1]
  <2>1. /\ more[t] = attempt[t] + 1 /\ \A u \in Tasks \ {t} : more[u] = attempt[u]
        /\ attempt'[t] = n /\ \A u \in Tasks \ {t} : attempt'[u] = more[u]
        /\ s \notin Final => attempt' = more
    BY <1>1, <1>3 DEF TypeInv
  <2>2. Cardinality(Left(more)) + 1 = L
    <3> HIDE DEF more
    <3> QED
      BY <1>3, <2>1, LeftRetry
  <2>3. M <= Cardinality(Left(more)) /\ Cardinality(Left(more)) \in Nat
    <3>1. Cardinality(Left(more)) \in Nat
      BY LeftFinite
    <3>2. CASE s \in Final
      <4>1. n = 0
        BY <3>2
      <4> HIDE DEF more, n
      <4> QED
        BY <2>1, <3>1, <4>1, LeftEnds
    <3>3. CASE s \notin Final
      <4> HIDE DEF more
      <4> QED
        BY <2>1, <3>1, <3>3
    <3> QED
      BY <3>2, <3>3
  <2>4. L \in Nat /\ M \in Nat
    BY LeftFinite
  <2>5. retries \in Nat /\ jobs \in Nat /\ MaxAttempts - 1 \in Nat
    BY <1>1, TelemetryAssumption DEF TypeInv
  <2>6. retries + L <= bound /\ retries' = retries + 1 /\ jobs' = jobs
    BY <1>1, <1>3 DEF RetriesLeft
  <2>7. bound \in Nat
    BY <2>5
  <2> HIDE DEF L, M, bound, more
  <2>8. retries' + M <= bound
    BY <2>4, <2>5, <2>6, <2>7, <2>2, <2>3
  <2> QED
    BY <2>6, <2>8, Zenon DEF RetriesLeft, M, bound
<1>9. ReportInv'
  <2>1. ReportOK(report[t], s, failures, errors)
    BY <1>4, ReportKept
  <2> QED
    BY <1>3, <1>6, <2>1, SetsOutReports
<1> QED
  BY <1>6, <1>7, <1>8, <1>9 DEF TelemetryInv

\* A body that fails: an error and a failure more to count, and no more retries.
LEMMA BodyFailsKeeps ==
    ASSUME TelemetryInv, NEW t \in Tasks, BodyFails(t)
    PROVE  TelemetryInv'
<1> DEFINE s == << <<"error">> >> \o Failure
<1>1. TypeInv /\ RetriesLeft
  BY DEF TelemetryInv
<1>2. /\ SetsOut(t, s)
      /\ attempt' = [attempt EXCEPT ![t] = 0]
      /\ retries' = retries /\ lost' = lost /\ jobs' = jobs /\ report' = report
      /\ UNCHANGED <<health, counters, log>>
  BY DEF BodyFails
<1>3. Program(s, FALSE, FALSE, FALSE)
  BY ResultPrograms
<1> HIDE DEF s
<1>4. retries' \in Nat /\ retries' + One(FALSE) = retries + One(FALSE)
  BY <1>1, <1>2 DEF TypeInv
<1>5. /\ todo' \in [Tasks -> Seq(Operations)] /\ body' \in [Tasks -> BOOLEAN]
      /\ todo'[t] = s /\ \A u \in Tasks \ {t} : todo'[u] = todo[u]
      /\ \A u \in Tasks : Ordered(todo'[u])
      /\ CausesFirst' /\ Balanced'
  BY <1>2, <1>3, <1>4, SetsOutCounts
<1>6. TypeInv'
  <2>1. attempt \in [Tasks -> 0 .. MaxAttempts] /\ 0 \in 0 .. MaxAttempts
    BY <1>1, TelemetryAssumption DEF TypeInv
  <2>2. attempt' \in [Tasks -> 0 .. MaxAttempts]
    BY <1>2, <2>1
  <2> QED
    BY <1>1, <1>2, <1>4, <1>5, <2>2 DEF TypeInv, counters, log
<1>7. RetriesLeft'
  <2> DEFINE L == Cardinality(Left(attempt))
             M == Cardinality(Left(attempt'))
             bound == jobs * (MaxAttempts - 1)
  <2>1. attempt'[t] = 0 /\ \A u \in Tasks \ {t} : attempt'[u] = attempt[u]
    BY <1>1, <1>2 DEF TypeInv
  <2>2. M <= L
    BY <2>1, LeftEnds
  <2>3. L \in Nat /\ M \in Nat
    BY LeftFinite
  <2>4. retries \in Nat /\ jobs \in Nat /\ MaxAttempts - 1 \in Nat
    BY <1>1, TelemetryAssumption DEF TypeInv
  <2>5. retries + L <= bound /\ retries' = retries /\ jobs' = jobs
    BY <1>1, <1>2 DEF RetriesLeft
  <2>6. bound \in Nat
    BY <2>4
  <2> HIDE DEF L, M, bound
  <2>7. retries' + M <= bound
    BY <2>2, <2>3, <2>4, <2>5, <2>6
  <2> QED
    BY <2>5, <2>7, Zenon DEF RetriesLeft, M, bound
<1>8. ReportInv'
  <2>1. ReportOK(report[t], s, failures, errors)
    BY <1>3, ReportKept
  <2> QED
    BY <1>2, <1>5, <2>1, SetsOutReports
<1> QED
  BY <1>5, <1>6, <1>7, <1>8 DEF TelemetryInv

\* A client that leaves: a response was still to be counted, and is not.
LEMMA ClientGoneKeeps ==
    ASSUME TelemetryInv, NEW t \in Tasks, ClientGone(t)
    PROVE  TelemetryInv'
<1> DEFINE q == todo[t]
<1>1. TypeInv /\ RetriesLeft /\ CausesFirst /\ Balanced /\ Ordered(q)
  BY DEF TelemetryInv
<1>2. /\ todo' = [todo EXCEPT ![t] = <<>>] /\ q # <<>> /\ q[1] \in Awaits
      /\ attempt' = [attempt EXCEPT ![t] = 0] /\ body' = [body EXCEPT ![t] = FALSE]
      /\ lost' = lost + 1 /\ retries' = retries /\ jobs' = jobs /\ report' = report
      /\ UNCHANGED <<health, counters, log>>
  BY DEF ClientGone, Idle
<1>3. /\ health' = health /\ request_count' = request_count /\ latency_count' = latency_count
      /\ failures' = failures /\ statuses' = statuses /\ errors' = errors
      /\ transitions' = transitions /\ ring' = ring /\ pushed' = pushed
  BY <1>2 DEF counters, log
<1>4. /\ todo' \in [Tasks -> Seq(Operations)] /\ body' \in [Tasks -> BOOLEAN]
      /\ todo'[t] = <<>> /\ \A u \in Tasks \ {t} : todo'[u] = todo[u]
      /\ q \in Seq(Operations) /\ Len(q) \in Nat /\ Len(q) > 0
  BY <1>1, <1>2 DEF TypeInv
<1>5. \A ops : ~Has(todo'[t], ops) /\ ~First(todo'[t], ops)
  BY <1>4, EmptyHas DEF First
<1>6. \A u \in Tasks : Ordered(todo'[u])
  <2>1. Ordered(<<>>)
    BY EmptyHas DEF Ordered, Chain
  <2> QED
    BY <1>4, <2>1 DEF TelemetryInv
<1>7. q[1] \notin Pushes \cup {<<"request">>, <<"status", "failure">>, <<"judge_failure">>}
  BY <1>2, OpsApart DEF Awaits, Others
<1>8. Has(q, Answers)
  <2>1. Has(q, Awaits)
    BY <1>2, <1>4 DEF Has
  <2> QED
    BY <1>1, <2>1 DEF Ordered
<1>9. ~Has(q, {<<"request">>})
  <2>1. Follow(q, Tail(q))
    BY <1>1, <1>4, RestFollows
  <2> QED
    BY <1>7, <2>1 DEF Follow
<1>10. ~First(q, Pushes) /\ ~First(q, {<<"status", "failure">>}) /\ ~First(q, {<<"judge_failure">>})
  BY <1>7 DEF First
<1>11. ~Timed(todo'[t])
  BY <1>5 DEF Timed
<1> HIDE DEF q
<1>12. Counted(todo) /\ Counted(todo')
  BY <1>4, TurnHolding, TurnAtHead, TurnTimed DEF Counted
<1>13. \A ops : Cardinality(Holding(todo', ops)) + One(Has(q, ops))
                  = Cardinality(Holding(todo, ops)) + One(Has(todo'[t], ops))
  BY <1>4, TurnHolding DEF q
<1>14. \A ops : Cardinality(AtHead(todo', ops)) + One(First(q, ops))
                  = Cardinality(AtHead(todo, ops)) + One(First(todo'[t], ops))
  BY <1>4, TurnAtHead DEF q
<1>15. Cardinality(AllTimed(todo')) + One(Timed(q)) = Cardinality(AllTimed(todo)) + One(Timed(todo'[t]))
  BY <1>4, TurnTimed DEF q
<1>16. Cardinality(Holding(todo', Answers)) + 1 = Cardinality(Holding(todo, Answers))
  BY <1>5, <1>8, <1>12, <1>13 DEF One, Counted
<1>17. Cardinality(Holding(todo', {<<"request">>})) = Cardinality(Holding(todo, {<<"request">>}))
  BY <1>5, <1>9, <1>12, <1>13 DEF One, Counted
<1>18. ASSUME NEW ops \in {{<<"status", "failure">>}, {<<"judge_failure">>}, Pushes}
       PROVE  Cardinality(AtHead(todo', ops)) = Cardinality(AtHead(todo, ops))
  <2>1. Cardinality(AtHead(todo, ops)) \in Nat /\ Cardinality(AtHead(todo', ops)) \in Nat
    BY <1>12, Zenon DEF Counted
  <2>2. ~First(todo'[t], ops) /\ ~First(q, ops)
    BY <1>5, <1>10
  <2> QED
    BY <2>1, <2>2, <1>14 DEF One
<1>19. Cardinality(AllTimed(todo')) <= Cardinality(AllTimed(todo))
  BY <1>11, <1>12, <1>15 DEF One, Counted
<1>20. TypeInv'
  <2>1. attempt \in [Tasks -> 0 .. MaxAttempts] /\ 0 \in 0 .. MaxAttempts
    BY <1>1, TelemetryAssumption DEF TypeInv
  <2>2. attempt' \in [Tasks -> 0 .. MaxAttempts]
    BY <1>2, <2>1
  <2> QED
    BY <1>1, <1>2, <1>3, <1>4, <2>2 DEF TypeInv
<1>21. CausesFirst'
  <2>1. /\ Cardinality(AtHead(todo', {<<"status", "failure">>}))
             = Cardinality(AtHead(todo, {<<"status", "failure">>}))
        /\ Cardinality(AtHead(todo', {<<"judge_failure">>}))
             = Cardinality(AtHead(todo, {<<"judge_failure">>}))
    BY <1>18
  <2> DEFINE T == Cardinality(AllTimed(todo))
             U == Cardinality(AllTimed(todo'))
  <2>2. /\ T \in Nat /\ U \in Nat /\ U <= T /\ statuses["upstream"] \in Nat
        /\ latency_count \in Nat /\ statuses["upstream"] + T <= latency_count
    BY <1>1, <1>12, <1>19 DEF Counted, TypeInv, Origins, CausesFirst
  <2> HIDE DEF T, U
  <2>3. statuses["upstream"] + U <= latency_count
    BY <2>2
  <2> QED
    BY <1>1, <1>3, <2>1, <2>3, Zenon DEF CausesFirst, U
<1>22. Balanced'
  <2> DEFINE sum == statuses["upstream"] + statuses["failure"] + statuses["plain"]
             A == Cardinality(Holding(todo, Answers))
             B == Cardinality(Holding(todo', Answers))
  <2>4. A \in Nat /\ B \in Nat /\ B + 1 = A
    BY <1>12, <1>16, Zenon DEF Counted
  <2>5. /\ statuses["upstream"] \in Nat /\ statuses["failure"] \in Nat /\ statuses["plain"] \in Nat
        /\ lost \in Nat /\ lost' = lost + 1
    BY <1>1, <1>2 DEF TypeInv, Origins
  <2>1. /\ A \in Nat /\ B \in Nat /\ B + 1 = A /\ lost \in Nat /\ lost' = lost + 1
        /\ sum \in Nat
    BY <2>4, <2>5
  <2> HIDE DEF A, B
  <2>2. sum + B + lost' = sum + A + lost
    <3> HIDE DEF sum
    <3> QED
      BY <2>1
  <2>3. Cardinality(AtHead(todo', Pushes)) = Cardinality(AtHead(todo, Pushes))
    BY <1>18
  <2> QED
    BY <1>1, <1>2, <1>3, <1>17, <2>2, <2>3, Zenon DEF Balanced, A, B, sum
<1>23. RetriesLeft'
  <2> DEFINE L == Cardinality(Left(attempt))
             M == Cardinality(Left(attempt'))
             bound == jobs * (MaxAttempts - 1)
  <2>1. attempt'[t] = 0 /\ \A u \in Tasks \ {t} : attempt'[u] = attempt[u]
    BY <1>1, <1>2 DEF TypeInv
  <2>2. M <= L
    BY <2>1, LeftEnds
  <2>3. L \in Nat /\ M \in Nat
    BY LeftFinite
  <2>4. retries \in Nat /\ jobs \in Nat /\ MaxAttempts - 1 \in Nat
    BY <1>1, TelemetryAssumption DEF TypeInv
  <2>5. retries + L <= bound /\ retries' = retries /\ jobs' = jobs
    BY <1>1, <1>2 DEF RetriesLeft
  <2>6. bound \in Nat
    BY <2>4
  <2> HIDE DEF L, M, bound
  <2>7. retries' + M <= bound
    BY <2>2, <2>3, <2>4, <2>5, <2>6
  <2> QED
    BY <2>5, <2>7, Zenon DEF RetriesLeft, M, bound
<1>24. ReportInv'
  <2>1. ReportOK(report[t], todo[t], failures, errors)
    BY DEF TelemetryInv, ReportInv
  <2>2. ReportOK(report[t], todo'[t], failures, errors)
    BY <1>5, <2>1, Zenon DEF ReportOK
  <2> QED
    BY <1>2, <1>4, <2>2, SetsOutReports
<1> QED
  BY <1>6, <1>20, <1>21, <1>22, <1>23, <1>24 DEF TelemetryInv

-----------------------------------------------------------------------------
(* The induction *)

\* Nothing has been counted and nothing is to be counted.
LEMMA InvInit == Init => TelemetryInv
<1> SUFFICES ASSUME Init PROVE TelemetryInv
  OBVIOUS
<1>1. TypeInv
  <2>1. NoReport \in Reports
    BY DEF NoReport, Reports
  <2>2. Fresh \in Health
    BY ThresholdAssumption DEF Fresh, Health
  <2> QED
    BY <2>1, <2>2, TelemetryAssumption DEF Init, TypeInv, Origins
<1>2. \A t \in Tasks : Ordered(todo[t])
  BY EmptyHas DEF Init, Ordered, Chain
<1>3. \A t \in Tasks : todo[t] = <<>>
  BY DEF Init
<1>4. \A ops : Holding(todo, ops) = {} /\ AtHead(todo, ops) = {}
  BY <1>3, EmptyHas DEF Holding, AtHead, First
<1>5. AllTimed(todo) = {}
  BY <1>3, EmptyHas DEF AllTimed, Timed
<1>6. Left(attempt) = {}
  BY TelemetryAssumption DEF Left, Init
<1>7. Cardinality({}) = 0
  BY FS_EmptySet
<1>8. CausesFirst
  <2>1. ~Struck(health) /\ health.consecutive_failures = 0
    BY DEF Init, Fresh, Struck
  <2>2. statuses["failure"] = 0 /\ statuses["upstream"] = 0 /\ errors = 0 /\ failures = 0
        /\ latency_count = 0
    BY DEF Init, Origins
  <2>3. 0 + 0 <= 0
    OBVIOUS
  <2> QED
    BY <1>4, <1>5, <1>7, <2>1, <2>2, <2>3, Zenon DEF CausesFirst
<1>9. Balanced
  <2>1. statuses["failure"] = 0 /\ statuses["upstream"] = 0 /\ statuses["plain"] = 0
        /\ request_count = 0 /\ retries = 0 /\ lost = 0 /\ transitions = 0 /\ Len(pushed) = 0
    BY DEF Init, Origins
  <2>2. 0 + 0 + 0 + 0 + 0 = 0 + 0 + 0 /\ 0 + 0 = 0
    OBVIOUS
  <2>3. Latest(ring, pushed)
    BY TelemetryAssumption DEF Init, Latest
  <2> QED
    BY <1>4, <1>7, <2>1, <2>2, <2>3, Zenon DEF Balanced
<1>10. RetriesLeft
  <2>1. retries = 0 /\ jobs = 0
    BY DEF Init
  <2>2. 0 + 0 <= 0 * (MaxAttempts - 1)
    BY TelemetryAssumption
  <2> QED
    BY <1>6, <1>7, <2>1, <2>2, Zenon DEF RetriesLeft
<1>11. ReportInv
  <2>1. \A t \in Tasks : report[t] = NoReport
    BY DEF Init
  <2>2. /\ NoReport \in Reports /\ NoReport.answered = 0 /\ NoReport.complete = FALSE
        /\ NoReport.offered = TRUE
    BY DEF NoReport, Reports
  <2>3. 0 <= errors
    BY DEF Init
  <2>4. \A t \in Tasks : ReportOK(NoReport, todo[t], failures, errors)
    BY <2>2, <2>3, Zenon DEF ReportOK
  <2> QED
    BY <2>1, <2>4 DEF ReportInv
<1> QED
  BY <1>1, <1>2, <1>8, <1>9, <1>10, <1>11 DEF TelemetryInv

\* A step that leaves all but the record alone, and strikes nothing.
LEMMA ClockKeeps ==
    ASSUME TelemetryInv,
           UNCHANGED <<todo, attempt, body, jobs, retries, lost, counters, log, report>>,
           health' \in Health, health'.consecutive_failures = health.consecutive_failures,
           Struck(health') => Struck(health)
    PROVE  TelemetryInv'
<1>1. TypeInv'
  BY DEF TelemetryInv, TypeInv, counters, log
<1>2. \A t \in Tasks : Ordered(todo'[t])
  BY DEF TelemetryInv
<1>3. CausesFirst'
  BY Zenon DEF TelemetryInv, CausesFirst, counters
<1>4. Balanced' /\ RetriesLeft' /\ ReportInv'
  BY Zenon DEF TelemetryInv, Balanced, RetriesLeft, ReportInv, counters, log
<1> QED
  BY <1>1, <1>2, <1>3, <1>4 DEF TelemetryInv

\* One case for each action.
LEMMA InvStep == TelemetryInv /\ [Next]_vars => TelemetryInv'
<1> SUFFICES ASSUME TelemetryInv, [Next]_vars PROVE TelemetryInv'
  OBVIOUS
<1>1. ASSUME NEW t \in Tasks, AnswerInternally(t) PROVE TelemetryInv'
  <2>1. PICK ops \in Internal :
          Begin(t, << <<"request">> >> \o ops \o << <<"status", "plain">> >>, 0)
    BY <1>1 DEF AnswerInternally
  <2>2. Program(<< <<"request">> >> \o ops \o << <<"status", "plain">> >>, TRUE, TRUE, TRUE)
    BY InternalPrograms
  <2> QED
    BY <2>1, <2>2, BeginKeeps
<1>2. ASSUME NEW t \in Tasks, Refuse(t) PROVE TelemetryInv'
  <2>1. PICK ops \in {<<>>, << <<"poll">> >>, << <<"buffer">> >>,
                     << <<"poll">>, <<"buffer">> >>, << <<"buffer">>, <<"poll">> >>} :
          Begin(t, << <<"request">> >> \o ops \o ProxyFailure, 0)
    BY <1>2 DEF Refuse
  <2>2. Program(<< <<"request">> >> \o ops \o ProxyFailure, TRUE, TRUE, FALSE)
    BY RefusePrograms
  <2> QED
    BY <2>1, <2>2, BeginKeeps
<1>3. ASSUME NEW t \in Tasks, Forward(t) PROVE TelemetryInv'
  <2>1. PICK ops \in Forwarded, before \in {Repeatable} \cup Once, tries \in {0, 1} :
          Begin(t, before \o ops, tries)
    BY <1>3 DEF Forward
  <2>2. Program(before \o ops, TRUE, TRUE, FALSE)
    BY ForwardPrograms
  <2> QED
    BY <2>1, <2>2, BeginKeeps
<1>4. ASSUME NEW t \in Tasks, ActiveCheck(t) PROVE TelemetryInv'
  <2>1. PICK ops \in {Success, Failure} : Begin(t, ops, 0)
    BY <1>4 DEF ActiveCheck
  <2>2. Program(ops, FALSE, FALSE, FALSE)
    BY ResultPrograms
  <2> QED
    BY <2>1, <2>2, BeginKeeps
<1>5. ASSUME EjectionExpires PROVE TelemetryInv'
  <2>1. health \in Health
    BY DEF TelemetryInv, TypeInv
  <2> QED
    BY <1>5, <2>1, ExpireStrikes, ClockKeeps DEF EjectionExpires
<1>6. ASSUME UNCHANGED vars PROVE TelemetryInv'
  <2>1. health \in Health
    BY DEF TelemetryInv, TypeInv
  <2> QED
    BY <1>6, <2>1, ClockKeeps DEF vars
<1> QED
  BY <1>1, <1>2, <1>3, <1>4, <1>5, <1>6, RetryKeeps, BodyFailsKeeps, ClientGoneKeeps,
     CountersKeep, BufferKeeps, JudgesKeep, PushKeeps, PollKeeps, ScrapeKeeps
  DEF Next

\* In every behaviour the counters are in step with the tasks that write them.
LEMMA TelemetryInStep == Spec => []TelemetryInv
BY InvInit, InvStep, PTL DEF Spec

-----------------------------------------------------------------------------
(* The theorems *)

\* TypeOK: the counters, the record and the ring keep their types, and
\* forward_with_retries retries at most MaxAttempts - 1 times per request.
THEOREM TelemetryTypeCorrect == Spec => []TypeOK
<1>1. TelemetryInv => TypeOK
  <2> SUFFICES ASSUME TelemetryInv PROVE TypeOK
    OBVIOUS
  <2>1. TypeInv /\ RetriesLeft
    BY DEF TelemetryInv
  <2>2. \A i \in DOMAIN ring : ring[i] \in Reasons
    BY <2>1 DEF TypeInv
  <2>3. retries <= MaxJobs * (MaxAttempts - 1)
    <3>1. PICK n \in Nat : n = MaxAttempts - 1
      BY TelemetryAssumption
    <3>2. PICK m \in Nat : m = MaxJobs - jobs
      BY <2>1, TelemetryAssumption DEF TypeInv
    <3>3. jobs \in Nat /\ MaxJobs = jobs + m
      BY <2>1, <3>2, TelemetryAssumption DEF TypeInv
    <3>4. MaxJobs * n = jobs * n + m * n /\ m * n \in Nat /\ jobs * n \in Nat
      BY <3>1, <3>2, <3>3
    <3>5. Cardinality(Left(attempt)) \in Nat /\ retries \in Nat
      BY <2>1, LeftFinite DEF TypeInv
    <3>6. retries + Cardinality(Left(attempt)) <= jobs * n
      BY <2>1, <3>1 DEF RetriesLeft
    <3>7. retries <= jobs * n
      BY <3>4, <3>5, <3>6
    <3>8. retries <= MaxJobs * n
      BY <3>4, <3>5, <3>7
    <3> QED
      BY <3>1, <3>8
  <2>4. MaxJobs * (MaxAttempts - 1) \in Nat
    BY TelemetryAssumption
  <2>5. retries \in 0 .. MaxJobs * (MaxAttempts - 1)
    BY <2>1, <2>3, <2>4 DEF TypeInv
  <2>6. \A n \in {lost, request_count, latency_count, failures, errors, transitions} : n \in Nat
    BY <2>1 DEF TypeInv
  <2> QED
    BY <2>1, <2>2, <2>5, <2>6, Zenon DEF TypeOK, TypeInv
<1> QED
  BY <1>1, TelemetryInStep, PTL

\* ErrorsExplainResponses: record_proxy_error runs before complete_request and
\* render_prometheus loads the errors after the statuses, so no scrape shows a
\* response of the proxy's own without its error, whatever runs in between.
THEOREM ErrorsAlwaysExplain == Spec => []ErrorsExplainResponses
<1>1. TelemetryInv => ErrorsExplainResponses
  BY Zenon DEF TelemetryInv, ReportInv, ReportOK, ErrorsExplainResponses
<1> QED
  BY <1>1, TelemetryInStep, PTL

\* DownIsExplained: record_failure counts the failure before it judges it, and
\* metrics_response looks at the backends before it loads the counters, so a
\* scrape that shows the backend down shows at least FailureThreshold failures.
THEOREM DownAlwaysExplained == Spec => []DownIsExplained
<1>1. TelemetryInv => DownIsExplained
  BY Zenon DEF TelemetryInv, ReportInv, ReportOK, DownIsExplained
<1> QED
  BY <1>1, TelemetryInStep, PTL

\* ResponsesAccounted: complete_request runs once in every attempt whose client
\* stays, so what ferrum_proxy_responses_total has counted and is still to count
\* comes to the requests, and the retries, less the attempts whose handler was
\* dropped at an await; and record_upstream_latency has run for every response of
\* an upstream.
THEOREM ResponsesAlwaysAccounted == Spec => []ResponsesAccounted
<1>1. TelemetryInv => ResponsesAccounted
  <2> SUFFICES ASSUME TelemetryInv PROVE ResponsesAccounted
    OBVIOUS
  <2>1. TypeInv /\ Balanced /\ CausesFirst
    BY DEF TelemetryInv
  <2>2. \A t \in Tasks : DOMAIN todo[t] = 1 .. Len(todo[t])
    BY <2>1 DEF TypeInv
  <2>3. \A ops : Pending(ops) = Cardinality(Holding(todo, ops))
    BY <2>2, Zenon DEF Pending, Holding, Has
  <2>4. IsFiniteSet(AllTimed(todo))
    <3>1. AllTimed(todo) \subseteq Tasks
      BY DEF AllTimed
    <3> QED
      BY <3>1, FS_Subset, TelemetryAssumption
  <2>5. Cardinality(AllTimed(todo)) \in Nat
    BY <2>4, FS_CardinalityType
  <2>6. statuses["upstream"] \in Nat /\ latency_count \in Nat
    BY <2>1 DEF TypeInv, Origins
  <2>7. statuses["upstream"] + Cardinality(AllTimed(todo)) <= latency_count
    BY <2>1 DEF CausesFirst
  <2>8. statuses["upstream"] <= latency_count
    BY <2>5, <2>6, <2>7
  <2> QED
    BY <2>1, <2>3, <2>8, Zenon DEF Balanced, ResponsesAccounted
<1> QED
  BY <1>1, TelemetryInStep, PTL

\* RingExact: record_health_transition counts a transition and then, under the
\* lock, drops the oldest entry of a full ring and pushes the new one, so the ring
\* is always the end of the history of the transitions pushed, of MAX_TRANSITIONS
\* or of all of them, and every transition counted is pushed or about to be.
THEOREM RingAlwaysExact == Spec => []RingExact
<1>1. TelemetryInv => RingExact
  <2> SUFFICES ASSUME TelemetryInv PROVE RingExact
    OBVIOUS
  <2>1. TypeInv /\ Balanced
    BY DEF TelemetryInv
  <2>2. \A t \in Tasks : ~Idle(t) <=> Len(todo[t]) > 0
    BY <2>1 DEF TypeInv, Idle
  <2>3. {t \in Tasks : ~Idle(t) /\ todo[t][1] \in {<<"push", r>> : r \in Reasons}}
          = AtHead(todo, Pushes)
    BY <2>2, Zenon DEF AtHead, First, Pushes
  <2> QED
    BY <2>1, <2>3, Zenon DEF Balanced, RingExact
<1> QED
  BY <1>1, TelemetryInStep, PTL
=============================================================================
