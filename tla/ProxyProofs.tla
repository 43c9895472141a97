----------------------------- MODULE ProxyProofs -----------------------------
(***************************************************************************)
(* Proofs about Proxy, for every pool, configuration and set of requests.  *)
(*                                                                         *)
(* The argument has two halves.  Of the health records, AllSound is the    *)
(* inductive invariant: no call of the health manager strands a record or  *)
(* lets the failures of a healthy one reach the threshold.  It gives       *)
(* NoneStranded and, as every call moves a sound record's circuit the way  *)
(* the breaker moves, the refinement of CircuitBreaker.                    *)
(*                                                                         *)
(* Of the requests, RequestInv is: it ties a request's stage to its sends, *)
(* its attempts and the backends it has tried, and the permits to the      *)
(* requests that are buffering.  The balancer's choice comes in through    *)
(* SelectedIsEligible: what it picks is a backend not yet tried; that it   *)
(* takes turns is arithmetic, RoundRobinTakesTurns.  RequestInv also gives *)
(* WindsDown: StepsLeft, a measure of what is before a request, falls with *)
(* every change of it.                                                     *)
(***************************************************************************)
EXTENDS Proxy, Integers, FiniteSetTheorems, WellFoundedInduction, TLAPS

-----------------------------------------------------------------------------
(* One record *)

\* A counter that is bumped stays within its limit.
LEMMA BumpType ==
    ASSUME NEW limit \in Nat, NEW count \in 0 .. limit
    PROVE  /\ Bump(count, limit) \in 0 .. limit
           /\ count < limit => Bump(count, limit) = count + 1
BY DEF Bump

\* A record that is not stranded, and whose failures in a row, while it is
\* healthy, are still fewer than the threshold.
Sound(h) ==
    /\ h \in Health
    /\ h.healthy \/ h.ejected_until # "none" \/ h.probing
    /\ h.healthy => h.consecutive_failures < FailureThreshold

\* Where a call of the health manager leaves a record: every field that matters,
\* case by case, as the nested updates of the definitions give it.
LEMMA SuccessFields ==
    ASSUME NEW h \in Health
    PROVE  LET d == RecordSuccess(h)
           IN  /\ d \in Health
               /\ d.consecutive_failures = 0
               /\ d.ejected_until = h.ejected_until
               /\ \/ d.healthy /\ ~d.probing
                  \/ d.healthy = h.healthy /\ ~h.probing /\ ~d.probing
<1> USE DEF Health
<1>1. /\ Bump(h.consecutive_successes, RecoveryThreshold) \in 0 .. RecoveryThreshold
      /\ 0 \in 0 .. RecoveryThreshold /\ 0 \in 0 .. FailureThreshold
  BY ThresholdAssumption, BumpType
<1> QED
  BY <1>1, Zenon DEF RecordSuccess, Restore

\* A failure at the threshold ejects a healthy record, in a half-open one it
\* ejects at once, and otherwise it only counts.
LEMMA FailureFields ==
    ASSUME NEW h \in Health
    PROVE  LET d == RecordFailure(h)
               bumped == Bump(h.consecutive_failures, FailureThreshold)
           IN  /\ d \in Health
               /\ \/ /\ h.probing
                     /\ d.ejected_until = "running" /\ ~d.probing
                     /\ d.healthy = h.healthy
                     /\ d.consecutive_failures = h.consecutive_failures
                  \/ /\ ~h.probing /\ h.healthy /\ bumped >= FailureThreshold
                     /\ d.ejected_until = "running" /\ ~d.probing /\ ~d.healthy
                  \/ /\ ~h.probing /\ ~(h.healthy /\ bumped >= FailureThreshold)
                     /\ d.ejected_until = h.ejected_until
                     /\ ~d.probing /\ d.healthy = h.healthy
                     /\ d.consecutive_failures = bumped
<1> USE DEF Health
<1>1. /\ Bump(h.consecutive_failures, FailureThreshold) \in 0 .. FailureThreshold
      /\ 0 \in 0 .. RecoveryThreshold /\ 0 \in 0 .. FailureThreshold
  BY ThresholdAssumption, BumpType
<1> QED
  BY <1>1, Zenon DEF RecordFailure, Eject

\* A poll turns a record whose window has passed half-open and no other.
LEMMA PollFields ==
    ASSUME NEW h \in Health
    PROVE  LET d == PollEjection(h)
           IN  /\ d \in Health
               /\ d.healthy = h.healthy
               /\ d.consecutive_failures = h.consecutive_failures
               /\ \/ h.ejected_until # "expired" /\ d = h
                  \/ h.ejected_until = "expired" /\ d.ejected_until = "none" /\ d.probing
BY Zenon DEF PollEjection, Health

\* The clock only ends a window that is running.
LEMMA ExpireFields ==
    ASSUME NEW h \in Health
    PROVE  LET d == Expire(h)
           IN  /\ d \in Health
               /\ d.healthy = h.healthy
               /\ d.probing = h.probing
               /\ d.consecutive_failures = h.consecutive_failures
               /\ d.ejected_until = "expired"
BY Zenon DEF Expire, Health

\* Every whole call of the health manager, and the clock, keep a record sound.
LEMMA SoundStays ==
    ASSUME NEW h, Sound(h)
    PROVE  /\ Sound(RecordSuccess(h))
           /\ Sound(RecordFailure(h))
           /\ Sound(PollEjection(h))
           /\ Sound(Expire(h))
<1>1. h \in Health /\ h.consecutive_failures \in 0 .. FailureThreshold
  BY DEF Sound, Health
<1>2. Sound(RecordSuccess(h))
  BY <1>1, SuccessFields, ThresholdAssumption DEF Sound
<1>3. Sound(RecordFailure(h))
  <2>1. Bump(h.consecutive_failures, FailureThreshold) \in 0 .. FailureThreshold
    BY <1>1, BumpType, ThresholdAssumption
  <2> QED
    BY <1>1, <2>1, FailureFields, ThresholdAssumption DEF Sound
<1>4. Sound(PollEjection(h))
  BY <1>1, PollFields DEF Sound
<1>5. Sound(Expire(h))
  BY <1>1, ExpireFields DEF Sound
<1> QED
  BY <1>2, <1>3, <1>4, <1>5

\* The circuit of a sound record: open while it is ejected, half-open while it is
\* probed, closed otherwise.
LEMMA CircuitFields ==
    ASSUME NEW h, Sound(h)
    PROVE  /\ h.ejected_until = "running" => AsCircuit(h) = Breaker!Open(FALSE)
           /\ h.ejected_until = "expired" => AsCircuit(h) = Breaker!Open(TRUE)
           /\ h.ejected_until = "none" /\ h.probing => AsCircuit(h) = Breaker!Probed
           /\ h.ejected_until = "none" /\ ~h.probing =>
                AsCircuit(h) = Breaker!Closed(h.consecutive_failures)
BY DEF Sound, AsCircuit, CircuitState, Breaker!Open, Breaker!Probed, Breaker!Closed,
       Breaker!Circuit

\* The circuit stays as it is or makes a step of the breaker.
Moves(h, d) ==
    AsCircuit(d) = AsCircuit(h) \/ Breaker!Step(AsCircuit(h), AsCircuit(d))

\* Whatever is recorded for a backend, its circuit moves as a breaker's does.
LEMMA CircuitMoves ==
    ASSUME NEW h, Sound(h)
    PROVE  /\ Moves(h, RecordSuccess(h))
           /\ Moves(h, RecordFailure(h))
           /\ Moves(h, PollEjection(h))
           /\ h.ejected_until = "running" => Moves(h, Expire(h))
<1> USE DEF Moves, Breaker!Step, Breaker!CountFailure, Breaker!Trip, Breaker!ForgetFailures,
        Breaker!WindowEnds, Breaker!Extend, Breaker!HalfOpen, Breaker!Close, Breaker!Reopen
<1>1. /\ h \in Health
      /\ h.consecutive_failures \in 0 .. FailureThreshold
      /\ h.consecutive_failures \in Nat
      /\ h.ejected_until \in {"none", "running", "expired"}
  BY ThresholdAssumption DEF Sound, Health
<1>2. Moves(h, RecordSuccess(h))
  <2>1. /\ Sound(RecordSuccess(h))
        /\ RecordSuccess(h).consecutive_failures = 0
        /\ RecordSuccess(h).ejected_until = h.ejected_until
        /\ ~RecordSuccess(h).probing
    BY <1>1, SoundStays, SuccessFields
  <2>2. CASE h.ejected_until # "none"
    BY <1>1, <2>1, <2>2, CircuitFields
  <2>3. CASE h.ejected_until = "none" /\ h.probing
    <3>1. AsCircuit(RecordSuccess(h)) = Breaker!Closed(0)
      BY <2>1, <2>3, CircuitFields
    <3> QED
      BY <2>3, <3>1, CircuitFields
  <2>4. CASE h.ejected_until = "none" /\ ~h.probing
    <3>1. h.consecutive_failures \in 0 .. FailureThreshold - 1
      BY <1>1, <2>4, ThresholdAssumption DEF Sound
    <3>2. /\ AsCircuit(h) = Breaker!Closed(h.consecutive_failures)
          /\ AsCircuit(RecordSuccess(h)) = Breaker!Closed(0)
      BY <2>1, <2>4, CircuitFields
    <3> QED
      BY <3>1, <3>2
  <2> QED
    BY <2>2, <2>3, <2>4
<1>3. Moves(h, RecordFailure(h))
  <2> DEFINE bumped == Bump(h.consecutive_failures, FailureThreshold)
  <2>1. Sound(RecordFailure(h)) /\ ~RecordFailure(h).probing
    BY <1>1, SoundStays, FailureFields
  <2>2. CASE h.probing
    <3>1. AsCircuit(RecordFailure(h)) = Breaker!Open(FALSE)
      BY <1>1, <2>1, <2>2, FailureFields, CircuitFields
    <3> QED
      BY <1>1, <2>2, <3>1, CircuitFields
  <2>3. CASE ~h.probing /\ h.healthy /\ bumped >= FailureThreshold
    <3>1. AsCircuit(RecordFailure(h)) = Breaker!Open(FALSE)
      BY <1>1, <2>1, <2>3, FailureFields, CircuitFields
    <3>2. h.consecutive_failures = FailureThreshold - 1
      BY <1>1, <2>3, ThresholdAssumption DEF Sound, Bump
    <3>3. AsCircuit(h) \in {Breaker!Closed(FailureThreshold - 1),
                             Breaker!Open(TRUE), Breaker!Open(FALSE)}
      BY <1>1, <2>3, <3>2, CircuitFields
    <3> QED
      BY <3>1, <3>3
  <2>4. CASE ~h.probing /\ ~(h.healthy /\ bumped >= FailureThreshold)
    <3>1. /\ RecordFailure(h).ejected_until = h.ejected_until
          /\ RecordFailure(h).consecutive_failures = bumped
      BY <1>1, <2>4, FailureFields
    <3>2. CASE h.ejected_until = "none"
      <4>1. /\ bumped = h.consecutive_failures + 1
            /\ h.consecutive_failures \in 0 .. FailureThreshold - 2
        BY <1>1, <2>4, <3>2, ThresholdAssumption DEF Sound, Bump
      <4>2. /\ AsCircuit(h) = Breaker!Closed(h.consecutive_failures)
            /\ AsCircuit(RecordFailure(h)) = Breaker!Closed(h.consecutive_failures + 1)
        BY <2>1, <2>4, <3>1, <3>2, <4>1, CircuitFields
      <4> QED
        BY <4>1, <4>2
    <3>3. CASE h.ejected_until # "none"
      BY <1>1, <2>1, <3>1, <3>3, CircuitFields
    <3> QED
      BY <3>2, <3>3
  <2> QED
    BY <2>2, <2>3, <2>4
<1>4. Moves(h, PollEjection(h))
  <2>1. CASE h.ejected_until # "expired"
    BY <1>1, <2>1, PollFields
  <2>2. CASE h.ejected_until = "expired"
    <3>1. AsCircuit(PollEjection(h)) = Breaker!Probed
      BY <1>1, <2>2, PollFields, SoundStays, CircuitFields
    <3> QED
      BY <2>2, <3>1, CircuitFields
  <2> QED
    BY <2>1, <2>2
<1>5. ASSUME h.ejected_until = "running" PROVE Moves(h, Expire(h))
  <2>1. AsCircuit(Expire(h)) = Breaker!Open(TRUE)
    BY <1>1, ExpireFields, SoundStays, CircuitFields
  <2> QED
    BY <1>5, <2>1, CircuitFields
<1> QED
  BY <1>2, <1>3, <1>4, <1>5

-----------------------------------------------------------------------------
(* All records *)

\* The inductive invariant of the health records.
AllSound ==
    /\ health = [b \in Backends |-> health[b]]
    /\ \A b \in Backends : Sound(health[b])

\* What one step of the proxy does to the record h of a backend.
Recorded(h, d) ==
    \/ d \in {h, RecordSuccess(h), RecordFailure(h), PollEjection(h)}
    \/ h.ejected_until = "running" /\ d = Expire(h)

\* Every step calls the health manager at most once for each backend.
LEMMA StepRecords ==
    ASSUME AllSound, [Next]_vars
    PROVE  /\ health' = [b \in Backends |-> health'[b]]
           /\ \A b \in Backends : Recorded(health[b], health'[b])
<1> USE DEF AllSound, Recorded
<1>1. CASE health' = health
  BY <1>1
<1>2. CASE health' = Polled
  BY <1>2 DEF Polled
<1>3. ASSUME NEW b,
             \/ health' = [health EXCEPT ![b] = RecordSuccess(@)]
             \/ health' = [health EXCEPT ![b] = RecordFailure(@)]
      PROVE  /\ health' = [a \in Backends |-> health'[a]]
             /\ \A a \in Backends : Recorded(health[a], health'[a])
  BY <1>3
<1>4. ASSUME NEW b \in Backends, EjectionExpires(b)
      PROVE  /\ health' = [a \in Backends |-> health'[a]]
             /\ \A a \in Backends : Recorded(health[a], health'[a])
  BY <1>4 DEF EjectionExpires
<1>5. ASSUME NEW r \in Requests, Progress(r)
      PROVE  \/ health' = health
             \/ health' = Polled
             \/ health' = [health EXCEPT ![req[r].backend] = RecordSuccess(@)]
             \/ health' = [health EXCEPT ![req[r].backend] = RecordFailure(@)]
  <2>1. CASE SelectOnce(r) \/ Attempt(r)
    BY <2>1 DEF SelectOnce, Attempt
  <2>2. CASE UpstreamReturns(r)
    BY <2>2 DEF UpstreamReturns
  <2>3. CASE \/ Acquire(r) \/ AcquireFails(r) \/ BufferDone(r) \/ BufferFails(r)
             \/ AttemptTooLate(r) \/ BackoffEnds(r)
    BY <2>3 DEF Acquire, AcquireFails, BufferDone, BufferFails, AttemptTooLate, BackoffEnds
  <2> QED
    BY <1>5, <2>1, <2>2, <2>3 DEF Progress
<1>6. CASE Environment
  <2>1. CASE \E b \in Backends : ActiveCheck(b)
    BY <1>3, <2>1 DEF ActiveCheck
  <2>2. CASE \E r \in Requests : StreamFails(r)
    BY <1>3, <2>2 DEF StreamFails
  <2>3. CASE \E r \in Requests : \/ Arrive(r) \/ AnswerAtOnce(r) \/ BudgetSpent(r)
                                \/ StreamEnds(r) \/ ClientGone(r)
    BY <1>1, <2>3 DEF Arrive, AnswerAtOnce, BudgetSpent, StreamEnds, ClientGone
  <2> QED
    BY <1>4, <1>6, <2>1, <2>2, <2>3 DEF Environment
<1> QED
  BY <1>1, <1>2, <1>3, <1>5, <1>6 DEF Next, vars

\* Every record is sound, for any pool, any requests and any thresholds.
LEMMA RecordsSound == Spec => []AllSound
<1>1. Init => AllSound
  BY ThresholdAssumption DEF Init, AllSound, Sound, Fresh, Health
<1>2. AllSound /\ [Next]_vars => AllSound'
  BY StepRecords, SoundStays DEF AllSound, Recorded
<1> QED
  BY <1>1, <1>2, PTL DEF Spec

\* No backend is stranded: each is healthy, ejected or half-open, however
\* requests, late body errors and active checks interleave.
THEOREM NeverStranded == Spec => []NoneStranded
<1>1. AllSound => NoneStranded
  BY DEF AllSound, Sound, NoneStranded
<1> QED
  BY <1>1, RecordsSound, PTL

\* The records of the proxy's backends implement circuit breakers: a breaker
\* opens at the FailureThreshold-th failure in a row and no other, and closes
\* only after a window that has passed and a result in the half-open state.
THEOREM ProxyImplementsBreaker == Spec => ActsAsBreaker
<1>1. Init => Breaker!Init
  <2>1. AsCircuit(Fresh) = Breaker!Closed(0)
    BY DEF AsCircuit, CircuitState, Fresh, Breaker!Closed, Breaker!Circuit
  <2> QED
    BY <2>1 DEF Init, Breaker!Init
<1>2. AllSound /\ [Next]_vars
        => [Breaker!Next]_([b \in Backends |-> AsCircuit(health[b])])
  <2> SUFFICES ASSUME AllSound, [Next]_vars PROVE Breaker!Next
    OBVIOUS
  <2>1. ASSUME NEW b \in Backends PROVE Moves(health[b], health'[b])
    BY StepRecords, CircuitMoves DEF AllSound, Recorded, Moves
  <2> QED
    BY <2>1 DEF Breaker!Next, Moves
<1> QED
  BY <1>1, <1>2, RecordsSound, PTL DEF Spec, ActsAsBreaker, Breaker!Spec

-----------------------------------------------------------------------------
(* The choice of a backend *)

\* A set of natural numbers that is not empty has a least element.
LEMMA LeastNat ==
    ASSUME NEW S \in SUBSET Nat, S # {}
    PROVE  \E n \in S : \A m \in S : n <= m
<1>1. PICK n \in S : \A m \in S : ~(<<m, n>> \in OpToRel(<, Nat))
  BY NatLessThanWellFounded, WFMin
<1>2. ASSUME NEW m \in S, m < n PROVE FALSE
  BY <1>1, <1>2 DEF OpToRel
<1> QED
  BY <1>2

\* In a finite set of numbers each place below its size is taken: the rank of
\* its elements runs through 0 .. Cardinality(S) - 1.
LEMMA NthExists ==
    ASSUME NEW S \in SUBSET Nat, IsFiniteSet(S)
    PROVE  \A n \in Nat :
             n < Cardinality(S) => \E i \in S : Cardinality({j \in S : j < i}) = n
<1> DEFINE Rank(i) == Cardinality({j \in S : j < i})
           Bad == {n \in Nat : n < Cardinality(S) /\ \A i \in S : Rank(i) # n}
<1> SUFFICES ASSUME Bad # {} PROVE FALSE
  OBVIOUS
<1>1. PICK n \in Bad : \A m \in Bad : n <= m
  <2>1. Bad \in SUBSET Nat
    OBVIOUS
  <2> HIDE DEF Bad
  <2> QED
    BY <2>1, LeastNat
<1>2. Cardinality(S) \in Nat /\ n \in Nat /\ n < Cardinality(S)
  BY FS_CardinalityType
\* The least number that is not a rank is 0, or the rank of some i is one less;
\* in both cases the least element beyond has it.
<1>3. PICK T \in SUBSET S :
        /\ Cardinality(T) = n
        /\ \A i \in S \ T : \A j \in T : j < i
  <2>1. CASE n = 0
    BY <2>1, FS_EmptySet
  <2>2. CASE n # 0
    <3>1. n - 1 \in Nat /\ n - 1 \notin Bad /\ n - 1 < Cardinality(S)
      BY <1>1, <1>2, <2>2
    <3>2. PICK i \in S : Rank(i) = n - 1
      BY <3>1
    <3> DEFINE B == {j \in S : j < i}
    <3>3. IsFiniteSet(B) /\ i \notin B /\ Cardinality(B) = n - 1
      BY <3>2, FS_Subset
    <3>4. Cardinality(B \cup {i}) = n
      <4> HIDE DEF B
      <4>1. Cardinality(B \cup {i}) = (n - 1) + 1
        BY <3>3, FS_AddElement
      <4> QED
        BY <1>2, <4>1
    <3> QED
      BY <3>4
  <2> QED
    BY <2>1, <2>2
<1>4. S \ T # {}
  <2>1. T # S
    BY <1>2, <1>3
  <2> QED
    BY <2>1
<1>5. PICK i \in S \ T : \A j \in S \ T : i <= j
  BY <1>4, LeastNat
<1>6. {j \in S : j < i} = T
  <2>1. ASSUME NEW j \in S PROVE j < i <=> j \in T
    BY <1>3, <1>5
  <2> QED
    BY <2>1
<1> QED
  BY <1>3, <1>6

\* RouteBalancer::select picks a member of the list it is given.
LEMMA SelectedIsEligible ==
    ASSUME NEW excluded, Eligible(excluded) # {}, counter \in Nat
    PROVE  LET b == Selected(Eligible(excluded))
           IN  b \in Backends /\ b \notin excluded /\ Offered(Polled[b])
<1> DEFINE eligible == Eligible(excluded)
           n == IF Balancing = "round_robin" THEN counter % Cardinality(eligible) ELSE 0
<1>1. /\ eligible \subseteq 1 .. Len(Pool)
      /\ Len(Pool) \in Nat
      /\ DOMAIN Pool = 1 .. Len(Pool)
  BY ProxyAssumption DEF Eligible
<1>2. IsFiniteSet(eligible) /\ eligible \in SUBSET Nat
  <2>1. IsFiniteSet(1 .. Len(Pool))
    BY <1>1, FS_Interval
  <2> HIDE DEF eligible
  <2>2. IsFiniteSet(eligible)
    BY <1>1, <2>1, FS_Subset
  <2>3. eligible \in SUBSET Nat
    BY <1>1
  <2> QED
    BY <2>2, <2>3
<1>3. Cardinality(eligible) \in Nat \ {0}
  BY <1>2, FS_CardinalityType, FS_EmptySet
<1>4. n \in Nat /\ n < Cardinality(eligible)
  <2> HIDE DEF eligible
  <2> QED
    BY <1>3
<1>5. \E i \in eligible : Cardinality({j \in eligible : j < i}) = n
  <2> HIDE DEF eligible, n
  <2> QED
    BY <1>2, <1>4, NthExists
<1>6. Nth(eligible, n) \in eligible
  <2> HIDE DEF eligible, n
  <2> QED
    BY <1>5 DEF Nth
<1>7. Selected(eligible) = Pool[Nth(eligible, n)]
  BY DEF Selected, Choice
<1>8. Pool[Nth(eligible, n)] \in Backends
  BY <1>1, <1>6 DEF Backends, Range
<1> QED
  BY <1>6, <1>7, <1>8 DEF Eligible

\* The rank of a number in a finite set of numbers.
Rank(S, i) == Cardinality({j \in S : j < i})

\* Ranks are below the size of the set, and a greater number has a greater rank.
LEMMA RankOrder ==
    ASSUME NEW S \in SUBSET Nat, IsFiniteSet(S)
    PROVE  /\ \A i \in S : Rank(S, i) \in Nat /\ Rank(S, i) < Cardinality(S)
           /\ \A i, j \in S : i < j => Rank(S, i) < Rank(S, j)
<1>1. Cardinality(S) \in Nat
  BY FS_CardinalityType
<1>2. ASSUME NEW i \in S
      PROVE  /\ IsFiniteSet({j \in S : j < i})
             /\ Rank(S, i) \in Nat
             /\ i \notin {j \in S : j < i}
  <2> DEFINE B == {j \in S : j < i}
  <2>1. B \subseteq S /\ i \notin B
    OBVIOUS
  <2> HIDE DEF B
  <2>2. IsFiniteSet(B) /\ Cardinality(B) \in Nat
    BY <2>1, FS_Subset, FS_CardinalityType
  <2> QED
    BY <2>1, <2>2 DEF Rank, B
<1>3. ASSUME NEW i \in S, NEW T \in SUBSET S, i \in T, \A j \in S : j < i => j \in T
      PROVE  Rank(S, i) < Cardinality(T)
  <2> DEFINE B == {j \in S : j < i}
  <2>1. B \cup {i} \subseteq T
    BY <1>3
  <2>2. IsFiniteSet(B) /\ i \notin B /\ Cardinality(B) \in Nat /\ Rank(S, i) = Cardinality(B)
    BY <1>2 DEF Rank
  <2> HIDE DEF B
  <2>3. Cardinality(B \cup {i}) = Cardinality(B) + 1
    BY <2>2, FS_AddElement
  <2>4. IsFiniteSet(T) /\ Cardinality(T) \in Nat
    BY <1>3, FS_Subset, FS_CardinalityType
  <2>5. Cardinality(B \cup {i}) <= Cardinality(T)
    BY <2>1, <2>4, FS_Subset
  <2> QED
    BY <2>2, <2>3, <2>4, <2>5
<1>4. ASSUME NEW i \in S PROVE Rank(S, i) < Cardinality(S)
  BY <1>3
<1>5. ASSUME NEW i \in S, NEW j \in S, i < j PROVE Rank(S, i) < Rank(S, j)
  <2> DEFINE T == {k \in S : k < j}
  <2>1. T \in SUBSET S /\ i \in T /\ \A k \in S : k < i => k \in T
    BY <1>5
  <2>2. Rank(S, j) = Cardinality(T)
    BY DEF Rank
  <2> HIDE DEF T
  <2> QED
    BY <1>3, <2>1, <2>2
<1> QED
  BY <1>2, <1>4, <1>5

\* The place that n others come before is the one of rank n.
LEMMA NthIs ==
    ASSUME NEW S \in SUBSET Nat, IsFiniteSet(S), NEW i \in S,
           NEW n \in Nat, n < Cardinality(S)
    PROVE  Nth(S, n) = i <=> Rank(S, i) = n
<1>1. \E j \in S : Rank(S, j) = n
  BY NthExists DEF Rank
<1>2. Nth(S, n) \in S /\ Rank(S, Nth(S, n)) = n
  BY <1>1 DEF Nth, Rank
<1>3. ASSUME NEW j \in S, Rank(S, i) = Rank(S, j) PROVE i = j
  <2>1. ~(i < j) /\ ~(j < i)
    BY <1>3, RankOrder
  <2> QED
    BY <2>1
<1> QED
  BY <1>2, <1>3

-----------------------------------------------------------------------------
(* The turns of round robin *)

\* A number is its quotient's share and its remainder.
LEMMA DivMod ==
    ASSUME NEW a \in Nat, NEW n \in Nat \ {0}
    PROVE  /\ a = n * (a \div n) + (a % n)
           /\ a \div n \in Nat /\ a % n \in 0 .. n - 1
OBVIOUS

\* The only multiple of n between -n and n is 0.
LEMMA SmallMultiple ==
    ASSUME NEW n \in Nat \ {0}, NEW d \in Int, n * d < n, -n < n * d
    PROVE  d = 0
<1>1. d >= 1 => n * d >= n
  OBVIOUS
<1>2. d <= -1 => n * d <= -n
  OBVIOUS
<1> QED
  BY <1>1, <1>2

\* A remainder is the only one.
LEMMA RemainderIs ==
    ASSUME NEW n \in Nat \ {0}, NEW q \in Nat, NEW x \in 0 .. n - 1
    PROVE  (n * q + x) % n = x
<1> DEFINE a == n * q + x
           p == a \div n
           y == a % n
<1>1. a \in Nat
  OBVIOUS
<1>2. a = n * p + y /\ p \in Nat /\ y \in 0 .. n - 1
  <2> HIDE DEF a
  <2> QED
    BY <1>1, DivMod
<1>3. n * q + x = n * p + y
  BY <1>2
<1> HIDE DEF p, y
<1>4. n * (q - p) = n * q - n * p
  BY <1>2
<1>5. n * (q - p) = y - x
  BY <1>2, <1>3, <1>4
<1>6. n * (q - p) < n /\ -n < n * (q - p)
  BY <1>2, <1>5
<1>7. q - p = 0
  <2> DEFINE d == q - p
  <2>1. d \in Int /\ n * d < n /\ -n < n * d
    BY <1>2, <1>6
  <2> HIDE DEF d
  <2>2. d = 0
    BY <2>1, SmallMultiple
  <2> QED
    BY <2>2 DEF d
<1>8. n * (q - p) = 0
  BY <1>7
<1>9. y = x
  BY <1>2, <1>5, <1>8
<1> QED
  BY <1>9 DEF y

\* A counter kept modulo a multiple of n is the same modulo n.
LEMMA ModuloMultiple ==
    ASSUME NEW n \in Nat \ {0}, NEW m \in Nat \ {0}, m % n = 0, NEW c \in Nat
    PROVE  (c % m) % n = c % n
<1> DEFINE s == m \div n
           q == c \div m
           r == c % m
           t == r \div n
           x == r % n
<1>1. m = n * s /\ s \in Nat
  BY DivMod
<1>2. c = m * q + r /\ q \in Nat /\ r \in Nat
  BY DivMod
<1>3. r = n * t + x /\ t \in Nat /\ x \in 0 .. n - 1
  <2> HIDE DEF r
  <2> QED
    BY <1>2, DivMod
<1> HIDE DEF s, q, r, t, x
<1>4. m * q = n * (s * q)
  BY <1>1, <1>2
<1>5. s * q \in Nat
  BY <1>1, <1>2
<1>6. n * (s * q + t) = n * (s * q) + n * t
  BY <1>3, <1>5
<1>7. c = n * (s * q + t) + x
  BY <1>2, <1>3, <1>4, <1>6
<1>8. s * q + t \in Nat
  BY <1>3, <1>5
<1>9. c % n = x
  <2> DEFINE u == s * q + t
  <2>1. u \in Nat /\ c = n * u + x
    BY <1>7, <1>8
  <2> HIDE DEF u
  <2> QED
    BY <1>3, <2>1, RemainderIs
<1> QED
  BY <1>9 DEF x, r

\* x is the remainder of exactly one of the n counts from c on.
OnceIn(n, c, x) ==
    \E k \in 0 .. n - 1 : \A l \in 0 .. n - 1 : (c + l) % n = x <=> l = k

\* Among n counts in a row each remainder comes up once.
LEMMA Rotation ==
    ASSUME NEW n \in Nat \ {0}, NEW c \in Nat, NEW x \in 0 .. n - 1
    PROVE  OnceIn(n, c, x)
<1> DEFINE q == c \div n
           r == c % n
<1>1. c = n * q + r /\ q \in Nat /\ r \in 0 .. n - 1
  BY DivMod
<1> HIDE DEF q, r
<1>2. ASSUME NEW l \in 0 .. n - 1
      PROVE  (c + l) % n = IF r + l < n THEN r + l ELSE r + l - n
  <2>1. CASE r + l < n
    <3>1. c + l = n * q + (r + l) /\ r + l \in 0 .. n - 1
      BY <1>1, <2>1
    <3>2. (n * q + (r + l)) % n = r + l
      BY <1>1, <3>1, RemainderIs
    <3> QED
      BY <2>1, <3>1, <3>2
  <2>2. CASE ~(r + l < n)
    <3>1. r + l - n \in 0 .. n - 1
      BY <1>1, <2>2
    <3>2. n * (q + 1) = n * q + n
      BY <1>1
    <3>3. c + l = n * (q + 1) + (r + l - n)
      BY <1>1, <3>2
    <3>4. (n * (q + 1) + (r + l - n)) % n = r + l - n
      <4>1. q + 1 \in Nat
        BY <1>1
      <4> QED
        BY <3>1, <4>1, RemainderIs
    <3> QED
      BY <2>2, <3>3, <3>4
  <2> QED
    BY <2>1, <2>2
<1> DEFINE k == IF x >= r THEN x - r ELSE x - r + n
<1>3. k \in 0 .. n - 1
  BY <1>1
<1>4. ASSUME NEW l \in 0 .. n - 1
      PROVE  (IF r + l < n THEN r + l ELSE r + l - n) = x <=> l = k
  BY <1>1
<1>5. \A l \in 0 .. n - 1 : (c + l) % n = x <=> l = k
  <2> HIDE DEF k
  <2> QED
    BY <1>2, <1>4
<1> QED
  BY <1>3, <1>5 DEF OnceIn

\* RouteBalancer::select takes turns: while the list of eligible backends stays
\* the same, each of them is selected exactly once among as many selections in a
\* row as the list is long, wherever the counter stands.  The counter is kept
\* modulo CounterPeriod, a multiple of every length; the AtomicU64 of the code
\* wraps at 2^64, where a length that is no power of two may skip some turns.
THEOREM RoundRobinTakesTurns ==
    ASSUME Balancing = "round_robin",
           NEW eligible \in SUBSET DOMAIN Pool, NEW i \in eligible,
           NEW c \in 0 .. CounterPeriod - 1
    PROVE  LET n == Cardinality(eligible)
           IN  \E k \in 0 .. n - 1 : \A l \in 0 .. n - 1 :
                   Choice(eligible, (c + l) % CounterPeriod) = i <=> l = k
<1> DEFINE n == Cardinality(eligible)
           x == Rank(eligible, i)
<1>1. /\ eligible \in SUBSET Nat /\ IsFiniteSet(eligible)
      /\ n \in 1 .. Len(Pool)
  <2>1. Len(Pool) \in Nat /\ DOMAIN Pool = 1 .. Len(Pool)
    BY ProxyAssumption
  <2>2. IsFiniteSet(1 .. Len(Pool)) /\ Cardinality(1 .. Len(Pool)) = Len(Pool)
    <3> DEFINE size == Len(Pool)
    <3>1. size \in Nat
      BY <2>1
    <3> HIDE DEF size
    <3>2. IsFiniteSet(1 .. size) /\ Cardinality(1 .. size) = size
      BY <3>1, FS_Interval
    <3> QED
      BY <3>2 DEF size
  <2>3. IsFiniteSet(eligible) /\ n <= Len(Pool)
    BY <2>1, <2>2, FS_Subset
  <2>4. n \in Nat /\ n # 0
    BY <2>3, FS_CardinalityType, FS_EmptySet
  <2>5. eligible \in SUBSET Nat
    BY <2>1
  <2> QED
    BY <2>1, <2>3, <2>4, <2>5
<1>2. n \in Nat \ {0} /\ CounterPeriod \in Nat \ {0} /\ CounterPeriod % n = 0 /\ c \in Nat
  <2>1. CounterPeriod \in Nat \ {0} /\ \A m \in 1 .. Len(Pool) : CounterPeriod % m = 0
    BY ProxyAssumption
  <2>2. Len(Pool) \in Nat
    BY ProxyAssumption
  <2> HIDE DEF n
  <2> QED
    BY <1>1, <2>1, <2>2
<1>3. x \in 0 .. n - 1
  <2>1. x \in Nat /\ x < n
    BY <1>1, RankOrder
  <2> HIDE DEF x, n
  <2> QED
    BY <1>2, <2>1
<1>4. ASSUME NEW l \in 0 .. n - 1
      PROVE  Choice(eligible, (c + l) % CounterPeriod) = i <=> (c + l) % n = x
  <2>1. c + l \in Nat
    <3> HIDE DEF n
    <3> QED
      BY <1>2, <1>4
  <2> DEFINE m == (c + l) % n
  <2>2. ((c + l) % CounterPeriod) % n = m
    <3> DEFINE a == c + l
    <3>1. a \in Nat
      BY <2>1
    <3>2. m = a % n
      OBVIOUS
    <3> HIDE DEF a, n, m
    <3>3. (a % CounterPeriod) % n = m
      BY <1>2, <3>1, <3>2, ModuloMultiple
    <3> QED
      BY <3>3 DEF a
  <2>3. Choice(eligible, (c + l) % CounterPeriod) = Nth(eligible, m)
    <3> HIDE DEF m
    <3> QED
      BY <2>2 DEF Choice
  <2>4. m \in Nat /\ m < n
    <3> HIDE DEF n
    <3> QED
      BY <1>2, <2>1, DivMod
  <2>5. Nth(eligible, m) = i <=> Rank(eligible, i) = m
    <3> HIDE DEF m
    <3> QED
      BY <1>1, <2>4, NthIs
  <2> QED
    BY <2>3, <2>5
<1>5. OnceIn(n, c, x)
  <2> HIDE DEF n, x
  <2> QED
    BY <1>2, <1>3, Rotation
<1> QED
  <2> HIDE DEF x
  <2> QED
    BY <1>4, <1>5 DEF OnceIn

-----------------------------------------------------------------------------
(* Requests and permits *)

\* What a request's stage says of its backend, its attempts and its sends.
RequestOK(q) ==
    /\ q.stage = "idle" => q.attempted = {}
    /\ q.stage \in {"idle", "select", "acquire", "buffering"} => q.sends = 0
    /\ q.stage = "select" => ~Retryable(q.method)
    /\ q.stage \in {"acquire", "buffering"} /\ ~Retryable(q.method) => q.backend \in Backends
    /\ q.stage \in {"forwarding", "streaming"} => q.backend \in Backends
    /\ q.stage = "attempt" => Retryable(q.method) /\ q.sends < q.attempt
    /\ q.stage = "backoff" => Retryable(q.method) /\ q.attempt < max_attempts
    /\ IsFiniteSet(q.attempted)
    /\ Retryable(q.method) => q.sends <= q.attempt /\ q.sends = Cardinality(q.attempted)
    /\ ~Retryable(q.method) => q.sends <= 1

\* The requests that hold a permit.
Buffering == {r \in Requests : req[r].stage = "buffering"}

\* The inductive invariant of the requests, the semaphore and the counter.
RequestInv ==
    /\ max_attempts \in 1 .. MaxAttempts
    /\ req \in [Requests -> Request]
    /\ \A r \in Requests : RequestOK(req[r])
    /\ permits \in Nat
    /\ PermitsConserved
    /\ counter \in 0 .. CounterPeriod - 1

\* The requests that hold a permit can be counted.
LEMMA BufferingFinite ==
    /\ IsFiniteSet(Buffering)
    /\ Cardinality(Buffering) \in Nat
<1>1. Buffering \subseteq Requests
  BY DEF Buffering
<1>2. IsFiniteSet(Buffering)
  BY <1>1, ProxyAssumption, FS_Subset
<1> QED
  BY <1>2, FS_CardinalityType

\* A step of request r to q keeps the invariant if q is in order and a permit
\* goes with every change of the set of requests that are buffering.
LEMMA RequestTurn ==
    ASSUME RequestInv, NEW r \in Requests, NEW q \in Request, RequestOK(q),
           req' = [req EXCEPT ![r] = q],
           max_attempts' = max_attempts,
           counter' \in 0 .. CounterPeriod - 1,
           \/ /\ req[r].stage = "buffering" <=> q.stage = "buffering"
              /\ permits' = permits
           \/ /\ req[r].stage # "buffering" /\ q.stage = "buffering"
              /\ permits > 0 /\ permits' = permits - 1
           \/ /\ req[r].stage = "buffering" /\ q.stage # "buffering"
              /\ permits' = permits + 1
    PROVE  RequestInv'
<1> USE DEF RequestInv
<1>1. req' \in [Requests -> Request]'
  BY DEF Request
<1>2. \A s \in Requests : RequestOK(req[s])'
  <2> SUFFICES ASSUME NEW s \in Requests PROVE RequestOK(req[s])'
    OBVIOUS
  <2>1. req'[s] = IF s = r THEN q ELSE req[s]
    OBVIOUS
  <2> QED
    BY <2>1 DEF RequestOK, Retryable
<1>3. permits' \in Nat /\ PermitsConserved'
  <2>1. /\ permits + Cardinality(Buffering) = MaxBufferedBodies
        /\ PermitsConserved' <=> permits' + Cardinality(Buffering') = MaxBufferedBodies
    BY DEF PermitsConserved, Buffering
  <2>2. CASE /\ req[r].stage = "buffering" <=> q.stage = "buffering"
             /\ permits' = permits
    <3>1. Buffering' = Buffering
      BY <2>2 DEF Buffering
    <3> QED
      BY <2>1, <2>2, <3>1
  <2>3. CASE /\ req[r].stage # "buffering" /\ q.stage = "buffering"
             /\ permits > 0 /\ permits' = permits - 1
    <3>1. Buffering' = Buffering \cup {r} /\ r \notin Buffering
      BY <2>3 DEF Buffering
    <3>2. Cardinality(Buffering') = Cardinality(Buffering) + 1
      BY <3>1, BufferingFinite, FS_AddElement
    <3> QED
      BY <2>1, <2>3, <3>2, BufferingFinite
  <2>4. CASE /\ req[r].stage = "buffering" /\ q.stage # "buffering"
             /\ permits' = permits + 1
    <3>1. Buffering' = Buffering \ {r} /\ r \in Buffering
      BY <2>4 DEF Buffering
    <3>2. Cardinality(Buffering') = Cardinality(Buffering) - 1
      BY <3>1, BufferingFinite, FS_RemoveElement
    <3> QED
      BY <2>1, <2>4, <3>2, BufferingFinite
  <2> QED
    BY <2>2, <2>3, <2>4
<1> QED
  BY <1>1, <1>2, <1>3

\* A request that only moves to another stage, goes to its n-th attempt, or
\* arrives.
Staged(q, stage) == [q EXCEPT !.stage = stage]
Again(q, n) == [q EXCEPT !.stage = "attempt", !.attempt = n]
Admitted(q, m, stage) == [q EXCEPT !.method = m, !.stage = stage]

\* A request that moves to another stage keeps everything else.
LEMMA StagedFields ==
    ASSUME NEW q \in Request, NEW stage \in Stages
    PROVE  /\ Staged(q, stage) \in Request
           /\ Staged(q, stage).stage = stage
           /\ Staged(q, stage).method = q.method
           /\ Staged(q, stage).backend = q.backend
           /\ Staged(q, stage).attempted = q.attempted
           /\ Staged(q, stage).attempt = q.attempt
           /\ Staged(q, stage).spent = q.spent
           /\ Staged(q, stage).sends = q.sends
BY Zenon DEF Staged, Request

\* A request that goes to its n-th attempt keeps what it has tried and sent.
LEMMA AgainFields ==
    ASSUME NEW q \in Request, NEW n \in 1 .. max_attempts
    PROVE  /\ Again(q, n) \in Request
           /\ Again(q, n).stage = "attempt"
           /\ Again(q, n).method = q.method
           /\ Again(q, n).attempted = q.attempted
           /\ Again(q, n).attempt = n
           /\ Again(q, n).spent = q.spent
           /\ Again(q, n).sends = q.sends
BY Zenon DEF Again, Request, Stages

\* A request that arrives has tried and sent what it had: nothing.
LEMMA AdmittedFields ==
    ASSUME NEW q \in Request, NEW m \in Methods, NEW stage \in Stages
    PROVE  /\ Admitted(q, m, stage) \in Request
           /\ Admitted(q, m, stage).stage = stage
           /\ Admitted(q, m, stage).method = m
           /\ Admitted(q, m, stage).attempted = q.attempted
           /\ Admitted(q, m, stage).attempt = q.attempt
           /\ Admitted(q, m, stage).spent = q.spent
           /\ Admitted(q, m, stage).sends = q.sends
BY Zenon DEF Admitted, Request

\* The moves of a request that keep it in order.
LEMMA StagedOK ==
    ASSUME NEW q \in Request, RequestOK(q), NEW stage \in Stages,
           \/ stage \in {"over", "gone"}
           \/ stage = "streaming" /\ q.backend \in Backends
           \/ stage = "buffering" /\ q.stage = "acquire"
           \/ stage = "attempt" /\ q.stage = "buffering" /\ Retryable(q.method)
           \/ stage = "backoff" /\ Retryable(q.method) /\ q.attempt < max_attempts
    PROVE  /\ Staged(q, stage) \in Request
           /\ RequestOK(Staged(q, stage))
           /\ Staged(q, stage).stage = stage
<1>1. q.attempt \in 1 .. max_attempts
  BY DEF Request
<1> QED
  BY <1>1, StagedFields DEF RequestOK

\* A request that is sent to b.
LEMMA SendFields ==
    ASSUME NEW q \in Request, NEW b \in Backends, NEW h
    PROVE  /\ Send(q, b, h) \in Request
           /\ Send(q, b, h).stage = "forwarding"
           /\ Send(q, b, h).method = q.method
           /\ Send(q, b, h).backend = b
           /\ Send(q, b, h).attempted = q.attempted
           /\ Send(q, b, h).attempt = q.attempt
           /\ Send(q, b, h).spent = q.spent
           /\ Send(q, b, h).sends = q.sends + 1
<1>1. q.sends + 1 \in Nat
  BY DEF Request
<1>2. HalfOpen(h) \in BOOLEAN
  BY DEF HalfOpen
<1> QED
  BY <1>1, <1>2, Zenon DEF Send, Request, Stages

\* A request of the retry loop that is sent to b has tried b as well.
LEMMA TryFields ==
    ASSUME NEW q \in Request, NEW b \in Backends, NEW h
    PROVE  /\ Try(q, b, h) \in Request
           /\ Try(q, b, h).stage = "forwarding"
           /\ Try(q, b, h).method = q.method
           /\ Try(q, b, h).backend = b
           /\ Try(q, b, h).attempted = q.attempted \cup {b}
           /\ Try(q, b, h).attempt = q.attempt
           /\ Try(q, b, h).spent = q.spent
           /\ Try(q, b, h).sends = q.sends + 1
<1>1. q.attempted \cup {b} \in SUBSET Backends
  BY DEF Request
<1>2. Send(q, b, h) \in Request
  BY SendFields
<1>3. /\ Try(q, b, h) \in Request
      /\ Try(q, b, h).stage = Send(q, b, h).stage
      /\ Try(q, b, h).method = Send(q, b, h).method
      /\ Try(q, b, h).backend = Send(q, b, h).backend
      /\ Try(q, b, h).attempted = q.attempted \cup {b}
      /\ Try(q, b, h).attempt = Send(q, b, h).attempt
      /\ Try(q, b, h).spent = Send(q, b, h).spent
      /\ Try(q, b, h).sends = Send(q, b, h).sends
  BY <1>1, <1>2, Zenon DEF Try, Request
<1> QED
  BY <1>3, SendFields

\* The requests, the permits and the counter keep RequestInv.
LEMMA RequestsInOrder == Spec => []RequestInv
<1>1. Init => RequestInv
  <2> SUFFICES ASSUME Init PROVE RequestInv
    OBVIOUS
  <2>1. Unborn \in Request /\ RequestOK(Unborn)
    BY FS_EmptySet DEF Init, Unborn, Request, RequestOK, Stages, Methods
  <2>2. Buffering = {}
    BY DEF Init, Unborn, Buffering
  <2>3. PermitsConserved
    <3>1. Cardinality(Buffering) = 0
      BY <2>2, FS_EmptySet
    <3> QED
      BY <3>1, ProxyAssumption DEF Init, PermitsConserved, Buffering
  <2> QED
    BY <2>1, <2>3, ProxyAssumption DEF Init, RequestInv
<1>2. RequestInv /\ [Next]_vars => RequestInv'
  <2> SUFFICES ASSUME RequestInv, [Next]_vars PROVE RequestInv'
    OBVIOUS
  <2> USE DEF RequestInv
  <2>1. ASSUME NEW r \in Requests, Progress(r) PROVE RequestInv'
    <3>1. /\ req[r] \in Request /\ RequestOK(req[r])
          /\ max_attempts' = max_attempts
          /\ max_attempts \in Nat /\ req[r].attempt \in 1 .. max_attempts
          /\ req[r].sends \in Nat
      BY <2>1, ProxyAssumption DEF Progress, Request
    <3>2. NextCounter \in 0 .. CounterPeriod - 1 /\ counter \in Nat
      BY ProxyAssumption DEF NextCounter
    <3>3. CASE Acquire(r)
      <4> DEFINE q == Staged(req[r], "buffering")
      <4>1. req' = [req EXCEPT ![r] = q]
        BY <3>3 DEF Acquire, Staged
      <4>2. q \in Request /\ RequestOK(q) /\ q.stage = "buffering"
        BY <3>1, <3>3, StagedOK DEF Acquire, Stages
      <4> QED
        BY <3>1, <3>3, <4>1, <4>2, RequestTurn DEF Acquire, Staged
    <3>4. CASE AcquireFails(r) \/ AttemptTooLate(r)
      <4> DEFINE q == Staged(req[r], "over")
      <4>1. req' = [req EXCEPT ![r] = q]
        BY <3>4 DEF AcquireFails, AttemptTooLate, Answer, Staged
      <4>2. q \in Request /\ RequestOK(q) /\ q.stage = "over"
        BY <3>1, <3>4, StagedOK DEF Stages
      <4> QED
        BY <3>1, <3>4, <4>1, <4>2, RequestTurn DEF AcquireFails, AttemptTooLate
    <3>5. CASE BufferDone(r)
      <4>1. CASE Retryable(req[r].method)
        <5> DEFINE q == Staged(req[r], "attempt")
        <5>1. req' = [req EXCEPT ![r] = q]
          BY <3>5, <4>1 DEF BufferDone, Staged
        <5>2. q \in Request /\ RequestOK(q) /\ q.stage = "attempt"
          BY <3>1, <3>5, <4>1, StagedOK DEF BufferDone, Stages
        <5> QED
          BY <3>1, <3>5, <5>1, <5>2, RequestTurn DEF BufferDone
      <4>2. CASE ~Retryable(req[r].method)
        <5> DEFINE q == Send(req[r], req[r].backend, health[req[r].backend])
        <5>1. req' = [req EXCEPT ![r] = q]
          BY <3>5, <4>2 DEF BufferDone
        <5>2. req[r].backend \in Backends
          BY <3>1, <3>5, <4>2 DEF BufferDone, RequestOK
        <5>3. q \in Request /\ RequestOK(q) /\ q.stage = "forwarding"
          BY <3>1, <3>5, <4>2, <5>2, SendFields DEF BufferDone, RequestOK
        <5> QED
          BY <3>1, <3>5, <5>1, <5>3, RequestTurn DEF BufferDone
      <4> QED
        BY <4>1, <4>2
    <3>6. CASE BufferFails(r)
      <4> DEFINE q == Staged(req[r], "over")
      <4>1. req' = [req EXCEPT ![r] = q]
        BY <3>6 DEF BufferFails, Answer, Staged
      <4>2. q \in Request /\ RequestOK(q) /\ q.stage = "over"
        BY <3>1, <3>6, StagedOK DEF Stages
      <4> QED
        BY <3>1, <3>6, <4>1, <4>2, RequestTurn DEF BufferFails
    <3>7. CASE SelectOnce(r)
      <4> DEFINE b == Selected(Eligible({}))
      <4>1. req[r].stage = "select" /\ permits' = permits
        BY <3>7 DEF SelectOnce
      <4>2. CASE Eligible({}) = {}
        <5> DEFINE q == Staged(req[r], "over")
        <5>1. req' = [req EXCEPT ![r] = q] /\ counter' = counter
          BY <3>7, <4>2 DEF SelectOnce, Answer, Staged
        <5>2. q \in Request /\ RequestOK(q) /\ q.stage = "over"
          BY <3>1, StagedOK DEF Stages
        <5> QED
          BY <3>1, <4>1, <5>1, <5>2, RequestTurn
      <4>3. CASE Eligible({}) # {}
        <5>1. b \in Backends /\ counter' = NextCounter
          BY <3>2, <3>7, <4>3, SelectedIsEligible DEF SelectOnce
        <5> HIDE DEF b
        <5>2. CASE Prebuffered(req[r].method)
          <6> DEFINE q == [req[r] EXCEPT !.stage = "acquire", !.backend = b]
          <6>1. req' = [req EXCEPT ![r] = q]
            BY <3>7, <4>3, <5>2 DEF SelectOnce, b
          <6>2. /\ q \in Request /\ q.stage = "acquire" /\ q.method = req[r].method
                /\ q.backend = b /\ q.attempted = req[r].attempted
                /\ q.attempt = req[r].attempt /\ q.sends = req[r].sends
            BY <3>1, <5>1, Zenon DEF Request, Stages
          <6>3. RequestOK(q)
            BY <3>1, <4>1, <5>1, <6>2 DEF RequestOK
          <6> QED
            BY <3>1, <3>2, <4>1, <5>1, <6>1, <6>2, <6>3, RequestTurn
        <5>3. CASE ~Prebuffered(req[r].method)
          <6> DEFINE q == Send(req[r], b, Polled[b])
          <6>1. req' = [req EXCEPT ![r] = q]
            BY <3>7, <4>3, <5>3 DEF SelectOnce, b
          <6>2. q \in Request /\ RequestOK(q) /\ q.stage = "forwarding"
            BY <3>1, <4>1, <5>1, SendFields DEF RequestOK
          <6> QED
            BY <3>1, <3>2, <4>1, <5>1, <6>1, <6>2, RequestTurn
        <5> QED
          BY <5>2, <5>3
      <4> QED
        BY <4>2, <4>3
    <3>8. CASE Attempt(r)
      <4> DEFINE b == Selected(Eligible(req[r].attempted))
      <4>1. req[r].stage = "attempt" /\ permits' = permits
        BY <3>8 DEF Attempt
      <4>2. CASE Eligible(req[r].attempted) = {}
        <5> DEFINE q == Staged(req[r], "over")
        <5>1. req' = [req EXCEPT ![r] = q] /\ counter' = counter
          BY <3>8, <4>2 DEF Attempt, Answer, Staged
        <5>2. q \in Request /\ RequestOK(q) /\ q.stage = "over"
          BY <3>1, StagedOK DEF Stages
        <5> QED
          BY <3>1, <4>1, <5>1, <5>2, RequestTurn
      <4>3. CASE Eligible(req[r].attempted) # {}
        <5>1. b \in Backends /\ b \notin req[r].attempted /\ counter' = NextCounter
          BY <3>2, <3>8, <4>3, SelectedIsEligible DEF Attempt
        <5> DEFINE q == Try(req[r], b, Polled[b])
        <5>2. req' = [req EXCEPT ![r] = q]
          BY <3>8, <4>3 DEF Attempt
        <5> HIDE DEF b
        <5>3. /\ q \in Request /\ q.stage = "forwarding"
              /\ q.method = req[r].method /\ q.backend = b
              /\ q.attempted = req[r].attempted \cup {b} /\ q.attempt = req[r].attempt
              /\ q.sends = req[r].sends + 1
          BY <3>1, <5>1, TryFields
        <5> HIDE DEF q
        <5>4. IsFiniteSet(req[r].attempted)
          BY <3>1 DEF RequestOK
        <5>5. /\ IsFiniteSet(req[r].attempted \cup {b})
              /\ Cardinality(req[r].attempted \cup {b}) = Cardinality(req[r].attempted) + 1
          BY <5>1, <5>4, FS_AddElement
        <5>6. RequestOK(q)
          BY <3>1, <4>1, <5>1, <5>3, <5>5 DEF RequestOK
        <5> QED
          BY <3>1, <3>2, <4>1, <5>1, <5>2, <5>3, <5>6, RequestTurn
      <4> QED
        BY <4>2, <4>3
    <3>9. CASE UpstreamReturns(r)
      <4>1. /\ req[r].stage = "forwarding" /\ permits' = permits /\ counter' = counter
        BY <3>9 DEF UpstreamReturns
      <4>2. \/ \E stage \in {"over", "streaming"} : req' = [req EXCEPT ![r].stage = stage]
            \/ /\ Retryable(req[r].method) /\ req[r].attempt < max_attempts
               /\ \/ req' = [req EXCEPT ![r].stage = "backoff"]
                  \/ req' = [req EXCEPT ![r].stage = "attempt", ![r].attempt = @ + 1]
        BY <3>1, <3>9 DEF UpstreamReturns, LastAttempt, Deliver
      <4>3. ASSUME NEW stage \in {"over", "streaming"}, req' = [req EXCEPT ![r].stage = stage]
            PROVE  RequestInv'
        <5> DEFINE q == Staged(req[r], stage)
        <5>1. q \in Request /\ RequestOK(q) /\ q.stage = stage
          BY <3>1, <4>1, StagedOK DEF Stages, RequestOK
        <5>2. req' = [req EXCEPT ![r] = q]
          BY <4>3 DEF Staged
        <5> QED
          BY <3>1, <4>1, <5>1, <5>2, RequestTurn
      <4>4. CASE /\ Retryable(req[r].method) /\ req[r].attempt < max_attempts
                 /\ req' = [req EXCEPT ![r].stage = "backoff"]
        <5> DEFINE q == Staged(req[r], "backoff")
        <5>1. q \in Request /\ RequestOK(q) /\ q.stage = "backoff"
          BY <3>1, <4>1, <4>4, StagedOK DEF Stages
        <5>2. req' = [req EXCEPT ![r] = q]
          BY <4>4 DEF Staged
        <5> QED
          BY <3>1, <4>1, <5>1, <5>2, RequestTurn
      <4>5. CASE /\ Retryable(req[r].method) /\ req[r].attempt < max_attempts
                 /\ req' = [req EXCEPT ![r].stage = "attempt", ![r].attempt = @ + 1]
        <5> DEFINE n == req[r].attempt + 1
                   q == Again(req[r], n)
        <5>1. n \in 1 .. max_attempts
          BY <3>1, <4>5
        <5>2. /\ q \in Request /\ q.stage = "attempt" /\ q.method = req[r].method
              /\ q.attempted = req[r].attempted /\ q.attempt = n
              /\ q.sends = req[r].sends
          BY <3>1, <5>1, AgainFields
        <5>3. req' = [req EXCEPT ![r] = q]
          BY <4>5 DEF Again
        <5>4. RequestOK(q)
          BY <3>1, <4>1, <4>5, <5>2 DEF RequestOK
        <5> QED
          BY <3>1, <4>1, <5>2, <5>3, <5>4, RequestTurn
      <4> QED
        BY <4>2, <4>3, <4>4, <4>5
    <3>10. CASE BackoffEnds(r)
      <4> DEFINE n == req[r].attempt + 1
                 q == Again(req[r], n)
      <4>1. /\ req[r].stage = "backoff" /\ permits' = permits /\ counter' = counter
            /\ req' = [req EXCEPT ![r] = q]
        BY <3>10 DEF BackoffEnds, Again
      <4>2. n \in 1 .. max_attempts /\ Retryable(req[r].method)
        BY <3>1, <4>1 DEF RequestOK
      <4>3. /\ q \in Request /\ q.stage = "attempt" /\ q.method = req[r].method
            /\ q.attempted = req[r].attempted /\ q.attempt = n
            /\ q.sends = req[r].sends
        BY <3>1, <4>2, AgainFields
      <4>4. RequestOK(q)
        BY <3>1, <4>1, <4>2, <4>3 DEF RequestOK
      <4> QED
        BY <3>1, <4>1, <4>3, <4>4, RequestTurn
    <3> QED
      BY <2>1, <3>3, <3>4, <3>5, <3>6, <3>7, <3>8, <3>9, <3>10 DEF Progress
  <2>2. ASSUME NEW r \in Requests, max_attempts' = max_attempts,
               \/ Arrive(r) \/ AnswerAtOnce(r) \/ BudgetSpent(r)
               \/ StreamEnds(r) \/ StreamFails(r) \/ ClientGone(r)
        PROVE  RequestInv'
    <3>1. /\ req[r] \in Request /\ RequestOK(req[r])
          /\ counter' = counter
          /\ req[r].attempt \in 1 .. max_attempts
      BY <2>2 DEF Request, Arrive, AnswerAtOnce, BudgetSpent, StreamEnds, StreamFails,
                  ClientGone
    <3>2. CASE Arrive(r)
      <4>1. PICK m \in Methods :
              req' = [req EXCEPT ![r].method = m,
                                 ![r].stage = IF Retryable(m) THEN "acquire" ELSE "select"]
        BY <3>2 DEF Arrive
      <4> DEFINE stage == IF Retryable(m) THEN "acquire" ELSE "select"
                 q == Admitted(req[r], m, stage)
      <4>2. req' = [req EXCEPT ![r] = q] /\ req[r].stage = "idle" /\ permits' = permits
        BY <3>2, <4>1 DEF Arrive, Admitted
      <4>3. stage \in Stages /\ stage \in {"acquire", "select"}
        BY DEF Stages
      <4>4. /\ q \in Request /\ q.stage = stage /\ q.method = m
            /\ q.attempted = req[r].attempted /\ q.attempt = req[r].attempt
            /\ q.sends = req[r].sends
        <5> HIDE DEF stage
        <5> QED
          BY <3>1, <4>3, AdmittedFields
      <4>5. req[r].attempted = {} /\ req[r].sends = 0
        BY <3>1, <4>2 DEF RequestOK
      <4>6. RequestOK(q)
        <5>1. IsFiniteSet({}) /\ Cardinality({}) = 0
          BY FS_EmptySet
        <5>2. /\ stage = "acquire" => Retryable(m)
              /\ stage = "select" => ~Retryable(m)
          OBVIOUS
        <5>3. q.attempted = {} /\ q.sends = 0 /\ q.method = m /\ q.stage = stage
          BY <4>4, <4>5
        <5>4. IsFiniteSet(q.attempted) /\ Cardinality(q.attempted) = 0 /\ q.attempt \in Nat
          BY <3>1, <4>4, <5>1, <5>3
        <5> HIDE DEF q, stage
        <5> QED
          BY <4>3, <5>2, <5>3, <5>4 DEF RequestOK
      <4> QED
        BY <2>2, <3>1, <4>2, <4>3, <4>4, <4>6, RequestTurn
    <3>3. CASE AnswerAtOnce(r) \/ StreamEnds(r) \/ StreamFails(r)
      <4> DEFINE q == Staged(req[r], "over")
      <4>1. req' = [req EXCEPT ![r] = q]
        BY <3>3 DEF AnswerAtOnce, StreamEnds, StreamFails, Answer, Staged
      <4>2. q \in Request /\ RequestOK(q) /\ q.stage = "over"
        BY <3>1, StagedOK DEF Stages
      <4> QED
        BY <2>2, <3>1, <3>3, <4>1, <4>2, RequestTurn
        DEF AnswerAtOnce, StreamEnds, StreamFails
    <3>4. CASE BudgetSpent(r)
      <4> DEFINE q == [req[r] EXCEPT !.spent = TRUE]
      <4>1. req' = [req EXCEPT ![r] = q]
        BY <3>4 DEF BudgetSpent
      <4>2. /\ q \in Request /\ q.stage = req[r].stage /\ q.method = req[r].method
            /\ q.backend = req[r].backend /\ q.attempted = req[r].attempted
            /\ q.attempt = req[r].attempt /\ q.sends = req[r].sends
        BY <3>1, Zenon DEF Request
      <4>3. RequestOK(q)
        BY <3>1, <4>2 DEF RequestOK
      <4> HIDE DEF q
      <4> QED
        BY <2>2, <3>1, <3>4, <4>1, <4>2, <4>3, RequestTurn DEF BudgetSpent
    <3>5. CASE ClientGone(r)
      <4> DEFINE q == Staged(req[r], "gone")
      <4>1. req' = [req EXCEPT ![r] = q]
        BY <3>5 DEF ClientGone, Staged
      <4>2. q \in Request /\ RequestOK(q) /\ q.stage = "gone"
        BY <3>1, StagedOK DEF Stages
      <4> HIDE DEF q
      <4> QED
        BY <2>2, <3>1, <3>5, <4>1, <4>2, RequestTurn DEF ClientGone
    <3> QED
      BY <2>2, <3>2, <3>3, <3>4, <3>5
  <2>3. CASE UNCHANGED <<max_attempts, req, permits, counter>>
    BY <2>3 DEF RequestOK, Retryable, PermitsConserved, Request
  <2> QED
    BY <2>1, <2>2, <2>3 DEF Next, Environment, ActiveCheck, EjectionExpires, vars
<1> QED
  BY <1>1, <1>2, PTL DEF Spec

-----------------------------------------------------------------------------
(* What the order of the requests and the soundness of the records give *)

\* TypeOK holds for every pool, every retry configuration and any number of
\* requests: the semaphore stays between zero and max_buffered_bodies and no
\* attempt passes max_attempts.
THEOREM ProxyTypeCorrect == Spec => []TypeOK
<1>1. RequestInv /\ AllSound => TypeOK
  <2> SUFFICES ASSUME RequestInv, AllSound PROVE TypeOK
    OBVIOUS
  <2>1. permits + Cardinality(Buffering) = MaxBufferedBodies /\ permits \in Nat
    BY DEF RequestInv, PermitsConserved, Buffering
  <2>2. permits \in 0 .. MaxBufferedBodies
    BY <2>1, BufferingFinite, ProxyAssumption
  <2> QED
    BY <2>2 DEF RequestInv, AllSound, Sound, TypeOK
<1> QED
  BY <1>1, RequestsInOrder, RecordsSound, PTL

\* No permit of the buffer semaphore is lost or made up, whichever way a request
\* that was buffering its body left.
THEOREM PermitsAlwaysConserved == Spec => []PermitsConserved
<1>1. RequestInv => PermitsConserved
  BY DEF RequestInv
<1> QED
  BY <1>1, RequestsInOrder, PTL

\* forward_with_retries sends a request at most max_attempts times, and one that
\* is not to be replayed at most once, for every max_attempts and every pool.
THEOREM SendsAlwaysBounded == Spec => []SendsBounded
<1>1. RequestInv => SendsBounded
  <2> SUFFICES ASSUME RequestInv, NEW r \in Requests
               PROVE  req[r].sends <= IF ReplayAllowed(req[r].method) THEN max_attempts ELSE 1
    BY DEF SendsBounded
  <2>1. /\ RequestOK(req[r])
        /\ req[r].sends \in Nat /\ req[r].attempt \in 1 .. max_attempts
        /\ max_attempts \in Nat \ {0}
    BY ProxyAssumption DEF RequestInv, Request
  <2> QED
    BY <2>1 DEF RequestOK, Retryable, ReplayAllowed
<1> QED
  BY <1>1, RequestsInOrder, PTL

\* select_backend never gives a replayed request a backend it has been sent to,
\* whatever the health manager learns between two attempts.
THEOREM NeverSameBackendTwice == Spec => []NoBackendTwice
<1>1. RequestInv => NoBackendTwice
  BY DEF RequestInv, RequestOK, NoBackendTwice
<1> QED
  BY <1>1, RequestsInOrder, PTL

-----------------------------------------------------------------------------
(* Every request winds down.  The retry loop is the one cycle a request can  *)
(* be on, and each turn of it uses up an attempt.                            *)

\* d is q one step nearer to its end: at a later stage of the same attempt, at
\* the next attempt, or out of budget.
Nearer(d, q) ==
    \/ /\ Ahead(d.stage) < Ahead(q.stage)
       /\ d.attempt = q.attempt /\ d.spent = q.spent
    \/ /\ q.stage \in {"forwarding", "backoff"} /\ d.stage = "attempt"
       /\ d.attempt = q.attempt + 1 /\ d.spent = q.spent
    \/ d.stage = q.stage /\ d.attempt = q.attempt /\ d.spent = TRUE /\ q.spent = FALSE

\* The stages are numbered.
LEMMA AheadType ==
    ASSUME NEW stage \in Stages
    PROVE  Ahead(stage) \in 0 .. 8
BY DEF Ahead, Stages

\* A request that is one step nearer to its end has fewer steps left.
LEMMA NearerLess ==
    ASSUME NEW d \in Request, NEW q \in Request, Nearer(d, q), max_attempts \in Nat \ {0}
    PROVE  StepsLeft(d) \in 0 .. StepsLeft(q) - 1
<1> DEFINE m == max_attempts
           more(x) == IF x THEN 0 ELSE 1
<1>1. /\ Ahead(d.stage) \in 0 .. 8 /\ Ahead(q.stage) \in 0 .. 8
      /\ m \in Nat /\ d.attempt \in 1 .. m /\ q.attempt \in 1 .. m
      /\ d.spent \in BOOLEAN /\ q.spent \in BOOLEAN
  BY AheadType DEF Request
<1>2. /\ q.stage = "forwarding" => Ahead(q.stage) = 3
      /\ q.stage = "backoff" => Ahead(q.stage) = 2
      /\ d.stage = "attempt" => Ahead(d.stage) = 4
  BY DEF Ahead
<1>3. \/ /\ Ahead(d.stage) < Ahead(q.stage)
         /\ d.attempt = q.attempt /\ more(d.spent) = more(q.spent)
      \/ /\ Ahead(q.stage) \in {2, 3} /\ Ahead(d.stage) = 4
         /\ d.attempt = q.attempt + 1 /\ more(d.spent) = more(q.spent)
      \/ /\ Ahead(d.stage) = Ahead(q.stage) /\ d.attempt = q.attempt
         /\ more(d.spent) = 0 /\ more(q.spent) = 1
  BY <1>2 DEF Nearer
<1>4. more(d.spent) \in {0, 1} /\ more(q.spent) \in {0, 1}
  OBVIOUS
<1>5. /\ StepsLeft(d) = 2 * (4 * (m - d.attempt) + Ahead(d.stage)) + more(d.spent)
      /\ StepsLeft(q) = 2 * (4 * (m - q.attempt) + Ahead(q.stage)) + more(q.spent)
  BY DEF StepsLeft
<1> HIDE DEF more, m
<1> QED
  BY <1>1, <1>3, <1>4, <1>5

\* A request that only moves to a later stage is nearer to its end.
LEMMA StagedNearer ==
    ASSUME NEW q \in Request, NEW stage \in Stages, Ahead(stage) < Ahead(q.stage)
    PROVE  Staged(q, stage) \in Request /\ Nearer(Staged(q, stage), q)
BY StagedFields DEF Nearer

\* Every step of a handler takes its request nearer to its end.
LEMMA ProgressNearer ==
    ASSUME RequestInv, NEW r \in Requests, Progress(r)
    PROVE  \E d \in Request : req' = [req EXCEPT ![r] = d] /\ Nearer(d, req[r])
<1> DEFINE q == req[r]
<1>1. /\ q \in Request /\ RequestOK(q) /\ q.attempt \in 1 .. max_attempts
      /\ max_attempts \in Nat /\ counter \in Nat
  BY ProxyAssumption DEF RequestInv, Request
<1>2. ASSUME NEW stage \in Stages, req' = [req EXCEPT ![r].stage = stage],
             Ahead(stage) < Ahead(q.stage)
      PROVE  \E d \in Request : req' = [req EXCEPT ![r] = d] /\ Nearer(d, req[r])
  <2>1. req' = [req EXCEPT ![r] = Staged(q, stage)]
    BY <1>2 DEF Staged
  <2> QED
    BY <1>1, <1>2, <2>1, StagedNearer
<1>3. ASSUME req' = [req EXCEPT ![r].stage = "attempt", ![r].attempt = @ + 1],
             q.stage \in {"forwarding", "backoff"}, q.attempt < max_attempts
      PROVE  \E d \in Request : req' = [req EXCEPT ![r] = d] /\ Nearer(d, req[r])
  <2> DEFINE n == q.attempt + 1
  <2>1. n \in 1 .. max_attempts
    BY <1>1, <1>3
  <2>2. Again(q, n) \in Request /\ Nearer(Again(q, n), q)
    BY <1>1, <1>3, <2>1, AgainFields DEF Nearer
  <2>3. req' = [req EXCEPT ![r] = Again(q, n)]
    BY <1>3 DEF Again
  <2> QED
    BY <2>2, <2>3
<1>4. ASSUME NEW b \in Backends, NEW h, q.stage \in {"select", "buffering", "attempt"}
      PROVE  /\ Send(q, b, h) \in Request /\ Nearer(Send(q, b, h), q)
             /\ Try(q, b, h) \in Request /\ Nearer(Try(q, b, h), q)
  <2>1. Ahead("forwarding") < Ahead(q.stage)
    BY <1>4 DEF Ahead
  <2> QED
    BY <1>1, <1>4, <2>1, SendFields, TryFields DEF Nearer
<1>5. CASE Acquire(r)
  <2>1. Ahead("buffering") < Ahead("acquire") /\ "buffering" \in Stages
    BY DEF Ahead, Stages
  <2> QED
    BY <1>2, <1>5, <2>1 DEF Acquire
<1>6. CASE AcquireFails(r) \/ AttemptTooLate(r) \/ BufferFails(r)
  BY <1>2, <1>6 DEF AcquireFails, AttemptTooLate, BufferFails, Answer, Ahead, Stages
<1>7. CASE BufferDone(r)
  <2>1. CASE Retryable(q.method)
    BY <1>2, <1>7, <2>1 DEF BufferDone, Ahead, Stages
  <2>2. CASE ~Retryable(q.method)
    <3>1. q.stage = "buffering" /\ q.backend \in Backends
      BY <1>1, <1>7, <2>2 DEF BufferDone, RequestOK
    <3> DEFINE d == Send(q, q.backend, health[q.backend])
    <3>2. req' = [req EXCEPT ![r] = d]
      BY <1>7, <2>2 DEF BufferDone
    <3>3. d \in Request /\ Nearer(d, q)
      BY <1>1, <1>4, <3>1
    <3> HIDE DEF d
    <3> QED
      BY <3>2, <3>3
  <2> QED
    BY <2>1, <2>2
<1>8. CASE SelectOnce(r)
  <2> DEFINE b == Selected(Eligible({}))
  <2>1. CASE Eligible({}) = {}
    BY <1>2, <1>8, <2>1 DEF SelectOnce, Answer, Ahead, Stages
  <2>2. CASE Eligible({}) # {}
    <3>1. b \in Backends /\ q.stage = "select"
      BY <1>1, <1>8, <2>2, SelectedIsEligible DEF SelectOnce
    <3>2. CASE Prebuffered(q.method)
      <4> DEFINE d == [q EXCEPT !.stage = "acquire", !.backend = b]
      <4>1. req' = [req EXCEPT ![r] = d]
        BY <1>8, <2>2, <3>2 DEF SelectOnce
      <4> HIDE DEF b
      <4>2. /\ d \in Request /\ d.stage = "acquire" /\ d.attempt = q.attempt
            /\ d.spent = q.spent
        BY <1>1, <3>1, Zenon DEF Request, Stages
      <4>3. Ahead("acquire") < Ahead("select")
        BY DEF Ahead
      <4> HIDE DEF d
      <4> QED
        BY <3>1, <4>1, <4>2, <4>3 DEF Nearer
    <3>3. CASE ~Prebuffered(q.method)
      BY <1>4, <1>8, <2>2, <3>1, <3>3 DEF SelectOnce
    <3> QED
      BY <3>2, <3>3
  <2> QED
    BY <2>1, <2>2
<1>9. CASE Attempt(r)
  <2> DEFINE b == Selected(Eligible(q.attempted))
  <2>1. CASE Eligible(q.attempted) = {}
    BY <1>2, <1>9, <2>1 DEF Attempt, Answer, Ahead, Stages
  <2>2. CASE Eligible(q.attempted) # {}
    <3>1. b \in Backends /\ q.stage = "attempt"
      BY <1>1, <1>9, <2>2, SelectedIsEligible DEF Attempt
    <3> QED
      BY <1>4, <1>9, <2>2, <3>1 DEF Attempt
  <2> QED
    BY <2>1, <2>2
<1>10. CASE UpstreamReturns(r)
  <2>1. /\ q.stage = "forwarding"
        /\ \/ \E stage \in {"over", "streaming", "backoff"} :
                req' = [req EXCEPT ![r].stage = stage]
           \/ /\ q.attempt < max_attempts
              /\ req' = [req EXCEPT ![r].stage = "attempt", ![r].attempt = @ + 1]
    BY <1>1, <1>10 DEF UpstreamReturns, LastAttempt, Deliver
  <2>2. \A stage \in {"over", "streaming", "backoff"} :
           stage \in Stages /\ Ahead(stage) < Ahead("forwarding")
    BY DEF Ahead, Stages
  <2> QED
    BY <1>2, <1>3, <2>1, <2>2
<1>11. CASE BackoffEnds(r)
  <2>1. q.stage = "backoff" /\ q.attempt < max_attempts
    BY <1>1, <1>11 DEF BackoffEnds, RequestOK
  <2> QED
    BY <1>3, <1>11, <2>1 DEF BackoffEnds
<1> QED
  BY <1>5, <1>6, <1>7, <1>8, <1>9, <1>10, <1>11 DEF Progress

\* What happens around a handler takes its request nearer to its end, too.
LEMMA AroundNearer ==
    ASSUME RequestInv, NEW r \in Requests,
           \/ Arrive(r) \/ AnswerAtOnce(r) \/ BudgetSpent(r)
           \/ StreamEnds(r) \/ StreamFails(r) \/ ClientGone(r)
    PROVE  \E d \in Request : req' = [req EXCEPT ![r] = d] /\ Nearer(d, req[r])
<1> DEFINE q == req[r]
<1>1. q \in Request
  BY DEF RequestInv
<1>2. CASE Arrive(r)
  <2>1. PICK m \in Methods :
          req' = [req EXCEPT ![r].method = m,
                             ![r].stage = IF Retryable(m) THEN "acquire" ELSE "select"]
    BY <1>2 DEF Arrive
  <2> DEFINE stage == IF Retryable(m) THEN "acquire" ELSE "select"
             d == Admitted(q, m, stage)
  <2>2. req' = [req EXCEPT ![r] = d] /\ q.stage = "idle"
    BY <1>2, <2>1 DEF Arrive, Admitted
  <2>3. stage \in Stages /\ Ahead(stage) < Ahead("idle")
    BY DEF Stages, Ahead
  <2>4. d \in Request /\ Nearer(d, q)
    <3> HIDE DEF stage
    <3> QED
      BY <1>1, <2>2, <2>3, AdmittedFields DEF Nearer
  <2> QED
    BY <2>2, <2>4
<1>3. CASE BudgetSpent(r)
  <2> DEFINE d == [q EXCEPT !.spent = TRUE]
  <2>1. req' = [req EXCEPT ![r] = d] /\ q.spent = FALSE
    BY <1>1, <1>3 DEF BudgetSpent, Request
  <2>2. d \in Request /\ d.stage = q.stage /\ d.attempt = q.attempt /\ d.spent = TRUE
    BY <1>1, Zenon DEF Request
  <2> HIDE DEF d
  <2> QED
    BY <2>1, <2>2 DEF Nearer
<1>4. CASE AnswerAtOnce(r) \/ StreamEnds(r) \/ StreamFails(r)
  <2>1. /\ req' = [req EXCEPT ![r] = Staged(q, "over")]
        /\ Ahead("over") < Ahead(q.stage) /\ "over" \in Stages
    BY <1>4 DEF AnswerAtOnce, StreamEnds, StreamFails, Answer, Staged, Ahead, Stages
  <2> QED
    BY <1>1, <2>1, StagedNearer
<1>5. CASE ClientGone(r)
  <2>1. /\ req' = [req EXCEPT ![r] = Staged(q, "gone")]
        /\ Ahead("gone") < Ahead(q.stage) /\ "gone" \in Stages
    BY <1>5 DEF ClientGone, Staged, Ahead, Stages
  <2> QED
    BY <1>1, <2>1, StagedNearer
<1> QED
  BY <1>2, <1>3, <1>4, <1>5

\* No request goes round for ever, for any pool, retry configuration and number
\* of requests: each change of a request uses up one of a finite number of steps.
THEOREM EveryRequestWindsDown == Spec => WindsDown
<1>1. RequestInv /\ [Next]_vars =>
        [\A r \in Requests :
            req'[r] # req[r] => StepsLeft(req[r])' \in 0 .. StepsLeft(req[r]) - 1]_vars
  <2> SUFFICES ASSUME RequestInv, Next, NEW r \in Requests, req'[r] # req[r]
               PROVE  StepsLeft(req[r])' \in 0 .. StepsLeft(req[r]) - 1
    OBVIOUS
  <2>1. max_attempts' = max_attempts /\ max_attempts \in Nat \ {0}
    BY ProxyAssumption DEF Next, Environment, Progress, RequestInv
  <2>2. \E s \in Requests : \E d \in Request :
           req' = [req EXCEPT ![s] = d] /\ Nearer(d, req[s])
    BY ProgressNearer, AroundNearer DEF Next, Environment, ActiveCheck, EjectionExpires
  <2>3. req'[r] \in Request /\ Nearer(req'[r], req[r])
    BY <2>2 DEF RequestInv
  <2>4. StepsLeft(req'[r]) \in 0 .. StepsLeft(req[r]) - 1
    BY <2>1, <2>3, NearerLess DEF RequestInv
  <2>5. StepsLeft(req[r])' = StepsLeft(req'[r])
    BY <2>1 DEF StepsLeft
  <2> QED
    BY <2>4, <2>5
<1> QED
  BY <1>1, RequestsInOrder, PTL DEF Spec, WindsDown
=============================================================================
