------------------------- MODULE HealthThreadsProofs -------------------------
(***************************************************************************)
(* Proofs about HealthThreads, for any sets of backends and threads and    *)
(* any positive thresholds.                                                *)
(*                                                                         *)
(* NoLimbo is not inductive: it says nothing of the states in which a      *)
(* record call is half done.  StrandedIsOwed covers those: the stores that *)
(* clear a backend's last claim to be offered (SuccessEndsProbe,           *)
(* FailureEndsProbe, FailureSickens) leave their thread at a label from    *)
(* which it goes on to the store that makes up for it, and the thread      *)
(* leaves those labels only by making it.                                  *)
(*                                                                         *)
(* CallsAreWhole is the refinement of HealthCalls where the calls for one  *)
(* backend do not overlap.  SerialInv carries it: no overlap, and at every *)
(* label what the call has done so far and has still to do (CallFacts).    *)
(* The whole effect of a call is laid at its first store; an ejection that *)
(* runs out later in the call is a turn after it, or no turn at all when   *)
(* the call is about to start a new one.                                   *)
(***************************************************************************)
EXTENDS HealthThreads, TLAPS

\* fetch_add on a saturating counter stays within 0 .. limit.
LEMMA BumpType ==
    ASSUME NEW limit \in Nat \ {0}, NEW count \in 0 .. limit
    PROVE  Bump(count, limit) \in 0 .. limit
BY DEF Bump

\* A saturated counter fits the type of the locals that hold its value.
LEMMA CountsType ==
    0 .. FailureThreshold \subseteq Counts /\ 0 .. RecoveryThreshold \subseteq Counts
BY ThresholdAssumption DEF Counts

\* Every access of record_success, record_failure and the filter leaves each
\* field and local within its type.
LEMMA TypeStep == TypeOK /\ [Next]_vars => TypeOK'
<1> SUFFICES ASSUME TypeOK, [Next]_vars PROVE TypeOK'
  OBVIOUS
<1> USE DEF TypeOK, Labels, SuccessLabels, FailureLabels, FilterLabels
<1>1. ASSUME NEW t \in Threads, Begin(t) PROVE TypeOK'
  BY <1>1 DEF Begin, CallRecordSuccess, CallRecordFailure, CallFilter, Call,
              Goto, state
<1>2. ASSUME NEW t \in Threads, RecordSuccessStep(t) PROVE TypeOK'
  <2>1. CASE SuccessClears(t)
    BY <2>1, ThresholdAssumption DEF SuccessClears, Goto
  <2>2. CASE SuccessLoadsProbing(t)
    BY <2>2 DEF SuccessLoadsProbing, Goto, state
  <2>3. CASE SuccessEndsProbe(t)
    BY <2>3 DEF SuccessEndsProbe, Goto
  <2>4. CASE SuccessCounts(t)
    <3>1. Bump(consecutive_successes[at[t]], RecoveryThreshold)
            \in 0 .. RecoveryThreshold
      BY BumpType, ThresholdAssumption
    <3> QED
      BY <2>4, <3>1, CountsType DEF SuccessCounts, Goto
  <2>5. CASE SuccessChecks(t)
    BY <2>5 DEF SuccessChecks, Goto, state
  <2>6. CASE SuccessHeals(t)
    BY <2>6 DEF SuccessHeals, Goto
  <2>7. CASE SuccessResets(t)
    BY <2>7, ThresholdAssumption DEF SuccessResets, Goto
  <2> QED
    BY <1>2, <2>1, <2>2, <2>3, <2>4, <2>5, <2>6, <2>7 DEF RecordSuccessStep
<1>3. ASSUME NEW t \in Threads, RecordFailureStep(t) PROVE TypeOK'
  <2>1. CASE FailureClears(t)
    BY <2>1, ThresholdAssumption DEF FailureClears, Goto
  <2>2. CASE FailureLoadsProbing(t)
    BY <2>2 DEF FailureLoadsProbing, Goto, state
  <2>3. CASE FailureEndsProbe(t)
    BY <2>3 DEF FailureEndsProbe, Goto
  <2>4. CASE FailureCounts(t)
    <3>1. Bump(consecutive_failures[at[t]], FailureThreshold)
            \in 0 .. FailureThreshold
      BY BumpType, ThresholdAssumption
    <3> QED
      BY <2>4, <3>1, CountsType DEF FailureCounts, Goto
  <2>5. CASE FailureChecks(t)
    BY <2>5 DEF FailureChecks, Goto, state
  <2>6. CASE FailureSickens(t)
    BY <2>6 DEF FailureSickens, Goto
  <2>7. CASE FailureResets(t)
    BY <2>7, ThresholdAssumption DEF FailureResets, Goto
  <2>8. CASE FailureEjects(t)
    BY <2>8 DEF FailureEjects, Goto
  <2> QED
    BY <1>3, <2>1, <2>2, <2>3, <2>4, <2>5, <2>6, <2>7, <2>8
    DEF RecordFailureStep
<1>4. ASSUME NEW t \in Threads, FilterStep(t) PROVE TypeOK'
  <2>1. CASE FilterFindsEjected(t)
    BY <2>1 DEF FilterFindsEjected, Answer, Goto, state
  <2>2. CASE FilterEndsEjection(t)
    BY <2>2 DEF FilterEndsEjection, Goto
  <2>3. CASE FilterFindsNoEjection(t)
    BY <2>3 DEF FilterFindsNoEjection, Goto, state
  <2>4. CASE FilterLoadsHealthy(t)
    BY <2>4 DEF FilterLoadsHealthy, Answer, Goto, state
  <2>5. CASE FilterLoadsProbing(t)
    BY <2>5 DEF FilterLoadsProbing, Answer, Goto, state
  <2> QED
    BY <1>4, <2>1, <2>2, <2>3, <2>4, <2>5 DEF FilterStep
<1>5. ASSUME NEW b \in Backends, EjectionExpires(b) PROVE TypeOK'
  BY <1>5 DEF EjectionExpires
<1>6. CASE UNCHANGED vars
  BY <1>6 DEF vars
<1> QED
  BY <1>1, <1>2, <1>3, <1>4, <1>5, <1>6 DEF Next, Step

\* Every backend starts within the types.
LEMMA TypeInit == Init => TypeOK
BY ThresholdAssumption DEF Init, TypeOK, Labels, Counts

\* Type correctness, whatever the interleaving.
THEOREM TypeCorrect == Spec => []TypeOK
BY TypeInit, TypeStep, PTL DEF Spec

-----------------------------------------------------------------------------
\* The inductive step of StrandedIsOwed for one thread: it is enough that the
\* backend was stranded before the step and t still owes what it owed, or that
\* t owes the repair after the step.
LEMMA DebtKept ==
    ASSUME NEW b \in Backends, NEW t \in Threads, StrandedIsOwed, Stranded(b)',
           at' = at, \A u \in Threads \ {t} : pc'[u] = pc[u],
           \/ OwesRepair(t, b)'
           \/ Stranded(b) /\ (OwesRepair(t, b) => OwesRepair(t, b)')
    PROVE  \E u \in Threads : OwesRepair(u, b)'
<1>1. CASE OwesRepair(t, b)'
  BY <1>1
<1>2. CASE Stranded(b) /\ (OwesRepair(t, b) => OwesRepair(t, b)')
  <2>1. PICK u \in Threads : OwesRepair(u, b)
    BY <1>2 DEF StrandedIsOwed
  <2>2. OwesRepair(u, b)'
    BY <1>2, <2>1 DEF OwesRepair
  <2> QED
    BY <2>2
<1> QED
  BY <1>1, <1>2

\* Whatever the interleaving, a backend that is neither healthy, nor ejected,
\* nor half-open has a thread inside record_success or record_failure that
\* still has the store of healthy or the ejection to make.
THEOREM DebtAlwaysCovered == Spec => []StrandedIsOwed
<1>1. Init => StrandedIsOwed
  BY DEF Init, StrandedIsOwed, Stranded
<1>2. TypeOK /\ StrandedIsOwed /\ [Next]_vars => StrandedIsOwed'
  <2> SUFFICES ASSUME TypeOK, StrandedIsOwed, [Next]_vars,
                      NEW b \in Backends, Stranded(b)'
               PROVE  \E u \in Threads : OwesRepair(u, b)'
    BY DEF StrandedIsOwed
  <2>1. ASSUME NEW t \in Threads, Begin(t)
        PROVE  \E u \in Threads : OwesRepair(u, b)'
    <3>1. Stranded(b) /\ pc[t] = "idle"
      BY <2>1 DEF Begin, CallRecordSuccess, CallRecordFailure, CallFilter,
                  Call, Goto, state, Stranded
    <3>2. PICK u \in Threads : OwesRepair(u, b)
      BY <3>1 DEF StrandedIsOwed
    <3>3. OwesRepair(u, b)'
      BY <2>1, <3>1, <3>2
      DEF Begin, CallRecordSuccess, CallRecordFailure, CallFilter, Call, Goto,
          OwesRepair, TypeOK
    <3> QED
      BY <3>3
  <2>2. ASSUME NEW t \in Threads, RecordSuccessStep(t)
        PROVE  \E u \in Threads : OwesRepair(u, b)'
    <3>1. at' = at /\ \A u \in Threads \ {t} : pc'[u] = pc[u]
      BY <2>2 DEF RecordSuccessStep, SuccessClears, SuccessLoadsProbing,
                  SuccessEndsProbe, SuccessCounts, SuccessChecks, SuccessHeals,
                  SuccessResets, Goto, TypeOK
    <3>2. CASE SuccessEndsProbe(t)
      BY <3>1, <3>2, DebtKept DEF SuccessEndsProbe, Goto, OwesRepair, Stranded,
                                  TypeOK
    <3>3. CASE SuccessHeals(t)
      BY <3>1, <3>3, DebtKept DEF SuccessHeals, Goto, OwesRepair, Stranded,
                                  TypeOK
    <3>4. CASE \/ SuccessClears(t) \/ SuccessLoadsProbing(t)
               \/ SuccessCounts(t) \/ SuccessChecks(t) \/ SuccessResets(t)
      BY <3>1, <3>4, DebtKept
      DEF SuccessClears, SuccessLoadsProbing, SuccessCounts, SuccessChecks,
          SuccessResets, Goto, OwesRepair, Stranded, state, TypeOK
    <3> QED
      BY <2>2, <3>2, <3>3, <3>4 DEF RecordSuccessStep
  <2>3. ASSUME NEW t \in Threads, RecordFailureStep(t)
        PROVE  \E u \in Threads : OwesRepair(u, b)'
    <3>1. at' = at /\ \A u \in Threads \ {t} : pc'[u] = pc[u]
      BY <2>3 DEF RecordFailureStep, FailureClears, FailureLoadsProbing,
                  FailureEndsProbe, FailureCounts, FailureChecks,
                  FailureSickens, FailureResets, FailureEjects, Goto, TypeOK
    <3>2. CASE FailureEndsProbe(t)
      BY <3>1, <3>2, DebtKept DEF FailureEndsProbe, Goto, OwesRepair, Stranded,
                                  TypeOK
    <3>3. CASE FailureSickens(t)
      BY <3>1, <3>3, DebtKept DEF FailureSickens, Goto, OwesRepair, Stranded,
                                  TypeOK
    <3>4. CASE FailureResets(t)
      BY <3>1, <3>4, DebtKept DEF FailureResets, Goto, OwesRepair, Stranded,
                                  TypeOK
    <3>5. CASE FailureEjects(t)
      BY <3>1, <3>5, DebtKept DEF FailureEjects, Goto, OwesRepair, Stranded,
                                  TypeOK
    <3>6. CASE \/ FailureClears(t) \/ FailureLoadsProbing(t)
               \/ FailureCounts(t) \/ FailureChecks(t)
      BY <3>1, <3>6, DebtKept
      DEF FailureClears, FailureLoadsProbing, FailureCounts, FailureChecks,
          Goto, OwesRepair, Stranded, state, TypeOK
    <3> QED
      BY <2>3, <3>2, <3>3, <3>4, <3>5, <3>6 DEF RecordFailureStep
  <2>4. ASSUME NEW t \in Threads, FilterStep(t)
        PROVE  \E u \in Threads : OwesRepair(u, b)'
    <3>1. at' = at /\ \A u \in Threads \ {t} : pc'[u] = pc[u]
      BY <2>4 DEF FilterStep, FilterFindsEjected, FilterEndsEjection,
                  FilterFindsNoEjection, FilterLoadsHealthy,
                  FilterLoadsProbing, Answer, Goto, TypeOK
    <3>2. Stranded(b)
      BY <2>4 DEF FilterStep, FilterFindsEjected, FilterEndsEjection,
                  FilterFindsNoEjection, FilterLoadsHealthy,
                  FilterLoadsProbing, Answer, Goto, Stranded, state, TypeOK
    <3>3. ~OwesRepair(t, b)
      BY <2>4 DEF FilterStep, FilterFindsEjected, FilterEndsEjection,
                  FilterFindsNoEjection, FilterLoadsHealthy,
                  FilterLoadsProbing, Answer, Goto, OwesRepair
    <3> QED
      BY <3>1, <3>2, <3>3, DebtKept
  <2>5. ASSUME NEW c \in Backends, EjectionExpires(c)
        PROVE  \E u \in Threads : OwesRepair(u, b)'
    BY <2>5 DEF EjectionExpires, StrandedIsOwed, Stranded, OwesRepair, TypeOK
  <2>6. CASE UNCHANGED vars
    BY <2>6 DEF vars, StrandedIsOwed, Stranded, OwesRepair
  <2> QED
    BY <2>1, <2>2, <2>3, <2>4, <2>5, <2>6 DEF Next, Step
<1> QED
  BY <1>1, <1>2, TypeCorrect, PTL DEF Spec

\* No interleaving of the health manager's calls strands a backend.
THEOREM NeverInLimbo == Spec => []NoLimbo
<1>1. StrandedIsOwed => NoLimbo
  BY DEF StrandedIsOwed, NoLimbo, OwesRepair, Recording, SuccessLabels,
         FailureLabels
<1> QED
  BY <1>1, DebtAlwaysCovered, PTL
-----------------------------------------------------------------------------
(* Calls that do not overlap.  A call's effect is laid at its first store    *)
(* (SuccessClears, FailureClears, FilterEndsEjection): from there on what    *)
(* the record will be when the call has returned does not change, whatever   *)
(* accesses are left.                                                        *)

\* A health record from its fields.
Of(ok, failures, successes, until, half) ==
    [healthy |-> ok, consecutive_failures |-> failures,
     consecutive_successes |-> successes, ejected_until |-> until,
     probing |-> half]

\* A state's record is made of the fields of the state.
LEMMA RecordOf ==
    ASSUME NEW b
    PROVE  Record(b) = Of(healthy[b], consecutive_failures[b],
                          consecutive_successes[b], ejected_until[b], probing[b])
BY DEF Record, Of

\* The two values of a flag; the provers keep them apart from formulas.
Yes == TRUE
No == FALSE

\* record_success, field by field.
LEMMA SuccessOf ==
    ASSUME NEW ok, NEW f, NEW s, NEW e
    PROVE  LET n == Bump(s, RecoveryThreshold) IN
           /\ Whole!RecordSuccess(Of(ok, f, s, e, Yes)) = Of(Yes, 0, 0, e, No)
           /\ Whole!RecordSuccess(Of(Yes, f, s, e, No)) = Of(Yes, 0, n, e, No)
           /\ n >= RecoveryThreshold =>
                Whole!RecordSuccess(Of(No, f, s, e, No)) = Of(Yes, 0, 0, e, No)
           /\ ~(n >= RecoveryThreshold) =>
                Whole!RecordSuccess(Of(No, f, s, e, No)) = Of(No, 0, n, e, No)
<1> DEFINE n == Whole!Bump(s, RecoveryThreshold)
<1>0. Bump(s, RecoveryThreshold) = n
  BY Zenon DEF Bump, Whole!Bump
<1>1. ASSUME NEW g, g = Whole!RecordSuccess(Of(ok, f, s, e, Yes))
      PROVE  g = Of(Yes, 0, 0, e, No)
  BY <1>1, Zenon DEF Of, Whole!RecordSuccess, Whole!Restore, Yes, No
<1>2. ASSUME NEW g, g = Whole!RecordSuccess(Of(Yes, f, s, e, No))
      PROVE  g = Of(Yes, 0, n, e, No)
  BY <1>2, Zenon DEF Of, Whole!RecordSuccess, Yes, No
<1>3. ASSUME NEW g, g = Whole!RecordSuccess(Of(No, f, s, e, No)), n >= RecoveryThreshold
      PROVE  g = Of(Yes, 0, 0, e, No)
  BY <1>3, Zenon DEF Of, Whole!RecordSuccess, Whole!Restore, Yes, No
<1>4. ASSUME NEW g, g = Whole!RecordSuccess(Of(No, f, s, e, No)), ~(n >= RecoveryThreshold)
      PROVE  g = Of(No, 0, n, e, No)
  BY <1>4, Zenon DEF Of, Whole!RecordSuccess, Yes, No
<1> HIDE DEF n
<1> QED
  BY <1>0, <1>1, <1>2, <1>3, <1>4

\* record_failure, field by field.
LEMMA FailureOf ==
    ASSUME NEW ok, NEW f, NEW s, NEW e
    PROVE  LET n == Bump(f, FailureThreshold) IN
           /\ Whole!RecordFailure(Of(ok, f, s, e, Yes)) = Of(ok, f, 0, "running", No)
           /\ Whole!RecordFailure(Of(No, f, s, e, No)) = Of(No, n, 0, e, No)
           /\ n >= FailureThreshold =>
                Whole!RecordFailure(Of(Yes, f, s, e, No)) = Of(No, 0, 0, "running", No)
           /\ ~(n >= FailureThreshold) =>
                Whole!RecordFailure(Of(Yes, f, s, e, No)) = Of(Yes, n, 0, e, No)
<1> DEFINE n == Whole!Bump(f, FailureThreshold)
<1>0. Bump(f, FailureThreshold) = n
  BY Zenon DEF Bump, Whole!Bump
<1>1. ASSUME NEW g, g = Whole!RecordFailure(Of(ok, f, s, e, Yes))
      PROVE  g = Of(ok, f, 0, "running", No)
  BY <1>1, Zenon DEF Of, Whole!RecordFailure, Whole!Eject, Yes, No
<1>2. ASSUME NEW g, g = Whole!RecordFailure(Of(No, f, s, e, No))
      PROVE  g = Of(No, n, 0, e, No)
  BY <1>2, Zenon DEF Of, Whole!RecordFailure, Yes, No
<1>3. ASSUME NEW g, g = Whole!RecordFailure(Of(Yes, f, s, e, No)), n >= FailureThreshold
      PROVE  g = Of(No, 0, 0, "running", No)
  BY <1>3, Zenon DEF Of, Whole!RecordFailure, Whole!Eject, Yes, No
<1>4. ASSUME NEW g, g = Whole!RecordFailure(Of(Yes, f, s, e, No)), ~(n >= FailureThreshold)
      PROVE  g = Of(Yes, n, 0, e, No)
  BY <1>4, Zenon DEF Of, Whole!RecordFailure, Yes, No
<1> HIDE DEF n
<1> QED
  BY <1>0, <1>1, <1>2, <1>3, <1>4

\* A filter call, and a record call that has not made its first store, do
\* nothing more to the record of their backend than the filter's one step.
LEMMA RestNone ==
    ASSUME NEW label, NEW count, NEW h,
           label \in {"h_ejected", "h_healthy", "h_probing", "idle", "s_clear", "f_clear"}
    PROVE  Rest(label, count, h) = h
BY DEF Rest

\* Up to its second branch a record call has all of its work to do.
LEMMA RestWhole ==
    ASSUME NEW label, NEW count, NEW h
    PROVE  /\ label \in {"s_probing", "s_unprobe", "s_count"} =>
                Rest(label, count, h) = Whole!RecordSuccess(h)
           /\ label \in {"f_probing", "f_unprobe", "f_count"} =>
                Rest(label, count, h) = Whole!RecordFailure(h)
BY DEF Rest

\* What a record call does from each of its later labels on.
LEMMA RestOf ==
    ASSUME NEW n, NEW ok, NEW f, NEW s, NEW e, NEW half
    PROVE  /\ Rest("s_heal", n, Of(ok, f, s, e, half)) = Of(Yes, f, 0, e, No)
           /\ Rest("s_reset", n, Of(ok, f, s, e, half)) = Of(ok, f, 0, e, half)
           /\ Rest("f_sicken", n, Of(ok, f, s, e, half)) = Of(No, 0, s, "running", half)
           /\ Rest("f_reset", n, Of(ok, f, s, e, half)) = Of(ok, 0, s, "running", half)
           /\ Rest("f_eject", n, Of(ok, f, s, e, half)) = Of(ok, f, s, "running", half)
<1> DEFINE h == Of(ok, f, s, e, half)
<1>1. /\ Rest("s_heal", n, h) = Whole!Restore(h)
      /\ Rest("s_reset", n, h) = [h EXCEPT !.consecutive_successes = 0]
      /\ Rest("f_sicken", n, h) =
           Whole!Eject([h EXCEPT !.healthy = FALSE, !.consecutive_failures = 0])
      /\ Rest("f_reset", n, h) = Whole!Eject([h EXCEPT !.consecutive_failures = 0])
      /\ Rest("f_eject", n, h) = Whole!Eject(h)
  <2> HIDE DEF h
  <2> QED
    BY DEF Rest
<1>2. ASSUME NEW g, g = Whole!Restore(h) PROVE g = Of(Yes, f, 0, e, No)
  BY <1>2, Zenon DEF Of, Whole!Restore, Yes, No
<1>3. ASSUME NEW g, g = [h EXCEPT !.consecutive_successes = 0]
      PROVE  g = Of(ok, f, 0, e, half)
  BY <1>3, Zenon DEF Of
<1>4. ASSUME NEW g, g = Whole!Eject([h EXCEPT !.healthy = FALSE, !.consecutive_failures = 0])
      PROVE  g = Of(No, 0, s, "running", half)
  BY <1>4, Zenon DEF Of, Whole!Eject, No
<1>5. ASSUME NEW g, g = Whole!Eject([h EXCEPT !.consecutive_failures = 0])
      PROVE  g = Of(ok, 0, s, "running", half)
  BY <1>5, Zenon DEF Of, Whole!Eject
<1>6. ASSUME NEW g, g = Whole!Eject(h) PROVE g = Of(ok, f, s, "running", half)
  BY <1>6, Zenon DEF Of, Whole!Eject
<1> QED
  BY <1>1, <1>2, <1>3, <1>4, <1>5, <1>6, Zenon

\* What the threshold checks decide.
LEMMA CheckOf ==
    ASSUME NEW n, NEW ok, NEW f, NEW s, NEW e, NEW half
    PROVE  /\ n >= RecoveryThreshold =>
                Rest("s_check", n, Of(No, f, s, e, half)) = Of(Yes, f, 0, e, No)
           /\ ~(n >= RecoveryThreshold) =>
                Rest("s_check", n, Of(ok, f, s, e, half)) = Of(ok, f, s, e, half)
           /\ Rest("s_check", n, Of(Yes, f, s, e, half)) = Of(Yes, f, s, e, half)
           /\ n >= FailureThreshold =>
                Rest("f_check", n, Of(Yes, f, s, e, half)) = Of(No, 0, s, "running", half)
           /\ ~(n >= FailureThreshold) =>
                Rest("f_check", n, Of(ok, f, s, e, half)) = Of(ok, f, s, e, half)
           /\ Rest("f_check", n, Of(No, f, s, e, half)) = Of(No, f, s, e, half)
<1>1. /\ Of(No, f, s, e, half).healthy = FALSE
      /\ Of(Yes, f, s, e, half).healthy = TRUE
  BY DEF Of, Yes, No
<1>2. ASSUME NEW h
      PROVE  /\ ~h.healthy /\ n >= RecoveryThreshold =>
                  Rest("s_check", n, h) = Rest("s_heal", n, h)
             /\ h.healthy \/ ~(n >= RecoveryThreshold) => Rest("s_check", n, h) = h
             /\ h.healthy /\ n >= FailureThreshold =>
                  Rest("f_check", n, h) = Rest("f_sicken", n, h)
             /\ ~h.healthy \/ ~(n >= FailureThreshold) => Rest("f_check", n, h) = h
  BY DEF Rest
<1>3. /\ Rest("s_heal", n, Of(No, f, s, e, half)) = Of(Yes, f, 0, e, No)
      /\ Rest("f_sicken", n, Of(Yes, f, s, e, half)) = Of(No, 0, s, "running", half)
  BY RestOf
<1> QED
  BY <1>1, <1>2, <1>3, Zenon

\* No other thread has a call under way for t's backend.
Alone(t) == \A u \in Threads \ {t} : at[u] = at[t] => pc[u] = "idle"

\* The outcome of a backend is its record once its calls have returned, and
\* before that what its one call makes of the record.
OutcomeLaw ==
    /\ \A b \in Backends :
          (\A t \in Threads : at[t] = b => pc[t] = "idle") => Outcome(b) = Record(b)
    /\ \A t \in Threads :
          Alone(t) => Outcome(at[t]) = Rest(pc[t], seen[t], Record(at[t]))

\* The law of outcomes.
LEMMA OutcomeNow == OutcomeLaw
<1>1. ASSUME NEW b \in Backends, \A t \in Threads : at[t] = b => pc[t] = "idle"
      PROVE  Outcome(b) = Record(b)
  BY <1>1 DEF Outcome
<1>2. ASSUME NEW t \in Threads, Alone(t)
      PROVE  Outcome(at[t]) = Rest(pc[t], seen[t], Record(at[t]))
  <2> DEFINE calls == {u \in Threads : at[u] = at[t] /\ pc[u] # "idle"}
  <2>1. CASE pc[t] = "idle"
    <3>1. calls = {}
      BY <1>2, <2>1 DEF Alone
    <3>2. Outcome(at[t]) = Record(at[t])
      BY <3>1 DEF Outcome
    <3> QED
      BY <2>1, <3>2, RestNone
  <2>2. CASE pc[t] # "idle"
    <3>1. calls = {t}
      BY <1>2, <2>2 DEF Alone
    <3>2. (CHOOSE u \in calls : TRUE) = t
      BY <3>1
    <3> QED
      BY <3>1, <3>2, Zenon DEF Outcome
  <2> QED
    BY <2>1, <2>2
<1> QED
  BY <1>1, <1>2 DEF OutcomeLaw

\* The law of outcomes after a step.
LEMMA OutcomeNext == OutcomeLaw'
BY OutcomeNow, PTL

\* A step of t for backend b leaves the outcome of every other backend alone.
LEMMA Elsewhere ==
    ASSUME NEW b, NEW c, c # b, NEW t \in Threads,
           \A u \in Threads \ {t} : pc'[u] = pc[u] /\ at'[u] = at[u] /\ seen'[u] = seen[u],
           pc[t] = "idle" \/ at[t] = b, pc'[t] = "idle" \/ at'[t] = b,
           Record(c)' = Record(c)
    PROVE  Outcome(c)' = Outcome(c)
<1> DEFINE calls == {u \in Threads : at[u] = c /\ pc[u] # "idle"}
           call == CHOOSE u \in calls : TRUE
<1>1. calls' = calls
  OBVIOUS
<1>2. CASE calls = {}
  BY <1>1, <1>2, Zenon DEF Outcome
<1>3. CASE calls # {}
  <2>1. call \in calls /\ call' = call
    BY <1>1, <1>3
  <2>2. call \in Threads \ {t}
    BY <2>1
  <2>3. pc'[call] = pc[call] /\ seen'[call] = seen[call]
    BY <2>2
  <2>4. Outcome(c) = Rest(pc[call], seen[call], Record(c))
    BY <1>3, Zenon DEF Outcome
  <2>5. Outcome(c)' = Rest(pc'[call], seen'[call], Record(c)')
    BY <1>1, <1>3, <2>1, Zenon DEF Outcome
  <2> QED
    BY <2>3, <2>4, <2>5
<1> QED
  BY <1>2, <1>3

\* A step of no thread that leaves a record alone leaves its outcome alone.
LEMMA SameOutcome ==
    ASSUME NEW c, pc' = pc, at' = at, seen' = seen, Record(c)' = Record(c)
    PROVE  Outcome(c)' = Outcome(c)
BY DEF Outcome

\* Where a call stands tells what its earlier accesses left in the record, as
\* long as no other call for the backend comes between.
CallFacts ==
    \A t \in Threads :
        /\ pc[t] \in {"s_probing", "s_unprobe", "s_count"} =>
             consecutive_failures[at[t]] = 0
        /\ pc[t] \in {"f_probing", "f_unprobe", "f_count"} =>
             consecutive_successes[at[t]] = 0
        /\ pc[t] \in {"s_unprobe", "f_unprobe"} => probing[at[t]]
        /\ pc[t] \in {"s_count", "s_check", "s_heal", "f_count"} => ~probing[at[t]]

\* The inductive invariant of the calls that do not overlap.
SerialInv == TypeOK /\ NoOverlap /\ CallFacts

\* A step of a call is for one backend and by one thread.
LEMMA StepFrame ==
    ASSUME TypeOK, NEW t \in Threads, Step(t)
    PROVE  /\ pc[t] # "idle" /\ at' = at
           /\ \A u \in Threads \ {t} : pc'[u] = pc[u] /\ seen'[u] = seen[u]
           /\ \A c \in Backends \ {at[t]} :
                /\ healthy'[c] = healthy[c]
                /\ consecutive_failures'[c] = consecutive_failures[c]
                /\ consecutive_successes'[c] = consecutive_successes[c]
                /\ ejected_until'[c] = ejected_until[c]
                /\ probing'[c] = probing[c]
<1> USE DEF TypeOK, Goto
<1>1. CASE RecordSuccessStep(t)
  BY <1>1 DEF RecordSuccessStep, SuccessClears, SuccessLoadsProbing, SuccessEndsProbe,
              SuccessCounts, SuccessChecks, SuccessHeals, SuccessResets, state
<1>2. CASE RecordFailureStep(t)
  BY <1>2 DEF RecordFailureStep, FailureClears, FailureLoadsProbing, FailureEndsProbe,
              FailureCounts, FailureChecks, FailureSickens, FailureResets, FailureEjects,
              state
<1>3. CASE FilterStep(t)
  BY <1>3 DEF FilterStep, FilterFindsEjected, FilterEndsEjection, FilterFindsNoEjection,
              FilterLoadsHealthy, FilterLoadsProbing, Answer, state
<1> QED
  BY <1>1, <1>2, <1>3 DEF Step

\* The facts about the calls that are under way stay true.
LEMMA FactsStay == SerialInv /\ [Next /\ NoOverlap']_vars => CallFacts'
<1> SUFFICES ASSUME SerialInv, [Next /\ NoOverlap']_vars PROVE CallFacts'
  OBVIOUS
<1> USE DEF SerialInv
<1>1. ASSUME NEW t \in Threads, Begin(t) PROVE CallFacts'
  BY <1>1 DEF Begin, CallRecordSuccess, CallRecordFailure, CallFilter, Call, Goto, state,
              CallFacts, TypeOK
<1>2. ASSUME NEW t \in Threads, Step(t) PROVE CallFacts'
  <2>1. ASSUME NEW u \in Threads \ {t}, pc[u] # "idle" PROVE at[u] \in Backends \ {at[t]}
    BY <1>2, <2>1, StepFrame DEF NoOverlap, Overlap, TypeOK
  <2>2. ASSUME NEW u \in Threads \ {t}
        PROVE  /\ pc'[u] = pc[u] /\ at'[u] = at[u]
               /\ pc[u] # "idle" =>
                    /\ consecutive_failures'[at[u]] = consecutive_failures[at[u]]
                    /\ consecutive_successes'[at[u]] = consecutive_successes[at[u]]
                    /\ probing'[at[u]] = probing[at[u]]
    BY <1>2, <2>1, StepFrame
  <2>3. /\ pc'[t] \in {"s_probing", "s_unprobe", "s_count"} =>
             consecutive_failures'[at'[t]] = 0
        /\ pc'[t] \in {"f_probing", "f_unprobe", "f_count"} =>
             consecutive_successes'[at'[t]] = 0
        /\ pc'[t] \in {"s_unprobe", "f_unprobe"} => probing'[at'[t]]
        /\ pc'[t] \in {"s_count", "s_check", "s_heal", "f_count"} => ~probing'[at'[t]]
    <3> USE DEF TypeOK, CallFacts, Goto
    <3>1. CASE RecordSuccessStep(t)
      BY <3>1 DEF RecordSuccessStep, SuccessClears, SuccessLoadsProbing, SuccessEndsProbe,
                  SuccessCounts, SuccessChecks, SuccessHeals, SuccessResets, state
    <3>2. CASE RecordFailureStep(t)
      BY <3>2 DEF RecordFailureStep, FailureClears, FailureLoadsProbing, FailureEndsProbe,
                  FailureCounts, FailureChecks, FailureSickens, FailureResets,
                  FailureEjects, state
    <3>3. CASE FilterStep(t)
      BY <3>3 DEF FilterStep, FilterFindsEjected, FilterEndsEjection,
                  FilterFindsNoEjection, FilterLoadsHealthy, FilterLoadsProbing, Answer,
                  state
    <3> QED
      BY <1>2, <3>1, <3>2, <3>3 DEF Step
  <2> QED
    BY <2>2, <2>3 DEF CallFacts
<1>3. ASSUME NEW b \in Backends, EjectionExpires(b) PROVE CallFacts'
  BY <1>3 DEF EjectionExpires, CallFacts
<1>4. CASE UNCHANGED vars
  BY <1>4 DEF vars, CallFacts
<1> QED
  BY <1>1, <1>2, <1>3, <1>4 DEF Next

\* The invariant holds in every behaviour in which calls do not overlap.
LEMMA SerialAlways == SerialSpec => []SerialInv
<1>1. Init => SerialInv
  BY TypeInit DEF Init, SerialInv, NoOverlap, Overlap, CallFacts
<1>2. SerialInv /\ [Next /\ NoOverlap']_vars => SerialInv'
  <2> SUFFICES ASSUME SerialInv, [Next /\ NoOverlap']_vars PROVE SerialInv'
    OBVIOUS
  <2>1. TypeOK' /\ CallFacts'
    BY TypeStep, FactsStay DEF SerialInv
  <2>2. NoOverlap'
    BY DEF SerialInv, NoOverlap, Overlap, vars
  <2> QED
    BY <2>1, <2>2 DEF SerialInv
<1> QED
  BY <1>1, <1>2, PTL DEF SerialSpec

\* A step that does to the outcome of one backend what a whole call does, and
\* nothing to the others, is a step of HealthCalls.
LEMMA OutcomeTurns ==
    ASSUME NEW b \in Backends,
           \A c \in Backends \ {b} : Outcome(c)' = Outcome(c),
           \/ Outcome(b)' = Outcome(b)
           \/ Outcome(b)' = Calls!RecordSuccess(Outcome(b))
           \/ Outcome(b)' = Calls!RecordFailure(Outcome(b))
           \/ Outcome(b)' = Calls!PollEjection(Outcome(b))
           \/ /\ Outcome(b).ejected_until = "running"
              /\ Outcome(b)' = Calls!Expire(Outcome(b))
    PROVE  [Calls!Next]_([c \in Backends |-> Outcome(c)])
<1> DEFINE record == [c \in Backends |-> Outcome(c)]
<1>1. ASSUME NEW g, Outcome(b)' = g PROVE record' = [record EXCEPT ![b] = g]
  BY <1>1
<1>2. record[b] = Outcome(b)
  OBVIOUS
<1>3. record' = record \/ Calls!Turn(b)
  <2>1. CASE Outcome(b)' = Outcome(b)
    BY <2>1
  <2>2. CASE Outcome(b)' = Calls!RecordSuccess(Outcome(b))
    BY <1>1, <1>2, <2>2, Zenon DEF Calls!Turn
  <2>3. CASE Outcome(b)' = Calls!RecordFailure(Outcome(b))
    BY <1>1, <1>2, <2>3, Zenon DEF Calls!Turn
  <2>4. CASE Outcome(b)' = Calls!PollEjection(Outcome(b))
    BY <1>1, <1>2, <2>4, Zenon DEF Calls!Turn
  <2>5. CASE /\ Outcome(b).ejected_until = "running"
             /\ Outcome(b)' = Calls!Expire(Outcome(b))
    BY <1>1, <1>2, <2>5, Zenon DEF Calls!Turn
  <2> QED
    BY <2>1, <2>2, <2>3, <2>4, <2>5
<1> QED
  BY <1>3, Zenon DEF Calls!Next

\* A step of record_success: the first store does the whole call's work on the
\* outcome, and the accesses after it leave the outcome alone.
LEMMA SuccessTurns ==
    ASSUME SerialInv, NEW t \in Threads, NEW b \in Backends, b = at[t],
           RecordSuccessStep(t)
    PROVE  LET before == Rest(pc[t], seen[t], Record(b))
               after == Rest(pc'[t], seen'[t], Record(b)')
           IN  after = before \/ after = Whole!RecordSuccess(before)
<1> DEFINE x == healthy[b]
           f == consecutive_failures[b]
           s == consecutive_successes[b]
           e == ejected_until[b]
           p == probing[b]
<1>0. Record(b) = Of(x, f, s, e, p) /\ Record(b)' = Of(x', f', s', e', p')
  BY DEF Record, Of
<1>a. x \in {Yes, No} /\ p \in {Yes, No}
  BY DEF SerialInv, TypeOK, Yes, No
<1> USE DEF SerialInv, TypeOK, Goto
<1>1. CASE SuccessClears(t)
  <2>1. /\ pc[t] = "s_clear" /\ pc'[t] = "s_probing"
        /\ x' = x /\ f' = 0 /\ s' = s /\ e' = e /\ p' = p
    BY <1>1 DEF SuccessClears
  <2>2. Rest(pc[t], seen[t], Record(b)) = Of(x, f, s, e, p)
    BY <1>0, <2>1, RestNone
  <2>3. Rest(pc'[t], seen'[t], Record(b)') = Whole!RecordSuccess(Of(x, 0, s, e, p))
    BY <1>0, <2>1, RestWhole
  <2>4. Whole!RecordSuccess(Of(x, 0, s, e, p)) = Whole!RecordSuccess(Of(x, f, s, e, p))
    BY <1>a, SuccessOf
  <2> QED
    BY <2>2, <2>3, <2>4
<1>2. CASE SuccessLoadsProbing(t)
  <2>1. /\ pc[t] = "s_probing" /\ pc'[t] \in {"s_unprobe", "s_count"}
        /\ x' = x /\ f' = f /\ s' = s /\ e' = e /\ p' = p
    BY <1>2 DEF SuccessLoadsProbing, state
  <2> QED
    BY <1>0, <2>1, RestWhole
<1>3. CASE SuccessEndsProbe(t)
  <2>1. /\ pc[t] = "s_unprobe" /\ pc'[t] = "s_heal" /\ f = 0 /\ p = Yes
        /\ x' = x /\ f' = 0 /\ s' = s /\ e' = e /\ p' = No
    BY <1>3 DEF SuccessEndsProbe, CallFacts, Yes, No
  <2> QED
    BY <1>0, <2>1, RestWhole, SuccessOf, RestOf
<1>4. CASE SuccessCounts(t)
  <2> DEFINE n == Bump(s, RecoveryThreshold)
  <2>1. /\ pc[t] = "s_count" /\ pc'[t] = "s_check" /\ f = 0 /\ p = No
        /\ x' = x /\ f' = 0 /\ s' = n /\ e' = e /\ p' = No /\ seen'[t] = n
    BY <1>4 DEF SuccessCounts, CallFacts, No
  <2>2. Rest(pc[t], seen[t], Record(b)) = Whole!RecordSuccess(Of(x, 0, s, e, No))
    BY <1>0, <2>1, RestWhole
  <2>3. Rest(pc'[t], seen'[t], Record(b)') = Rest("s_check", n, Of(x, 0, n, e, No))
    BY <1>0, <2>1
  <2>4. Whole!RecordSuccess(Of(x, 0, s, e, No)) = Rest("s_check", n, Of(x, 0, n, e, No))
    BY <1>a, SuccessOf, CheckOf
  <2> QED
    BY <2>2, <2>3, <2>4
<1>5. CASE SuccessChecks(t)
  <2>1. /\ pc[t] = "s_check" /\ seen'[t] = seen[t] /\ p = No
        /\ x = No /\ seen[t] >= RecoveryThreshold => pc'[t] = "s_heal"
        /\ x = Yes \/ ~(seen[t] >= RecoveryThreshold) => pc'[t] = "idle"
        /\ x' = x /\ f' = f /\ s' = s /\ e' = e /\ p' = No
    BY <1>5 DEF SuccessChecks, CallFacts, state, Yes, No
  <2>2. CASE x = No /\ seen[t] >= RecoveryThreshold
    BY <1>0, <2>1, <2>2, RestOf, CheckOf
  <2>3. CASE x = Yes \/ ~(seen[t] >= RecoveryThreshold)
    <3>1. Rest("idle", seen'[t], Record(b)') = Record(b)'
      BY RestNone
    <3> QED
      BY <1>0, <2>1, <2>3, <3>1, CheckOf
  <2> QED
    BY <1>a, <2>2, <2>3
<1>6. CASE SuccessHeals(t)
  <2>1. /\ pc[t] = "s_heal" /\ pc'[t] = "s_reset" /\ p = No
        /\ x' = Yes /\ f' = f /\ s' = s /\ e' = e /\ p' = No
    BY <1>6 DEF SuccessHeals, CallFacts, Yes, No
  <2> QED
    BY <1>0, <2>1, RestOf
<1>7. CASE SuccessResets(t)
  <2>1. /\ pc[t] = "s_reset" /\ pc'[t] = "idle"
        /\ x' = x /\ f' = f /\ s' = 0 /\ e' = e /\ p' = p
    BY <1>7 DEF SuccessResets
  <2> QED
    BY <1>0, <2>1, RestOf, RestNone
<1> QED
  BY <1>1, <1>2, <1>3, <1>4, <1>5, <1>6, <1>7 DEF RecordSuccessStep

\* A step of record_failure: the same.
LEMMA FailureTurns ==
    ASSUME SerialInv, NEW t \in Threads, NEW b \in Backends, b = at[t],
           RecordFailureStep(t)
    PROVE  LET before == Rest(pc[t], seen[t], Record(b))
               after == Rest(pc'[t], seen'[t], Record(b)')
           IN  after = before \/ after = Whole!RecordFailure(before)
<1> DEFINE x == healthy[b]
           f == consecutive_failures[b]
           s == consecutive_successes[b]
           e == ejected_until[b]
           p == probing[b]
<1>0. Record(b) = Of(x, f, s, e, p) /\ Record(b)' = Of(x', f', s', e', p')
  BY DEF Record, Of
<1>a. x \in {Yes, No} /\ p \in {Yes, No}
  BY DEF SerialInv, TypeOK, Yes, No
<1> USE DEF SerialInv, TypeOK, Goto
<1>1. CASE FailureClears(t)
  <2>1. /\ pc[t] = "f_clear" /\ pc'[t] = "f_probing"
        /\ x' = x /\ f' = f /\ s' = 0 /\ e' = e /\ p' = p
    BY <1>1 DEF FailureClears
  <2>2. Rest(pc[t], seen[t], Record(b)) = Of(x, f, s, e, p)
    BY <1>0, <2>1, RestNone
  <2>3. Rest(pc'[t], seen'[t], Record(b)') = Whole!RecordFailure(Of(x, f, 0, e, p))
    BY <1>0, <2>1, RestWhole
  <2>4. Whole!RecordFailure(Of(x, f, 0, e, p)) = Whole!RecordFailure(Of(x, f, s, e, p))
    BY <1>a, FailureOf
  <2> QED
    BY <2>2, <2>3, <2>4
<1>2. CASE FailureLoadsProbing(t)
  <2>1. /\ pc[t] = "f_probing" /\ pc'[t] \in {"f_unprobe", "f_count"}
        /\ x' = x /\ f' = f /\ s' = s /\ e' = e /\ p' = p
    BY <1>2 DEF FailureLoadsProbing, state
  <2> QED
    BY <1>0, <2>1, RestWhole
<1>3. CASE FailureEndsProbe(t)
  <2>1. /\ pc[t] = "f_unprobe" /\ pc'[t] = "f_eject" /\ s = 0 /\ p = Yes
        /\ x' = x /\ f' = f /\ s' = 0 /\ e' = e /\ p' = No
    BY <1>3 DEF FailureEndsProbe, CallFacts, Yes, No
  <2> QED
    BY <1>0, <2>1, RestWhole, FailureOf, RestOf
<1>4. CASE FailureCounts(t)
  <2> DEFINE n == Bump(f, FailureThreshold)
  <2>1. /\ pc[t] = "f_count" /\ pc'[t] = "f_check" /\ s = 0 /\ p = No
        /\ x' = x /\ f' = n /\ s' = 0 /\ e' = e /\ p' = No /\ seen'[t] = n
    BY <1>4 DEF FailureCounts, CallFacts, No
  <2>2. Rest(pc[t], seen[t], Record(b)) = Whole!RecordFailure(Of(x, f, 0, e, No))
    BY <1>0, <2>1, RestWhole
  <2>3. Rest(pc'[t], seen'[t], Record(b)') = Rest("f_check", n, Of(x, n, 0, e, No))
    BY <1>0, <2>1
  <2>4. Whole!RecordFailure(Of(x, f, 0, e, No)) = Rest("f_check", n, Of(x, n, 0, e, No))
    BY <1>a, FailureOf, CheckOf
  <2> QED
    BY <2>2, <2>3, <2>4
<1>5. CASE FailureChecks(t)
  <2>1. /\ pc[t] = "f_check" /\ seen'[t] = seen[t]
        /\ x = Yes /\ seen[t] >= FailureThreshold => pc'[t] = "f_sicken"
        /\ x = No \/ ~(seen[t] >= FailureThreshold) => pc'[t] = "idle"
        /\ x' = x /\ f' = f /\ s' = s /\ e' = e /\ p' = p
    BY <1>5 DEF FailureChecks, state, Yes, No
  <2>2. CASE x = Yes /\ seen[t] >= FailureThreshold
    BY <1>0, <2>1, <2>2, RestOf, CheckOf
  <2>3. CASE x = No \/ ~(seen[t] >= FailureThreshold)
    <3>1. Rest("idle", seen'[t], Record(b)') = Record(b)'
      BY RestNone
    <3> QED
      BY <1>0, <2>1, <2>3, <3>1, CheckOf
  <2> QED
    BY <1>a, <2>2, <2>3
<1>6. CASE FailureSickens(t)
  <2>1. /\ pc[t] = "f_sicken" /\ pc'[t] = "f_reset"
        /\ x' = No /\ f' = f /\ s' = s /\ e' = e /\ p' = p
    BY <1>6 DEF FailureSickens, No
  <2> QED
    BY <1>0, <2>1, RestOf
<1>7. CASE FailureResets(t)
  <2>1. /\ pc[t] = "f_reset" /\ pc'[t] = "f_eject"
        /\ x' = x /\ f' = 0 /\ s' = s /\ e' = e /\ p' = p
    BY <1>7 DEF FailureResets
  <2> QED
    BY <1>0, <2>1, RestOf
<1>8. CASE FailureEjects(t)
  <2>1. /\ pc[t] = "f_eject" /\ pc'[t] = "idle"
        /\ x' = x /\ f' = f /\ s' = s /\ e' = "running" /\ p' = p
    BY <1>8 DEF FailureEjects
  <2> QED
    BY <1>0, <2>1, RestOf, RestNone
<1> QED
  BY <1>1, <1>2, <1>3, <1>4, <1>5, <1>6, <1>7, <1>8 DEF RecordFailureStep

\* A step of the filter: only the end of an ejection does anything to the record.
LEMMA FilterTurns ==
    ASSUME SerialInv, NEW t \in Threads, NEW b \in Backends, b = at[t], FilterStep(t)
    PROVE  LET before == Rest(pc[t], seen[t], Record(b))
               after == Rest(pc'[t], seen'[t], Record(b)')
           IN  after = before \/ after = Whole!PollEjection(before)
<1>1. pc[t] \in FilterLabels /\ pc'[t] \in FilterLabels \cup {"idle"}
  BY DEF FilterStep, FilterFindsEjected, FilterEndsEjection, FilterFindsNoEjection,
         FilterLoadsHealthy, FilterLoadsProbing, Answer, Goto, FilterLabels, SerialInv,
         TypeOK
<1>2. /\ Rest(pc[t], seen[t], Record(b)) = Record(b)
      /\ Rest(pc'[t], seen'[t], Record(b)') = Record(b)'
  BY <1>1, RestNone DEF FilterLabels
<1>3. CASE FilterEndsEjection(t)
  <2>1. /\ ejected_until[b] = "expired" /\ ejected_until'[b] = "none" /\ probing'[b] = TRUE
        /\ healthy' = healthy /\ consecutive_failures' = consecutive_failures
        /\ consecutive_successes' = consecutive_successes
    BY <1>3 DEF FilterEndsEjection, SerialInv, TypeOK
  <2>2. ASSUME NEW g, g = Whole!PollEjection(Record(b)) PROVE g = Record(b)'
    BY <2>1, <2>2, Zenon DEF Record, Whole!PollEjection
  <2> QED
    BY <1>2, <2>2, Zenon
<1>4. CASE ~FilterEndsEjection(t)
  <2>1. UNCHANGED state
    BY <1>4 DEF FilterStep, FilterFindsEjected, FilterFindsNoEjection,
                FilterLoadsHealthy, FilterLoadsProbing, Answer
  <2> QED
    BY <1>2, <2>1 DEF Record, state
<1> QED
  BY <1>3, <1>4

\* The clock on a record, field by field.
LEMMA ExpireOf ==
    ASSUME NEW ok, NEW f, NEW s, NEW half
    PROVE  /\ Of(ok, f, s, "running", half).ejected_until = "running"
           /\ Whole!Expire(Of(ok, f, s, "running", half)) = Of(ok, f, s, "expired", half)
<1>1. Of(ok, f, s, "running", half).ejected_until = "running"
  BY Zenon DEF Of
<1>2. ASSUME NEW g, g = Whole!Expire(Of(ok, f, s, "running", half))
      PROVE  g = Of(ok, f, s, "expired", half)
  BY <1>2, Zenon DEF Of, Whole!Expire
<1> QED
  BY <1>1, <1>2, Zenon

\* A window that runs out in the middle of a call has run out when the call
\* returns, or the call starts it anew and it makes no difference.
LEMMA RestExpires ==
    ASSUME NEW label \in Labels, NEW n,
           NEW x \in {Yes, No}, NEW f, NEW s, NEW p \in {Yes, No}
    PROVE  LET before == Rest(label, n, Of(x, f, s, "running", p))
               after == Rest(label, n, Of(x, f, s, "expired", p))
           IN  \/ after = before
               \/ before.ejected_until = "running" /\ after = Whole!Expire(before)
<1>1. CASE label \in {"h_ejected", "h_healthy", "h_probing", "idle", "s_clear", "f_clear"}
  BY <1>1, RestNone, ExpireOf
<1>2. CASE label \in {"s_probing", "s_unprobe", "s_count"}
  <2>1. /\ Rest(label, n, Of(x, f, s, "running", p)) = Whole!RecordSuccess(Of(x, f, s, "running", p))
        /\ Rest(label, n, Of(x, f, s, "expired", p)) = Whole!RecordSuccess(Of(x, f, s, "expired", p))
    BY <1>2, RestWhole
  <2> QED
    BY <2>1, SuccessOf, ExpireOf
<1>3. CASE label \in {"f_probing", "f_unprobe", "f_count"}
  <2>1. /\ Rest(label, n, Of(x, f, s, "running", p)) = Whole!RecordFailure(Of(x, f, s, "running", p))
        /\ Rest(label, n, Of(x, f, s, "expired", p)) = Whole!RecordFailure(Of(x, f, s, "expired", p))
    BY <1>3, RestWhole
  <2> QED
    BY <2>1, FailureOf, ExpireOf
<1>4. CASE label \in {"s_heal", "s_reset", "f_sicken", "f_reset", "f_eject"}
  BY <1>4, RestOf, ExpireOf
<1>5. CASE label \in {"s_check", "f_check"}
  BY <1>5, CheckOf, ExpireOf
<1> QED
  BY <1>1, <1>2, <1>3, <1>4, <1>5 DEF Labels, SuccessLabels, FailureLabels, FilterLabels

\* Calls that do not overlap for a backend are whole: HealthThreads implements
\* HealthCalls wherever the calls for each backend come one after the other.
THEOREM SerialCallsAreWhole == SerialSpec => CallsAreWhole
<1>1. Init => Calls!Init
  <2> SUFFICES ASSUME Init, NEW b \in Backends PROVE Outcome(b) = Calls!Fresh
    BY DEF Calls!Init
  <2>1. Outcome(b) = Record(b)
    BY OutcomeNow DEF OutcomeLaw, Init
  <2> QED
    BY <2>1, Zenon DEF Init, Record, Calls!Fresh
<1>2. SerialInv /\ SerialInv' /\ [Next /\ NoOverlap']_vars
        => [Calls!Next]_([b \in Backends |-> Outcome(b)])
  <2> SUFFICES ASSUME SerialInv, SerialInv', [Next /\ NoOverlap']_vars
               PROVE  [Calls!Next]_([b \in Backends |-> Outcome(b)])
    OBVIOUS
  <2>0. /\ \A h : Whole!RecordSuccess(h) = Calls!RecordSuccess(h)
        /\ \A h : Whole!RecordFailure(h) = Calls!RecordFailure(h)
        /\ \A h : Whole!PollEjection(h) = Calls!PollEjection(h)
        /\ \A h : Whole!Expire(h) = Calls!Expire(h)
    BY Zenon DEF Whole!RecordSuccess, Whole!RecordFailure, Whole!PollEjection,
         Whole!Expire, Whole!Restore, Whole!Eject, Whole!Bump, Calls!RecordSuccess,
         Calls!RecordFailure, Calls!PollEjection, Calls!Expire, Calls!Restore,
         Calls!Eject, Calls!Bump
  <2>1. ASSUME NEW t \in Threads, Begin(t)
        PROVE  [Calls!Next]_([b \in Backends |-> Outcome(b)])
    <3>1. PICK b \in Backends : at' = [at EXCEPT ![t] = b]
      BY <2>1 DEF Begin, CallRecordSuccess, CallRecordFailure, CallFilter, Call
    <3>2. /\ pc[t] = "idle" /\ pc'[t] \in {"s_clear", "f_clear", "h_ejected"}
          /\ at'[t] = b /\ UNCHANGED <<state, seen>>
          /\ \A u \in Threads \ {t} : pc'[u] = pc[u] /\ at'[u] = at[u]
      BY <2>1, <3>1 DEF Begin, CallRecordSuccess, CallRecordFailure, CallFilter, Call,
                        Goto, SerialInv, TypeOK
    <3>3. \A c \in Backends : Record(c)' = Record(c)
      BY <3>2 DEF Record, state
    <3>4. \A c \in Backends \ {b} : Outcome(c)' = Outcome(c)
      BY <3>2, <3>3, Elsewhere
    <3>5. \A u \in Threads \ {t} : at[u] = b => pc[u] = "idle"
      BY <3>2 DEF SerialInv, NoOverlap, Overlap
    <3>6. Outcome(b) = Record(b)
      BY <3>2, <3>5, OutcomeNow DEF OutcomeLaw
    <3>7. Outcome(b)' = Rest(pc'[t], seen'[t], Record(b)')
      <4>1. Alone(t)'
        BY <3>2, <3>5 DEF Alone
      <4> QED
        BY <3>2, <4>1, OutcomeNext DEF OutcomeLaw
    <3>8. Outcome(b)' = Outcome(b)
      BY <3>2, <3>3, <3>6, <3>7, RestNone
    <3> QED
      BY <3>4, <3>8, OutcomeTurns
  <2>2. ASSUME NEW t \in Threads, Step(t)
        PROVE  [Calls!Next]_([b \in Backends |-> Outcome(b)])
    <3>1. PICK b \in Backends : b = at[t]
      BY DEF SerialInv, TypeOK
    <3>2. /\ pc[t] # "idle" /\ at' = at
          /\ \A u \in Threads \ {t} : pc'[u] = pc[u] /\ seen'[u] = seen[u]
      BY <2>2, StepFrame DEF SerialInv
    <3>3. \A c \in Backends \ {b} : Record(c)' = Record(c)
      BY <2>2, <3>1, StepFrame DEF SerialInv, Record
    <3>4. \A c \in Backends \ {b} : Outcome(c)' = Outcome(c)
      BY <3>1, <3>2, <3>3, Elsewhere
    <3>5. Alone(t) /\ Alone(t)'
      BY <3>2 DEF Alone, SerialInv, NoOverlap, Overlap
    <3>6. /\ Outcome(b) = Rest(pc[t], seen[t], Record(b))
          /\ Outcome(b)' = Rest(pc'[t], seen'[t], Record(b)')
      BY <3>1, <3>2, <3>5, OutcomeNow, OutcomeNext DEF OutcomeLaw
    <3>7. \/ Outcome(b)' = Outcome(b)
          \/ Outcome(b)' = Whole!RecordSuccess(Outcome(b))
          \/ Outcome(b)' = Whole!RecordFailure(Outcome(b))
          \/ Outcome(b)' = Whole!PollEjection(Outcome(b))
      BY <2>2, <3>1, <3>6, SuccessTurns, FailureTurns, FilterTurns DEF Step
    <3> QED
      BY <2>0, <3>4, <3>7, OutcomeTurns
  <2>3. ASSUME NEW b \in Backends, EjectionExpires(b)
        PROVE  [Calls!Next]_([c \in Backends |-> Outcome(c)])
    <3>1. /\ pc' = pc /\ at' = at /\ seen' = seen
          /\ \A c \in Backends \ {b} : Record(c)' = Record(c)
      BY <2>3 DEF EjectionExpires, Record, SerialInv, TypeOK
    <3>2. \A c \in Backends \ {b} : Outcome(c)' = Outcome(c)
      BY <3>1, SameOutcome
    <3> DEFINE x == healthy[b]
               f == consecutive_failures[b]
               s == consecutive_successes[b]
               p == probing[b]
    <3>3. /\ Record(b) = Of(x, f, s, "running", p)
          /\ Record(b)' = Of(x, f, s, "expired", p)
      BY <2>3 DEF EjectionExpires, Record, Of, SerialInv, TypeOK
    <3>4. x \in {Yes, No} /\ p \in {Yes, No}
      BY DEF SerialInv, TypeOK, Yes, No
    <3>5. \/ Outcome(b)' = Outcome(b)
          \/ /\ Outcome(b).ejected_until = "running"
             /\ Outcome(b)' = Whole!Expire(Outcome(b))
      <4>1. CASE \A t \in Threads : at[t] = b => pc[t] = "idle"
        <5>1. Outcome(b) = Record(b) /\ Outcome(b)' = Record(b)'
          BY <3>1, <4>1, OutcomeNow, OutcomeNext DEF OutcomeLaw
        <5> QED
          BY <3>3, <5>1, ExpireOf
      <4>2. ASSUME NEW t \in Threads, at[t] = b, pc[t] # "idle"
            PROVE  \/ Outcome(b)' = Outcome(b)
                   \/ /\ Outcome(b).ejected_until = "running"
                      /\ Outcome(b)' = Whole!Expire(Outcome(b))
        <5>1. Alone(t) /\ Alone(t)'
          BY <3>1, <4>2 DEF Alone, SerialInv, NoOverlap, Overlap
        <5>2. /\ Outcome(b) = Rest(pc[t], seen[t], Record(b))
              /\ Outcome(b)' = Rest(pc[t], seen[t], Record(b)')
          BY <3>1, <4>2, <5>1, OutcomeNow, OutcomeNext DEF OutcomeLaw
        <5>3. pc[t] \in Labels
          BY DEF SerialInv, TypeOK
        <5> QED
          BY <3>3, <3>4, <5>2, <5>3, RestExpires
      <4> QED
        BY <4>1, <4>2
    <3> QED
      BY <2>0, <3>2, <3>5, OutcomeTurns
  <2>4. CASE UNCHANGED vars
    <3>1. \A b \in Backends : Outcome(b)' = Outcome(b)
      BY <2>4, SameOutcome DEF vars, Record
    <3> QED
      BY <3>1
  <2> QED
    BY <2>1, <2>2, <2>3, <2>4 DEF Next
<1> QED
  BY <1>1, <1>2, SerialAlways, PTL DEF SerialSpec, CallsAreWhole, Calls!Spec
=============================================================================
