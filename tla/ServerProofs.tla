---------------------------- MODULE ServerProofs ----------------------------
(***************************************************************************)
(* Proofs about Server, for any finite set of connections.                 *)
(*                                                                         *)
(* The three invariants are proved together: the counter stays a natural   *)
(* number only because it counts the open connections, "drained" is true   *)
(* only because the counter that was found to be 0 is exact, and it stays  *)
(* true because the loop that has answered accepts nobody any more.        *)
(***************************************************************************)
EXTENDS Server, FiniteSetTheorems, TLAPS

\* What every step of the server and of its connections preserves.
DrainInv == TypeOK /\ TrackerExact /\ DrainedMeansEmpty

\* There are finitely many open connections, so their number is a natural
\* number, and it is 0 only if there is none.
LEMMA OpenFinite ==
    /\ IsFiniteSet(OpenConns)
    /\ Cardinality(OpenConns) \in Nat
    /\ Cardinality(OpenConns) = 0 <=> OpenConns = {}
<1>1. OpenConns \subseteq Conns
  BY DEF OpenConns
<1>2. IsFiniteSet(OpenConns)
  BY <1>1, ConnsAssumption, FS_Subset
<1> QED
  BY <1>2, FS_CardinalityType, FS_EmptySet

\* A step that leaves the set of open connections, the counter and the answer
\* of wait_for_zero alone keeps what is said of them.
LEMMA SameConns ==
    ASSUME DrainInv, OpenConns' = OpenConns, active' = active,
           drained' = drained
    PROVE  TrackerExact' /\ DrainedMeansEmpty'
BY DEF DrainInv, TrackerExact, DrainedMeansEmpty

\* A step of connection c that keeps it open, or keeps it out, keeps the set.
LEMMA SameOpen ==
    ASSUME NEW c \in Conns, NEW stage, conn \in [Conns -> ConnStages],
           conn' = [conn EXCEPT ![c] = stage],
           conn[c] \in OpenStages <=> stage \in OpenStages
    PROVE  OpenConns' = OpenConns
BY DEF OpenConns

\* The server's tracker is exact and its report true, for any number of
\* connections and any interleaving of accepts, closes, notifications and
\* checks.
THEOREM DrainInvariant == Spec => []DrainInv
<1>1. Init => DrainInv
  <2> SUFFICES ASSUME Init PROVE DrainInv
    OBVIOUS
  <2>1. OpenConns = {}
    BY DEF Init, OpenConns, OpenStages
  <2> QED
    BY <2>1, FS_EmptySet DEF Init, DrainInv, TypeOK, TrackerExact,
       DrainedMeansEmpty, ServerStages, DrainStages, ConnStages
<1>2. DrainInv /\ [Next]_vars => DrainInv'
  <2> SUFFICES ASSUME DrainInv, [Next]_vars PROVE DrainInv'
    OBVIOUS
  <2> USE DEF DrainInv, TypeOK, ServerStages, DrainStages, ConnStages
  <2>1. ASSUME NEW c \in Conns, Accept(c) PROVE DrainInv'
    <3>1. OpenConns' = OpenConns \cup {c} /\ c \notin OpenConns
      BY <2>1 DEF Accept, OpenConns, OpenStages
    <3>2. Cardinality(OpenConns') = Cardinality(OpenConns) + 1
      BY <3>1, OpenFinite, FS_AddElement
    <3>3. TypeOK' /\ drained' = "unknown"
      BY <2>1 DEF Accept, OpenStages
    <3> QED
      BY <2>1, <3>2, <3>3 DEF Accept, TrackerExact, DrainedMeansEmpty
  <2>2. CASE AcceptFails
    <3>1. TypeOK' /\ OpenConns' = OpenConns
      BY <2>2 DEF AcceptFails, OpenConns
    <3> QED
      BY <2>2, <3>1, SameConns DEF AcceptFails
  <2>3. CASE ShutdownSignal
    <3>1. TypeOK' /\ OpenConns' = OpenConns
      BY <2>3 DEF ShutdownSignal, OpenConns
    <3> QED
      BY <2>3, <3>1, SameConns DEF ShutdownSignal
  <2>4. CASE Drain
    <3>1. OpenConns' = OpenConns /\ active' = active
      BY <2>4 DEF Drain, FirstCheck, LoopCheck, Register, Wake, DrainTimeout,
                  Report, OpenConns
    <3>2. CASE FirstCheck \/ LoopCheck
      <4>1. TypeOK'
        BY <3>2 DEF FirstCheck, LoopCheck
      <4> QED
        BY <3>1, <3>2, <4>1, OpenFinite
        DEF FirstCheck, LoopCheck, TrackerExact, DrainedMeansEmpty
    <3>3. CASE DrainTimeout
      <4>1. TypeOK'
        BY <3>3 DEF DrainTimeout
      <4> QED
        BY <3>1, <3>3, <4>1 DEF DrainTimeout, TrackerExact, DrainedMeansEmpty
    <3>4. CASE Register \/ Wake \/ Report
      <4>1. TypeOK'
        BY <3>4 DEF Register, Wake, Report
      <4> QED
        BY <3>1, <3>4, <4>1, SameConns DEF Register, Wake, Report
    <3> QED
      BY <2>4, <3>2, <3>3, <3>4 DEF Drain
  <2>5. ASSUME NEW c \in Conns, SeesShutdown(c) PROVE DrainInv'
    <3>1. TypeOK' /\ OpenConns' = OpenConns
      BY <2>5 DEF SeesShutdown, OpenConns
    <3> QED
      BY <2>5, <3>1, SameConns DEF SeesShutdown
  <2>6. ASSUME NEW c \in Conns, RequestBegins(c) PROVE DrainInv'
    <3>1. TypeOK' /\ OpenConns' = OpenConns
      BY <2>6, SameOpen DEF RequestBegins, OpenStages
    <3> QED
      BY <2>6, <3>1, SameConns DEF RequestBegins
  <2>7. ASSUME NEW c \in Conns, RequestEnds(c) PROVE DrainInv'
    <3>1. TypeOK' /\ OpenConns' = OpenConns
      BY <2>7, SameOpen DEF RequestEnds, OpenStages
    <3> QED
      BY <2>7, <3>1, SameConns DEF RequestEnds
  <2>8. ASSUME NEW c \in Conns, Close(c) PROVE DrainInv'
    <3>1. OpenConns' = OpenConns \ {c} /\ c \in OpenConns
      BY <2>8 DEF Close, OpenConns, OpenStages
    <3>2. Cardinality(OpenConns') = Cardinality(OpenConns) - 1
      BY <3>1, OpenFinite, FS_RemoveElement
    <3>3. active # 0
      BY <3>1, OpenFinite DEF TrackerExact
    <3>4. TypeOK'
      BY <2>8, <3>3 DEF Close, OpenStages
    <3>5. drained # "drained"
      BY <3>1 DEF DrainedMeansEmpty
    <3> QED
      BY <2>8, <3>2, <3>4, <3>5 DEF Close, TrackerExact, DrainedMeansEmpty
  <2>9. ASSUME NEW c \in Conns, NotifyWaiters(c) PROVE DrainInv'
    <3>1. OpenConns' = OpenConns
      BY <2>9, SameOpen DEF NotifyWaiters, OpenStages
    <3>2. woken' \in BOOLEAN
      BY <2>9, Zenon DEF NotifyWaiters
    <3>3. TypeOK'
      BY <2>9, <3>2 DEF NotifyWaiters
    <3> QED
      BY <2>9, <3>1, <3>3, SameConns DEF NotifyWaiters
  <2>10. CASE UNCHANGED vars
    <3>1. TypeOK' /\ OpenConns' = OpenConns
      BY <2>10 DEF vars, OpenConns
    <3> QED
      BY <2>10, <3>1, SameConns DEF vars
  <2> QED
    BY <2>1, <2>2, <2>3, <2>4, <2>5, <2>6, <2>7, <2>8, <2>9, <2>10
    DEF Next, ConnStep
<1> QED
  BY <1>1, <1>2, PTL DEF Spec

\* The accept loop, the tracker and the connection tasks keep their types, and
\* the answer of the drain belongs to the stages that follow it.
THEOREM ServerTypeCorrect == Spec => []TypeOK
BY DrainInvariant, PTL DEF DrainInv

\* The tracker counts exactly the open connections.
THEOREM TrackerAlwaysExact == Spec => []TrackerExact
BY DrainInvariant, PTL DEF DrainInv

\* "drained" is reported only when no connection is open.
THEOREM DrainedIsTrue == Spec => []DrainedMeansEmpty
BY DrainInvariant, PTL DEF DrainInv
=============================================================================
