------------------------------- MODULE Server -------------------------------
(***************************************************************************)
(* The accept loop, its connection tasks and the graceful drain            *)
(* (src/src/server/mod.rs): what run_with_shutdown_kind does once startup  *)
(* is over.                                                                *)
(*                                                                         *)
(* The loop and every connection task run on their own threads of a        *)
(* multi-threaded runtime and share two things: the watch channel that     *)
(* announces the shutdown and the ConnectionTracker, an atomic counter     *)
(* with a Notify.  Each load, fetch_sub and notify of the tracker is a     *)
(* step, because wait_for_zero and close take no lock.                     *)
(*                                                                         *)
(* hyper's connection future is external: it serves requests one after     *)
(* the other, may end at any time (peer, error, header timeout), and after *)
(* graceful_shutdown takes no further request.  The process exits when     *)
(* the loop returns, so a connection task takes no step after that.        *)
(***************************************************************************)
EXTENDS Naturals, FiniteSets

CONSTANT Conns      \* connections that may be accepted, each once

ASSUME ConnsAssumption == IsFiniteSet(Conns)

VARIABLES
    server,     \* where run_with_shutdown_kind is
    shutdown,   \* the value in the watch channel
    active,     \* ConnectionTracker::active
    woken,      \* the Notified future wait_for_zero holds has been notified
    drained,    \* what wait_for_zero returned
    conn,       \* conn[c]: where the task of connection c is
    told        \* told[c]: graceful_shutdown was called on c

vars == <<server, shutdown, active, woken, drained, conn, told>>

\* wait_for_zero: the first load, the load of the loop condition, the gap
\* before notified() is called, the wait; then the final log line.
DrainStages == {"first_check", "check", "gap", "waiting", "report"}
ServerStages == {"accepting", "stopped", "failed"} \cup DrainStages
Running == server \notin {"stopped", "failed"}

\* fresh: accepted, no request yet; idle: kept alive between two requests;
\* notifying: fetch_sub returned 1 and notify_waiters is still to be called.
OpenStages == {"fresh", "serving", "idle"}
ConnStages == {"none", "closed", "notifying"} \cup OpenStages

\* The connections that have been opened and not yet been closed.
OpenConns == {c \in Conns : conn[c] \in OpenStages}

Init ==
    /\ server = "accepting"
    /\ shutdown = FALSE
    /\ active = 0
    /\ woken = FALSE
    /\ drained = "unknown"
    /\ conn = [c \in Conns |-> "none"]
    /\ told = [c \in Conns |-> FALSE]

-----------------------------------------------------------------------------
(* The accept loop *)

\* listener.accept() yields a stream: tracker.open(), then the task starts.
Accept(c) ==
    /\ server = "accepting"
    /\ conn[c] = "none"
    /\ active' = active + 1
    /\ conn' = [conn EXCEPT ![c] = "fresh"]
    /\ UNCHANGED <<server, shutdown, woken, drained, told>>

\* listener.accept() fails: `result?` ends the server, without a drain.
AcceptFails ==
    /\ server = "accepting"
    /\ server' = "failed"
    /\ UNCHANGED <<shutdown, active, woken, drained, conn, told>>

\* Mutant: the drain begins and nobody is told.
ShutdownNotSent ==
    /\ server = "accepting"
    /\ server' = "first_check"
    /\ UNCHANGED <<shutdown, active, woken, drained, conn, told>>

\* The shutdown signal arrives: shutdown_tx.send(true), then wait_for_zero.
ShutdownSignal ==
    /\ server = "accepting"
    /\ server' = "first_check"
    /\ shutdown' = TRUE
    /\ UNCHANGED <<active, woken, drained, conn, told>>

-----------------------------------------------------------------------------
(* wait_for_zero *)

\* The early return, before the timeout is armed.
FirstCheck ==
    /\ server = "first_check"
    /\ \/ /\ active = 0
          /\ server' = "report"
          /\ drained' = "drained"
       \/ /\ active # 0
          /\ server' = "check"
          /\ UNCHANGED drained
    /\ UNCHANGED <<shutdown, active, woken, conn, told>>

\* The load of the loop condition.
LoopCheck ==
    /\ server = "check"
    /\ \/ /\ active = 0
          /\ server' = "report"
          /\ drained' = "drained"
       \/ /\ active # 0
          /\ server' = "gap"
          /\ UNCHANGED drained
    /\ UNCHANGED <<shutdown, active, woken, conn, told>>

\* self.drained.notified(): from here on a notify_waiters reaches the future.
Register ==
    /\ server = "gap"
    /\ server' = "waiting"
    /\ woken' = FALSE
    /\ UNCHANGED <<shutdown, active, drained, conn, told>>

\* Mutant: `if` for `while`: one notification is taken for the end.
WakeWithoutCheck ==
    /\ server = "waiting"
    /\ woken
    /\ server' = "report"
    /\ drained' = "drained"
    /\ UNCHANGED <<shutdown, active, woken, conn, told>>

\* The notified future completes and the loop condition is loaded again.
Wake ==
    /\ server = "waiting"
    /\ woken
    /\ server' = "check"
    /\ UNCHANGED <<shutdown, active, woken, drained, conn, told>>

\* Mutant: no time::timeout around the loop.
NoDrainTimeout == FALSE /\ UNCHANGED vars

\* time::timeout elapses.  It polls the loop before the timer, so it gives up
\* only while the future waits and has not been notified.
DrainTimeout ==
    /\ server = "waiting"
    /\ ~woken
    /\ server' = "report"
    /\ drained' = "timed_out"
    /\ UNCHANGED <<shutdown, active, woken, conn, told>>

\* log_shutdown_complete, and the function returns.
Report ==
    /\ server = "report"
    /\ server' = "stopped"
    /\ UNCHANGED <<shutdown, active, woken, drained, conn, told>>

-----------------------------------------------------------------------------
(* Connection tasks *)

\* shutdown_rx.changed() completes, *shutdown_rx.borrow() is true:
\* graceful_shutdown.
SeesShutdown(c) ==
    /\ Running
    /\ shutdown
    /\ conn[c] \in OpenStages
    /\ ~told[c]
    /\ told' = [told EXCEPT ![c] = TRUE]
    /\ UNCHANGED <<server, shutdown, active, woken, drained, conn>>

\* hyper reads a request and calls the service.  After graceful_shutdown it
\* does so only on a connection that has not had a request yet.
RequestBegins(c) ==
    /\ Running
    /\ conn[c] = "fresh" \/ (conn[c] = "idle" /\ ~told[c])
    /\ conn' = [conn EXCEPT ![c] = "serving"]
    /\ UNCHANGED <<server, shutdown, active, woken, drained, told>>

\* The response has been written; the connection is kept alive.
RequestEnds(c) ==
    /\ Running
    /\ conn[c] = "serving"
    /\ conn' = [conn EXCEPT ![c] = "idle"]
    /\ UNCHANGED <<server, shutdown, active, woken, drained, told>>

\* Mutant: an error of the connection leaves the task without tracker.close().
CloseForgotten(c) ==
    /\ Running
    /\ conn[c] \in OpenStages
    /\ \/ /\ active' = active - 1
          /\ conn' = [conn EXCEPT ![c] = IF active = 1 THEN "notifying" ELSE "closed"]
       \/ /\ conn' = [conn EXCEPT ![c] = "closed"]
          /\ UNCHANGED active
    /\ UNCHANGED <<server, shutdown, woken, drained, told>>

\* The connection future ends, cleanly or with an error that is only logged:
\* the fetch_sub of tracker.close().
Close(c) ==
    /\ Running
    /\ conn[c] \in OpenStages
    /\ active' = active - 1
    /\ conn' = [conn EXCEPT ![c] = IF active = 1 THEN "notifying" ELSE "closed"]
    /\ UNCHANGED <<server, shutdown, woken, drained, told>>

\* The notify_waiters of tracker.close(): it reaches a future that exists now
\* and leaves nothing behind for a later one.
NotifyWaiters(c) ==
    /\ Running
    /\ conn[c] = "notifying"
    /\ conn' = [conn EXCEPT ![c] = "closed"]
    /\ woken' = (woken \/ server = "waiting")
    /\ UNCHANGED <<server, shutdown, active, drained, told>>

-----------------------------------------------------------------------------
Drain == FirstCheck \/ LoopCheck \/ Register \/ Wake \/ DrainTimeout \/ Report

ConnStep(c) ==
    \/ SeesShutdown(c)
    \/ RequestBegins(c)
    \/ RequestEnds(c)
    \/ Close(c)
    \/ NotifyWaiters(c)

Next ==
    \/ \E c \in Conns : Accept(c)
    \/ AcceptFails
    \/ ShutdownSignal
    \/ Drain
    \/ \E c \in Conns : ConnStep(c)

\* The loop runs on once the drain has begun: its only wait is under a
\* timeout.  No fairness for the connections: a client may never finish.
Spec == Init /\ [][Next]_vars /\ WF_vars(Drain)

-----------------------------------------------------------------------------
\* Every variable keeps its type, the channel announces the shutdown exactly
\* from the signal on, and wait_for_zero has answered exactly when it is over.
TypeOK ==
    /\ server \in ServerStages
    /\ shutdown \in BOOLEAN
    /\ shutdown <=> server \in DrainStages \cup {"stopped"}
    /\ active \in Nat
    /\ woken \in BOOLEAN
    /\ drained \in {"unknown", "drained", "timed_out"}
    /\ drained # "unknown" <=> server \in {"report", "stopped"}
    /\ conn \in [Conns -> ConnStages]
    /\ told \in [Conns -> BOOLEAN]

\* The counter the drain waits on is exactly the number of connections that
\* were accepted and have not passed the fetch_sub of close, whichever way
\* their tasks end.
TrackerExact == active = Cardinality(OpenConns)

\* The report "drained" is true: when wait_for_zero has answered so, no
\* connection is open, and none is opened before the process exits.  A late
\* notification, left by a connection that closed before others were
\* accepted, must not be taken for the end of the drain.
DrainedMeansEmpty == drained = "drained" => OpenConns = {}

\* Liveness.  Once the signal has arrived the server stops, whatever the
\* connections do.
DrainEnds == (server \in DrainStages) ~> (server = "stopped")

\* The server stops when its connections have ended: wait_for_zero never waits
\* for a notification that cannot come any more.  While it waits, a connection
\* is open, or one is about to notify, or the notification has arrived.
ShutsDownAfterDraining ==
    server = "waiting" =>
        \/ woken
        \/ OpenConns # {}
        \/ \E c \in Conns : conn[c] = "notifying"
=============================================================================
