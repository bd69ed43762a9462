--------------------------- MODULE ServiceLifecycle -------------------------
(***************************************************************************)
(* backend/pc_client/ble_service.py, gui.py and service_api.py: how the    *)
(* service is started, how its tracked operations end, and how its host    *)
(* shuts it down.  There are two hosts.  The HTTP application drains its   *)
(* requests and then waits for stop() without a limit.  The window submits *)
(* calls to a thread of its own, waits three seconds for stop() and stops  *)
(* the loop.  At the end of either loop whatever task is left is cancelled *)
(* and awaited.                                                            *)
(*                                                                         *)
(* Connections are reduced to what a shutdown meets: a link being opened   *)
(* or closed, and the scan everybody shares, which stop() does not know    *)
(* of.  ConnectionManager and Discovery have them in full, HistoryTask the *)
(* history operations, BleScheduler and Persistence the two queues.  The   *)
(* calls are connect, which the manager answers, and forget_pairing, whose *)
(* work is a background task.                                              *)
(***************************************************************************)
EXTENDS Naturals, FiniteSets

CONSTANTS
  Calls,      \* the calls made during a behaviour
  MaxFaults,  \* bound: lost links and unexpected failures of the manager
  NoCall

ASSUME CallsAssumption ==
  NoCall \notin Calls /\ MaxFaults \in Nat

VARIABLES
  started,   \* _started
  phase,     \* _state.phase
  desired,   \* _state.desired_connected
  client,    \* _client is not None
  scan,      \* _scan_task
  loop,      \* the manager under its supervisor, and the poll loop
  history,   \* _history_task
  stop,      \* where service.stop() is
  window,    \* whether the host is the window or the HTTP application
  host,      \* the thread that owns the loop
  pc,        \* where each call is
  op,        \* the state of the operation each call made
  work,      \* the background task of that operation
  old,       \* the operations not updated for the retention time
  pending,   \* _pending_connect_operation_id
  faults

linkVars == <<phase, desired, client>>
opVars   == <<pc, op, work, old, pending>>
hostVars == <<window, host>>
vars     == <<started, linkVars, scan, loop, history, stop, hostVars, opVars, faults>>

Active   == {"QUEUED", "RUNNING"}
Terminal == {"SUCCEEDED", "FAILED", "CANCELLED"}
Loops    == {"manager", "poll"}

TypeOK ==
  /\ started \in BOOLEAN /\ desired \in BOOLEAN /\ client \in BOOLEAN
  /\ phase \in {"STOPPED", "DISCONNECTED", "RECONNECTING", "CONNECTED", "DISCONNECTING"}
  /\ scan \in {"off", "running", "cancelled"}
  /\ loop \in [Loops -> {"off", "working", "cleanup", "lost", "closing", "backoff",
                         "cancelled"}]
  /\ history \in {"off", "running", "cancelled"}
  /\ stop \in {"idle", "requested", "history", "tasks", "client", "closing",
               "persistence", "done", "cancelled"}
  /\ window \in BOOLEAN
  /\ host \in {"off", "refused", "open", "closing", "stopping", "reaping", "gone"}
  /\ pc \in [Calls -> {"idle", "connect", "forget", "history", "waiting", "cancelled",
                       "done"}]
  /\ op \in [Calls -> Active \cup Terminal \cup {"none", "pruned"}]
  /\ work \in [Calls -> {"none", "new", "running", "closing", "closed", "unstarted",
                         "cancelled", "over"}]
  /\ old \subseteq Calls /\ pending \in Calls \cup {NoCall}
  /\ pending # NoCall => op[pending] = "RUNNING"
  /\ faults \in 0 .. MaxFaults

Ready == phase = "CONNECTED"

\* The callbacks of the loop run: not before the service is up, nor between
\* loop.stop() and the run that reaps the tasks.
LoopRuns == host \in {"open", "closing", "reaping"}

(***************************************************************************)
(* Starting.                                                               *)
(***************************************************************************)
Init ==
  /\ started = FALSE /\ phase = "STOPPED" /\ desired = FALSE /\ client = FALSE
  /\ scan = "off"
  /\ loop = [l \in Loops |-> "off"] /\ history = "off"
  /\ stop = "idle" /\ window \in BOOLEAN /\ host = "off"
  /\ pc = [c \in Calls |-> "idle"] /\ op = [c \in Calls |-> "none"]
  /\ work = [c \in Calls |-> "none"] /\ old = {} /\ pending = NoCall
  /\ faults = MaxFaults

\* A database that does not start is recorded and does not stop the service.
Start ==
  /\ host = "off" /\ ~started
  /\ started' = TRUE /\ host' = "open"
  /\ phase' = "DISCONNECTED" /\ desired' = FALSE
  /\ loop' = [l \in Loops |-> "working"]
  /\ UNCHANGED <<window, client, scan, history, stop, opVars, faults>>

\* The service cannot be made or started: the thread reports it and ends.
StartRefused ==
  /\ window /\ host = "off" /\ host' = "refused"
  /\ UNCHANGED <<window, started, linkVars, scan, loop, history, stop, opVars, faults>>

(***************************************************************************)
(* Tracked operations.                                                     *)
(***************************************************************************)
Updated(c, state) == op' = [op EXCEPT ![c] = state] /\ old' = old \ {c}

\* _cancel_operation of the pending connect, which changes no ended operation.
WithPendingCancelled ==
  [c \in Calls |-> IF c = pending /\ op[c] \in Active THEN "CANCELLED" ELSE op[c]]

\* Plausible bug: leaving the number of the ended operation in place
EndPendingKeepsNumber(state) ==
  /\ IF pending = NoCall THEN UNCHANGED <<op, old>> ELSE Updated(pending, state)
  /\ UNCHANGED pending
\* _complete_pending_connect and _fail_pending_connect
EndPending(state) ==
  /\ IF pending = NoCall THEN UNCHANGED <<op, old>> ELSE Updated(pending, state)
  /\ pending' = NoCall

\* The window's call waits for its operation, a request returns its number.
Launched == IF window THEN "waiting" ELSE "done"

\* An operation of the retention time ago.  A waiter resumes within a turn of
\* the loop, so none that ended this long ago is still waited for.
Ages(c) ==
  /\ op[c] \in Active \cup Terminal /\ c \notin old
  /\ op[c] \in Terminal => pc[c] # "waiting"
  /\ old' = old \cup {c}
  /\ UNCHANGED <<started, linkVars, scan, loop, history, stop, hostVars, pc, op, work, pending,
                 faults>>

Expired == {c \in old : op[c] \in Terminal}

\* _prune_operations, in every call that reads or adds an operation
Prune ==
  /\ LoopRuns /\ Expired # {}
  /\ op' = [c \in Calls |-> IF c \in Expired THEN "pruned" ELSE op[c]]
  /\ old' = old \ Expired
  /\ UNCHANGED <<started, linkVars, scan, loop, history, stop, hostVars, pc, work, pending, faults>>

\* wait_for_operation returns, and the window reports what it returned.
Answered(c) ==
  /\ LoopRuns /\ pc[c] = "waiting" /\ op[c] \in Terminal \cup {"pruned"}
  /\ pc' = [pc EXCEPT ![c] = "done"]
  /\ UNCHANGED <<started, linkVars, scan, loop, history, stop, hostVars, op, work, old, pending,
                 faults>>

Submit(c, kind) ==
  /\ host = "open" /\ pc[c] = "idle"
  /\ pc' = [pc EXCEPT ![c] = kind]
  /\ UNCHANGED <<started, linkVars, scan, loop, history, stop, hostVars, op, work, old, pending,
                 faults>>

ConnectRuns(c) ==
  /\ LoopRuns /\ pc[c] = "connect"
  /\ pc' = [pc EXCEPT ![c] = Launched]
  /\ \/ /\ Ready /\ Updated(c, "SUCCEEDED")
        /\ UNCHANGED <<pending, phase, desired>>
     \/ /\ ~Ready
        /\ op' = [WithPendingCancelled EXCEPT ![c] = "RUNNING"]
        /\ old' = old \ {c, pending}
        /\ pending' = c
        /\ phase' = "RECONNECTING" /\ desired' = TRUE
  /\ UNCHANGED <<started, client, scan, loop, history, stop, hostVars, work, faults>>

\* _launch_operation
Launch(c) ==
  /\ pc' = [pc EXCEPT ![c] = Launched]
  /\ Updated(c, "QUEUED")
  /\ work' = [work EXCEPT ![c] = "new"]

ForgetRuns(c) ==
  /\ LoopRuns /\ pc[c] = "forget"
  /\ \/ /\ ~Ready /\ pc' = [pc EXCEPT ![c] = "done"]
        /\ UNCHANGED <<phase, desired, history, op, work, old>>
     \/ /\ Ready /\ phase' = "DISCONNECTING" /\ desired' = FALSE
        /\ \/ /\ history = "off" /\ Launch(c) /\ UNCHANGED history
           \/ /\ history # "off" /\ history' = "cancelled"
              /\ pc' = [pc EXCEPT ![c] = "history"]
              /\ UNCHANGED <<op, work, old>>
  /\ UNCHANGED <<started, client, scan, loop, stop, hostVars, pending, faults>>

\* forget_pairing resumes after its _cancel_history.
ForgetResumes(c) ==
  /\ LoopRuns /\ pc[c] = "history" /\ history = "off"
  /\ Launch(c)
  /\ UNCHANGED <<started, linkVars, scan, loop, history, stop, hostVars, pending, faults>>

\* The task enters perform; without a client it fails there.
WorkStarts(c) ==
  /\ LoopRuns /\ work[c] = "new"
  /\ \/ /\ client /\ Updated(c, "RUNNING")
        /\ work' = [work EXCEPT ![c] = "running"]
     \/ /\ ~client /\ Updated(c, "FAILED")
        /\ work' = [work EXCEPT ![c] = "over"]
  /\ UNCHANGED <<started, linkVars, scan, loop, history, stop, hostVars, pc, pending, faults>>

\* The device has answered, or a stage failed: _client is dropped, and its close
\* is awaited.
WorkCloses(c) ==
  /\ LoopRuns /\ work[c] = "running" /\ client
  /\ client' = FALSE /\ work' = [work EXCEPT ![c] = "closing"]
  /\ UNCHANGED <<started, phase, desired, scan, loop, history, stop, hostVars, pc, op,
                 old, pending, faults>>

WorkClosed(c) ==
  /\ LoopRuns /\ work[c] = "closing"
  /\ work' = [work EXCEPT ![c] = "closed"]
  /\ UNCHANGED <<started, linkVars, scan, loop, history, stop, hostVars, pc, op, old,
                 pending, faults>>

\* The bond is removed, or one of the stages failed.
WorkEnds(c) ==
  /\ LoopRuns
  /\ work[c] = "closed" \/ (work[c] = "running" /\ ~client)
  /\ \E end \in {"SUCCEEDED", "FAILED"} : Updated(c, end)
  /\ work' = [work EXCEPT ![c] = "over"]
  /\ phase' = "DISCONNECTED"
  /\ UNCHANGED <<started, desired, client, scan, loop, history, stop, hostVars, pc,
                 pending, faults>>

\* Cancelled in perform the operation ends; a task cancelled before its first
\* step never enters run(), and its operation stays as it was.
WorkCancelled(c) ==
  /\ LoopRuns /\ work[c] \in {"cancelled", "unstarted"}
  /\ work' = [work EXCEPT ![c] = "over"]
  /\ IF work[c] = "cancelled" /\ op[c] \in Active THEN Updated(c, "CANCELLED")
     ELSE UNCHANGED <<op, old>>
  /\ UNCHANGED <<started, linkVars, scan, loop, history, stop, hostVars, pc, pending, faults>>

CallCancelled(c) ==
  /\ LoopRuns /\ pc[c] = "cancelled"
  /\ pc' = [pc EXCEPT ![c] = "done"]
  /\ UNCHANGED <<started, linkVars, scan, loop, history, stop, hostVars, op, work, old, pending,
                 faults>>

(***************************************************************************)
(* The manager, its supervisor, and the other long tasks.                  *)
(***************************************************************************)
ManagerWorks == LoopRuns /\ loop["manager"] = "working"

Connected ==
  /\ ManagerWorks /\ desired /\ ~Ready
  /\ phase' = "CONNECTED" /\ client' = TRUE /\ history' = "running"
  /\ EndPending("SUCCEEDED")
  /\ UNCHANGED <<started, desired, scan, loop, stop, hostVars, pc, work, faults>>

\* The client of a failed attempt is closed by the attempt, ...
AttemptFails ==
  /\ ManagerWorks /\ desired /\ ~Ready /\ faults > 0 /\ faults' = faults - 1
  /\ loop' = [loop EXCEPT !["manager"] = "cleanup"]
  /\ UNCHANGED <<started, linkVars, scan, history, stop, hostVars, opVars>>

\* _close_client of the manager: what is closed is no longer _client.
ManagerCloses ==
  /\ client' = FALSE
  /\ loop' = [loop EXCEPT !["manager"] = IF client THEN "closing" ELSE "working"]

\* ... and then the manager closes the one that was there before it, if any.
CleanedUp ==
  /\ LoopRuns /\ loop["manager"] = "cleanup"
  /\ phase' = IF desired THEN "RECONNECTING" ELSE "DISCONNECTED"
  /\ IF desired THEN EndPending("FAILED") ELSE UNCHANGED <<op, old, pending>>
  /\ ManagerCloses
  /\ UNCHANGED <<started, desired, scan, history, stop, hostVars, pc, work, faults>>

\* _connection_lost cancels the history task, and goes on when that has ended.
LinkLost ==
  /\ ManagerWorks /\ Ready /\ faults > 0 /\ faults' = faults - 1
  /\ phase' = IF desired THEN "RECONNECTING" ELSE "DISCONNECTED"
  /\ history' = IF history = "off" THEN "off" ELSE "cancelled"
  /\ loop' = [loop EXCEPT !["manager"] = "lost"]
  /\ UNCHANGED <<started, desired, client, scan, stop, hostVars, opVars>>

LossHandled ==
  /\ LoopRuns /\ loop["manager"] = "lost" /\ history = "off"
  /\ ManagerCloses
  /\ UNCHANGED <<started, phase, desired, scan, history, stop, hostVars, opVars, faults>>

\* The close ends or gives up.
ManagerClosed ==
  /\ LoopRuns /\ loop["manager"] = "closing"
  /\ loop' = [loop EXCEPT !["manager"] = "working"]
  /\ UNCHANGED <<started, linkVars, scan, history, stop, hostVars, opVars, faults>>

\* _scan_for_devices, for the manager or for a call: a task of its own, whoever
\* waits for it.  Between the head of the manager's loop and the scan nothing
\* suspends.
ScanStarts ==
  /\ LoopRuns /\ scan = "off" /\ scan' = "running"
  /\ \/ ManagerWorks /\ started /\ desired /\ ~Ready
     \/ host = "open" /\ phase = "DISCONNECTED"
  /\ UNCHANGED <<started, linkVars, loop, history, stop, hostVars, opVars, faults>>

ScanEnds ==
  /\ LoopRuns /\ scan # "off" /\ scan' = "off"
  /\ UNCHANGED <<started, linkVars, loop, history, stop, hostVars, opVars, faults>>

\* Automatic connection is disabled.
ManagerObeys ==
  /\ ManagerWorks /\ started /\ ~desired /\ phase # "DISCONNECTED"
  /\ phase' = "DISCONNECTED"
  /\ UNCHANGED <<started, desired, client, scan, loop, history, stop, hostVars, opVars,
                 faults>>

\* An exception no branch of the manager expects: the supervisor records it
\* and starts the manager again after the probe interval.
ManagerFails ==
  /\ ManagerWorks /\ faults > 0 /\ faults' = faults - 1
  /\ loop' = [loop EXCEPT !["manager"] = "backoff"]
  /\ phase' = IF desired THEN "RECONNECTING" ELSE "DISCONNECTED"
  /\ UNCHANGED <<started, desired, client, scan, history, stop, hostVars, opVars>>

ManagerRevives ==
  /\ LoopRuns /\ loop["manager"] = "backoff"
  /\ loop' = [loop EXCEPT !["manager"] = IF started THEN "working" ELSE "off"]
  /\ UNCHANGED <<started, linkVars, scan, history, stop, hostVars, opVars, faults>>

\* Both loops test _started; STOP is posted to the one that may be waiting.
LoopReturns(l) ==
  /\ LoopRuns /\ loop[l] = "working" /\ ~started
  /\ loop' = [loop EXCEPT ![l] = "off"]
  /\ UNCHANGED <<started, linkVars, scan, history, stop, hostVars, opVars, faults>>

LoopCancelled(l) ==
  /\ LoopRuns /\ loop[l] = "cancelled"
  /\ loop' = [loop EXCEPT ![l] = "off"]
  /\ UNCHANGED <<started, linkVars, scan, history, stop, hostVars, opVars, faults>>

\* asyncio.wait_for returns the answer that came with the cancellation, which
\* is then lost (Python 3.10 and 3.11).
CancellationLost(l) ==
  /\ LoopRuns /\ loop[l] = "cancelled"
  /\ loop' = [loop EXCEPT ![l] = "working"]
  /\ UNCHANGED <<started, linkVars, scan, history, stop, hostVars, opVars, faults>>

HistoryEnds ==
  /\ LoopRuns /\ history # "off" /\ history' = "off"
  /\ UNCHANGED <<started, linkVars, scan, loop, stop, hostVars, opVars, faults>>

(***************************************************************************)
(* stop()                                                                  *)
(***************************************************************************)
CancelledWork ==
  [c \in Calls |-> CASE work[c] = "new" -> "unstarted"
                     [] work[c] \in {"running", "closing", "closed"} -> "cancelled"
                     [] OTHER -> work[c]]
CancelledLoops ==
  [l \in Loops |-> IF loop[l] = "off" THEN "off" ELSE "cancelled"]

\* Plausible bug: a stop() that forgets the background tasks
CancelLoopsOnly ==
  /\ loop' = CancelledLoops /\ UNCHANGED work
  /\ stop' = "tasks"
\* Cancels the manager, the poll loop and the background tasks it sees.
CancelTasks ==
  /\ loop' = CancelledLoops /\ work' = CancelledWork
  /\ stop' = "tasks"

StopBegins ==
  /\ LoopRuns /\ stop = "requested"
  /\ \A c \in Calls : pc[c] \notin {"connect", "forget"}  \* the loop is first in, first out
  /\ started' = FALSE /\ phase' = "DISCONNECTING" /\ desired' = FALSE
  /\ op' = WithPendingCancelled /\ old' = old \ {pending} /\ pending' = NoCall
  /\ \/ history = "off" /\ CancelTasks /\ UNCHANGED history
     \/ history # "off" /\ history' = "cancelled" /\ stop' = "history"
        /\ UNCHANGED <<loop, work>>
  /\ UNCHANGED <<client, scan, hostVars, pc, faults>>

StopResumes ==
  /\ LoopRuns /\ stop = "history" /\ history = "off"
  /\ CancelTasks
  /\ UNCHANGED <<started, linkVars, scan, history, hostVars, pc, op, old, pending, faults>>

\* Every cancelled task is over; a task launched since is not awaited.
StopGathers ==
  /\ LoopRuns /\ stop = "tasks"
  /\ \A l \in Loops : loop[l] = "off"
  /\ \A c \in Calls : work[c] \notin {"unstarted", "cancelled"}
  /\ stop' = "client"
  /\ UNCHANGED <<started, linkVars, scan, loop, history, hostVars, opVars, faults>>

\* _close_client, whose close gives up after its limit, ...
StopCloses ==
  /\ LoopRuns /\ stop = "client" /\ client
  /\ client' = FALSE /\ stop' = "closing"
  /\ UNCHANGED <<started, phase, desired, scan, loop, history, hostVars, opVars, faults>>

\* ... and scheduler.stop
StopClosed ==
  /\ LoopRuns
  /\ stop = "closing" \/ (stop = "client" /\ ~client)
  /\ phase' = "STOPPED" /\ stop' = "persistence"
  /\ UNCHANGED <<started, desired, client, scan, loop, history, hostVars, opVars, faults>>

\* The publisher is flushed for a second, then the worker and the adapter close.
StopReturns ==
  /\ LoopRuns /\ stop = "persistence" /\ stop' = "done"
  /\ UNCHANGED <<started, linkVars, scan, loop, history, hostVars, opVars, faults>>

StopCancelled ==
  /\ LoopRuns /\ stop = "cancelled" /\ stop' = "done"
  /\ UNCHANGED <<started, linkVars, scan, loop, history, hostVars, opVars, faults>>

(***************************************************************************)
(* The hosts.                                                              *)
(***************************************************************************)
\* The HTTP server first waits for the requests in flight; by the time one is
\* answered, the task it launched has run.
Drained == \A c \in Calls : pc[c] \in {"idle", "done"} /\ work[c] # "new"

Close ==
  /\ host = "open" /\ (window \/ Drained)
  /\ host' = "closing" /\ stop' = "requested"
  /\ UNCHANGED <<window, started, linkVars, scan, loop, history, opVars, faults>>

CloseReturns ==
  /\ host = "closing" /\ stop = "done"
  /\ host' = "stopping"
  /\ UNCHANGED <<window, started, linkVars, scan, loop, history, stop, opVars, faults>>

\* Three seconds; the loop is never busy that long, so stop() has begun.
CloseTimesOut ==
  /\ window /\ host = "closing" /\ stop \notin {"requested", "done"}
  /\ host' = "stopping"
  /\ UNCHANGED <<window, started, linkVars, scan, loop, history, stop, opVars, faults>>

\* The end of run_forever in the window, of asyncio.run in the HTTP application:
\* every task of the loop is cancelled.
Reap ==
  /\ host = "stopping" /\ host' = "reaping"
  /\ loop' = CancelledLoops /\ work' = CancelledWork
  /\ scan' = IF scan = "off" THEN "off" ELSE "cancelled"
  /\ history' = IF history = "off" THEN "off" ELSE "cancelled"
  /\ pc' = [c \in Calls |-> IF pc[c] \in {"idle", "done"} THEN pc[c] ELSE "cancelled"]
  /\ stop' = IF stop = "done" THEN "done" ELSE "cancelled"
  /\ UNCHANGED <<window, started, linkVars, op, old, pending, faults>>

ThreadEnds ==
  /\ host = "reaping" /\ stop = "done" /\ history # "cancelled" /\ scan # "cancelled"
  /\ \A l \in Loops : loop[l] = "off"
  /\ \A c \in Calls : work[c] \notin {"unstarted", "cancelled"} /\ pc[c] # "cancelled"
  /\ host' = "gone"
  /\ UNCHANGED <<window, started, linkVars, scan, loop, history, stop, opVars, faults>>

-----------------------------------------------------------------------------
Environment ==
  \/ Start \/ StartRefused \/ Close \/ CloseTimesOut
  \/ AttemptFails \/ LinkLost \/ ManagerFails \/ ScanStarts
  \/ \E l \in Loops : CancellationLost(l)
  \/ \E c \in Calls : \E kind \in {"connect", "forget"} : Submit(c, kind)
  \/ \E c \in Calls : Ages(c) \/ WorkCloses(c) \/ WorkEnds(c)

\* What a coroutine or the thread does next.
StopStep ==
  \/ StopBegins \/ StopResumes \/ StopGathers \/ StopCloses \/ StopClosed \/ StopReturns
  \/ StopCancelled
HostStep == CloseReturns \/ Reap \/ ThreadEnds
LoopStep(l) == LoopReturns(l) \/ LoopCancelled(l)
CallStep(c) ==
  ConnectRuns(c) \/ ForgetRuns(c) \/ ForgetResumes(c) \/ CallCancelled(c) \/ Answered(c)
WorkStep(c) == WorkStarts(c) \/ WorkClosed(c) \/ WorkCancelled(c)
ManagerGoesOn == ManagerRevives \/ CleanedUp \/ LossHandled \/ ManagerClosed

Lifecycle ==
  \/ Prune \/ Connected \/ ManagerObeys \/ ManagerGoesOn \/ HistoryEnds \/ ScanEnds
  \/ StopStep \/ HostStep
  \/ \E l \in Loops : LoopStep(l)
  \/ \E c \in Calls : CallStep(c) \/ WorkStep(c)

Next == Environment \/ Lifecycle

\* The loop runs every callback that is ready, the supervisor's sleep ends, and
\* each scan, attempt, history transfer and cleanup has a time limit.  Nothing is
\* assumed of the environment, nor that the system ever removes a bond.
Spec ==
  /\ Init /\ [][Next]_vars
  /\ WF_vars(Prune) /\ WF_vars(Connected) /\ WF_vars(ManagerGoesOn)
  /\ WF_vars(HistoryEnds) /\ WF_vars(ScanEnds) /\ WF_vars(StopStep) /\ WF_vars(HostStep)
  /\ \A l \in Loops : WF_vars(LoopStep(l))
  /\ \A c \in Calls : WF_vars(CallStep(c)) /\ WF_vars(WorkStep(c))

-----------------------------------------------------------------------------
(***************************************************************************)
(* Properties.                                                             *)
(***************************************************************************)
\* get_status: the operations a caller is told are active
ActiveOperations == {c \in Calls : op[c] \in Active}

\* An operation that has ended never changes again until it is pruned: the
\* paths that end one (the manager, a newer connect, stop(), its own task) do
\* not report over each other.
TerminalIsFinal ==
  [][\A c \in Calls : op[c] \in Terminal => op'[c] \in {op[c], "pruned"}]_vars

\* An operation a caller still waits for is never pruned: wait_for_operation
\* would raise OperationNotFoundError for work that is running.
TrackedWhileAwaited == \A c \in Calls : pc[c] = "waiting" => op[c] # "pruned"

\* A connect operation ends, whatever the manager meets: another caller takes
\* its place, stop() cancels it, or the manager, revived, reports on it.
ConnectEnds ==
  \A c \in Calls : (op[c] = "RUNNING" /\ pending = c) ~> (op[c] \notin Active)

\* When stop() has returned to the HTTP application no loop and no background
\* task goes on, no client is held and no operation is active, though links were
\* lost and bonds reset while it began.  It may have cancelled the close of a client
\* that was given up (ClosesEnd), and the shared scan may run (StopLeavesNothing).
StoppedHoldsNothing ==
  ~window /\ stop = "done" =>
    /\ \A l \in Loops : loop[l] = "off"
    /\ \A c \in Calls : work[c] \in {"none", "over"}
    /\ ~client /\ history = "off" /\ phase = "STOPPED"
    /\ ActiveOperations = {}

\* The host ends with no task left behind, neither the scan that stop() does not
\* know of nor what a stop() that was cut short left: nothing is destroyed while
\* pending, no call hangs.
ThreadLeavesNothing ==
  host = "gone" =>
    /\ \A l \in Loops : loop[l] = "off"
    /\ \A c \in Calls : work[c] \in {"none", "over"} /\ pc[c] \in {"idle", "done"}
    /\ history = "off" /\ scan = "off"

\* However the program ends, no task of the service outlives its host, and no
\* caller waits for an operation the service no longer knows (stop, the hosts,
\* _prune_operations).
NothingRemains ==
  TypeOK /\ StoppedHoldsNothing /\ ThreadLeavesNothing /\ TrackedWhileAwaited

\* Once stop() has returned no task of the service is left: not so of the scan.
StopLeavesNothing == ~window /\ stop = "done" => scan = "off"
\* ble_service.py:1407: the cleanup of a client is only limited in time: no close,
\* whose client nobody holds any more, is cancelled.
ClosesEnd ==
  [][/\ loop["manager"] = "closing" => loop'["manager"] # "cancelled"
     /\ \A c \in Calls : work[c] = "closing" => work'[c] # "cancelled"
     /\ stop = "closing" => stop' # "cancelled"]_vars

\* Closing ends, even when a cancellation is lost in the answer it meets.
ClosingEnds == (host = "closing") ~> (host = "gone")
=============================================================================
