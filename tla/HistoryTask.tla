---------------------------- MODULE HistoryTask ----------------------------
(***************************************************************************)
(* The history tasks of backend/pc_client/ble_service.py: when a transfer  *)
(* is started, shared, retried and cancelled while the connection comes    *)
(* and goes, and under which device its records are stored.  What happens  *)
(* inside a transfer is HistoryTransfer.tla.                               *)
(*                                                                         *)
(* A step is what the event loop runs without suspending.                  *)
(***************************************************************************)
EXTENDS Naturals, FiniteSets

CONSTANTS Devices, NoDevice,
          Unenrolled,   \* devices without a stored passkey
          MaxOps,       \* bound: history operations
          MaxCalls      \* bound: connect, disconnect and stop calls

ASSUME BoundsAssumption == MaxOps \in Nat /\ MaxCalls \in Nat

Ops == 1..MaxOps
Callers == {"manager", "api"}

VARIABLES
    started, ready, desired, target, gen,   \* _started and the controller state
    client,     \* device of _client, NoDevice if there is none
    verified,   \* device of an attempt past its last generation check
    task,       \* per operation: its task
    current,    \* _history_task and _history_operation_id, 0 for None
    op,         \* per operation: its state
    timer,      \* operations whose retry_when_ready sleeps
    call,       \* per caller: [pc, waits, dev] of a running _cancel_history
    misfiled,   \* a batch was queued under another device than its records'
    overtaken,  \* a connection was committed while a caller awaited a cancelled task
    calls

connection == <<started, ready, desired, target, gen, client, verified>>
history == <<task, current, op, timer, misfiled>>
vars == <<connection, history, overtaken, call, calls>>

NoTask == [pc |-> "unused", source |-> "manual", gen |-> 0, from |-> NoDevice,
           result |-> "none"]
NoCall == [pc |-> "idle", waits |-> 0, dev |-> NoDevice]

Tasks == [pc : {"unused", "running", "ended", "done"},
          source : {"manual", "automatic"}, gen : 0..MaxCalls,
          from : Devices \cup {NoDevice},
          result : {"none", "complete", "incomplete", "failed", "cancelled"}]
Calls == [pc : {"idle", "lost", "disconnect", "select", "stop"},
          waits : 0..MaxOps, dev : Devices \cup {NoDevice}]

TypeOK ==
    /\ {started, ready, desired} \subseteq BOOLEAN /\ gen \in 0..MaxCalls
    /\ {target, client, verified} \subseteq Devices \cup {NoDevice}
    /\ task \in [Ops -> Tasks]
    /\ current \in 0..MaxOps
    /\ op \in [Ops -> {"none", "RUNNING", "SUCCEEDED", "FAILED", "CANCELLED"}]
    /\ timer \subseteq Ops
    /\ call \in [Callers -> Calls]
    /\ {misfiled, overtaken} \subseteq BOOLEAN
    /\ calls \in 0..MaxCalls

Init ==
    /\ started = TRUE /\ ready = FALSE /\ desired = TRUE
    /\ target \in Devices \ Unenrolled /\ gen = 0
    /\ client = NoDevice /\ verified = NoDevice
    /\ task = [o \in Ops |-> NoTask] /\ current = 0 /\ op = [o \in Ops |-> "none"]
    /\ timer = {} /\ call = [c \in Callers |-> NoCall] /\ misfiled = FALSE /\ calls = 0
    /\ overtaken = FALSE

Unused == {o \in Ops : task[o].pc = "unused"}
Alive(o) == o # 0 /\ task[o].pc = "running"

\* _start_history_sync: the task that runs, or a new one.
StartHistorySync(source) ==
    IF Alive(current) THEN UNCHANGED <<task, op, current>>
    ELSE \E o \in Unused :
            /\ \A q \in Unused : o <= q
            /\ task' = [task EXCEPT ![o] = [pc |-> "running", source |-> source,
                            gen |-> gen', from |-> NoDevice, result |-> "none"]]
            /\ op' = [op EXCEPT ![o] = "RUNNING"]
            /\ current' = o

-----------------------------------------------------------------------------
(* The connection manager *)

\* An attempt succeeds; what is left is to read the last boot from the
\* database.  None verifies while a caller waits for a cancelled task, which
\* takes a few turns of the event loop, or closes the client, for which it
\* holds the lifecycle lock.
AttemptVerified ==
    /\ started /\ desired /\ ~ready /\ verified = NoDevice
    /\ \A c \in Callers : call[c].pc = "idle"
    /\ target \in Devices \ Unenrolled
    /\ verified' = target /\ client' = target
    /\ UNCHANGED <<started, ready, desired, target, gen, history, overtaken, call, calls>>

\* The boot is read: the connection is committed, whatever happened meanwhile,
\* and the automatic synchronisation starts.
Commit ==
    /\ verified # NoDevice
    /\ target' = verified /\ ready' = TRUE /\ verified' = NoDevice
    /\ overtaken' = (overtaken \/ \E c \in Callers : call[c].waits # 0)
    /\ UNCHANGED <<started, desired, gen, client, timer, misfiled, call, calls>>
    /\ StartHistorySync("automatic")

-----------------------------------------------------------------------------
(* A transfer and the end of it *)

\* request_history_sync
RequestHistorySync ==
    /\ started /\ ready
    /\ UNCHANGED <<connection, overtaken, timer, misfiled, call, calls>>
    /\ StartHistorySync("manual")

\* A chunk arrives from the connected device.
Receive(o) ==
    /\ task[o].pc = "running" /\ task[o].from = NoDevice
    /\ ready /\ client # NoDevice
    /\ task' = [task EXCEPT ![o].from = client]
    /\ UNCHANGED <<connection, overtaken, current, op, timer, misfiled, call, calls>>

\* _synchronize_history returns or raises.  Its batch is stored under the
\* target of this moment (_build_history_batch).
TaskEnds(o, result) ==
    /\ task[o].pc = "running"
    /\ result = "complete" => ready
    /\ target = NoDevice => result = "failed"
    /\ task' = [task EXCEPT ![o].pc = "ended", ![o].result = result]
    /\ misfiled' = (misfiled \/ (/\ result # "failed"
                                 /\ task[o].from \notin {NoDevice, target}))
    /\ UNCHANGED <<connection, overtaken, current, op, timer, call, calls>>

Outcome(result) ==
    CASE result = "failed" -> "FAILED"
      [] result = "cancelled" -> "CANCELLED"
      [] OTHER -> "SUCCEEDED"

Retry(result) == result \in {"failed", "incomplete"}

\* Plausible bug: the operation of a cancelled task is left as it is.
FinishedUncancelled(o) ==
    /\ task[o].pc = "ended"
    /\ task' = [task EXCEPT ![o].pc = "done"]
    /\ op' = [op EXCEPT ![o] =
                 IF task[o].result = "cancelled" THEN @ ELSE Outcome(task[o].result)]
    /\ current' = IF current = o THEN 0 ELSE current
    /\ timer' = timer
    /\ UNCHANGED <<connection, overtaken, misfiled, call, calls>>

\* The task's done callback.
Finished(o) ==
    /\ task[o].pc = "ended"
    /\ task' = [task EXCEPT ![o].pc = "done"]
    /\ op' = [op EXCEPT ![o] =
                 IF task[o].result = "cancelled" /\ @ # "RUNNING" THEN @
                 ELSE Outcome(task[o].result)]
    /\ current' = IF current = o THEN 0 ELSE current
    /\ timer' = IF task[o].source = "automatic" /\ Retry(task[o].result) /\ started
                THEN timer \cup {o} ELSE timer
    /\ UNCHANGED <<connection, overtaken, misfiled, call, calls>>

\* retry_when_ready wakes up.
RetryWhenReady(o) ==
    /\ o \in timer
    /\ timer' = timer \ {o}
    /\ UNCHANGED <<connection, overtaken, misfiled, call, calls>>
    /\ IF started /\ ready /\ task[o].gen = gen
       THEN StartHistorySync("automatic")
       ELSE UNCHANGED <<task, op, current>>

-----------------------------------------------------------------------------
(* Cancellation *)

Cancelled(t, O) ==
    [o \in Ops |-> IF o \in O /\ t[o].pc = "running"
                   THEN [t[o] EXCEPT !.pc = "ended", !.result = "cancelled"] ELSE t[o]]

\* _cancel_history: cancel the task and wait until its callbacks ran.
CancelHistory(c, pc, d) ==
    /\ call[c].pc = "idle"
    /\ call' = [call EXCEPT ![c] =
           [pc |-> pc, waits |-> IF Alive(current) THEN current ELSE 0, dev |-> d]]
    /\ task' = Cancelled(task, {current})
    /\ UNCHANGED <<timer, misfiled>>

\* Plausible bug: the caller does not wait until the task's callbacks ran.
CancelAtOnce(c) ==
    /\ call[c].pc # "idle"
    /\ call' = [call EXCEPT ![c] = NoCall]
    /\ op' = IF current # 0 /\ op[current] = "RUNNING"
             THEN [op EXCEPT ![current] = "CANCELLED"] ELSE op
    /\ current' = 0

\* The caller goes on: the operation in the slot is cancelled and the slot
\* emptied, if there was a task to wait for.
CancelReturns(c) ==
    /\ call[c].pc # "idle"
    /\ call[c].waits # 0 => task[call[c].waits].pc = "done"
    /\ call' = [call EXCEPT ![c] = NoCall]
    /\ IF call[c].waits = 0 THEN UNCHANGED <<op, current>>
       ELSE /\ op' = IF current # 0 /\ op[current] = "RUNNING"
                     THEN [op EXCEPT ![current] = "CANCELLED"] ELSE op
            /\ current' = 0

\* The link is lost.
ConnectionLost ==
    /\ started /\ ready /\ ready' = FALSE
    /\ CancelHistory("manager", "lost", NoDevice)
    /\ UNCHANGED <<started, desired, target, gen, client, verified, op, current,
                   overtaken, calls>>

LostHandled ==
    /\ call["manager"].pc = "lost" /\ CancelReturns("manager")
    /\ client' = NoDevice
    /\ UNCHANGED <<started, ready, desired, target, gen, verified, task, timer,
                   misfiled, overtaken, calls>>

CountCall == calls < MaxCalls /\ calls' = calls + 1

Disconnect ==
    /\ started /\ CountCall
    /\ gen' = gen + 1 /\ ready' = FALSE /\ desired' = FALSE
    /\ CancelHistory("api", "disconnect", NoDevice)
    /\ UNCHANGED <<started, target, client, verified, op, current, overtaken>>

\* ... and the client is closed.  An attempt that verifies meanwhile is not
\* looked for: only the final transition withdraws its readiness.
DisconnectEnds ==
    /\ call["api"].pc = "disconnect" /\ CancelReturns("api")
    /\ client' = NoDevice /\ ready' = FALSE
    /\ UNCHANGED <<started, desired, target, gen, verified, task, timer, misfiled,
                   overtaken, calls>>

\* connect(d) with a known passkey, while another device is connected.
Switch(d) ==
    /\ started /\ ready /\ d # target /\ d \notin Unenrolled /\ CountCall
    /\ ready' = FALSE
    /\ CancelHistory("api", "select", d)
    /\ UNCHANGED <<started, desired, target, gen, client, verified, op, current, overtaken>>

Select ==
    /\ call["api"].pc = "select" /\ CancelReturns("api")
    /\ gen' = gen + 1 /\ target' = call["api"].dev /\ ready' = FALSE
    /\ desired' = TRUE
    /\ client' = NoDevice
    /\ UNCHANGED <<started, verified, task, timer, misfiled, overtaken, calls>>

\* connect(d) while nothing is connected; or without a passkey, when the
\* target changes at once and nothing is cancelled or closed.
Retarget(d) ==
    /\ started /\ call["api"].pc = "idle" /\ CountCall
    /\ d \in Unenrolled \/ ~ready
    /\ gen' = gen + 1 /\ target' = d /\ ready' = FALSE /\ desired' = TRUE
    /\ UNCHANGED <<started, client, verified, history, overtaken, call>>

Stop ==
    /\ started /\ CountCall
    /\ started' = FALSE /\ ready' = FALSE /\ desired' = FALSE
    /\ CancelHistory("api", "stop", NoDevice)
    /\ UNCHANGED <<target, gen, client, verified, op, current, overtaken>>

\* The manager and every background task are cancelled.
StopTasks(t) == Cancelled(t, Ops)

StopEnds ==
    /\ call["api"].pc = "stop" /\ CancelReturns("api")
    /\ task' = StopTasks(task) /\ timer' = {}
    /\ verified' = NoDevice /\ client' = NoDevice
    /\ UNCHANGED <<started, ready, desired, target, gen, misfiled, overtaken, calls>>

Next ==
    \/ AttemptVerified \/ Commit
    \/ RequestHistorySync
    \/ \E o \in Ops :
        \/ Receive(o) \/ Finished(o) \/ RetryWhenReady(o)
        \/ \E r \in {"complete", "incomplete", "failed"} : TaskEnds(o, r)
    \/ ConnectionLost \/ LostHandled
    \/ Disconnect \/ DisconnectEnds
    \/ \E d \in Devices : Switch(d) \/ Retarget(d)
    \/ Select \/ Stop \/ StopEnds

Spec == Init /\ [][Next]_vars

\* Every transfer ends (HistoryTransfer!TransferEnds), asyncio runs callbacks
\* and resumes who waited for them.
FairSpec ==
    /\ Spec
    /\ \A o \in Ops : WF_vars(Finished(o)) /\
          WF_vars(\E r \in {"complete", "incomplete", "failed"} : TaskEnds(o, r))
    /\ WF_vars(LostHandled \/ DisconnectEnds \/ Select \/ StopEnds)

-----------------------------------------------------------------------------

\* Never two transfers at once, although requests, retries and reconnections
\* start them from three places and cancellation suspends between taking the
\* slot and emptying it (_start_history_sync, _cancel_history).
\*
\* Like the next property it excludes the behaviours in which the manager, past
\* the last check of its attempt, commits the connection while a disconnect
\* awaits a transfer of the connection before: the transfer it starts is the
\* one _cancel_history finds in the slot when it goes on, and cancels.
OneTransfer ==
    ~overtaken => Cardinality({o \in Ops : task[o].pc = "running"}) <= 1

\* An operation is RUNNING exactly while its task runs or its callback is
\* due: no caller cancels the operation of somebody else's task
\* (_cancel_history after its await).
OperationFollowsTask ==
    ~overtaken =>
        \A o \in Ops : op[o] = "RUNNING" <=> task[o].pc \in {"running", "ended"}

\* The records of a transfer are stored under the device that sent them.
RecordsOfTarget == ~misfiled

\* An automatic synchronisation that was not complete is tried again while
\* the connection lasts, unless another one came after it (finished,
\* retry_when_ready).
RetryPending ==
    \A o \in Ops :
        /\ started /\ ready /\ task[o].pc = "done" /\ task[o].source = "automatic"
        /\ Retry(task[o].result) /\ task[o].gen = gen
        /\ \A q \in Ops : task[q].pc # "unused" => q <= o
        => o \in timer

\* When stop returned, no transfer runs and no retry is pending (stop).
StoppedIsIdle ==
    ~started /\ call["api"].pc = "idle" =>
        timer = {} /\ \A o \in Ops : task[o].pc # "running"

\* One transfer at a time, whose operation is RUNNING exactly as long as it
\* runs; an incomplete one has its retry pending and a stop leaves nothing.
TransfersTracked ==
    OneTransfer /\ OperationFollowsTask /\ RetryPending /\ StoppedIsIdle

\* Every history operation reaches a final state.
OperationsEnd == \A o \in Ops : op[o] = "RUNNING" ~> op[o] # "RUNNING"
=============================================================================
