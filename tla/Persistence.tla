---------------------------- MODULE Persistence ----------------------------
(***************************************************************************)
(* How the connector writes to its database: the bounded queue and single  *)
(* worker of backend/pc_client/persistence_worker.py, the state publisher  *)
(* and the database calls of ble_service.py, and the part of the service's *)
(* stop that flushes both queues.                                          *)
(*                                                                         *)
(* A job is one enqueued record.  Jobs of method "sample" stand for the    *)
(* records of the poller and of the history transfer; jobs of method       *)
(* "state" carry a revision of the controller state.                       *)
(***************************************************************************)
EXTENDS Naturals, Sequences, FiniteSetsExt, SequencesExt

CONSTANTS Samples,      \* identities of sample jobs, free again once answered
          Capacity,     \* persistence_queue_capacity
          MaxRevision,  \* bound: connection states published while started
          MaxFaults     \* bound: database outages

ASSUME CapacityAssumption == Capacity \in Nat \ {0}
ASSUME BoundsAssumption == MaxRevision \in Nat /\ MaxFaults \in Nat

None == "none"
Jobs == (Samples \X {"sample"}) \cup ((1..MaxRevision + 1) \X {"state"})
NoJob == <<0, None>>
Method(j) == j[2]

VARIABLES
    queue,       \* _queue: Seq(Jobs), at most Capacity
    worker,      \* "off" | "idle" (in get) | "busy" (in execute) | "cancelled"
    current,     \* the job the worker has taken, or NoJob
    future,      \* [Jobs -> state of the job's future]
    dropped,     \* _overflow_count > 0
    written,     \* the revision the database holds
    dbUp,        \* the database answers
    faults,      \* outages so far
    errors,      \* _database_errors: failing methods in insertion order
    lastError,   \* _last_database_error: the method it came from, or None
    revision,    \* newest controller state
    stateQueue,  \* _state_publish_queue
    publisher,   \* "off" | "idle" | "waiting" (in submit)
    phase        \* the service: "started", then the stages of stop

jobVars == <<queue, worker, current, future, dropped>>
dbVars == <<written, errors, lastError>>
stateVars == <<revision, stateQueue, publisher>>
vars == <<jobVars, dbVars, dbUp, faults, stateVars, phase>>

JobsTyped ==
    /\ queue \in Seq(Jobs) /\ Len(queue) <= Capacity
    /\ worker \in {"off", "idle", "busy", "cancelled"}
    /\ current \in Jobs \cup {NoJob}
    /\ future \in [Jobs -> {None, "pending", "persisted", "failed"}]
    /\ dropped \in BOOLEAN
    /\ written \in 0..MaxRevision + 1
    /\ dbUp \in BOOLEAN /\ faults \in 0..MaxFaults
    /\ revision \in 0..MaxRevision + 1
    /\ stateQueue \in Seq(1..MaxRevision + 1)
    /\ publisher \in {"off", "idle", "waiting"}
    /\ phase \in {"started", "flushStates", "flushJobs", "stopped"}
TypeOK ==
    /\ JobsTyped
    /\ errors \in Seq({"sample", "state", "get_last_boot_id"})
    /\ lastError \in ToSet(errors) \cup {None}

Init ==
    /\ queue = <<>> /\ worker = "idle" /\ current = NoJob
    /\ future = [j \in Jobs |-> None] /\ dropped = FALSE
    /\ written = 0 /\ dbUp = TRUE /\ faults = 0
    /\ errors = <<>> /\ lastError = None
    /\ revision = 0 /\ stateQueue = <<>> /\ publisher = "idle"
    /\ phase = "started"

-----------------------------------------------------------------------------
(* enqueue: put_nowait, or an immediate negative answer when it is full *)

Enqueue(j) ==
    IF Len(queue) < Capacity
    THEN /\ queue' = Append(queue, j)
         /\ future' = [future EXCEPT ![j] = "pending"]
         /\ UNCHANGED dropped
    ELSE /\ future' = [future EXCEPT ![j] = "failed"]
         /\ dropped' = TRUE
         /\ UNCHANGED queue

\* The poller or the history transfer offers a record.
OfferSample(s) ==
    /\ phase = "started" /\ future[<<s, "sample">>] # "pending"
    /\ Enqueue(<<s, "sample">>)
    /\ UNCHANGED <<worker, current, dbVars, dbUp, faults, stateVars, phase>>

-----------------------------------------------------------------------------
(* The worker: _run and _database_call *)

Take ==
    /\ worker = "idle" /\ queue # <<>>
    /\ current' = Head(queue) /\ queue' = Tail(queue)
    /\ worker' = "busy"
    /\ UNCHANGED <<future, dropped, dbVars, dbUp, faults, stateVars, phase>>

\* _database_call returned: the method's error is forgotten and the newest of
\* the remaining ones is reported.
Recovered(method) ==
    /\ errors' = SelectSeq(errors, LAMBDA e : e # method)
    /\ lastError' = IF errors' = <<>> THEN None ELSE Last(errors')

\* It raised: a dict keeps the place of a key it already holds.
Failing(method) ==
    /\ errors' = IF method \in ToSet(errors) THEN errors ELSE Append(errors, method)
    /\ lastError' = method

Write(j) == written' = IF Method(j) = "state" THEN j[1] ELSE written

ExecuteReturns ==
    /\ worker = "busy" /\ dbUp
    /\ Write(current) /\ Recovered(Method(current))
    /\ future' = [future EXCEPT ![current] = "persisted"]
    /\ worker' = "idle" /\ current' = NoJob
    /\ UNCHANGED <<queue, dropped, dbUp, faults, stateVars, phase>>

\* An outage: the call fails, or it never returns (no step).
ExecuteRaises ==
    /\ worker = "busy" /\ ~dbUp
    /\ Failing(Method(current))
    /\ future' = [future EXCEPT ![current] = "failed"]
    /\ worker' = "idle" /\ current' = NoJob
    /\ UNCHANGED <<queue, dropped, written, dbUp, faults, stateVars, phase>>

Outage ==
    /\ dbUp /\ faults < MaxFaults
    /\ dbUp' = FALSE /\ faults' = faults + 1
    /\ UNCHANGED <<jobVars, dbVars, stateVars, phase>>

Restored ==
    /\ ~dbUp
    /\ dbUp' = TRUE
    /\ UNCHANGED <<jobVars, dbVars, faults, stateVars, phase>>

\* _read_last_persisted_boot: read by the manager itself, outside the queue.
\* Only its failure changes state.
ReadLastBootFails ==
    /\ phase = "started" /\ ~dbUp
    /\ Failing("get_last_boot_id")
    /\ UNCHANGED <<jobVars, written, dbUp, faults, stateVars, phase>>

-----------------------------------------------------------------------------
(* _publish_connection_state and _state_publisher *)

PublishState ==
    /\ phase = "started" /\ revision < MaxRevision
    /\ revision' = revision + 1
    /\ stateQueue' = Append(stateQueue, revision + 1)
    /\ UNCHANGED <<jobVars, dbVars, dbUp, faults, publisher, phase>>

\* The state the publisher has taken is the newest state job offered.
SubmitState ==
    /\ publisher = "idle" /\ stateQueue # <<>>
    /\ Enqueue(<<Head(stateQueue), "state">>)
    /\ publisher' = "waiting"
    /\ UNCHANGED <<worker, current, dbVars, dbUp, faults, revision, stateQueue, phase>>

\* submit returns, the status is emitted and task_done called.
StatePublished ==
    /\ publisher = "waiting"
    /\ future[<<Head(stateQueue), "state">>] # "pending"
    /\ stateQueue' = Tail(stateQueue)
    /\ publisher' = "idle"
    /\ UNCHANGED <<jobVars, dbVars, dbUp, faults, revision, phase>>

-----------------------------------------------------------------------------
(* The end of ThermometerBleService.stop *)

\* The STOPPED state is queued; the poller and the manager have ended.
BeginStop ==
    /\ phase = "started"
    /\ revision' = revision + 1
    /\ stateQueue' = Append(stateQueue, revision + 1)
    /\ phase' = "flushStates"
    /\ UNCHANGED <<jobVars, dbVars, dbUp, faults, publisher>>

\* Plausible bug: the publisher is cancelled without waiting for its queue.
StatesUnflushed ==
    /\ phase = "flushStates"
    /\ publisher' = "off" /\ phase' = "flushJobs"
    /\ UNCHANGED <<jobVars, dbVars, dbUp, faults, revision, stateQueue>>

\* join of the state queue; then the publisher is cancelled.
StatesFlushed ==
    /\ phase = "flushStates" /\ stateQueue = <<>>
    /\ publisher' = "off" /\ phase' = "flushJobs"
    /\ UNCHANGED <<jobVars, dbVars, dbUp, faults, revision, stateQueue>>

\* ... or one second passes first.  Only an outage makes it pass.
StatesTimeout ==
    /\ phase = "flushStates" /\ stateQueue # <<>> /\ ~dbUp
    /\ publisher' = "off" /\ phase' = "flushJobs"
    /\ UNCHANGED <<jobVars, dbVars, dbUp, faults, revision, stateQueue>>

\* PersistenceWorker.stop: join of the job queue or its timeout, then cancel.
CancelWorker ==
    /\ phase = "flushJobs" /\ worker \in {"idle", "busy"}
    /\ (queue = <<>> /\ worker = "idle") \/ ~dbUp
    /\ worker' = "cancelled"
    /\ UNCHANGED <<queue, current, future, dropped, dbVars, dbUp, faults, stateVars, phase>>

\* The CancelledError reaches execute: the write may have been made or not.
WorkerEnds ==
    /\ worker = "cancelled"
    /\ IF current = NoJob
       THEN UNCHANGED <<future, written>>
       ELSE /\ future' = [future EXCEPT ![current] = "failed"]
            /\ Write(current) \/ UNCHANGED written
    /\ worker' = "off" /\ current' = NoJob
    /\ UNCHANGED <<queue, dropped, errors, lastError, dbUp, faults, stateVars, phase>>

\* _fail_pending
FailPending ==
    /\ phase = "flushJobs" /\ worker = "off"
    /\ future' = [j \in Jobs |-> IF j \in ToSet(queue) THEN "failed" ELSE future[j]]
    /\ queue' = <<>>
    /\ phase' = "stopped"
    /\ UNCHANGED <<worker, current, dropped, dbVars, dbUp, faults, stateVars>>

Next ==
    \/ \E s \in Samples : OfferSample(s)
    \/ Take \/ ExecuteReturns \/ ExecuteRaises
    \/ Outage \/ Restored \/ ReadLastBootFails
    \/ PublishState \/ SubmitState \/ StatePublished
    \/ BeginStop \/ StatesFlushed \/ StatesTimeout
    \/ CancelWorker \/ WorkerEnds \/ FailPending

Spec == Init /\ [][Next]_vars

(* The loop runs its tasks, the poller keeps offering a record a second and *)
(* a reachable database answers.  Nothing is assumed of a database that is  *)
(* down: it may never answer and never return.                              *)
FairSpec ==
    /\ Spec
    /\ WF_vars(Take) /\ WF_vars(ExecuteReturns)
    /\ WF_vars(SubmitState) /\ WF_vars(StatePublished)
    /\ WF_vars(StatesFlushed) /\ WF_vars(StatesTimeout)
    /\ WF_vars(CancelWorker) /\ WF_vars(WorkerEnds) /\ WF_vars(FailPending)
    /\ \A s \in Samples : SF_vars(OfferSample(s))

-----------------------------------------------------------------------------
(* Properties *)

\* Every pending future belongs to exactly one job that the worker holds or
\* will reach, through overflow, outages and a stop in the middle of a write
\* (enqueue, _run, _fail_pending): nobody awaits a record that was lost.
NoLostJob ==
    \A j \in Jobs :
        Cardinality({i \in DOMAIN queue : queue[i] = j})
          + (IF current = j THEN 1 ELSE 0)
        = IF future[j] = "pending" THEN 1 ELSE 0

\* A stop that met no outage and no overflow leaves the last controller state,
\* STOPPED, in the database, and every job answered (stop's two flushes).
FinalStateStored ==
    phase = "stopped" =>
        /\ \A j \in Jobs : future[j] # "pending"
        /\ faults = 0 /\ ~dropped => written = revision

\* Both: every record offered is answered, once, and an undisturbed stop
\* leaves nothing unwritten (enqueue, _run, _fail_pending, stop).
RecordsAnswered == NoLostJob /\ FinalStateStored

\* A state of the controller never overwrites a newer one, whatever was slow,
\* failed, timed out or was cancelled in between (_state_publisher, _run).
StatesAdvance == [][written <= written']_vars

\* stop ends although the database never answers: both flushes are bounded
\* and a write in progress is cancelled.
StopEnds == phase = "flushStates" ~> phase = "stopped"

\* A published controller state reaches the database unless it met an outage,
\* an overflow or the end of the service (_state_publisher).
StatesStored ==
    \A r \in 1..MaxRevision :
        (revision = r ~> (written >= r \/ faults > 0 \/ dropped))

\* "Persistence failures affect only this write/cycle." (ble_service.py:1849):
\* once the database answers again, the error the health check reports clears.
HealthRecovers ==
    <>[](dbUp /\ phase = "started") => []<>(lastError = None)
=============================================================================
