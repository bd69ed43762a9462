--------------------------- MODULE BleScheduler ----------------------------
(***************************************************************************)
(* The connector's request scheduler (backend/pc_client/ble_scheduler.py): *)
(* callers on one asyncio loop queue GATT requests, one worker task runs   *)
(* them one at a time by priority.  A caller may give up (wait_for), the   *)
(* link may come and go while requests wait, and the service may be        *)
(* stopped and started again.                                              *)
(*                                                                         *)
(* A request is the record kept in the queue; the queue is the sequence of *)
(* requests in submission order, so the code's sequence counter is the     *)
(* position in it.                                                         *)
(***************************************************************************)
EXTENDS Naturals, Sequences, FiniteSetsExt, SequencesExt

CONSTANTS Callers,      \* tasks that submit requests, one at a time each
          Priority,     \* [Callers -> Nat]: DISPLAY 0, CURRENT 10, HISTORY 20
          MaxQueue      \* bound on the length of the (unbounded) queue

PriorityAssumption == Priority \in [Callers -> Nat]
MaxQueueAssumption == MaxQueue \in Nat \ {0}

None == "none"
NoRequest == [caller |-> None, live |-> FALSE]

VARIABLES
    queue,     \* _queue: Seq of [caller, live]; live = its future is pending
    worker,    \* "off" (no task) | "idle" (in get) | "busy" | "cancelled"
    current,   \* the request the worker has taken, NoRequest if none
    future,    \* [Callers -> state of the caller's last future]
    ready,     \* the ready predicate: the service's is_ready
    service    \* "started" | "stopping" | "stopped"

vars == <<queue, worker, current, future, ready, service>>

Requests == [caller : Callers, live : BOOLEAN]
Answered == {"result", "error", "cancelled"}

TypeOK ==
    /\ queue \in Seq(Requests)
    /\ worker \in {"off", "idle", "busy", "cancelled"}
    /\ current \in Requests \cup {NoRequest}
    /\ future \in [Callers -> {None, "pending"} \cup Answered]
    /\ ready \in BOOLEAN
    /\ service \in {"started", "stopping", "stopped"}

Init ==
    /\ queue = <<>>
    /\ worker = "idle"
    /\ current = NoRequest
    /\ future = [c \in Callers |-> None]
    /\ ready = FALSE
    /\ service = "started"

-----------------------------------------------------------------------------
(* The callers *)

\* _submit_ble and submit: refused unless the service is started and ready;
\* put() on the unbounded queue does not suspend.  The bound also keeps a
\* caller that gives up and comes back from filling the queue for ever.
Submit(c) ==
    /\ future[c] # "pending"
    /\ service = "started" /\ ready
    /\ Len(queue) < MaxQueue
    /\ queue' = Append(queue, [caller |-> c, live |-> TRUE])
    /\ future' = [future EXCEPT ![c] = "pending"]
    /\ UNCHANGED <<worker, current, ready, service>>

\* The caller is cancelled or its wait_for expires: its future is cancelled,
\* the request stays where it is.
Abandon(r) == [r EXCEPT !.live = FALSE]

GiveUp(c) ==
    /\ future[c] = "pending"
    /\ future' = [future EXCEPT ![c] = "cancelled"]
    /\ queue' = [i \in DOMAIN queue |->
                   IF queue[i].caller = c THEN Abandon(queue[i]) ELSE queue[i]]
    /\ current' = IF current.caller = c THEN Abandon(current) ELSE current
    /\ UNCHANGED <<worker, ready, service>>

-----------------------------------------------------------------------------
(* The worker task: _run *)

\* Complete the future of request r unless it is done already.
Complete(r, outcome) ==
    future' = IF r.live THEN [future EXCEPT ![r.caller] = outcome] ELSE future

\* The PriorityQueue's order: priority, then sequence number.
First(q) ==
    CHOOSE i \in DOMAIN q : \A j \in DOMAIN q \ {i} :
        \/ Priority[q[i].caller] < Priority[q[j].caller]
        \/ Priority[q[i].caller] = Priority[q[j].caller] /\ i < j

\* The next request leaves the queue and is skipped, refused or begun: there
\* is no await between get() and the action.
Take ==
    /\ worker = "idle" /\ queue # <<>>
    /\ LET i == First(queue)
           r == queue[i]
       IN  /\ queue' = RemoveAt(queue, i)
           /\ IF r.live /\ ready
              THEN worker' = "busy" /\ current' = r /\ UNCHANGED future
              ELSE Complete(r, "error") /\ UNCHANGED <<worker, current>>
    /\ UNCHANGED <<ready, service>>

\* The GATT action returns or raises.
Finish ==
    /\ worker = "busy"
    /\ \E outcome \in {"result", "error"} : Complete(current, outcome)
    /\ worker' = "idle"
    /\ current' = NoRequest
    /\ UNCHANGED <<queue, ready, service>>

-----------------------------------------------------------------------------
(* The service around it *)

\* A connection is verified; a connection is lost.  Neither touches the queue.
Connected ==
    /\ service = "started" /\ ~ready
    /\ ready' = TRUE
    /\ UNCHANGED <<queue, worker, current, future, service>>

ConnectionLost ==
    /\ ready
    /\ ready' = FALSE
    /\ UNCHANGED <<queue, worker, current, future, service>>

\* ThermometerBleService.stop: not started and not ready from its first step.
BeginStop ==
    /\ service = "started"
    /\ service' = "stopping"
    /\ ready' = FALSE
    /\ UNCHANGED <<queue, worker, current, future>>

\* scheduler.stop: the worker is cancelled in get() or in its action; the
\* future it holds is cancelled with it.
CancelWorker ==
    /\ service = "stopping" /\ worker \in {"idle", "busy"}
    /\ worker' = "cancelled"
    /\ UNCHANGED <<queue, current, future, ready, service>>

\* Plausible bug: the cancelled worker does not complete the future it holds.
WorkerVanishes ==
    /\ worker = "cancelled"
    /\ worker' = "off" /\ current' = NoRequest
    /\ UNCHANGED <<queue, future, ready, service>>

WorkerEnds ==
    /\ worker = "cancelled"
    /\ Complete(current, "cancelled")
    /\ worker' = "off"
    /\ current' = NoRequest
    /\ UNCHANGED <<queue, ready, service>>

\* fail_pending, the last statement of scheduler.stop.
FailPending ==
    /\ service = "stopping" /\ worker = "off"
    /\ LET waiting == {r.caller : r \in {s \in ToSet(queue) : s.live}}
       IN  future' = [c \in Callers |->
                        IF c \in waiting THEN "error" ELSE future[c]]
    /\ queue' = <<>>
    /\ service' = "stopped"
    /\ UNCHANGED <<worker, current, ready>>

\* start: a new worker task only where none is running.
Start ==
    /\ service = "stopped"
    /\ service' = "started"
    /\ worker' = IF worker = "off" THEN "idle" ELSE worker
    /\ UNCHANGED <<queue, current, future, ready>>

Next ==
    \/ \E c \in Callers : Submit(c) \/ GiveUp(c)
    \/ Take \/ Finish
    \/ Connected \/ ConnectionLost
    \/ BeginStop \/ CancelWorker \/ WorkerEnds \/ FailPending \/ Start

Spec == Init /\ [][Next]_vars

(* The event loop runs the worker and stop; a GATT action ends because Bleak *)
(* raises when the link fails.                                               *)
FairSpec ==
    /\ Spec
    /\ WF_vars(Take) /\ WF_vars(Finish)
    /\ WF_vars(CancelWorker) /\ WF_vars(WorkerEnds) /\ WF_vars(FailPending)

-----------------------------------------------------------------------------
(* Properties *)

\* The caller of every pending future is still known to the scheduler: its
\* request is in the queue or with the worker, once.  Through give-ups,
\* resubmissions, link changes and stop, no caller is left waiting for a
\* future nobody will complete (submit, fail_pending, _run).
NoOrphanedFuture ==
    \A c \in Callers :
        Cardinality({i \in DOMAIN queue : queue[i] = [caller |-> c, live |-> TRUE]})
          + (IF current = [caller |-> c, live |-> TRUE] THEN 1 ELSE 0)
        = IF future[c] = "pending" THEN 1 ELSE 0

\* A stopped service owes nobody an answer: its queue is empty, no request is
\* being executed, and no future is pending (stop).
StoppedIsQuiet ==
    service = "stopped" =>
        queue = <<>> /\ current = NoRequest /\ \A c \in Callers : future[c] # "pending"

\* The worker never begins a request that was given up, nor one while a live
\* request of higher priority is waiting: what the one-second limit of the
\* display path rests on (_run, _ScheduledRequest's order).
PriorityOrder ==
    [][worker = "idle" /\ worker' = "busy" =>
         /\ current'.live
         /\ \A r \in ToSet(queue') :
              r.live => Priority[current'.caller] <= Priority[r.caller]]_vars

\* A caller of the highest priority is answered, whatever the others submit.
HighestAnswered ==
    \A c \in {d \in Callers : \A e \in Callers : Priority[d] <= Priority[e]} :
        future[c] = "pending" ~> future[c] # "pending"

\* "without starving the one-hertz current schedule" (ble_scheduler.py:14):
\* every submitted request is answered.
NoStarvation ==
    \A c \in Callers : future[c] = "pending" ~> future[c] # "pending"
=============================================================================
