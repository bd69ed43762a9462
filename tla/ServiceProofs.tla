--------------------------- MODULE ServiceProofs ----------------------------
(***************************************************************************)
(* That nothing of the service outlives its host, in the window and in the *)
(* HTTP application, that no caller waits for an operation that was        *)
(* pruned, and that an ended operation stays as it ended: for any calls,   *)
(* scans, lost links and failures of the manager.  Then, for any scenes of *)
(* Discovery: that there is one scan at a time, kept for whoever waits,    *)
(* and that of the manager only the commit of a link verified before the   *)
(* choice replaces a target somebody chose.                                *)
(***************************************************************************)
EXTENDS MCService, FiniteSetTheorems, SequenceTheorems, TLAPS

\* A call that has not run has made nothing.
Fresh ==
  \A c \in Calls : pc[c] \in {"idle", "connect", "forget", "history"} =>
    op[c] = "none" /\ work[c] = "none"

\* In perform, before, during and after the close of the client
Busy == {"running", "closing", "closed"}

\* A background task works for an operation in its state; a pending connect has
\* none.
WorkFollows ==
  \A c \in Calls :
    /\ work[c] = "new" => op[c] = "QUEUED"
    /\ work[c] \in Busy \cup {"cancelled"} => op[c] = "RUNNING"
    /\ pending = c => work[c] = "none"

\* An operation is forgotten long after it ended, when nobody waits for it.
Awaited == \A c \in Calls : pc[c] = "waiting" =>
  op[c] # "pruned" /\ (c \in old => op[c] \notin Terminal)

\* Once stop() has begun, nothing connects and nothing new is called.
Stopping ==
  /\ stop = "idle" <=> host \in {"off", "refused", "open"}
  /\ host = "gone" => stop = "done"
  /\ stop \notin {"idle", "requested"} =>
       /\ ~started /\ ~desired /\ pending = NoCall
       /\ \A c \in Calls : pc[c] \notin {"connect", "forget"}

\* The host stops its loop when stop() has begun, the HTTP application when it
\* has returned; then every task is reaped, the scan too.
Reaped ==
  /\ host \in {"stopping", "reaping"} =>
       stop \notin {"idle", "requested"} /\ (window \/ stop = "done")
  /\ host = "reaping" =>
       /\ history # "running" /\ scan # "running"
       /\ \A c \in Calls : work[c] \notin {"new"} \cup Busy
                           /\ pc[c] \in {"idle", "done", "cancelled"}

Closings == {"closing", "stopping", "reaping", "gone"}

\* The HTTP application drains its requests, then lets stop() finish.
Drains ==
  ~window =>
    /\ stop # "cancelled" /\ \A c \in Calls : work[c] # "unstarted"
    /\ host \in Closings =>
         \A c \in Calls : pc[c] \in {"idle", "done"} /\ work[c] # "new"
    /\ \A c \in Calls : op[c] \in Active =>
         pending = c \/ work[c] \in {"new", "cancelled"} \cup Busy
    /\ stop \in {"tasks", "client", "closing", "persistence", "done"} =>
         history = "off" /\ \A c \in Calls : work[c] \notin {"new"} \cup Busy
    /\ stop \in {"client", "closing", "persistence", "done"} =>
         /\ \A l \in Loops : loop[l] = "off"
         /\ \A c \in Calls : work[c] \in {"none", "over"}
    /\ stop \in {"closing", "persistence", "done"} => ~client
    /\ stop \in {"persistence", "done"} => phase = "STOPPED"

IInv ==
  /\ TypeOK /\ Fresh /\ WorkFollows /\ Awaited
  /\ Stopping /\ Reaped /\ Drains /\ ThreadLeavesNothing

-----------------------------------------------------------------------------
(* What a step may do to one call, its operation and its background task. *)

Idles(c) ==
  pc'[c] = pc[c] /\ op'[c] = op[c] /\ work'[c] = work[c]
Remembered(c) == c \in old' => c \in old
Pends(c) == pending' = c <=> pending = c

Rests(c) == Idles(c) /\ Remembered(c) /\ Pends(c)
Forgotten(c) ==
  /\ Idles(c) /\ Pends(c) /\ op[c] \in Active \cup Terminal
  /\ op[c] \in Terminal => pc[c] # "waiting"
Pruned(c) ==
  /\ pc'[c] = pc[c] /\ work'[c] = work[c] /\ Pends(c)
  /\ c \in old /\ op[c] \in Terminal /\ op'[c] = "pruned" /\ c \notin old'
Called(c) ==
  /\ host = "open" /\ pc[c] = "idle" /\ pc'[c] \in {"connect", "forget"}
  /\ op'[c] = op[c] /\ work'[c] = work[c] /\ Remembered(c) /\ Pends(c)
Replied(c) ==
  /\ \/ pc[c] \in {"waiting", "cancelled", "forget"} /\ pc'[c] = "done"
     \/ pc[c] = "forget" /\ pc'[c] = "history"
  /\ op'[c] = op[c] /\ work'[c] = work[c] /\ Remembered(c) /\ Pends(c)
Connects(c) ==
  /\ pc[c] = "connect" /\ pc'[c] = Launched /\ work'[c] = work[c] /\ c \notin old'
  /\ \/ op'[c] = "SUCCEEDED" /\ Pends(c)
     \/ op'[c] = "RUNNING" /\ pending' = c
Launches(c) ==
  /\ pc[c] \in {"forget", "history"} /\ pc'[c] = Launched
  /\ op'[c] = "QUEUED" /\ work'[c] = "new" /\ c \notin old' /\ Pends(c)
PendingEnds(c) ==
  /\ pending = c /\ pending' # c /\ pc'[c] = pc[c] /\ work'[c] = work[c]
  /\ op'[c] \in Terminal /\ c \notin old'
Works(c) ==
  /\ pc'[c] = pc[c] /\ Pends(c) /\ c \notin old'
  /\ \/ work[c] = "new" /\ work'[c] = "running" /\ op'[c] = "RUNNING"
     \/ /\ work[c] \in {"new", "cancelled"} \cup Busy /\ work'[c] = "over"
        /\ op'[c] \in Terminal
Closes(c) ==
  /\ pc'[c] = pc[c] /\ Pends(c) /\ Remembered(c) /\ op'[c] = op[c]
  /\ work[c] \in Busy /\ work'[c] \in {"closing", "closed"}
NeverStarted(c) ==
  /\ pc'[c] = pc[c] /\ Pends(c) /\ Remembered(c) /\ op'[c] = op[c]
  /\ work[c] = "unstarted" /\ work'[c] = "over"
TaskCancelled(c) ==
  /\ stop \in {"requested", "history"} \/ host = "stopping"
  /\ pc'[c] = pc[c] \/ (pc[c] \notin {"idle", "done"} /\ pc'[c] = "cancelled")
  /\ op'[c] = op[c] /\ Remembered(c) /\ Pends(c)
  /\ work'[c] = CASE work[c] = "new" -> "unstarted" [] work[c] \in Busy -> "cancelled"
                  [] OTHER -> work[c]

Moves(c) ==
  \/ Rests(c) \/ Forgotten(c) \/ Pruned(c) \/ Called(c) \/ Replied(c) \/ Connects(c)
  \/ Launches(c) \/ PendingEnds(c) \/ Works(c) \/ Closes(c) \/ NeverStarted(c)
  \/ TaskCancelled(c)

Outcomes == Active \cup Terminal \cup {"none", "pruned"}
Pcs == {"idle", "connect", "forget", "history", "waiting", "cancelled", "done"}
Tasks == {"none", "new", "running", "closing", "closed", "unstarted", "cancelled", "over"}
CallsTyped ==
  /\ pc \in [Calls -> Pcs] /\ op \in [Calls -> Outcomes] /\ work \in [Calls -> Tasks]
  /\ old \subseteq Calls /\ pending \in Calls \cup {NoCall}

\* An operation that is updated is recent.
LEMMA Updates ==
  ASSUME CallsTyped, NEW c \in Calls, NEW state \in Active \cup Terminal, Updated(c, state)
  PROVE  /\ op' \in [Calls -> Outcomes] /\ old' \subseteq Calls /\ c \notin old'
         /\ op'[c] = state /\ \A d \in Calls \ {c} : op'[d] = op[d] /\ Remembered(d)
BY DEF CallsTyped, Updated, Outcomes, Remembered

\* The manager reports on the pending connect.
LEMMA PendingEnded ==
  ASSUME CallsTyped, NEW state \in Terminal, EndPending(state), CallsAssumption,
         pc' = pc, work' = work
  PROVE  CallsTyped' /\ \A c \in Calls : Moves(c)
<1>1. CASE pending = NoCall
  BY <1>1 DEF EndPending, CallsAssumption, CallsTyped, Moves, Rests, Idles, Remembered,
     Pends
<1>2. CASE pending \in Calls
  <2>1. Updated(pending, state) /\ pending' = NoCall /\ NoCall \notin Calls
    BY <1>2 DEF EndPending, CallsAssumption
  <2>2. /\ op' \in [Calls -> Outcomes] /\ old' \subseteq Calls /\ pending \notin old'
        /\ op'[pending] = state
        /\ \A d \in Calls \ {pending} : op'[d] = op[d] /\ Remembered(d)
    BY <1>2, <2>1, Updates
  <2>3. CallsTyped'
    BY <2>1, <2>2 DEF CallsTyped
  <2>4. PendingEnds(pending)
    BY <1>2, <2>1, <2>2 DEF PendingEnds
  <2>5. \A c \in Calls \ {pending} : Rests(c)
    BY <2>1, <2>2 DEF Rests, Idles, Pends
  <2>. QED
    BY <2>3, <2>4, <2>5 DEF Moves
<1>. QED
  BY <1>1, <1>2 DEF CallsTyped

\* An operation is launched.
LEMMA OperationLaunched ==
  ASSUME CallsTyped, NEW c \in Calls, Launch(c), pc[c] \in {"forget", "history"},
         pending' = pending
  PROVE  CallsTyped' /\ \A d \in Calls : Moves(d)
<1>1. /\ op' \in [Calls -> Outcomes] /\ old' \subseteq Calls /\ c \notin old'
      /\ op'[c] = "QUEUED" /\ \A d \in Calls \ {c} : op'[d] = op[d] /\ Remembered(d)
  BY Updates DEF Launch, Active
<1>2. /\ pc' \in [Calls -> Pcs] /\ pc'[c] = Launched
      /\ work' \in [Calls -> Tasks] /\ work'[c] = "new"
      /\ \A d \in Calls \ {c} : pc'[d] = pc[d] /\ work'[d] = work[d]
  BY DEF Launch, Launched, CallsTyped, Pcs, Tasks
<1>3. CallsTyped'
  BY <1>1, <1>2 DEF CallsTyped
<1>4. Launches(c)
  BY <1>1, <1>2 DEF Launches, Pends
<1>5. \A d \in Calls \ {c} : Rests(d)
  BY <1>1, <1>2 DEF Rests, Idles, Pends
<1>. QED
  BY <1>3, <1>4, <1>5 DEF Moves

\* The tasks of the calls are cancelled.
LEMMA TasksCancelled ==
  ASSUME CallsTyped, work' = CancelledWork
  PROVE  /\ work' \in [Calls -> Tasks]
         /\ \A c \in Calls :
              work'[c] = CASE work[c] = "new" -> "unstarted"
                           [] work[c] \in Busy -> "cancelled" [] OTHER -> work[c]
BY DEF CancelledWork, CallsTyped, Tasks, Busy

\* Which actions change a call, an operation or a background task
LEMMA OperationSteps ==
  ASSUME [Next]_vars
  PROVE  \/ UNCHANGED opVars
         \/ \E c \in Calls :
              \/ \E kind \in {"connect", "forget"} : Submit(c, kind)
              \/ Ages(c) \/ WorkCloses(c) \/ WorkClosed(c) \/ WorkEnds(c)
              \/ ConnectRuns(c) \/ ForgetRuns(c) \/ ForgetResumes(c)
              \/ CallCancelled(c) \/ Answered(c) \/ WorkStarts(c) \/ WorkCancelled(c)
         \/ CleanedUp \/ Connected \/ Prune \/ StopBegins \/ StopResumes \/ Reap
BY DEF Next, Environment, Lifecycle, StopStep, HostStep, LoopStep, CallStep, WorkStep,
   vars, Start, StartRefused, Close, CloseTimesOut, LinkLost, ManagerFails,
   CancellationLost, ManagerObeys, ManagerGoesOn, ManagerRevives, AttemptFails,
   LossHandled, ManagerClosed, ManagerCloses, HistoryEnds, ScanStarts, ScanEnds,
   StopGathers, StopCloses, StopClosed, StopReturns, StopCancelled, CloseReturns,
   ThreadEnds, LoopReturns, LoopCancelled

\* A step takes each call one move further.
LEMMA CallSteps ==
  ASSUME CallsAssumption, CallsTyped, Fresh, WorkFollows, [Next]_vars,
         pending # NoCall => op[pending] = "RUNNING"
  PROVE  CallsTyped' /\ \A c \in Calls : Moves(c)
<1>. DEFINE Goal == CallsTyped' /\ \A c \in Calls : Moves(c)
<1>1. CASE UNCHANGED opVars
  BY <1>1 DEF opVars, CallsTyped, Moves, Rests, Idles, Remembered, Pends
<1>2. ASSUME NEW c \in Calls, NEW kind \in {"connect", "forget"}, Submit(c, kind)
      PROVE  Goal
  <2>1. CallsTyped'
    BY <1>2 DEF Submit, CallsTyped, Pcs
  <2>2. Called(c) /\ \A d \in Calls \ {c} : Rests(d)
    BY <1>2 DEF Submit, CallsTyped, Called, Rests, Idles, Remembered, Pends
  <2>. QED
    BY <2>1, <2>2 DEF Moves
<1>3. ASSUME NEW c \in Calls, Ages(c)
      PROVE  Goal
  <2>1. CallsTyped'
    BY <1>3 DEF Ages, CallsTyped
  <2>2. Forgotten(c) /\ \A d \in Calls \ {c} : Rests(d)
    BY <1>3 DEF Ages, CallsTyped, Forgotten, Rests, Idles, Remembered, Pends
  <2>. QED
    BY <2>1, <2>2 DEF Moves
<1>4. ASSUME NEW c \in Calls, WorkEnds(c)
      PROVE  Goal
  <2>1. PICK end \in {"SUCCEEDED", "FAILED"} : Updated(c, end)
    BY <1>4 DEF WorkEnds
  <2>2. /\ op' \in [Calls -> Outcomes] /\ old' \subseteq Calls /\ c \notin old'
        /\ op'[c] = end /\ \A d \in Calls \ {c} : op'[d] = op[d] /\ Remembered(d)
    BY <2>1, Updates DEF Terminal
  <2>3. /\ work' \in [Calls -> Tasks] /\ work[c] \in Busy /\ work'[c] = "over"
        /\ \A d \in Calls \ {c} : work'[d] = work[d]
        /\ pc' = pc /\ pending' = pending
    BY <1>4 DEF WorkEnds, CallsTyped, Tasks, Busy
  <2>4. Works(c)
    BY <2>2, <2>3 DEF Works, Pends, Terminal
  <2>5. \A d \in Calls \ {c} : Rests(d)
    BY <2>2, <2>3 DEF Rests, Idles, Pends
  <2>. QED
    BY <2>2, <2>3, <2>4, <2>5 DEF Moves, CallsTyped
<1>5. ASSUME NEW c \in Calls, ConnectRuns(c)
      PROVE  Goal
  <2>1. /\ pc[c] = "connect" /\ work' = work
        /\ pc' \in [Calls -> Pcs] /\ pc'[c] = Launched
        /\ \A d \in Calls \ {c} : pc'[d] = pc[d]
    BY <1>5 DEF ConnectRuns, Launched, CallsTyped, Pcs
  <2>2. CASE Updated(c, "SUCCEEDED") /\ pending' = pending
    <3>1. /\ op' \in [Calls -> Outcomes] /\ old' \subseteq Calls /\ c \notin old'
          /\ op'[c] = "SUCCEEDED" /\ \A d \in Calls \ {c} : op'[d] = op[d] /\ Remembered(d)
      BY <2>2, Updates DEF Terminal
    <3>2. Connects(c)
      BY <2>1, <2>2, <3>1 DEF Connects, Pends
    <3>3. \A d \in Calls \ {c} : Rests(d)
      BY <2>1, <2>2, <3>1 DEF Rests, Idles, Pends
    <3>. QED
      BY <2>1, <2>2, <3>1, <3>2, <3>3 DEF Moves, CallsTyped
  <2>3. CASE /\ op' = [WithPendingCancelled EXCEPT ![c] = "RUNNING"]
             /\ old' = old \ {c, pending} /\ pending' = c
    <3>1. /\ op' \in [Calls -> Outcomes] /\ op'[c] = "RUNNING"
          /\ \A d \in Calls \ {c} :
               op'[d] = IF d = pending /\ op[d] \in Active THEN "CANCELLED" ELSE op[d]
      BY <2>3 DEF WithPendingCancelled, CallsTyped, Outcomes, Active, Terminal
    <3>2. Connects(c)
      BY <2>1, <2>3, <3>1 DEF Connects
    <3>3. \A d \in Calls \ {c} : d = pending => PendingEnds(d)
      BY <2>1, <2>3, <3>1, CallsAssumption DEF PendingEnds, Active, Terminal
    <3>4. \A d \in Calls \ {c} : d # pending => Rests(d)
      BY <2>1, <2>3, <3>1 DEF Rests, Idles, Pends, Remembered
    <3>5. CallsTyped'
      BY <2>1, <2>3, <3>1 DEF CallsTyped
    <3>. QED
      BY <3>2, <3>3, <3>4, <3>5 DEF Moves
  <2>. QED
    BY <1>5, <2>2, <2>3 DEF ConnectRuns
<1>6. ASSUME NEW c \in Calls, ForgetRuns(c)
      PROVE  Goal
  <2>1. pc[c] = "forget" /\ pending' = pending
    BY <1>6 DEF ForgetRuns
  <2>2. CASE Launch(c)
    BY <2>1, <2>2, OperationLaunched
  <2>3. CASE pc' = [pc EXCEPT ![c] = "done"] /\ UNCHANGED <<op, work, old>>
    <3>1. CallsTyped'
      BY <2>1, <2>3 DEF CallsTyped, Pcs
    <3>2. Replied(c) /\ \A d \in Calls \ {c} : Rests(d)
      BY <2>1, <2>3 DEF CallsTyped, Replied, Rests, Idles, Remembered, Pends
    <3>. QED
      BY <3>1, <3>2 DEF Moves
  <2>4. CASE pc' = [pc EXCEPT ![c] = "history"] /\ UNCHANGED <<op, work, old>>
    <3>1. CallsTyped'
      BY <2>1, <2>4 DEF CallsTyped, Pcs
    <3>2. Replied(c) /\ \A d \in Calls \ {c} : Rests(d)
      BY <2>1, <2>4 DEF CallsTyped, Replied, Rests, Idles, Remembered, Pends
    <3>. QED
      BY <3>1, <3>2 DEF Moves
  <2>. QED
    BY <1>6, <2>2, <2>3, <2>4 DEF ForgetRuns
<1>7. ASSUME NEW c \in Calls, ForgetResumes(c)
      PROVE  Goal
  BY <1>7, OperationLaunched DEF ForgetResumes
<1>8. ASSUME NEW c \in Calls, CallCancelled(c) \/ Answered(c)
      PROVE  Goal
  <2>1. /\ pc' = [pc EXCEPT ![c] = "done"] /\ pc[c] \in {"waiting", "cancelled"}
        /\ UNCHANGED <<op, work, old, pending>>
    BY <1>8 DEF CallCancelled, Answered
  <2>2. CallsTyped'
    BY <2>1 DEF CallsTyped, Pcs
  <2>3. Replied(c) /\ \A d \in Calls \ {c} : Rests(d)
    BY <2>1 DEF CallsTyped, Replied, Rests, Idles, Remembered, Pends
  <2>. QED
    BY <2>2, <2>3 DEF Moves
<1>9. ASSUME NEW c \in Calls, WorkStarts(c)
      PROVE  Goal
  <2>1. PICK state \in {"RUNNING", "FAILED"} :
          /\ Updated(c, state) /\ work[c] = "new" /\ UNCHANGED <<pc, pending>>
          /\ work' = [work EXCEPT ![c] = IF state = "RUNNING" THEN "running" ELSE "over"]
    BY <1>9 DEF WorkStarts
  <2>2. /\ op' \in [Calls -> Outcomes] /\ old' \subseteq Calls /\ c \notin old'
        /\ op'[c] = state /\ \A d \in Calls \ {c} : op'[d] = op[d] /\ Remembered(d)
    BY <2>1, Updates DEF Active, Terminal
  <2>3. /\ work' \in [Calls -> Tasks]
        /\ work'[c] = IF state = "RUNNING" THEN "running" ELSE "over"
        /\ \A d \in Calls \ {c} : work'[d] = work[d]
    BY <2>1 DEF CallsTyped, Tasks
  <2>4. Works(c)
    BY <2>1, <2>2, <2>3 DEF Works, Pends, Terminal
  <2>5. \A d \in Calls \ {c} : Rests(d)
    BY <2>1, <2>2, <2>3 DEF Rests, Idles, Pends
  <2>. QED
    BY <2>1, <2>2, <2>3, <2>4, <2>5 DEF Moves, CallsTyped
<1>10. ASSUME NEW c \in Calls, WorkCancelled(c)
       PROVE  Goal
  <2>1. /\ work' \in [Calls -> Tasks] /\ work'[c] = "over"
        /\ \A d \in Calls \ {c} : work'[d] = work[d]
        /\ pc' = pc /\ pending' = pending
    BY <1>10 DEF WorkCancelled, CallsTyped, Tasks
  <2>2. CASE work[c] = "cancelled"
    <3>1. Updated(c, "CANCELLED")
      BY <1>10, <2>2 DEF WorkCancelled, WorkFollows, Active
    <3>2. /\ op' \in [Calls -> Outcomes] /\ old' \subseteq Calls /\ c \notin old'
          /\ op'[c] = "CANCELLED" /\ \A d \in Calls \ {c} : op'[d] = op[d] /\ Remembered(d)
      BY <3>1, Updates DEF Terminal
    <3>3. Works(c)
      BY <2>1, <2>2, <3>2 DEF Works, Pends, Terminal
    <3>4. \A d \in Calls \ {c} : Rests(d)
      BY <2>1, <3>2 DEF Rests, Idles, Pends
    <3>. QED
      BY <2>1, <3>2, <3>3, <3>4 DEF Moves, CallsTyped
  <2>3. CASE work[c] = "unstarted"
    <3>1. UNCHANGED <<op, old>>
      BY <1>10, <2>3 DEF WorkCancelled
    <3>2. NeverStarted(c) /\ \A d \in Calls \ {c} : Rests(d)
      BY <2>1, <2>3, <3>1 DEF NeverStarted, Rests, Idles, Remembered, Pends
    <3>. QED
      BY <2>1, <3>1, <3>2 DEF Moves, CallsTyped
  <2>. QED
    BY <1>10, <2>2, <2>3 DEF WorkCancelled
<1>11. CASE CleanedUp
  <2>1. CASE EndPending("FAILED")
    BY <1>11, <2>1, PendingEnded DEF CleanedUp, Terminal
  <2>2. CASE UNCHANGED opVars
    BY <1>1, <2>2
  <2>. QED
    BY <1>11, <2>1, <2>2 DEF CleanedUp, opVars
<1>12. CASE Connected
  BY <1>12, PendingEnded DEF Connected, Terminal
<1>13. CASE Prune
  <2>1. /\ \A c \in Calls : op'[c] = IF c \in Expired THEN "pruned" ELSE op[c]
        /\ op' \in [Calls -> Outcomes] /\ old' = old \ Expired
        /\ UNCHANGED <<pc, work, pending>>
    BY <1>13 DEF Prune, CallsTyped, Outcomes
  <2>2. \A c \in Calls : c \in Expired => Pruned(c)
    BY <2>1 DEF Expired, Pruned, Pends
  <2>3. \A c \in Calls : c \notin Expired => Rests(c)
    BY <2>1 DEF Rests, Idles, Remembered, Pends
  <2>. QED
    BY <2>1, <2>2, <2>3 DEF Moves, CallsTyped
<1>14. CASE StopBegins
  <2>1. /\ stop = "requested" /\ op' = WithPendingCancelled
        /\ old' = old \ {pending} /\ pending' = NoCall /\ pc' = pc
    BY <1>14 DEF StopBegins
  <2>2. work' = work \/ work' = CancelledWork
    BY <1>14 DEF StopBegins, CancelTasks
  <2>3. /\ op' \in [Calls -> Outcomes]
        /\ \A c \in Calls :
             op'[c] = IF c = pending /\ op[c] \in Active THEN "CANCELLED" ELSE op[c]
    BY <2>1 DEF WithPendingCancelled, CallsTyped, Outcomes, Active, Terminal
  <2>4. /\ work' \in [Calls -> Tasks]
        /\ \A c \in Calls : \/ work'[c] = work[c]
                            \/ work'[c] = CASE work[c] = "new" -> "unstarted"
                                 [] work[c] \in Busy -> "cancelled" [] OTHER -> work[c]
    BY <2>2, TasksCancelled DEF CallsTyped
  <2>5. \A c \in Calls : c = pending => PendingEnds(c)
    <3>1. \A c \in Calls : c = pending => work[c] = "none" /\ op[c] = "RUNNING"
      BY CallsAssumption DEF WorkFollows
    <3>. QED
      BY <2>1, <2>3, <2>4, <3>1, CallsAssumption DEF PendingEnds, Active, Terminal, Busy
  <2>6. \A c \in Calls : c # pending => Rests(c) \/ TaskCancelled(c)
    BY <2>1, <2>3, <2>4, CallsAssumption DEF Rests, TaskCancelled, Idles, Remembered,
       Pends
  <2>7. CallsTyped'
    BY <2>1, <2>3, <2>4 DEF CallsTyped
  <2>. QED
    BY <2>5, <2>6, <2>7 DEF Moves
<1>15. CASE StopResumes
  <2>1. /\ work' \in [Calls -> Tasks]
        /\ \A c \in Calls :
             work'[c] = CASE work[c] = "new" -> "unstarted"
                          [] work[c] \in Busy -> "cancelled" [] OTHER -> work[c]
        /\ stop = "history" /\ UNCHANGED <<pc, op, old, pending>>
    BY <1>15, TasksCancelled DEF StopResumes, CancelTasks
  <2>2. \A c \in Calls : TaskCancelled(c)
    BY <2>1 DEF TaskCancelled, Remembered, Pends
  <2>. QED
    BY <2>1, <2>2 DEF Moves, CallsTyped
<1>16. CASE Reap
  <2>1. /\ work' \in [Calls -> Tasks]
        /\ \A c \in Calls :
             work'[c] = CASE work[c] = "new" -> "unstarted"
                          [] work[c] \in Busy -> "cancelled" [] OTHER -> work[c]
        /\ host = "stopping" /\ UNCHANGED <<op, old, pending>>
    BY <1>16, TasksCancelled DEF Reap
  <2>2. /\ pc' \in [Calls -> Pcs]
        /\ \A c \in Calls :
             pc'[c] = IF pc[c] \in {"idle", "done"} THEN pc[c] ELSE "cancelled"
    BY <1>16 DEF Reap, CallsTyped, Pcs
  <2>3. \A c \in Calls : TaskCancelled(c)
    BY <2>1, <2>2 DEF TaskCancelled, Remembered, Pends
  <2>. QED
    BY <2>1, <2>2, <2>3 DEF Moves, CallsTyped
<1>17. ASSUME NEW c \in Calls, WorkCloses(c) \/ WorkClosed(c)
       PROVE  Goal
  <2>1. PICK at \in {"closing", "closed"} :
          /\ work' = [work EXCEPT ![c] = at] /\ work[c] \in Busy
          /\ UNCHANGED <<pc, op, old, pending>>
    BY <1>17 DEF WorkCloses, WorkClosed, Busy
  <2>2. CallsTyped'
    BY <2>1 DEF CallsTyped, Tasks
  <2>3. Closes(c) /\ \A d \in Calls \ {c} : Rests(d)
    BY <2>1 DEF CallsTyped, Closes, Rests, Idles, Remembered, Pends
  <2>. QED
    BY <2>2, <2>3 DEF Moves
<1>. QED
  BY <1>1, <1>2, <1>3, <1>4, <1>5, <1>6, <1>7, <1>8, <1>9, <1>10, <1>11, <1>12, <1>13,
     <1>14, <1>15, <1>16, <1>17, OperationSteps

-----------------------------------------------------------------------------
(* What a step may do to the rest of the service. *)

\* What a step may do to the host and to stop()
LEMMA HostSteps ==
  ASSUME [Next]_vars
  PROVE  \/ UNCHANGED <<window, host, stop>>
         \/ Start \/ StartRefused \/ Close \/ CloseTimesOut \/ CloseReturns
         \/ Reap \/ ThreadEnds \/ StopBegins \/ StopResumes \/ StopGathers
         \/ StopCloses \/ StopClosed \/ StopReturns \/ StopCancelled
BY DEF Next, Environment, Lifecycle, StopStep, HostStep, LoopStep, CallStep, WorkStep,
   vars, hostVars, AttemptFails, LinkLost, ManagerFails, CancellationLost, Submit, Ages,
   WorkCloses, WorkClosed, WorkEnds, Prune, Connected, ManagerObeys, ManagerGoesOn,
   ManagerRevives, CleanedUp, LossHandled, ManagerClosed, ManagerCloses, HistoryEnds,
   ScanStarts, ScanEnds, LoopReturns, LoopCancelled, ConnectRuns, ForgetRuns,
   ForgetResumes, CallCancelled, Answered, WorkStarts, WorkCancelled

LoopStates == {"off", "working", "cleanup", "lost", "closing", "backoff", "cancelled"}

\* What a step may do to the two loops
LEMMA LoopSteps ==
  ASSUME [Next]_vars
  PROVE  \/ loop' = loop \/ Start \/ loop' = CancelledLoops
         \/ \E l \in Loops : loop[l] # "off" /\ \E s \in LoopStates :
                                loop' = [loop EXCEPT ![l] = s]
BY DEF Next, Environment, Lifecycle, StopStep, HostStep, LoopStep, CallStep, WorkStep,
   vars, linkVars, Start, StartRefused, Close, CloseTimesOut, AttemptFails, LinkLost,
   ManagerFails, CancellationLost, Submit, Ages, WorkCloses, WorkClosed, WorkEnds,
   Prune, Connected, ManagerObeys, ManagerGoesOn, ManagerRevives, CleanedUp,
   LossHandled, ManagerClosed, ManagerCloses, HistoryEnds, ScanStarts, ScanEnds,
   StopBegins, StopResumes, StopGathers, StopCloses, StopClosed, StopReturns,
   StopCancelled, CloseReturns, Reap, ThreadEnds, LoopReturns, LoopCancelled,
   ConnectRuns, ForgetRuns, ForgetResumes, CallCancelled, Answered, WorkStarts,
   WorkCancelled, CancelTasks, ManagerWorks, Loops, LoopStates

\* The host is chosen once; what runs does so because the service was started,
\* is connected when that is desired, and is desired when a connect call ran.
LEMMA ServiceSteps ==
  ASSUME loop \in [Loops -> LoopStates], [Next]_vars
  PROVE  /\ window' = window
         /\ started' => started \/ host = "off"
         /\ desired' => desired \/ \E c \in Calls : pc[c] = "connect"
         /\ client' => client \/ desired
         /\ history' = "running" => history = "running" \/ desired
         /\ history' # "off" => history # "off" \/ desired
         /\ scan' = "running" => scan = "running" \/ desired \/ host = "open"
         /\ scan' # "off" => scan # "off" \/ desired \/ host = "open"
         /\ \/ phase' = phase \/ host = "off" \/ loop["manager"] # "off"
            \/ stop \in {"requested", "client", "closing"}
            \/ \E c \in Calls : pc[c] \in {"connect", "forget"} \/ work[c] \in Busy
         /\ \A l \in Loops : loop'[l] # "off" => loop[l] # "off" \/ host = "off"
<1>1. window' = window
  BY HostSteps DEF hostVars, Start, StartRefused, Close, CloseTimesOut, CloseReturns,
     Reap, ThreadEnds, StopBegins, StopResumes, StopGathers, StopCloses, StopClosed,
     StopReturns, StopCancelled
<1>2. /\ started' => started \/ host = "off"
      /\ desired' => desired \/ \E c \in Calls : pc[c] = "connect"
      /\ client' => client \/ desired
      /\ history' = "running" => history = "running" \/ desired
      /\ history' # "off" => history # "off" \/ desired
      /\ scan' = "running" => scan = "running" \/ desired \/ host = "open"
      /\ scan' # "off" => scan # "off" \/ desired \/ host = "open"
      /\ \/ phase' = phase \/ host = "off" \/ loop["manager"] # "off"
         \/ stop \in {"requested", "client", "closing"}
         \/ \E c \in Calls : pc[c] \in {"connect", "forget"} \/ work[c] \in Busy
  BY DEF Next, Environment, Lifecycle, StopStep, HostStep, LoopStep, CallStep, WorkStep,
     vars, linkVars, Start, StartRefused, Close, CloseTimesOut, AttemptFails, LinkLost,
     ManagerFails, CancellationLost, Submit, Ages, WorkCloses, WorkClosed, WorkEnds,
     Prune, Connected, ManagerObeys, ManagerGoesOn, ManagerRevives, CleanedUp,
     LossHandled, ManagerClosed, ManagerCloses, HistoryEnds, ScanStarts, ScanEnds,
     StopBegins, StopResumes, StopGathers, StopCloses, StopClosed, StopReturns,
     StopCancelled, CloseReturns, Reap, ThreadEnds, LoopReturns, LoopCancelled,
     ConnectRuns, ForgetRuns, ForgetResumes, CallCancelled, Answered, WorkStarts,
     WorkCancelled, ManagerWorks, Busy
<1>3. \A l \in Loops : loop'[l] # "off" => loop[l] # "off" \/ host = "off"
  BY LoopSteps DEF Start, CancelledLoops, LoopStates
<1>. QED
  BY <1>1, <1>2, <1>3

-----------------------------------------------------------------------------
(* Every part of the invariant is kept. *)

\* The types are kept: a pending connect is still RUNNING when its number stays.
LEMMA TypesKept ==
  ASSUME CallsAssumption, TypeOK, Fresh, WorkFollows, [Next]_vars
  PROVE  TypeOK'
<1>1. CallsTyped' /\ \A c \in Calls : Moves(c)
  BY CallSteps DEF TypeOK, CallsTyped, Outcomes, Pcs, Tasks
<1>2. started' \in BOOLEAN /\ desired' \in BOOLEAN /\ client' \in BOOLEAN /\ window' \in BOOLEAN
  <2>1. /\ started' = started \/ started' = TRUE \/ started' = FALSE
        /\ desired' = desired \/ desired' = TRUE \/ desired' = FALSE
        /\ client' = client \/ client' = TRUE \/ client' = FALSE
        /\ window' = window
    BY DEF Next, Environment, Lifecycle, StopStep, HostStep, LoopStep, CallStep,
       WorkStep, vars, linkVars, hostVars, Start, StartRefused, Close, CloseTimesOut,
       AttemptFails, LinkLost, ManagerFails, CancellationLost, Submit, Ages, WorkCloses,
       WorkClosed, WorkEnds, Prune, Connected, ManagerObeys, ManagerGoesOn,
       ManagerRevives, CleanedUp, LossHandled, ManagerClosed, ManagerCloses,
       HistoryEnds, ScanStarts, ScanEnds, StopBegins, StopResumes, StopGathers,
       StopCloses, StopClosed, StopReturns, StopCancelled, CloseReturns, Reap,
       ThreadEnds, LoopReturns, LoopCancelled, ConnectRuns, ForgetRuns, ForgetResumes,
       CallCancelled, Answered, WorkStarts, WorkCancelled, CancelTasks
  <2>. QED
    BY <2>1 DEF TypeOK
<1>3. /\ phase' \in {"STOPPED", "DISCONNECTED", "RECONNECTING", "CONNECTED", "DISCONNECTING"}
      /\ history' \in {"off", "running", "cancelled"}
      /\ scan' \in {"off", "running", "cancelled"}
      /\ stop' \in {"idle", "requested", "history", "tasks", "client", "closing",
                   "persistence", "done", "cancelled"}
      /\ host' \in {"off", "refused", "open", "closing", "stopping", "reaping", "gone"}
  BY DEF Next, Environment, Lifecycle, StopStep, HostStep, LoopStep, CallStep, WorkStep,
     vars, linkVars, hostVars, Start, StartRefused, Close, CloseTimesOut, AttemptFails,
     LinkLost, ManagerFails, CancellationLost, Submit, Ages, WorkCloses, WorkClosed,
     WorkEnds, Prune, Connected, ManagerObeys, ManagerGoesOn, ManagerRevives, CleanedUp,
     LossHandled, ManagerClosed, ManagerCloses, HistoryEnds, ScanStarts, ScanEnds,
     StopBegins, StopResumes, StopGathers, StopCloses, StopClosed, StopReturns,
     StopCancelled, CloseReturns, Reap, ThreadEnds, LoopReturns, LoopCancelled,
     ConnectRuns, ForgetRuns, ForgetResumes, CallCancelled, Answered, WorkStarts,
     WorkCancelled, CancelTasks, TypeOK
<1>4. loop' \in [Loops -> LoopStates]
  <2>1. loop \in [Loops -> LoopStates]
    BY DEF TypeOK, LoopStates
  <2>. QED
    BY <2>1, LoopSteps DEF Start, CancelledLoops, LoopStates
<1>5. faults' \in 0 .. MaxFaults
  <2>1. faults' = faults \/ (faults > 0 /\ faults' = faults - 1)
    BY DEF Next, Environment, Lifecycle, StopStep, HostStep, LoopStep, CallStep,
       WorkStep, vars, linkVars, hostVars, Start, StartRefused, Close, CloseTimesOut,
       AttemptFails, LinkLost, ManagerFails, CancellationLost, Submit, Ages, WorkCloses,
       WorkClosed, WorkEnds, Prune, Connected, ManagerObeys, ManagerGoesOn,
       ManagerRevives, CleanedUp, LossHandled, ManagerClosed, ManagerCloses,
       HistoryEnds, ScanStarts, ScanEnds, StopBegins, StopResumes, StopGathers,
       StopCloses, StopClosed, StopReturns, StopCancelled, CloseReturns, Reap,
       ThreadEnds, LoopReturns, LoopCancelled, ConnectRuns, ForgetRuns, ForgetResumes,
       CallCancelled, Answered, WorkStarts, WorkCancelled, CancelTasks, TypeOK
  <2>. QED
    BY <2>1, CallsAssumption DEF TypeOK
<1>6. pending' # NoCall => op'[pending'] = "RUNNING"
  <2>. SUFFICES ASSUME NEW c \in Calls, pending' = c
                PROVE  op'[c] = "RUNNING"
    BY <1>1 DEF CallsTyped
  <2>1. Moves(c) /\ (pending = c => op[c] = "RUNNING" /\ work[c] = "none")
    BY <1>1, CallsAssumption DEF TypeOK, WorkFollows
  <2>2. pc[c] \in {"connect", "forget", "history"} => op[c] = "none"
    BY DEF Fresh
  <2>3. CASE pending = c
    BY <2>1, <2>2, <2>3 DEF Moves, Rests, Forgotten, Pruned, Called, Replied, Connects,
       Launches, PendingEnds, Works, NeverStarted, Closes, TaskCancelled, Busy, Idles,
       Pends, Active, Terminal
  <2>4. CASE pending # c
    BY <2>1, <2>4 DEF Moves, Rests, Forgotten, Pruned, Called, Replied, Connects,
       Launches, PendingEnds, Works, NeverStarted, Closes, TaskCancelled, Idles, Pends
  <2>. QED
    BY <2>3, <2>4
<1>. QED
  BY <1>1, <1>2, <1>3, <1>4, <1>5, <1>6
     DEF TypeOK, CallsTyped, LoopStates, Outcomes, Pcs, Tasks

\* Only a call that runs makes an operation or a task.
LEMMA FreshKept ==
  ASSUME CallsAssumption, TypeOK, Fresh, WorkFollows, \A c \in Calls : Moves(c)
  PROVE  Fresh'
<1>. SUFFICES ASSUME NEW c \in Calls, pc'[c] \in {"idle", "connect", "forget", "history"}
              PROVE  op'[c] = "none" /\ work'[c] = "none"
  BY DEF Fresh
<1>1. /\ Moves(c)
      /\ pc[c] \in {"idle", "connect", "forget", "history"} =>
           op[c] = "none" /\ work[c] = "none"
      /\ pending = c => op[c] = "RUNNING"
  BY CallsAssumption DEF Fresh, TypeOK
<1>. QED
  BY <1>1 DEF Moves, Rests, Forgotten, Pruned, Called, Replied, Connects, Launches,
     PendingEnds, Works, NeverStarted, Closes, TaskCancelled, Busy, Idles, Launched,
     Active, Terminal

\* An operation and its task go together.
LEMMA WorkFollowsKept ==
  ASSUME CallsAssumption, TypeOK, Fresh, WorkFollows, \A c \in Calls : Moves(c)
  PROVE  WorkFollows'
<1>. SUFFICES ASSUME NEW c \in Calls
              PROVE  /\ work'[c] = "new" => op'[c] = "QUEUED"
                     /\ work'[c] \in Busy \cup {"cancelled"} => op'[c] = "RUNNING"
                     /\ pending' = c => work'[c] = "none"
  BY DEF WorkFollows
<1>1. /\ Moves(c)
      /\ pc[c] \in {"idle", "connect", "forget", "history"} =>
           op[c] = "none" /\ work[c] = "none"
      /\ work[c] = "new" => op[c] = "QUEUED"
      /\ work[c] \in Busy \cup {"cancelled"} => op[c] = "RUNNING"
      /\ pending = c => work[c] = "none" /\ op[c] = "RUNNING"
  BY CallsAssumption DEF Fresh, WorkFollows, TypeOK
<1>. QED
  BY <1>1 DEF Moves, Rests, Forgotten, Pruned, Called, Replied, Connects, Launches,
     PendingEnds, Works, NeverStarted, Closes, TaskCancelled, Busy, Idles, Pends,
     Launched, Active, Terminal

\* An operation ages anew whenever it changes, so a waiter is in time.
LEMMA AwaitedKept ==
  ASSUME Awaited, \A c \in Calls : Moves(c)
  PROVE  Awaited'
<1>. SUFFICES ASSUME NEW c \in Calls, pc'[c] = "waiting"
              PROVE  op'[c] # "pruned" /\ (c \in old' => op'[c] \notin Terminal)
  BY DEF Awaited
<1>1. /\ Moves(c)
      /\ pc[c] = "waiting" => op[c] # "pruned" /\ (c \in old => op[c] \notin Terminal)
  BY DEF Awaited
<1>. QED
  BY <1>1 DEF Moves, Rests, Forgotten, Pruned, Called, Replied, Connects, Launches,
     PendingEnds, Works, NeverStarted, Closes, TaskCancelled, Busy, Idles, Remembered,
     Launched, Active, Terminal

\* stop() begins once the calls have run; none is made after it.
LEMMA StoppingKept ==
  ASSUME CallsAssumption, TypeOK, Stopping, Reaped, [Next]_vars,
         CallsTyped', \A c \in Calls : Moves(c)
  PROVE  Stopping'
<1>1. /\ stop' = "idle" <=> host' \in {"off", "refused", "open"}
      /\ host' = "gone" => stop' = "done"
  BY HostSteps DEF LoopRuns, Stopping, Reaped, Start, StartRefused, Close,
     CloseTimesOut, CloseReturns, Reap, ThreadEnds, StopBegins, CancelTasks,
     StopResumes, StopGathers, StopCloses, StopClosed, StopReturns, StopCancelled,
     hostVars
<1>2. ASSUME stop' \notin {"idle", "requested"}, stop \notin {"idle", "requested"}
      PROVE  /\ ~started' /\ ~desired' /\ pending' = NoCall
             /\ \A c \in Calls : pc'[c] \notin {"connect", "forget"}
  <2>1. /\ host \notin {"off", "refused", "open"} /\ ~started /\ ~desired /\ pending = NoCall
        /\ \A c \in Calls : pc[c] \notin {"connect", "forget"}
    BY <1>2 DEF Stopping
  <2>2. ~started' /\ ~desired'
    BY <2>1, ServiceSteps DEF TypeOK, LoopStates
  <2>3. \A c \in Calls : pc'[c] \notin {"connect", "forget"} /\ pending' # c
    BY <2>1, CallsAssumption DEF Moves, Rests, Forgotten, Pruned, Called, Replied,
       Connects, Launches, PendingEnds, Works, NeverStarted, Closes, TaskCancelled,
       Busy, Idles, Pends, Launched
  <2>. QED
    BY <2>2, <2>3 DEF CallsTyped
<1>3. ASSUME stop' \notin {"idle", "requested"}, stop \in {"idle", "requested"}
      PROVE  StopBegins
  BY <1>3, HostSteps DEF Reaped, Stopping, Start, StartRefused, Close, CloseTimesOut,
     CloseReturns, Reap, ThreadEnds, StopResumes, StopGathers, StopCloses, StopClosed,
     StopReturns, StopCancelled
<1>4. CASE StopBegins
  BY <1>1, <1>4 DEF StopBegins, Stopping
<1>. QED
  BY <1>1, <1>2, <1>3, <1>4 DEF Stopping

\* The loop is stopped after stop() has begun; the tasks it reaps start no other.
LEMMA ReapedKept ==
  ASSUME CallsAssumption, TypeOK, Stopping, Reaped, [Next]_vars, \A c \in Calls : Moves(c)
  PROVE  Reaped'
<1>1. host' \in {"stopping", "reaping"} =>
        stop' \notin {"idle", "requested"} /\ (window' \/ stop' = "done")
  BY HostSteps DEF Stopping, Reaped, Start, StartRefused, Close, CloseTimesOut,
     CloseReturns, Reap, ThreadEnds, StopBegins, CancelTasks, StopResumes, StopGathers,
     StopCloses, StopClosed, StopReturns, StopCancelled, hostVars
<1>2. ASSUME host' = "reaping", host = "reaping"
      PROVE  /\ history' # "running" /\ scan' # "running"
             /\ \A c \in Calls : work'[c] \notin {"new"} \cup Busy
                                 /\ pc'[c] \in {"idle", "done", "cancelled"}
  <2>1. /\ ~desired /\ history # "running" /\ scan # "running"
        /\ \A c \in Calls : work[c] \notin {"new"} \cup Busy
                            /\ pc[c] \in {"idle", "done", "cancelled"}
    BY <1>2 DEF Stopping, Reaped
  <2>2. history' # "running" /\ scan' # "running"
    BY <1>2, <2>1, ServiceSteps DEF TypeOK, LoopStates
  <2>. QED
    BY <1>2, <2>1, <2>2 DEF Moves, Rests, Forgotten, Pruned, Called, Replied, Connects,
       Launches, PendingEnds, Works, NeverStarted, Closes, TaskCancelled, Busy, Idles
<1>3. ASSUME host' = "reaping", host # "reaping"
      PROVE  Reap
  BY <1>3, HostSteps DEF Start, StartRefused, Close, CloseTimesOut, CloseReturns,
     ThreadEnds, StopBegins, StopResumes, StopGathers, StopCloses, StopClosed,
     StopReturns, StopCancelled, hostVars
<1>4. ASSUME Reap
      PROVE  /\ history' # "running" /\ scan' # "running"
             /\ \A c \in Calls : work'[c] \notin {"new"} \cup Busy
                                 /\ pc'[c] \in {"idle", "done", "cancelled"}
  BY <1>4 DEF Reap, CancelledWork, TypeOK, Busy
<1>. QED
  BY <1>1, <1>2, <1>3, <1>4 DEF Reaped

\* While the host closes, its calls stay as they are and launch nothing.
LEMMA CallsRest ==
  ASSUME \A c \in Calls : Moves(c), host # "open"
  PROVE  \A c \in Calls : pc[c] \in {"idle", "done"} =>
           /\ pc'[c] = pc[c] /\ (work'[c] = "new" => work[c] = "new")
           /\ work'[c] \in {"new"} \cup Busy => work[c] \in {"new"} \cup Busy
           /\ work[c] \in {"none", "over"} => work'[c] \in {"none", "over"}
BY DEF Moves, Rests, Forgotten, Pruned, Called, Replied, Connects, Launches,
   PendingEnds, Works, NeverStarted, Closes, TaskCancelled, Busy, Idles

\* Drained calls make nothing that stop() does not see.
LEMMA DrainsKept ==
  ASSUME CallsAssumption, TypeOK, Stopping, Reaped, Drains, Fresh, WorkFollows, [Next]_vars,
         CallsTyped', \A c \in Calls : Moves(c)
  PROVE  Drains'
<1>. SUFFICES ASSUME ~window' PROVE Drains'
  BY DEF Drains
<1>1. ~window /\ (host \in {"stopping", "reaping"} => stop = "done")
  BY ServiceSteps DEF TypeOK, LoopStates, Reaped
<1>2. stop' # "cancelled"
  BY <1>1, HostSteps DEF Drains, Start, StartRefused, Close, CloseTimesOut,
     CloseReturns, Reap, ThreadEnds, StopBegins, CancelTasks, StopResumes, StopGathers,
     StopCloses, StopClosed, StopReturns, StopCancelled
\* From the moment stop() is requested the calls are over.
<1>3. ASSUME stop # "idle"
      PROVE  /\ host \in Closings
             /\ \A c \in Calls : pc[c] \in {"idle", "done"} /\ work[c] # "new"
  BY <1>1, <1>3 DEF Stopping, Drains, TypeOK, Closings
<1>4. ASSUME stop \notin {"idle", "requested"}
      PROVE  /\ host \notin {"off", "open"} /\ ~desired /\ ~desired'
             /\ history = "off" => history' = "off"
  BY <1>3, <1>4, ServiceSteps DEF Stopping, TypeOK, LoopStates, Closings
<1>5. \A c \in Calls : work'[c] # "unstarted"
  <2>. SUFFICES ASSUME NEW c \in Calls PROVE work'[c] # "unstarted"
    OBVIOUS
  <2>1. Moves(c) /\ work[c] # "unstarted" /\ (stop # "idle" => work[c] # "new")
    BY <1>1, <1>3 DEF Drains
  <2>. QED
    BY <1>1, <2>1 DEF Moves, Rests, Forgotten, Pruned, Called, Replied, Connects,
       Launches, PendingEnds, Works, NeverStarted, Closes, TaskCancelled, Busy, Idles
<1>6. ASSUME host' \in Closings
      PROVE  \A c \in Calls : pc'[c] \in {"idle", "done"} /\ work'[c] # "new"
  <2>1. CASE host \in Closings
    BY <1>1, <2>1, CallsRest DEF Drains, Closings
  <2>2. CASE host \notin Closings
    <3>1. Close
      BY <1>1, <1>6, <2>2, HostSteps DEF Stopping, Start, StartRefused, CloseTimesOut,
         CloseReturns, Reap, ThreadEnds, StopBegins, StopResumes, StopGathers,
         StopCloses, StopClosed, StopReturns, StopCancelled, hostVars, Closings
    <3>. QED
      BY <1>1, <3>1 DEF Close, Drained, opVars
  <2>. QED
    BY <2>1, <2>2
<1>7. \A c \in Calls : op'[c] \in Active =>
        pending' = c \/ work'[c] \in {"new", "cancelled"} \cup Busy
  <2>. SUFFICES ASSUME NEW c \in Calls, op'[c] \in Active
                PROVE  pending' = c \/ work'[c] \in {"new", "cancelled"} \cup Busy
    OBVIOUS
  <2>1. /\ Moves(c) /\ work'[c] # "unstarted"
        /\ op[c] \in Active => pending = c \/ work[c] \in {"new", "cancelled"} \cup Busy
    BY <1>1, <1>5 DEF Drains
  <2>. QED
    BY <2>1 DEF Moves, Rests, Forgotten, Pruned, Called, Replied, Connects, Launches,
       PendingEnds, Works, NeverStarted, Closes, TaskCancelled, Busy, Idles, Pends,
       Active, Terminal
<1>8. ASSUME stop' \in {"tasks", "client", "closing", "persistence", "done"}
      PROVE  history' = "off" /\ \A c \in Calls : work'[c] \notin {"new"} \cup Busy
  <2>1. CASE stop \in {"tasks", "client", "closing", "persistence", "done"}
    BY <1>1, <1>3, <1>4, <2>1, CallsRest DEF Drains
  <2>2. CASE stop \notin {"tasks", "client", "closing", "persistence", "done"}
    <3>1. history' = "off" /\ CancelTasks
      BY <1>1, <1>8, <2>2, HostSteps DEF Drains, Start, StartRefused, Close,
         CloseTimesOut, CloseReturns, Reap, ThreadEnds, StopBegins, StopResumes,
         StopGathers, StopCloses, StopClosed, StopReturns, StopCancelled, hostVars
    <3>. QED
      BY <3>1 DEF CancelTasks, CancelledWork, TypeOK, Busy
  <2>. QED
    BY <2>1, <2>2
<1>9. ASSUME stop' \in {"client", "closing", "persistence", "done"}
      PROVE  /\ \A l \in Loops : loop'[l] = "off"
             /\ \A c \in Calls : work'[c] \in {"none", "over"}
  <2>1. CASE stop \in {"client", "closing", "persistence", "done"}
    <3>1. \A l \in Loops : loop'[l] = "off"
      BY <1>1, <1>4, <2>1, ServiceSteps DEF Drains, TypeOK, LoopStates, Closings
    <3>. QED
      BY <1>1, <1>3, <1>4, <2>1, <3>1, CallsRest DEF Drains
  <2>2. CASE stop \notin {"client", "closing", "persistence", "done"}
    <3>1. StopGathers
      BY <1>1, <1>9, <2>2, HostSteps DEF Drains, Start, StartRefused, Close,
         CloseTimesOut, CloseReturns, Reap, ThreadEnds, StopBegins, CancelTasks,
         StopResumes, StopCloses, StopClosed, StopReturns, StopCancelled, hostVars
    <3>. QED
      BY <1>1, <3>1 DEF StopGathers, Drains, TypeOK, opVars, Busy
  <2>. QED
    BY <2>1, <2>2
<1>10. ASSUME stop' \in {"closing", "persistence", "done"}
       PROVE  ~client'
  <2>1. CASE stop \in {"closing", "persistence", "done"}
    BY <1>1, <1>4, <2>1, ServiceSteps DEF Drains, TypeOK, LoopStates
  <2>2. CASE stop \notin {"closing", "persistence", "done"}
    <3>1. StopCloses \/ (StopClosed /\ ~client)
      BY <1>1, <1>10, <2>2, HostSteps DEF Drains, Start, StartRefused, Close,
         CloseTimesOut, CloseReturns, Reap, ThreadEnds, StopBegins, CancelTasks,
         StopResumes, StopGathers, StopClosed, StopReturns, StopCancelled, hostVars
    <3>. QED
      BY <3>1 DEF StopCloses, StopClosed
  <2>. QED
    BY <2>1, <2>2
<1>11. ASSUME stop' \in {"persistence", "done"}
       PROVE  phase' = "STOPPED"
  <2>1. CASE stop \in {"persistence", "done"}
    <3>1. /\ phase = "STOPPED" /\ loop["manager"] = "off"
          /\ \A c \in Calls : work[c] \in {"none", "over"} /\ pc[c] \in {"idle", "done"}
      BY <1>1, <1>3, <2>1 DEF Drains, Loops
    <3>. QED
      BY <1>4, <2>1, <3>1, ServiceSteps DEF TypeOK, LoopStates, Busy
  <2>2. CASE stop \notin {"persistence", "done"}
    <3>1. StopClosed
      BY <1>1, <1>11, <2>2, HostSteps DEF Drains, Start, StartRefused, Close,
         CloseTimesOut, CloseReturns, Reap, ThreadEnds, StopBegins, CancelTasks,
         StopResumes, StopGathers, StopCloses, StopReturns, StopCancelled, hostVars
    <3>. QED
      BY <3>1 DEF StopClosed
  <2>. QED
    BY <2>1, <2>2
<1>. QED
  BY <1>2, <1>5, <1>6, <1>7, <1>8, <1>9, <1>10, <1>11 DEF Drains

\* What was left when the loop stopped is ended.
LEMMA ThreadKept ==
  ASSUME TypeOK, Stopping, Reaped, ThreadLeavesNothing, [Next]_vars, \A c \in Calls : Moves(c)
  PROVE  ThreadLeavesNothing'
<1>1. ASSUME host' = "gone", host = "gone"
      PROVE  /\ \A l \in Loops : loop'[l] = "off"
             /\ \A c \in Calls : work'[c] \in {"none", "over"} /\ pc'[c] \in {"idle", "done"}
             /\ history' = "off" /\ scan' = "off"
  <2>1. ~desired
    BY <1>1 DEF Stopping
  <2>. QED
    BY <1>1, <2>1, ServiceSteps, CallsRest DEF ThreadLeavesNothing, TypeOK, LoopStates
<1>2. ASSUME host' = "gone", host # "gone"
      PROVE  ThreadEnds
  BY <1>2, HostSteps DEF Start, StartRefused, Close, CloseTimesOut, CloseReturns, Reap,
     StopBegins, StopResumes, StopGathers, StopCloses, StopClosed, StopReturns,
     StopCancelled, hostVars
<1>3. ASSUME ThreadEnds
      PROVE  /\ \A l \in Loops : loop'[l] = "off"
             /\ \A c \in Calls : work'[c] \in {"none", "over"} /\ pc'[c] \in {"idle", "done"}
             /\ history' = "off" /\ scan' = "off"
  BY <1>3 DEF ThreadEnds, Reaped, TypeOK, opVars, Busy
<1>. QED
  BY <1>1, <1>2, <1>3 DEF ThreadLeavesNothing

-----------------------------------------------------------------------------
\* Nothing has run.
LEMMA Initially ==
  ASSUME CallsAssumption, Init
  PROVE  IInv
<1>1. TypeOK
  <2>1. /\ started = FALSE /\ desired = FALSE /\ client = FALSE /\ window \in BOOLEAN
        /\ faults = MaxFaults
    BY DEF Init
  <2>2. /\ phase = "STOPPED" /\ loop = [l \in Loops |-> "off"] /\ history = "off"
        /\ scan = "off" /\ stop = "idle" /\ host = "off" /\ old = {} /\ pending = NoCall
        /\ pc = [c \in Calls |-> "idle"] /\ op = [c \in Calls |-> "none"]
        /\ work = [c \in Calls |-> "none"]
    BY DEF Init
  <2>3. started \in BOOLEAN /\ desired \in BOOLEAN /\ client \in BOOLEAN /\ window \in BOOLEAN
    BY <2>1
  <2>4. faults \in 0 .. MaxFaults
    BY <2>1, CallsAssumption
  <2>5. /\ loop \in [Loops -> LoopStates]
        /\ pc \in [Calls -> Pcs] /\ op \in [Calls -> Outcomes] /\ work \in [Calls -> Tasks]
    BY <2>2 DEF LoopStates, Pcs, Outcomes, Tasks
  <2>. QED
    BY <2>2, <2>3, <2>4, <2>5 DEF TypeOK, LoopStates, Pcs, Outcomes, Tasks
<1>2. Fresh /\ WorkFollows /\ Awaited
  BY DEF Init, Fresh, WorkFollows, Awaited, Busy
<1>3. Stopping /\ Reaped /\ ThreadLeavesNothing
  BY DEF Init, Stopping, Reaped, ThreadLeavesNothing
<1>4. Drains
  BY DEF Init, Drains, Active, Closings
<1>. QED
  BY <1>1, <1>2, <1>3, <1>4 DEF IInv

\* No step leaves the invariant.
LEMMA Inductive ==
  ASSUME CallsAssumption, IInv, [Next]_vars
  PROVE  IInv'
<1>1. CallsTyped' /\ \A c \in Calls : Moves(c)
  BY CallSteps DEF IInv, TypeOK, CallsTyped, Outcomes, Pcs, Tasks
<1>2. TypeOK' /\ Fresh' /\ WorkFollows' /\ Awaited'
  BY <1>1, TypesKept, FreshKept, WorkFollowsKept, AwaitedKept DEF IInv
<1>3. Stopping' /\ Reaped' /\ Drains' /\ ThreadLeavesNothing'
  BY <1>1, StoppingKept, ReapedKept, DrainsKept, ThreadKept DEF IInv
<1>. QED
  BY <1>2, <1>3 DEF IInv

\* Every behaviour keeps it.
LEMMA Invariance == Spec => []IInv
<1>1. Init => IInv
  BY Initially, CallsAssumption
<1>2. IInv /\ [Next]_vars => IInv'
  BY Inductive, CallsAssumption
<1>. QED
  BY <1>1, <1>2, PTL DEF Spec

\* However the program ends nothing of the service outlives its host, and no
\* caller waits for an operation the service has pruned (stop(), the hosts,
\* wait_for_operation and _prune_operations).
THEOREM NothingIsLeft == Spec => []NothingRemains
<1>1. IInv => StoppedHoldsNothing
  <2>. SUFFICES ASSUME IInv, ~window, stop = "done" PROVE StoppedHoldsNothing
    BY DEF StoppedHoldsNothing
  <2>1. pending = NoCall /\ NoCall \notin Calls
    BY CallsAssumption DEF IInv, Stopping
  <2>2. \A c \in Calls : op[c] \notin Active
    BY <2>1 DEF IInv, Drains
  <2>. QED
    BY <2>2 DEF IInv, Drains, StoppedHoldsNothing, ActiveOperations
<1>2. IInv => TrackedWhileAwaited
  BY DEF IInv, Awaited, TrackedWhileAwaited
<1>3. IInv => NothingRemains
  BY <1>1, <1>2 DEF IInv, NothingRemains
<1>. QED
  BY <1>3, Invariance, PTL

\* No step changes an operation that has ended.
LEMMA EndedKept ==
  ASSUME IInv, [Next]_vars
  PROVE  [\A c \in Calls : op[c] \in Terminal => op'[c] \in {op[c], "pruned"}]_vars
<1>. SUFFICES ASSUME NEW c \in Calls, op[c] \in Terminal
              PROVE  op'[c] \in {op[c], "pruned"}
  OBVIOUS
<1>1. Moves(c)
  BY CallSteps, CallsAssumption DEF IInv, TypeOK, CallsTyped, Outcomes, Pcs, Tasks
<1>2. /\ pc[c] \in {"idle", "connect", "forget", "history"} => op[c] = "none"
      /\ work[c] = "new" => op[c] = "QUEUED"
      /\ work[c] \in Busy \cup {"cancelled"} => op[c] = "RUNNING"
      /\ pending = c => op[c] = "RUNNING"
  BY CallsAssumption DEF IInv, Fresh, WorkFollows, TypeOK
<1>. QED
  BY <1>1, <1>2 DEF Moves, Rests, Forgotten, Pruned, Called, Replied, Connects,
     Launches, PendingEnds, Works, NeverStarted, Closes, TaskCancelled, Busy, Idles,
     Active, Terminal

\* An operation that has ended never changes again until it is pruned, though
\* the manager, a newer connect, stop() and its own task may each end it.
THEOREM EndedStaysEnded == Spec => TerminalIsFinal
<1>1. IInv /\ [Next]_vars =>
        [\A c \in Calls : op[c] \in Terminal => op'[c] \in {op[c], "pruned"}]_vars
  BY EndedKept
<1>. QED
  BY <1>1, Invariance, PTL DEF Spec, TerminalIsFinal

-----------------------------------------------------------------------------
(* Discovery: the scans, in any scene. *)

Callers(p) == Scenes[p].callers
Devices(p) == Scenes[p].devices
Ids(p) == Finding(p)!Ids
Generations(p) == Finding(p)!Generations
ScanTasks(p) ==
  [id : Ids(p), state : {"running", "done", "failed"}, found : SUBSET Devices(p)]

\* Discovery's cardinality and finiteness are those of the theorems.
LEMMA SameCardinality ==
  \A p : \A S : /\ Finding(p)!Cardinality(S) = Cardinality(S)
                /\ Finding(p)!IsFiniteSet(S) <=> IsFiniteSet(S)
BY DEF Finding!Cardinality, Finding!IsFiniteSet, Cardinality, IsFiniteSet

\* What the assumption says of a scene.
LEMMA SceneFacts ==
  ASSUME NEW p \in DOMAIN Scenes
  PROVE  /\ p # "lifecycle" /\ IsFiniteSet(Callers(p)) /\ Cardinality(Callers(p)) \in Nat
         /\ None \notin Nat /\ None \notin Devices(p)
         /\ Scenes[p].enrolled \subseteq Devices(p) /\ Scenes[p].auto \in BOOLEAN
         /\ Scenes[p].intents \in Nat /\ Scenes[p].events \in Nat
         /\ Ids(p) = 1..(Cardinality(Callers(p)) + 2)
         /\ Generations(p) = 0..(Scenes[p].intents + 1)
<1>1. Finding(p)!DiscoveryAssumption /\ p # "lifecycle"
  BY ScenesAssumption
<1>2. IsFiniteSet(Callers(p)) /\ Ids(p) = 1..(Cardinality(Callers(p)) + 2)
  BY <1>1, SameCardinality DEF Finding!DiscoveryAssumption, Finding!Ids, Ids, Callers
<1>3. Cardinality(Callers(p)) \in Nat
  BY <1>2, FS_CardinalityType
<1>. QED
  BY <1>1, <1>2, <1>3 DEF Finding!DiscoveryAssumption, Finding!Generations, Generations, Devices

\* Among as many numbers as there are callers, and two more, one is free when
\* somebody waits for nothing.
LEMMA Spare ==
  ASSUME NEW C, IsFiniteSet(C), NEW f, DOMAIN f = C, NEW x, NEW y,
         x \notin Nat \/ \E c \in C : f[c] \notin Nat
  PROVE  \E i \in 1..(Cardinality(C) + 2) : i # x /\ i # y /\ \A c \in C : i # f[c]
<1> DEFINE R == {f[c] : c \in C}
           T == (R \cup {x}) \cup {y}
           n == Cardinality(C) + 2
<1>1. IsFiniteSet(R) /\ Cardinality(R) <= Cardinality(C) /\ Cardinality(R) \in Nat
      /\ Cardinality(C) \in Nat
  <2>1. [c \in C |-> f[c]] \in Surjection(C, R)
    BY DEF Surjection
  <2>2. IsFiniteSet(R) /\ Cardinality(R) <= Cardinality(C)
    BY <2>1, FS_Surjection
  <2>. QED
    BY <2>2, FS_CardinalityType
<1>2. /\ IsFiniteSet(R \cup {x}) /\ Cardinality(R \cup {x}) <= Cardinality(C) + 1
      /\ Cardinality(R \cup {x}) \in Nat
  <2>. HIDE DEF R
  <2>1. /\ IsFiniteSet(R \cup {x})
        /\ Cardinality(R \cup {x}) = IF x \in R THEN Cardinality(R) ELSE Cardinality(R) + 1
    BY <1>1, FS_AddElement
  <2>. QED
    BY <1>1, <2>1
<1>3. IsFiniteSet(T) /\ Cardinality(T) <= n /\ Cardinality(T) \in Nat
  <2> DEFINE Q == R \cup {x}
  <2>. HIDE DEF R, Q
  <2>1. /\ IsFiniteSet(Q \cup {y})
        /\ Cardinality(Q \cup {y}) = IF y \in Q THEN Cardinality(Q) ELSE Cardinality(Q) + 1
    BY <1>2, FS_AddElement DEF Q
  <2>2. Cardinality(Q) <= Cardinality(C) + 1 /\ Cardinality(Q) \in Nat
    BY <1>2 DEF Q
  <2>3. Cardinality(Q \cup {y}) <= n /\ Cardinality(Q \cup {y}) \in Nat
    BY <1>1, <2>1, <2>2
  <2>. QED
    BY <2>1, <2>3 DEF Q
<1>4. PICK z \in T : z \notin Nat
  OBVIOUS
<1>5. IsFiniteSet(T \ {z}) /\ Cardinality(T \ {z}) < n /\ Cardinality(T \ {z}) \in Nat
  <2>. HIDE DEF T
  <2>1. /\ IsFiniteSet(T \ {z})
        /\ Cardinality(T \ {z}) = IF z \in T THEN Cardinality(T) - 1 ELSE Cardinality(T)
    BY <1>3, FS_RemoveElement
  <2>2. Cardinality(T \ {z}) \in Nat
    BY <2>1, FS_CardinalityType
  <2>. QED
    BY <1>1, <1>3, <1>4, <2>1, <2>2
<1>6. IsFiniteSet(1..n) /\ Cardinality(1..n) = n
  <2>1. 1 \in Int /\ n \in Int /\ n > 1
    BY <1>1
  <2>2. IsFiniteSet(1..n) /\ Cardinality(1..n) = IF 1 > n THEN 0 ELSE n - 1 + 1
    BY <2>1, FS_Interval
  <2>. QED
    BY <2>1, <2>2
<1>7. ~ (1..n \subseteq T \ {z})
  <2>. HIDE DEF T
  <2>1. 1..n \subseteq T \ {z} => Cardinality(1..n) <= Cardinality(T \ {z})
    BY <1>5, FS_Subset
  <2>. QED
    BY <1>1, <1>5, <1>6, <2>1
<1>8. PICK i \in 1..n : i \notin T \ {z}
  BY <1>7
<1>9. i # z
  BY <1>4, <1>8
<1>. QED
  BY <1>8, <1>9

Managers(p) ==
  [pc : {"loop", "asleep", "resting", "observe", "search", "attempt", "verified"},
   scan : {None} \cup Ids(p), generation : Generations(p),
   device : {None} \cup Devices(p), seen : BOOLEAN]

\* Who waits for which scan: the manager in two of its places.
Watching(p) ==
  /\ caller \in [Callers(p) -> [scan : {None} \cup Ids(p), generation : Generations(p)]]
  /\ manager \in Managers(p)
  /\ manager.scan # None <=> manager.pc \in {"observe", "search"}
Watched(p) == {caller[c].scan : c \in Callers(p)} \cup {manager.scan}

\* The scans that are kept: each number once, the running one to be joined, each
\* waited for or to be joined, and whoever waits waits for one of them.
Numbers(all) == {s.id : s \in all}
ScansKept(p, all, join, waited) ==
  /\ all \subseteq ScanTasks(p)
  /\ \A s, t \in all : s.id = t.id => s = t
  /\ \A s \in all : s.state = "running" => join = s.id
  /\ join \in {None} \cup Numbers(all)
  /\ waited \subseteq {None} \cup Numbers(all)
  /\ Numbers(all) \subseteq waited \cup {join}

\* The decisions: each generation after the first is a call's or the choice of a device.
Events(p) ==
  [kind : {"START", "INTENT_CHANGED", "DISCOVERY_RESULT"}, generation : Generations(p),
   found : SUBSET Devices(p)]
Services(p) ==
  [phase : Finding(p)!Phases, desired : BOOLEAN, target : Devices(p) \cup {None}, key : BOOLEAN,
   generation : Generations(p), pending : {None} \cup SUBSET Devices(p),
   operation : Devices(p) \cup {None}, booted : BOOLEAN]
Decided(p) ==
  /\ service \in Services(p) /\ intents \in 0..Scenes[p].intents /\ events \in Seq(Events(p))
  /\ service.generation <= intents + (IF service.target = None THEN 0 ELSE 1)
  /\ service.operation # None => service.desired

\* An attempt is for the target of its generation, until the generation passes.
Follows(p) ==
  /\ manager.pc = "search" => service.target # None
  /\ manager.pc \in {"attempt", "verified"} =>
       /\ manager.device \in Devices(p) /\ manager.generation <= service.generation
       /\ manager.generation = service.generation => service.target = manager.device

FindingInv(p) ==
  Watching(p) /\ ScansKept(p, scans, shared, Watched(p)) /\ Decided(p) /\ Follows(p)

\* A scan that is referred to by its number is that scan.
LEMMA ScanIs ==
  ASSUME NEW p \in DOMAIN Scenes, FindingInv(p), NEW i \in Numbers(scans)
  PROVE  /\ Finding(p)!Scan(i) \in scans /\ Finding(p)!Scan(i).id = i
         /\ \A s \in scans : s.id = i => s = Finding(p)!Scan(i)
<1>1. \E s \in scans : s.id = i
  BY DEF Numbers
<1>. QED
  BY <1>1 DEF Finding!Scan, FindingInv, ScansKept

\* Who waits for nothing and asks for a scan joins the one that runs or a new one.
LEMMA JoinKeeps ==
  ASSUME NEW p \in DOMAIN Scenes, FindingInv(p), Finding(p)!Join,
         None \in Watched(p)
  PROVE  /\ ScansKept(p, scans', shared', Watched(p) \cup {Finding(p)!Joined})
         /\ Finding(p)!Joined \in Ids(p)
<1>1. /\ scans \subseteq ScanTasks(p) /\ Numbers(scans) \subseteq Ids(p) /\ None \notin Ids(p)
      /\ \A s \in scans : s.state \in {"running", "done", "failed"} /\ s.id \in Numbers(scans)
  BY SceneFacts DEF FindingInv, ScansKept, ScanTasks, Numbers
<1>2. CASE Finding(p)!Joins
  <2>1. shared \in Numbers(scans)
    BY <1>2 DEF FindingInv, ScansKept, Finding!Joins
  <2>2. scans' = scans /\ shared' = shared /\ Finding(p)!Joined = shared
    BY <1>2 DEF Finding!Join, Finding!Joined
  <2>. QED
    BY <1>1, <2>1, <2>2 DEF FindingInv, ScansKept
<1>3. CASE ~ Finding(p)!Joins
  <2>1. \A s \in scans : s.state # "running"
    <3>1. SUFFICES ASSUME NEW s \in scans, s.state = "running" PROVE FALSE
      OBVIOUS
    <3>2. shared = s.id /\ shared \in Numbers(scans)
      BY <3>1, <1>1 DEF FindingInv, ScansKept
    <3>3. s = Finding(p)!Scan(shared)
      BY <3>2, ScanIs
    <3>. QED
      BY <1>1, <1>3, <3>1, <3>2, <3>3 DEF Finding!Joins, Finding!Ended
  <2>2. \E i \in Ids(p) : \A s \in scans : s.id # i
    <3> DEFINE f == [c \in Callers(p) |-> caller[c].scan]
    <3>1. manager.scan \notin Nat \/ \E c \in Callers(p) : f[c] \notin Nat
      BY SceneFacts DEF Watched
    <3>2. DOMAIN f = Callers(p) /\ IsFiniteSet(Callers(p))
      BY SceneFacts
    <3>3. \E i \in 1..(Cardinality(Callers(p)) + 2) :
            i # manager.scan /\ i # shared /\ \A c \in Callers(p) : i # f[c]
      <4>1. PICK g, C, m : g = f /\ C = Callers(p) /\ m = manager.scan
        OBVIOUS
      <4>2. DOMAIN g = C /\ IsFiniteSet(C) /\ (m \notin Nat \/ \E c \in C : g[c] \notin Nat)
        BY <3>1, <3>2, <4>1
      <4>3. PICK i \in 1..(Cardinality(C) + 2) : i # m /\ i # shared /\ \A c \in C : i # g[c]
        BY <4>2, Spare
      <4>. QED
        BY <4>1, <4>3
    <3>4. PICK i \in Ids(p) : i # shared /\ i \notin Watched(p)
      BY <3>3, SceneFacts DEF Watched
    <3>. QED
      BY <3>4, <1>1 DEF FindingInv, ScansKept, Numbers
  <2>3. Finding(p)!Free \in Ids(p) /\ \A s \in scans : s.id # Finding(p)!Free
    BY <2>2 DEF Finding!Free, Ids
  <2>4. PICK new : new = Finding(p)!Free
    OBVIOUS
  <2> DEFINE record == [id |-> new, state |-> "running", found |-> {}]
  <2>5. PICK task : /\ task \in ScanTasks(p) /\ task.id = new /\ task = record
    BY <2>3, <2>4 DEF ScanTasks
  <2>6. /\ shared' = new /\ Finding(p)!Joined = new
        /\ scans' = {s \in scans : s.id \in Watched(p)} \cup {task}
    BY <1>3, <2>1, <2>4, <2>5
       DEF Finding!Join, Finding!Joined, Finding!Waited, Watched, Callers
  <2>7. \A w \in Watched(p) : w # None => \E s \in scans' : s.id = w
    BY <2>6 DEF FindingInv, ScansKept, Numbers
  <2>8. scans' \subseteq ScanTasks(p)
    BY <1>1, <2>5, <2>6
  <2>9. \E s \in scans' : s.id = new
    BY <2>5, <2>6
  <2>10. \A s, t \in scans' : s.id = t.id => s = t
    BY <2>3, <2>4, <2>5, <2>6 DEF FindingInv, ScansKept
  <2>11. \A s \in scans' : s.state = "running" => shared' = s.id
    BY <2>1, <2>5, <2>6
  <2>12. \A s \in scans' : s.id \in Watched(p) \cup {new}
    BY <2>5, <2>6
  <2>. QED
    BY <2>3, <2>4, <2>6, <2>7, <2>8, <2>9, <2>10, <2>11, <2>12 DEF ScansKept, Numbers
<1>. QED
  BY <1>2, <1>3

\* Who stops waiting leaves the scan to the others.
LEMMA LeaveKeeps ==
  ASSUME NEW p \in DOMAIN Scenes, FindingInv(p), NEW i \in Watched(p), i # None,
         NEW others, others \subseteq Watched(p), Watched(p) \subseteq others \cup {i},
         shared' = Finding(p)!Leave(i), scans' = Finding(p)!Referred(scans, others)
  PROVE  ScansKept(p, scans', shared', others)
<1>1. i \in Numbers(scans)
  BY DEF FindingInv, ScansKept
<1>2. /\ Finding(p)!Scan(i) \in scans /\ Finding(p)!Scan(i).id = i
      /\ \A s \in scans : s.id = i => s = Finding(p)!Scan(i)
  BY <1>1, ScanIs
<1>3. /\ shared' = IF shared = i /\ Finding(p)!Scan(i).state # "running" THEN None ELSE shared
      /\ scans' = {s \in scans : s.state = "running" \/ s.id \in others \/ s.id = shared'}
  BY DEF Finding!Leave, Finding!Ended, Finding!Referred
<1>4. \A s \in scans : s.state = "running" => shared' = s.id
  BY <1>2, <1>3 DEF FindingInv, ScansKept
<1>5. shared' \in {None} \cup Numbers(scans')
  BY <1>3 DEF FindingInv, ScansKept, Numbers
<1>6. others \subseteq {None} \cup Numbers(scans')
  BY <1>3 DEF FindingInv, ScansKept, Numbers
<1>. QED
  BY <1>3, <1>4, <1>5, <1>6 DEF FindingInv, ScansKept, Numbers

\* What the manager or a caller makes of the service, no call being counted.
Turned(p) ==
  /\ service' \in Services(p)
  /\ service'.generation <= intents + (IF service'.target = None THEN 0 ELSE 1)
  /\ service'.operation # None => service'.desired

\* The states of the service by name.
LEMMA PhaseFacts ==
  \A p : {"PAIRING", "CONNECTED", "RECONNECTING", "DISCOVERING", "DISCONNECTED",
          "SELECTION_REQUIRED", "AUTHENTICATION_REQUIRED", "REJECTED"} = Finding(p)!Phases
BY DEF Finding!Phases, Finding!Active

\* The service goes to another state.
LEMMA PhaseTurns ==
  ASSUME NEW p \in DOMAIN Scenes, Decided(p), NEW phase_ \in Finding(p)!Phases,
         service' = Finding(p)!Phase(phase_)
  PROVE  Turned(p)
<1>1. service' = [service EXCEPT !.phase = phase_] /\ service \in Services(p)
  BY DEF Finding!Phase, Decided
<1>2. /\ service' \in Services(p) /\ service'.generation = service.generation
      /\ service'.target = service.target /\ service'.operation = service.operation
      /\ service'.desired = service.desired
  BY <1>1 DEF Services
<1>. QED
  BY <1>2 DEF Turned, Decided

\* The manager decides on what a scan found while there is no target.
LEMMA DecideTurns ==
  ASSUME NEW p \in DOMAIN Scenes, Decided(p), service.target = None,
         NEW found \in SUBSET Devices(p), Finding(p)!Decide(found)
  PROVE  Turned(p)
<1>0. /\ service \in Services(p) /\ service.generation <= intents /\ None \notin Devices(p)
      /\ intents \in 0..Scenes[p].intents /\ Scenes[p].intents \in Nat
      /\ service.generation \in Nat
      /\ Generations(p) = 0..(Scenes[p].intents + 1)
  BY SceneFacts DEF Decided, Services
<1>1. CASE \E d \in found, ph \in Finding(p)!Phases, k \in BOOLEAN :
             service' = [service EXCEPT !.target = d, !.generation = @ + 1, !.pending = None,
                                        !.key = k, !.phase = ph]
  <2>1. PICK d \in found, ph \in Finding(p)!Phases, k \in BOOLEAN :
             service' = [service EXCEPT !.target = d, !.generation = @ + 1, !.pending = None,
                                        !.key = k, !.phase = ph]
    BY <1>1
  <2>2. d \in Devices(p) /\ d # None /\ service.generation + 1 \in Generations(p)
    BY <1>0
  <2>3. /\ service' \in Services(p) /\ service'.generation = service.generation + 1
        /\ service'.target = d /\ service'.operation = service.operation
        /\ service'.desired = service.desired
    BY <1>0, <2>1, <2>2 DEF Services
  <2>. QED
    BY <1>0, <2>2, <2>3 DEF Turned, Decided
<1>2. CASE \E ph \in Finding(p)!Phases :
             \/ service' = [service EXCEPT !.phase = ph, !.target = None, !.pending = None]
             \/ service' = [service EXCEPT !.phase = ph, !.pending = None]
  <2>1. /\ service' \in Services(p) /\ service'.generation = service.generation
        /\ service'.target = None /\ service'.operation = service.operation
        /\ service'.desired = service.desired
    BY <1>0, <1>2 DEF Services
  <2>. QED
    BY <1>0, <2>1 DEF Turned, Decided
<1>3. CASE Finding(p)!Cardinality(found) = 1
           /\ LET d == CHOOSE x \in found : TRUE
              IN service' = [service EXCEPT !.target = d, !.generation = @ + 1,
                               !.pending = None, !.key = d \in Scenes[p].enrolled,
                               !.phase = IF d \in Scenes[p].enrolled THEN "PAIRING"
                                         ELSE "AUTHENTICATION_REQUIRED"]
  <2>1. found # {}
    <3>1. Cardinality({}) = 0 /\ Cardinality(found) = 1
      BY <1>3, SameCardinality, FS_EmptySet
    <3>. QED
      BY <3>1
  <2>2. PICK d \in found : d = CHOOSE x \in found : TRUE
    <3>1. \E x \in found : TRUE
      BY <2>1
    <3>2. (CHOOSE x \in found : TRUE) \in found
      BY <3>1
    <3>. QED
      BY <3>2
  <2>3. PICK k \in BOOLEAN : k <=> d \in Scenes[p].enrolled
    <3>1. CASE d \in Scenes[p].enrolled
      BY <3>1
    <3>2. CASE d \notin Scenes[p].enrolled
      BY <3>2
    <3>. QED
      BY <3>1, <3>2
  <2>4. PICK ph \in Finding(p)!Phases :
          ph = IF d \in Scenes[p].enrolled THEN "PAIRING" ELSE "AUTHENTICATION_REQUIRED"
    BY PhaseFacts
  <2>5. service' = [service EXCEPT !.target = d, !.generation = @ + 1, !.pending = None,
                                   !.key = k, !.phase = ph]
    BY <1>3, <2>2, <2>3, <2>4
  <2>. QED
    BY <1>1, <2>5
<1>4. CASE service' = [Finding(p)!Phase("SELECTION_REQUIRED") EXCEPT !.target = None,
                                                                     !.pending = None]
  <2>1. service' = [service EXCEPT !.phase = "SELECTION_REQUIRED", !.target = None,
                                   !.pending = None]
    BY <1>4 DEF Finding!Phase
  <2>. QED
    BY <1>2, <2>1, PhaseFacts
<1>5. CASE service' = [Finding(p)!Phase("DISCOVERING") EXCEPT !.pending = None]
  <2>1. service' = [service EXCEPT !.phase = "DISCOVERING", !.pending = None]
    BY <1>5 DEF Finding!Phase
  <2>. QED
    BY <1>2, <2>1, PhaseFacts
<1>. QED
  BY <1>3, <1>4, <1>5 DEF Finding!Decide

\* The manager's exception handler.
LEMMA FailsTurns ==
  ASSUME NEW p \in DOMAIN Scenes, Decided(p), Finding(p)!Fails
  PROVE  Turned(p)
<1>1. CASE service' = Finding(p)!Phase("DISCONNECTED")
  BY <1>1, PhaseTurns, PhaseFacts
<1>2. CASE \E ph \in Finding(p)!Phases :
             service' = [service EXCEPT !.operation = None, !.phase = ph]
  <2>1. /\ service' \in Services(p) /\ service'.generation = service.generation
        /\ service'.target = service.target /\ service'.operation = None
    BY <1>2 DEF Services, Decided
  <2>. QED
    BY <2>1 DEF Turned, Decided
<1>3. CASE service' = [service EXCEPT !.operation = None,
             !.phase = IF service.target = None THEN "DISCOVERING" ELSE "RECONNECTING"]
  <2>1. PICK ph \in Finding(p)!Phases :
          ph = IF service.target = None THEN "DISCOVERING" ELSE "RECONNECTING"
    BY PhaseFacts
  <2>. QED
    BY <1>2, <1>3, <2>1
<1>. QED
  BY <1>1, <1>3 DEF Finding!Fails

\* Every step leaves the decisions in order.
LEMMA DecidedKept ==
  ASSUME NEW p \in DOMAIN Scenes, FindingInv(p), Finding(p)!Next
  PROVE  Decided(p)'
<1>0. /\ Decided(p) /\ service \in Services(p) /\ events \in Seq(Events(p))
      /\ service.generation \in Generations(p) /\ service.generation \in Nat
      /\ intents \in 0..Scenes[p].intents /\ Scenes[p].intents \in Nat
      /\ Generations(p) = 0..(Scenes[p].intents + 1) /\ None \notin Devices(p)
  BY SceneFacts DEF FindingInv, Decided, Services
<1>. USE DEF Finding!Kept
<1>1. ASSUME Turned(p), intents' = intents, events' \in Seq(Events(p)) PROVE Decided(p)'
  BY <1>0, <1>1 DEF Turned, Decided
<1>2. ASSUME UNCHANGED <<service, events, intents>> PROVE Decided(p)'
  BY <1>0, <1>2 DEF Decided
<1>3. ASSUME NEW e \in Events(p), events' = Append(events, e) PROVE events' \in Seq(Events(p))
  <2>. HIDE DEF Events
  <2>. QED
    BY <1>0, <1>3, AppendProperties
<1>4. \A g \in Generations(p), f \in SUBSET Devices(p) :
        \A k \in {"INTENT_CHANGED", "DISCOVERY_RESULT"} :
          [kind |-> k, generation |-> g, found |-> f] \in Events(p)
  BY DEF Events
<1>5. ASSUME NEW d \in Devices(p), NEW passkey \in BOOLEAN, Finding(p)!ConnectCalled(d, passkey)
      PROVE  Decided(p)'
  <2>1. /\ intents' = intents + 1 /\ intents' \in 0..Scenes[p].intents
        /\ service.generation + 1 \in Generations(p) /\ d # None
        /\ service.generation + 1 <= intents' + 1
    BY <1>0, <1>5 DEF Finding!ConnectCalled, Decided
  <2>2. CASE /\ service' = [service EXCEPT !.phase = "PAIRING", !.desired = TRUE, !.target = d,
                                           !.key = TRUE, !.generation = @ + 1, !.operation = d]
             /\ Finding(p)!PostsIntent
    <3>1. PICK ph \in Finding(p)!Phases : ph = "PAIRING"
      BY PhaseFacts
    <3>2. service' = [service EXCEPT !.phase = ph, !.desired = TRUE, !.target = d,
                                     !.key = TRUE, !.generation = @ + 1, !.operation = d]
      BY <2>2, <3>1
    <3>3. /\ service' \in Services(p) /\ service'.generation = service.generation + 1
          /\ service'.target = d /\ service'.desired
      BY <1>0, <2>1, <3>2 DEF Services
    <3>4. events' \in Seq(Events(p))
      <4>1. PICK e \in Events(p) : events' = Append(events, e)
        BY <1>0, <1>4, <2>2 DEF Finding!PostsIntent, Finding!Post, Finding!INTENT
      <4>. QED
        BY <1>3, <4>1
    <3>. QED
      BY <2>1, <3>3, <3>4 DEF Decided
  <2>3. CASE /\ service' = [service EXCEPT !.phase = "AUTHENTICATION_REQUIRED", !.desired = TRUE,
                                           !.target = d, !.generation = @ + 1]
             /\ UNCHANGED events
    <3>1. PICK ph \in Finding(p)!Phases : ph = "AUTHENTICATION_REQUIRED"
      BY PhaseFacts
    <3>2. service' = [service EXCEPT !.phase = ph, !.desired = TRUE, !.target = d,
                                     !.generation = @ + 1]
      BY <2>3, <3>1
    <3>3. /\ service' \in Services(p) /\ service'.generation = service.generation + 1
          /\ service'.target = d /\ service'.desired
      BY <1>0, <2>1, <3>2 DEF Services
    <3>. QED
      BY <1>0, <2>1, <2>3, <3>3 DEF Decided
  <2>. QED
    BY <1>5, <2>2, <2>3 DEF Finding!ConnectCalled
<1>6. CASE Finding(p)!DisconnectCalled
  <2>1. /\ intents' = intents + 1 /\ intents' \in 0..Scenes[p].intents
        /\ service.generation + 1 \in Generations(p)
        /\ service.generation <= intents + (IF service.target = None THEN 0 ELSE 1)
    BY <1>0, <1>6 DEF Finding!DisconnectCalled, Decided
  <2>2. PICK ph \in Finding(p)!Phases : ph = "DISCONNECTED"
    BY PhaseFacts
  <2>3. service' = [service EXCEPT !.phase = ph, !.desired = FALSE, !.generation = @ + 1,
                                   !.operation = None]
    BY <1>6, <2>2 DEF Finding!DisconnectCalled, Finding!OperationCancelled
  <2>4. /\ service' \in Services(p) /\ service'.generation = service.generation + 1
        /\ service'.target = service.target /\ service'.operation = None
    BY <1>0, <2>1, <2>3 DEF Services
  <2>5. PICK e \in Events(p) : events' = Append(events, e)
    BY <1>0, <1>4, <1>6 DEF Finding!DisconnectCalled, Finding!PostsIntent, Finding!Post,
       Finding!INTENT
  <2>6. events' \in Seq(Events(p))
    BY <1>3, <2>5
  <2>7. service'.generation <= intents' + (IF service'.target = None THEN 0 ELSE 1)
    BY <1>0, <2>1, <2>4
  <2>. QED
    BY <2>1, <2>4, <2>6, <2>7 DEF Decided
<1>7. ASSUME NEW c \in Callers(p), Finding(p)!ScanReturns(c) PROVE Decided(p)'
  <2>1. CASE UNCHANGED <<service, events>>
    BY <1>2, <1>7, <2>1 DEF Finding!ScanReturns
  <2>2. CASE ~ UNCHANGED <<service, events>>
    <3>1. PICK i : i = caller[c].scan
      OBVIOUS
    <3>2. i \in Numbers(scans) /\ caller[c].generation \in Generations(p) /\ intents' = intents
      BY <1>7, <3>1 DEF Finding!ScanReturns, FindingInv, Watching, Watched, ScansKept
    <3>3. PICK found \in SUBSET Devices(p) : found = Finding(p)!Scan(i).found
      BY <3>2, ScanIs DEF FindingInv, ScansKept, ScanTasks
    <3>4. /\ service' = [service EXCEPT !.pending = found]
          /\ Finding(p)!Announced(found, caller[c].generation)
      BY <1>7, <2>2, <3>1, <3>3 DEF Finding!ScanReturns
    <3>5. /\ service' \in Services(p) /\ service'.generation = service.generation
          /\ service'.target = service.target /\ service'.operation = service.operation
          /\ service'.desired = service.desired
      BY <1>0, <3>4 DEF Services
    <3>6. Turned(p)
      BY <1>0, <3>5 DEF Turned, Decided
    <3>7. PICK e \in Events(p) : events' = Append(events, e)
      BY <1>4, <3>2, <3>4 DEF Finding!Announced, Finding!Post
    <3>. QED
      BY <1>1, <1>3, <3>2, <3>6, <3>7
  <2>. QED
    BY <2>1, <2>2
<1>8. CASE UNCHANGED <<events, intents>>
           /\ (UNCHANGED service \/ \E ph \in Finding(p)!Phases : service' = Finding(p)!Phase(ph))
  BY <1>0, <1>1, <1>2, <1>8, PhaseTurns
<1>9. CASE Finding(p)!LinkLost
  BY <1>8, <1>9, PhaseFacts DEF Finding!LinkLost
<1>10. CASE Finding(p)!Loop
  <2>1. UNCHANGED <<events, intents>>
    BY <1>10 DEF Finding!Loop, Finding!Observe, Finding!Search
  <2>2. CASE Finding(p)!Disabled \/ Finding(p)!Connected \/ Finding(p)!Keyed \/ Finding(p)!Search
    BY <1>8, <2>1, <2>2, PhaseFacts
       DEF Finding!Disabled, Finding!Connected, Finding!Keyed, Finding!Search
  <2>3. CASE Finding(p)!Unkeyed
    <3>1. CASE service' = [service EXCEPT !.key = TRUE]
      <4>1. /\ service' \in Services(p) /\ service'.generation = service.generation
            /\ service'.target = service.target /\ service'.operation = service.operation
            /\ service'.desired = service.desired
        BY <1>0, <3>1 DEF Services
      <4>2. Turned(p)
        BY <1>0, <4>1 DEF Turned, Decided
      <4>. QED
        BY <1>0, <1>1, <2>1, <4>2
    <3>2. CASE service' = Finding(p)!Phase("AUTHENTICATION_REQUIRED") \/ UNCHANGED service
      BY <1>8, <2>1, <3>2, PhaseFacts
    <3>. QED
      BY <2>3, <3>1, <3>2 DEF Finding!Unkeyed
  <2>4. CASE Finding(p)!Observe
    <3>1. CASE service' = Finding(p)!Phase("DISCOVERING")
      BY <1>8, <2>1, <3>1, PhaseFacts
    <3>2. CASE service.pending # None /\ Finding(p)!Decide(service.pending)
      <4>1. service.pending \in SUBSET Devices(p) /\ service.target = None
        BY <1>0, <2>4, <3>2 DEF Finding!Observe, Services
      <4>2. Turned(p)
        BY <1>0, <3>2, <4>1, DecideTurns
      <4>. QED
        BY <1>0, <1>1, <2>1, <4>2
    <3>. QED
      BY <2>4, <3>1, <3>2 DEF Finding!Observe
  <2>. QED
    BY <1>10, <2>2, <2>3, <2>4 DEF Finding!Loop
<1>11. CASE Finding(p)!Observed
  <2>1. UNCHANGED <<events, intents>>
    BY <1>11 DEF Finding!Observed, Finding!Left
  <2>2. CASE Finding(p)!Undisturbed
    <3>1. PICK i : i = manager.scan
      OBVIOUS
    <3>2. i \in Numbers(scans)
      BY <1>11, <3>1 DEF Finding!Observed, FindingInv, Watching, Watched, ScansKept
    <3>3. PICK found \in SUBSET Devices(p) : found = Finding(p)!Scan(i).found
      BY <3>2, ScanIs DEF FindingInv, ScansKept, ScanTasks
    <3>4. Finding(p)!Decide(found) /\ service.target = None
      BY <1>11, <2>2, <3>1, <3>3 DEF Finding!Observed, Finding!Undisturbed
    <3>5. Turned(p)
      BY <1>0, <3>4, DecideTurns
    <3>. QED
      BY <1>0, <1>1, <2>1, <3>5
  <2>3. CASE UNCHANGED service
    BY <1>2, <2>1, <2>3
  <2>. QED
    BY <1>11, <2>2, <2>3 DEF Finding!Observed
<1>12. CASE Finding(p)!ProbeFailed
  <2>1. Turned(p) /\ UNCHANGED <<events, intents>>
    BY <1>0, <1>12, FailsTurns DEF Finding!ProbeFailed, Finding!Left
  <2>. QED
    BY <1>0, <1>1, <2>1
<1>13. CASE Finding(p)!Searched
  BY <1>8, <1>13, PhaseFacts DEF Finding!Searched, Finding!Left
<1>19. ASSUME Finding(p)!Commits, manager.pc \in {"attempt", "verified"},
              UNCHANGED <<events, intents>>
       PROVE  Decided(p)'
  <2>1. PICK d \in Devices(p), ph \in Finding(p)!Phases :
          service' = [service EXCEPT !.phase = ph, !.target = d, !.operation = None,
                                     !.booted = TRUE]
    BY <1>19, PhaseFacts DEF Finding!Commits, FindingInv, Follows
  <2>2. /\ service' \in Services(p) /\ service'.generation = service.generation
        /\ service'.target = d /\ service'.operation = None
    BY <1>0, <2>1 DEF Services
  <2>3. Turned(p)
    BY <1>0, <2>2 DEF Turned, Decided
  <2>. QED
    BY <1>0, <1>1, <1>19, <2>3
<1>14. CASE Finding(p)!Attempted
  <2>1. UNCHANGED <<events, intents>> /\ manager.pc = "attempt"
    BY <1>14 DEF Finding!Attempted
  <2>2. CASE UNCHANGED service
    BY <1>2, <2>1, <2>2
  <2>3. CASE Finding(p)!Fails
    BY <1>0, <1>1, <2>1, <2>3, FailsTurns
  <2>4. CASE service' = [service EXCEPT !.phase = "REJECTED", !.key = FALSE,
                                        !.operation = None]
    <3>1. /\ service' \in Services(p) /\ service'.generation = service.generation
          /\ service'.target = service.target /\ service'.operation = None
      BY <1>0, <2>4, PhaseFacts DEF Services
    <3>2. Turned(p)
      BY <1>0, <3>1 DEF Turned, Decided
    <3>. QED
      BY <1>0, <1>1, <2>1, <3>2
  <2>5. CASE Finding(p)!Commits
    BY <1>19, <2>1, <2>5
  <2>. QED
    BY <1>14, <2>2, <2>3, <2>4, <2>5 DEF Finding!Attempted
<1>20. CASE Finding(p)!Committed
  BY <1>19, <1>20 DEF Finding!Committed
<1>15. CASE Finding(p)!Woken
  <2>1. /\ Head(events) \in Events(p) /\ events' \in Seq(Events(p)) /\ intents' = intents
    <3>. HIDE DEF Events
    <3>. QED
      BY <1>0, <1>15, HeadTailProperties DEF Finding!Woken
  <2>2. PICK found \in SUBSET Devices(p) : found = Head(events).found
    BY <2>1 DEF Events
  <2>3. UNCHANGED service \/ service' = [service EXCEPT !.pending = found]
    BY <1>15, <2>2 DEF Finding!Woken
  <2>4. /\ service' \in Services(p) /\ service'.generation = service.generation
        /\ service'.target = service.target /\ service'.operation = service.operation
        /\ service'.desired = service.desired
    BY <1>0, <2>3 DEF Services
  <2>5. Turned(p)
    BY <1>0, <2>4 DEF Turned, Decided
  <2>. QED
    BY <1>1, <2>1, <2>5
<1>16. CASE Finding(p)!Rested
  BY <1>2, <1>16 DEF Finding!Rested
<1>17. ASSUME NEW c \in Callers(p), Finding(p)!ScanCalled(c) \/ Finding(p)!ScanAbandoned(c)
       PROVE  Decided(p)'
  BY <1>2, <1>17 DEF Finding!ScanCalled, Finding!ScanAbandoned
<1>18. CASE Finding(p)!PerformScan
  BY <1>2, <1>18 DEF Finding!PerformScan
<1>. QED
  BY <1>5, <1>6, <1>7, <1>9, <1>10, <1>11, <1>12, <1>13, <1>14, <1>15, <1>16, <1>17, <1>18,
     <1>20
     DEF Finding!Next, Finding!ManagerStep, Callers, Devices

\* The manager goes where it waits for no scan.
Waits(p) ==
  manager' \in Managers(p) /\ manager'.scan = None /\ manager'.pc \notin {"observe", "search"}

\* The places the manager goes to, attempts included.
LEMMA GoesOn ==
  ASSUME NEW p \in DOMAIN Scenes, Decided(p)',
         \/ \E at \in {"loop", "asleep", "resting"} : Finding(p)!Goes(at)
         \/ \E k \in BOOLEAN : Finding(p)!Attempts(k)
  PROVE  Waits(p)
<1>1. /\ 0 \in Generations(p) /\ service'.generation \in Generations(p)
      /\ service'.target \in {None} \cup Devices(p)
  BY SceneFacts DEF Decided, Services
<1>2. CASE \E at \in {"loop", "asleep", "resting"} : Finding(p)!Goes(at)
  <2>1. PICK at \in {"loop", "asleep", "resting"} :
          manager' = [pc |-> at, scan |-> None, generation |-> 0, device |-> None,
                      seen |-> TRUE]
    BY <1>2 DEF Finding!Goes
  <2>. QED
    BY <1>1, <2>1 DEF Waits, Managers
<1>3. CASE \E k \in BOOLEAN : Finding(p)!Attempts(k)
  <2>1. PICK k \in BOOLEAN :
          manager' = [pc |-> "attempt", scan |-> None, seen |-> k,
                      generation |-> service'.generation, device |-> service'.target]
    BY <1>3 DEF Finding!Attempts
  <2>. QED
    BY <1>1, <2>1 DEF Waits, Managers
<1>. QED
  BY <1>2, <1>3

\* What is kept for those who wait does not depend on those who do not.
LEMMA SameWaited ==
  ASSUME NEW p \in DOMAIN Scenes, NEW all, NEW join, NEW w, NEW v, ScansKept(p, all, join, w),
         v \subseteq w \cup {None}, w \subseteq v \cup {None}
  PROVE  ScansKept(p, all, join, v)
<1>1. None \notin Numbers(all)
  BY SceneFacts DEF ScansKept, ScanTasks, Numbers
<1>. QED
  BY <1>1 DEF ScansKept

\* Every step leaves a scan that is waited for among those that are kept.
LEMMA WatchingKept ==
  ASSUME NEW p \in DOMAIN Scenes, FindingInv(p), Finding(p)!Next, Decided(p)'
  PROVE  Watching(p)' /\ ScansKept(p, scans', shared', Watched(p)')
<1> DEFINE Good == Watching(p)' /\ ScansKept(p, scans', shared', Watched(p)')
<1>. USE DEF Finding!Kept
<1>0. /\ caller \in [Callers(p) -> [scan : {None} \cup Ids(p), generation : Generations(p)]]
      /\ manager \in Managers(p) /\ (manager.scan # None <=> manager.pc \in {"observe", "search"})
      /\ ScansKept(p, scans, shared, Watched(p)) /\ Watching(p) /\ Decided(p)
      /\ 0 \in Generations(p) /\ service.generation \in Generations(p)
  BY SceneFacts DEF FindingInv, Watching, Managers, Decided, Services
\* The manager goes on, waiting for no scan before or after.
<1>1. ASSUME UNCHANGED <<scans, shared, caller>>, manager.scan = None, Waits(p) PROVE Good
  <2>1. Watching(p)'
    BY <1>0, <1>1 DEF Waits, Watching, Managers
  <2>2. Watched(p)' = Watched(p)
    BY <1>1 DEF Waits, Watched
  <2>. QED
    BY <1>0, <1>1, <2>1, <2>2
<1>2. ASSUME UNCHANGED <<scans, shared, caller, manager>> PROVE Good
  <2>1. Watching(p)' /\ Watched(p)' = Watched(p)
    BY <1>0, <1>2 DEF Watching, Watched
  <2>. QED
    BY <1>0, <1>2, <2>1
\* The manager leaves a scan.
<1>3. ASSUME Finding(p)!Left, manager.pc \in {"observe", "search"}, Waits(p) PROVE Good
  <2> DEFINE others == {caller[c].scan : c \in Callers(p)}
  <2>1. manager.scan \in Watched(p) /\ manager.scan # None
        /\ others \subseteq Watched(p) /\ Watched(p) \subseteq others \cup {manager.scan}
    BY <1>0, <1>3 DEF Watched
  <2>2. /\ shared' = Finding(p)!Leave(manager.scan)
        /\ scans' = Finding(p)!Referred(scans, others) /\ caller' = caller
    BY <1>3 DEF Finding!Left, Callers
  <2>3. PICK i, o : i = manager.scan /\ o = others
    OBVIOUS
  <2>4. ScansKept(p, scans', shared', o)
    <3>. HIDE DEF others
    <3>. QED
      BY <2>1, <2>2, <2>3, LeaveKeeps
  <2>5. Watched(p)' \subseteq o \cup {None} /\ o \subseteq Watched(p)' \cup {None}
    BY <1>3, <2>2, <2>3 DEF Waits, Watched
  <2>6. Watching(p)'
    BY <1>0, <1>3, <2>2 DEF Waits, Watching, Managers
  <2>. QED
    BY <2>4, <2>5, <2>6, SameWaited
\* The manager asks for a scan.
<1>4. ASSUME NEW at \in {"observe", "search"}, Finding(p)!Join, manager.pc = "loop",
             caller' = caller,
             manager' = [pc |-> at, scan |-> Finding(p)!Joined,
                         generation |-> service.generation, device |-> None,
                         seen |-> TRUE]
      PROVE  Good
  <2>1. None \in Watched(p)
    BY <1>0, <1>4 DEF Watched
  <2>2. PICK j : j = Finding(p)!Joined
    OBVIOUS
  <2>3. /\ ScansKept(p, scans', shared', Watched(p) \cup {j}) /\ j \in Ids(p)
        /\ None \notin Ids(p)
    <3>1. /\ ScansKept(p, scans', shared', Watched(p) \cup {Finding(p)!Joined})
          /\ Finding(p)!Joined \in Ids(p)
      BY <1>4, <2>1, JoinKeeps
    <3>2. None \notin Ids(p)
      BY SceneFacts
    <3>. QED
      BY <2>2, <3>1, <3>2
  <2>4. manager' \in Managers(p) /\ manager'.scan = j /\ manager'.pc = at
    BY <1>0, <1>4, <2>2, <2>3 DEF Managers
  <2>5. Watching(p)'
    BY <1>0, <1>4, <2>3, <2>4 DEF Watching, Managers
  <2>6. PICK w, v : w = Watched(p) \cup {j} /\ v = Watched(p)'
    OBVIOUS
  <2>7. v \subseteq w \cup {None} /\ w \subseteq v \cup {None}
    BY <1>0, <1>4, <2>4, <2>6 DEF Watched
  <2>. QED
    BY <2>3, <2>5, <2>6, <2>7, SameWaited
<1>5. ASSUME NEW c \in Callers(p), Finding(p)!ScanCalled(c) PROVE Good
  <2>1. None \in Watched(p) /\ Finding(p)!Join
    BY <1>5 DEF Watched, Finding!ScanCalled
  <2>2. PICK j : j = Finding(p)!Joined
    OBVIOUS
  <2>3. /\ ScansKept(p, scans', shared', Watched(p) \cup {j}) /\ j \in Ids(p)
        /\ None \notin Ids(p)
    <3>1. /\ ScansKept(p, scans', shared', Watched(p) \cup {Finding(p)!Joined})
          /\ Finding(p)!Joined \in Ids(p)
      BY <2>1, JoinKeeps
    <3>2. None \notin Ids(p)
      BY SceneFacts
    <3>. QED
      BY <2>2, <3>1, <3>2
  <2>4. /\ caller' = [caller EXCEPT ![c] = [scan |-> j, generation |-> service.generation]]
        /\ manager' = manager /\ caller[c].scan = None
    BY <1>5, <2>2 DEF Finding!ScanCalled
  <2>5. Watching(p)'
    BY <1>0, <2>3, <2>4 DEF Watching, Managers
  <2>6. PICK w, v : w = Watched(p) \cup {j} /\ v = Watched(p)'
    OBVIOUS
  <2>7. \A d \in Callers(p) : caller'[d].scan = IF d = c THEN j ELSE caller[d].scan
    BY <1>0, <2>4
  <2>8. v \subseteq w \cup {None}
    BY <2>4, <2>6, <2>7 DEF Watched
  <2>9. w \subseteq v \cup {None}
    BY <1>5, <2>4, <2>6, <2>7 DEF Watched
  <2>. QED
    BY <2>3, <2>5, <2>6, <2>8, <2>9, SameWaited
<1>6. ASSUME NEW c \in Callers(p), Finding(p)!ScanReturns(c) \/ Finding(p)!ScanAbandoned(c)
      PROVE  Good
  <2> DEFINE others == {caller[d].scan : d \in Callers(p) \ {c}} \cup {manager.scan}
  <2>1. /\ caller[c].scan # None
        /\ shared' = Finding(p)!Leave(caller[c].scan)
        /\ scans' = Finding(p)!Referred(scans, others)
        /\ caller' = [caller EXCEPT ![c] = [scan |-> None, generation |-> 0]]
        /\ manager' = manager
    BY <1>6 DEF Finding!ScanReturns, Finding!ScanAbandoned, Finding!Waiting, Finding!Shielded,
       Callers
  <2>2. caller[c].scan \in Watched(p)
        /\ others \subseteq Watched(p) /\ Watched(p) \subseteq others \cup {caller[c].scan}
    BY DEF Watched
  <2>3. PICK i, o : i = caller[c].scan /\ o = others
    OBVIOUS
  <2>4. ScansKept(p, scans', shared', o)
    <3>. HIDE DEF others
    <3>. QED
      BY <2>1, <2>2, <2>3, LeaveKeeps
  <2>5. PICK v : v = Watched(p)'
    OBVIOUS
  <2>6. v \subseteq o \cup {None} /\ o \subseteq v \cup {None}
    BY <1>0, <2>1, <2>3, <2>5 DEF Watched
  <2>7. Watching(p)'
    BY <1>0, <2>1 DEF Watching, Managers
  <2>. QED
    BY <2>4, <2>5, <2>6, <2>7, SameWaited
<1>7. CASE Finding(p)!PerformScan
  <2>1. PICK s \in scans, t \in ScanTasks(p) :
          /\ s.state = "running" /\ t.id = s.id /\ t.state # "running"
          /\ scans' = (scans \ {s}) \cup {t}
    <3>1. PICK s \in scans : s.state = "running"
          /\ \E r \in {[s EXCEPT !.state = "failed"]} \cup
                       {[s EXCEPT !.state = "done", !.found = f] : f \in SUBSET Devices(p)} :
               scans' = (scans \ {s}) \cup {r}
      BY <1>7 DEF Finding!PerformScan, Devices
    <3>2. s \in ScanTasks(p)
      BY <1>0 DEF ScansKept
    <3>3. CASE scans' = (scans \ {s}) \cup {[s EXCEPT !.state = "failed"]}
      <4>1. PICK t : t = [s EXCEPT !.state = "failed"]
        OBVIOUS
      <4>2. t \in ScanTasks(p) /\ t.id = s.id /\ t.state = "failed"
        BY <3>2, <4>1 DEF ScanTasks
      <4>. QED
        BY <3>1, <3>3, <4>1, <4>2
    <3>4. CASE \E f \in SUBSET Devices(p) :
                 scans' = (scans \ {s}) \cup {[s EXCEPT !.state = "done", !.found = f]}
      <4>1. PICK f, t :
              /\ f \in SUBSET Devices(p) /\ t = [s EXCEPT !.state = "done", !.found = f]
              /\ scans' = (scans \ {s}) \cup {t}
        BY <3>4
      <4>2. t \in ScanTasks(p) /\ t.id = s.id /\ t.state = "done"
        BY <3>2, <4>1 DEF ScanTasks
      <4>. QED
        BY <3>1, <4>1, <4>2
    <3>. QED
      BY <3>1, <3>3, <3>4
  <2>2. UNCHANGED <<shared, caller, manager>>
    BY <1>7 DEF Finding!PerformScan
  <2>3. Watching(p)' /\ Watched(p)' = Watched(p)
    BY <1>0, <2>2 DEF Watching, Watched
  <2>4. Numbers(scans') = Numbers(scans)
    BY <2>1 DEF Numbers
  <2>5. \A x, y \in scans' : x.id = y.id => x = y
    BY <1>0, <2>1 DEF ScansKept
  <2>. QED
    BY <1>0, <2>1, <2>2, <2>3, <2>4, <2>5 DEF ScansKept
<1>8. ASSUME NEW d \in Devices(p), NEW passkey \in BOOLEAN, Finding(p)!ConnectCalled(d, passkey)
      PROVE  Good
  BY <1>2, <1>8 DEF Finding!ConnectCalled
<1>9. ASSUME \E at \in {"loop", "asleep", "resting"} : Finding(p)!Goes(at) PROVE Waits(p)
  BY <1>9, GoesOn
<1>10. ASSUME \E k \in BOOLEAN : Finding(p)!Attempts(k) PROVE Waits(p)
  BY <1>10, GoesOn
<1>11. ASSUME NEW found, Finding(p)!Decide(found) PROVE Waits(p)
  BY <1>9, <1>10, <1>11 DEF Finding!Decide
<1>12. ASSUME Finding(p)!Fails PROVE Waits(p)
  BY <1>9, <1>12 DEF Finding!Fails, Finding!AwaitsRetry
<1>13. CASE Finding(p)!DisconnectCalled
  <2>1. CASE manager.pc = "attempt" /\ Finding(p)!Goes("loop")
    <3>1. Waits(p) /\ manager.scan = None /\ UNCHANGED <<scans, shared, caller>>
      BY <1>0, <1>9, <1>13, <2>1 DEF Finding!DisconnectCalled
    <3>. QED
      BY <1>1, <3>1
  <2>2. CASE UNCHANGED manager
    BY <1>2, <1>13, <2>2 DEF Finding!DisconnectCalled
  <2>. QED
    BY <1>13, <2>1, <2>2 DEF Finding!DisconnectCalled
<1>14. CASE Finding(p)!LinkLost
  <2>1. Waits(p) /\ manager.scan = None /\ UNCHANGED <<scans, shared, caller>>
    BY <1>0, <1>9, <1>14 DEF Finding!LinkLost
  <2>. QED
    BY <1>1, <2>1
<1>15. CASE Finding(p)!Loop
  <2>1. manager.pc = "loop" /\ manager.scan = None /\ caller' = caller
    BY <1>0, <1>15 DEF Finding!Loop, Finding!Observe, Finding!Search
  <2>2. CASE Finding(p)!Kept
             /\ (Finding(p)!Disabled \/ Finding(p)!Connected \/ Finding(p)!Unkeyed \/ Finding(p)!Keyed)
    <3>1. Waits(p)
      BY <1>9, <1>10, <2>2
         DEF Finding!Disabled, Finding!Connected, Finding!Unkeyed, Finding!Keyed
    <3>. QED
      BY <1>1, <2>1, <2>2, <3>1
  <2>3. CASE Finding(p)!Observe
    <3>1. CASE Finding(p)!Decide(service.pending) /\ UNCHANGED <<scans, shared>>
      <4>1. PICK found : found = service.pending
        OBVIOUS
      <4>2. Waits(p)
        BY <1>11, <3>1, <4>1
      <4>. QED
        BY <1>1, <2>1, <3>1, <4>2
    <3>2. CASE Finding(p)!Join
               /\ manager' = [pc |-> "observe", scan |-> Finding(p)!Joined,
                              generation |-> service.generation, device |-> None,
                              seen |-> TRUE]
      BY <1>4, <2>1, <3>2
    <3>. QED
      BY <2>3, <3>1, <3>2 DEF Finding!Observe
  <2>4. CASE Finding(p)!Search
    BY <1>4, <2>1, <2>4 DEF Finding!Search
  <2>. QED
    BY <1>15, <2>2, <2>3, <2>4 DEF Finding!Loop
<1>16. CASE Finding(p)!Observed
  <2>1. Finding(p)!Left /\ manager.pc = "observe"
    BY <1>16 DEF Finding!Observed
  <2>2. PICK found : found = Finding(p)!Scan(manager.scan).found
    OBVIOUS
  <2>3. Finding(p)!Decide(found) \/ Finding(p)!Goes("loop")
    BY <1>16, <2>2 DEF Finding!Observed
  <2>. QED
    BY <1>3, <1>9, <1>11, <2>1, <2>3
<1>17. CASE Finding(p)!ProbeFailed
  BY <1>3, <1>12, <1>17 DEF Finding!ProbeFailed
<1>18. CASE Finding(p)!Searched
  <2>1. Finding(p)!Left /\ manager.pc = "search"
    BY <1>18 DEF Finding!Searched
  <2>2. CASE Finding(p)!Goes("loop")
    BY <1>3, <1>9, <2>1, <2>2
  <2>3. CASE Finding(p)!Attempts(service.target \in Finding(p)!Scan(manager.scan).found)
    <3>1. PICK k \in BOOLEAN : k <=> service.target \in Finding(p)!Scan(manager.scan).found
      <4>1. CASE service.target \in Finding(p)!Scan(manager.scan).found
        BY <4>1
      <4>2. CASE service.target \notin Finding(p)!Scan(manager.scan).found
        BY <4>2
      <4>. QED
        BY <4>1, <4>2
    <3>2. Finding(p)!Attempts(k)
      BY <2>3, <3>1 DEF Finding!Attempts
    <3>. QED
      BY <1>3, <1>10, <2>1, <3>2
  <2>. QED
    BY <1>18, <2>2, <2>3 DEF Finding!Searched
<1>19. CASE Finding(p)!Attempted \/ Finding(p)!Committed
  <2>1. UNCHANGED <<scans, shared, caller>> /\ manager.scan = None
    BY <1>0, <1>19 DEF Finding!Attempted, Finding!Committed
  <2>2. manager' = [manager EXCEPT !.pc = "verified"] => Waits(p)
    BY <1>0, <2>1 DEF Waits, Managers
  <2>3. Waits(p)
    BY <1>9, <1>12, <1>19, <2>2 DEF Finding!Attempted, Finding!Committed, Finding!Commits
  <2>. QED
    BY <1>1, <2>1, <2>3
<1>20. CASE Finding(p)!Woken \/ Finding(p)!Rested
  <2>1. Waits(p) /\ UNCHANGED <<scans, shared, caller>> /\ manager.scan = None
    BY <1>0, <1>9, <1>20 DEF Finding!Woken, Finding!Rested
  <2>. QED
    BY <1>1, <2>1
<1>. QED
  BY <1>5, <1>6, <1>7, <1>8, <1>13, <1>14, <1>15, <1>16, <1>17, <1>18, <1>19, <1>20
     DEF Finding!Next, Finding!ManagerStep, Callers, Devices

\* Every step leaves the attempt with the target it is for.
LEMMA FollowsKept ==
  ASSUME NEW p \in DOMAIN Scenes, FindingInv(p), Finding(p)!Next, Decided(p)'
  PROVE  Follows(p)'
<1>. USE DEF Finding!Kept
<1>0. /\ Follows(p) /\ Decided(p) /\ manager \in Managers(p)
      /\ service \in Services(p) /\ service' \in Services(p)
      /\ service.generation \in Nat /\ manager.generation \in Nat
      /\ None \notin Devices(p)
  BY SceneFacts DEF FindingInv, Watching, Managers, Decided, Services
<1>1. ASSUME UNCHANGED manager, service'.generation = service.generation,
             service'.target = service.target
      PROVE  Follows(p)'
  BY <1>0, <1>1 DEF Follows
<1>2. ASSUME UNCHANGED manager, service'.generation = service.generation + 1,
             service.target # None => service'.target # None
      PROVE  Follows(p)'
  BY <1>0, <1>2 DEF Follows
<1>3. ASSUME \E at \in {"loop", "asleep", "resting"} : Finding(p)!Goes(at)
      PROVE  Follows(p)'
  BY <1>3 DEF Finding!Goes, Follows
<1>4. ASSUME NEW k, Finding(p)!Attempts(k), service'.target # None
      PROVE  Follows(p)'
  <2>1. /\ manager'.pc = "attempt" /\ manager'.device = service'.target
        /\ manager'.generation = service'.generation
    BY <1>4 DEF Finding!Attempts
  <2>2. service'.target \in Devices(p) /\ service'.generation \in Nat
    BY <1>0, <1>4, SceneFacts DEF Services
  <2>. QED
    BY <2>1, <2>2 DEF Follows
<1>5. ASSUME NEW found, found \subseteq Devices(p), Finding(p)!Decide(found)
      PROVE  Follows(p)'
  <2>1. CASE \E at \in {"loop", "asleep", "resting"} : Finding(p)!Goes(at)
    BY <1>3, <2>1
  <2>2. CASE /\ Finding(p)!Cardinality(found) = 1 /\ Finding(p)!Attempts(TRUE)
             /\ service' = [service EXCEPT !.target = CHOOSE x \in found : TRUE,
                              !.generation = @ + 1, !.pending = None,
                              !.key = (CHOOSE x \in found : TRUE) \in Scenes[p].enrolled,
                              !.phase = IF (CHOOSE x \in found : TRUE) \in Scenes[p].enrolled
                                        THEN "PAIRING" ELSE "AUTHENTICATION_REQUIRED"]
    <3>1. found # {}
      BY <2>2, SameCardinality, FS_EmptySet
    <3>2. PICK d : d = CHOOSE x \in found : TRUE
      OBVIOUS
    <3>3. d \in found
      BY <3>1, <3>2
    <3>4. service'.target = d
      BY <1>0, <2>2, <3>2 DEF Services
    <3>. QED
      BY <1>0, <1>4, <1>5, <2>2, <3>3, <3>4
  <2>. QED
    BY <1>5, <2>1, <2>2 DEF Finding!Decide
<1>6. ASSUME Finding(p)!Fails PROVE Follows(p)'
  BY <1>3, <1>6 DEF Finding!Fails, Finding!AwaitsRetry
<1>7. ASSUME NEW d \in Devices(p), NEW passkey \in BOOLEAN, Finding(p)!ConnectCalled(d, passkey)
      PROVE  Follows(p)'
  <2>1. UNCHANGED manager /\ service'.generation = service.generation + 1 /\ service'.target = d
    BY <1>0, <1>7 DEF Finding!ConnectCalled, Services
  <2>. QED
    BY <1>0, <1>2, <2>1
<1>8. CASE Finding(p)!DisconnectCalled
  <2>1. service'.generation = service.generation + 1 /\ service'.target = service.target
    BY <1>0, <1>8 DEF Finding!DisconnectCalled, Services
  <2>. QED
    BY <1>2, <1>3, <1>8, <2>1 DEF Finding!DisconnectCalled
<1>9. ASSUME NEW c \in Callers(p),
             Finding(p)!ScanCalled(c) \/ Finding(p)!ScanReturns(c) \/ Finding(p)!ScanAbandoned(c)
      PROVE  Follows(p)'
  <2>1. UNCHANGED manager /\ service'.generation = service.generation
        /\ service'.target = service.target
    BY <1>0, <1>9 DEF Finding!ScanCalled, Finding!ScanReturns, Finding!ScanAbandoned, Services
  <2>. QED
    BY <1>1, <2>1
<1>10. CASE Finding(p)!PerformScan
  BY <1>1, <1>10 DEF Finding!PerformScan
<1>11. CASE Finding(p)!LinkLost \/ Finding(p)!Rested \/ Finding(p)!Woken \/ Finding(p)!Committed
  BY <1>3, <1>11
     DEF Finding!LinkLost, Finding!Rested, Finding!Woken, Finding!Committed, Finding!Commits
<1>12. CASE Finding(p)!Loop
  <2>1. CASE Finding(p)!Disabled \/ Finding(p)!Connected \/ Finding(p)!Unkeyed
    BY <1>3, <2>1 DEF Finding!Disabled, Finding!Connected, Finding!Unkeyed
  <2>2. CASE Finding(p)!Keyed
    BY <1>4, <2>2 DEF Finding!Keyed
  <2>3. CASE Finding(p)!Observe
    <3>1. CASE service.pending # None /\ Finding(p)!Decide(service.pending)
      BY <1>0, <1>5, <3>1 DEF Services
    <3>2. CASE manager' = [pc |-> "observe", scan |-> Finding(p)!Joined,
                           generation |-> service.generation, device |-> None, seen |-> TRUE]
      BY <3>2 DEF Follows
    <3>. QED
      BY <2>3, <3>1, <3>2 DEF Finding!Observe
  <2>4. CASE Finding(p)!Search
    <3>1. manager'.pc = "search" /\ service'.target # None
      BY <2>4 DEF Finding!Search
    <3>. QED
      BY <3>1 DEF Follows
  <2>. QED
    BY <1>12, <2>1, <2>2, <2>3, <2>4 DEF Finding!Loop
<1>13. CASE Finding(p)!Observed
  <2>1. PICK i : i = manager.scan
    OBVIOUS
  <2>2. i \in Numbers(scans)
    BY <1>13, <2>1 DEF Finding!Observed, FindingInv, Watching, Watched, ScansKept
  <2>3. PICK found \in SUBSET Devices(p) : found = Finding(p)!Scan(i).found
    BY <2>2, ScanIs DEF FindingInv, ScansKept, ScanTasks
  <2>. QED
    BY <1>3, <1>5, <1>13, <2>1, <2>3 DEF Finding!Observed
<1>14. CASE Finding(p)!ProbeFailed
  BY <1>6, <1>14 DEF Finding!ProbeFailed
<1>15. CASE Finding(p)!Searched
  <2>1. service.target # None
    BY <1>0, <1>15 DEF Finding!Searched, Follows
  <2>2. service' = Finding(p)!Phase("RECONNECTING") => service'.target = service.target
    BY <1>0 DEF Finding!Phase, Services
  <2>. QED
    BY <1>3, <1>4, <1>15, <2>1, <2>2 DEF Finding!Searched
<1>16. CASE Finding(p)!Attempted
  <2>1. CASE manager' = [manager EXCEPT !.pc = "verified"] /\ UNCHANGED service
    <3>1. /\ manager'.pc = "verified" /\ manager'.device = manager.device
          /\ manager'.generation = manager.generation /\ manager.pc = "attempt"
      BY <1>0, <1>16, <2>1 DEF Managers, Finding!Attempted
    <3>. QED
      BY <1>0, <2>1, <3>1 DEF Follows
  <2>. QED
    BY <1>3, <1>6, <1>16, <2>1 DEF Finding!Attempted, Finding!Commits
<1>. QED
  BY <1>7, <1>8, <1>9, <1>10, <1>11, <1>12, <1>13, <1>14, <1>15, <1>16
     DEF Finding!Next, Finding!ManagerStep, Callers, Devices

\* A scene starts with nobody scanning.
LEMMA FindingInitially ==
  ASSUME NEW p \in DOMAIN Scenes, Finding(p)!Init
  PROVE  FindingInv(p)
<1>1. /\ scans = {} /\ shared = None /\ intents = 0 /\ events = <<Finding(p)!START>>
      /\ caller = [c \in Callers(p) |-> [scan |-> None, generation |-> 0]]
      /\ manager = [pc |-> "loop", scan |-> None, generation |-> 0, device |-> None,
                     seen |-> TRUE]
      /\ service = [phase |-> IF Scenes[p].auto THEN "DISCOVERING" ELSE "DISCONNECTED",
                    desired |-> Scenes[p].auto, target |-> None, key |-> FALSE,
                    generation |-> 0, pending |-> None, operation |-> None,
                    booted |-> FALSE]
  BY DEF Finding!Init, Callers
<1>2. 0 \in Generations(p) /\ Scenes[p].auto \in BOOLEAN /\ Scenes[p].intents \in Nat
  BY SceneFacts
<1>3. /\ Watching(p) /\ Follows(p) /\ Watched(p) \subseteq {None}
      /\ None \in {None} \cup Numbers(scans)
  BY <1>1, <1>2 DEF Watching, Managers, Follows, Watched
<1>4. ScansKept(p, scans, shared, Watched(p))
  BY <1>1, <1>3 DEF ScansKept, Numbers
<1>5. service \in Services(p)
  <2>1. PICK ph \in Finding(p)!Phases, a \in BOOLEAN :
          service = [phase |-> ph, desired |-> a, target |-> None, key |-> FALSE,
                     generation |-> 0, pending |-> None, operation |-> None,
                     booted |-> FALSE]
    BY <1>1, <1>2, PhaseFacts
  <2>. QED
    BY <1>2, <2>1 DEF Services
<1>6. events \in Seq(Events(p))
  <2>1. Finding(p)!START \in Events(p)
    BY <1>2 DEF Finding!START, Events
  <2>. HIDE DEF Events
  <2>. QED
    BY <1>1, <2>1
<1>7. intents \in 0..Scenes[p].intents /\ service.generation = 0 /\ service.operation = None
  BY <1>1, <1>2
<1>. QED
  BY <1>3, <1>4, <1>5, <1>6, <1>7 DEF FindingInv, Decided

\* A step that changes nothing of discovery.
LEMMA FindingStutters ==
  ASSUME NEW p \in DOMAIN Scenes, FindingInv(p), UNCHANGED discoveryVars
  PROVE  FindingInv(p)'
BY DEF discoveryVars, FindingInv, Watching, Watched, Decided, Follows

\* The invariant of a scene gives its types, one scan at a time, and no scan
\* that is taken from those who wait.
LEMMA FindingShares ==
  ASSUME NEW p \in DOMAIN Scenes, FindingInv(p)
  PROVE  Finding(p)!TypeOK /\ Finding(p)!OneScan /\ Finding(p)!SharedScanSurvives
<1>0. /\ Watching(p) /\ Decided(p) /\ ScansKept(p, scans, shared, Watched(p))
      /\ IsFiniteSet(Callers(p))
  BY SceneFacts DEF FindingInv
<1>1. \A c \in Callers(p) : caller[c].scan \in {None} \cup Numbers(scans)
  BY <1>0 DEF ScansKept, Watched
<1>2. manager.scan \in {None} \cup Numbers(scans)
  BY <1>0 DEF ScansKept, Watched
<1>3. Finding(p)!TypeOK
  <2>1. \A c \in Callers(p) :
          caller[c] \in [scan : {None} \cup Numbers(scans), generation : Generations(p)]
    BY <1>0, <1>1 DEF Watching
  <2>2. manager \in [pc : {"loop", "asleep", "resting", "observe", "search", "attempt",
                           "verified"},
                     scan : {None} \cup Numbers(scans), generation : Generations(p),
                     device : {None} \cup Devices(p), seen : BOOLEAN]
    BY <1>0, <1>2 DEF Watching, Managers
  <2>. QED
    BY <1>0, <2>1, <2>2 DEF Finding!TypeOK, Decided, Services, ScansKept, ScanTasks, Numbers,
       Callers, Devices, Ids, Generations
<1>4. Finding(p)!OneScan
  <2> DEFINE running == {s \in scans : s.state = "running"}
  <2>1. \A s, t \in running : s = t
    BY <1>0 DEF ScansKept
  <2>2. Cardinality(running) <= 1
    <3>1. Cardinality({}) = 0
      BY FS_EmptySet
    <3>2. CASE running = {}
      BY <3>1, <3>2
    <3>3. CASE running # {}
      <4>1. PICK s : running = {s}
        BY <2>1, <3>3
      <4>2. Cardinality({s}) = 1
        BY FS_Singleton
      <4>. QED
        BY <4>1, <4>2
    <3>. QED
      BY <3>2, <3>3
  <2>. QED
    BY <2>2, SameCardinality DEF Finding!OneScan
<1>5. Finding(p)!SharedScanSurvives
  <2>1. ASSUME NEW c \in Callers(p), NEW i, i = caller[c].scan, i # None
        PROVE  Finding(p)!Scan(i).state # "cancelled"
    BY <1>0, <1>1, <2>1, ScanIs DEF ScansKept, ScanTasks
  <2>. QED
    BY <2>1 DEF Finding!SharedScanSurvives, Callers
<1>. QED
  BY <1>3, <1>4, <1>5

\* Whichever scene is played, its invariant holds.
ScenesInv == \A p \in DOMAIN Scenes : part = p => FindingInv(p)

\* A step of the composition is a step of the scene played, or of none.
LEMMA SceneSteps ==
  ASSUME [MCNext]_<<part, discoveryVars, vars>>
  PROVE  /\ part' = part
         /\ UNCHANGED discoveryVars \/ \E p \in DOMAIN Scenes : part = p /\ Finding(p)!Next
         /\ [Next]_vars
BY DEF MCNext, DiscoveryRuns, LifecycleRuns

\* The invariant of the discovery through every behaviour of the scenes.
LEMMA ScenesInvariance == MCSpec => []ScenesInv
<1>1. MCInit => ScenesInv
  <2>. SUFFICES ASSUME MCInit, NEW p \in DOMAIN Scenes, part = p PROVE FindingInv(p)
    BY DEF ScenesInv
  <2>1. Finding(p)!Init
    BY SceneFacts DEF MCInit
  <2>. QED
    BY <2>1, FindingInitially
<1>2. ScenesInv /\ [MCNext]_<<part, discoveryVars, vars>> => ScenesInv'
  <2>. SUFFICES ASSUME ScenesInv, [MCNext]_<<part, discoveryVars, vars>>,
                       NEW p \in DOMAIN Scenes, part' = p
                PROVE  FindingInv(p)'
    BY DEF ScenesInv
  <2>1. part = p /\ FindingInv(p)
    BY SceneSteps DEF ScenesInv
  <2>2. CASE UNCHANGED discoveryVars
    BY <2>1, <2>2, FindingStutters
  <2>3. CASE Finding(p)!Next
    <3>1. Decided(p)'
      BY <2>1, <2>3, DecidedKept
    <3>2. Watching(p)' /\ ScansKept(p, scans', shared', Watched(p)') /\ Follows(p)'
      BY <2>1, <2>3, <3>1, WatchingKept, FollowsKept
    <3>. QED
      BY <3>1, <3>2 DEF FindingInv
  <2>. QED
    BY <2>1, <2>2, <2>3, SceneSteps
<1>. QED
  BY <1>1, <1>2, PTL DEF MCSpec

\* In any scene, with any devices, callers and calls: one scan at a time, and
\* whoever waits for it finds it, whoever else gave up (_scan_for_devices).
THEOREM ScansAreShared == MCSpec => []SharedScan
<1>1. ScenesInv => SharedScan
  BY FindingShares DEF ScenesInv, SharedScan
<1>. QED
  BY <1>1, ScenesInvariance, PTL

\* The manager keeps a target it has, but for the commit of a link that it verified
\* for an earlier generation.
LEMMA TargetKept ==
  ASSUME NEW p \in DOMAIN Scenes, FindingInv(p), Finding(p)!ManagerStep, service.target # None,
         manager.pc = "verified" => manager.generation = service.generation
  PROVE  service'.target = service.target
<1>0. service \in Services(p) /\ service.target # None
  BY DEF FindingInv, Decided
<1>1. CASE UNCHANGED service
           \/ \E ph \in Finding(p)!Phases : service' = Finding(p)!Phase(ph)
  BY <1>0, <1>1 DEF Finding!Phase, Services
<1>2. CASE Finding(p)!Fails
  <2>1. CASE service' = Finding(p)!Phase("DISCONNECTED")
    BY <1>1, <2>1, PhaseFacts
  <2>2. CASE service' = [service EXCEPT !.operation = None, !.phase =
               IF service.target = None THEN "DISCOVERING" ELSE "RECONNECTING"]
    BY <1>0, <2>2 DEF Services
  <2>. QED
    BY <1>2, <2>1, <2>2 DEF Finding!Fails
<1>3. CASE Finding(p)!Loop
  <2>1. CASE service' = [service EXCEPT !.key = TRUE]
    BY <1>0, <2>1 DEF Services
  <2>. QED
    BY <1>0, <1>1, <1>3, <2>1, PhaseFacts
       DEF Finding!Loop, Finding!Disabled, Finding!Connected, Finding!Unkeyed, Finding!Keyed,
           Finding!Observe, Finding!Search
<1>4. CASE Finding(p)!Observed
  BY <1>0, <1>1, <1>4 DEF Finding!Observed, Finding!Undisturbed
<1>5. CASE Finding(p)!ProbeFailed
  BY <1>2, <1>5 DEF Finding!ProbeFailed
<1>6. CASE Finding(p)!Searched
  BY <1>1, <1>6, PhaseFacts DEF Finding!Searched
<1>7. CASE Finding(p)!Attempted \/ Finding(p)!Committed
  <2>1. CASE service' = [service EXCEPT !.phase = "REJECTED", !.key = FALSE,
                                        !.operation = None]
    BY <1>0, <2>1 DEF Services
  <2>2. CASE Finding(p)!Commits /\ manager.pc \in {"attempt", "verified"}
                                /\ manager.generation = service.generation
    <3>1. service.target = manager.device
      BY <2>2 DEF FindingInv, Follows
    <3>. QED
      BY <1>0, <2>2, <3>1 DEF Finding!Commits, Services
  <2>. QED
    BY <1>1, <1>2, <1>7, <2>1, <2>2 DEF Finding!Attempted, Finding!Committed
<1>8. CASE Finding(p)!Woken
  BY <1>0, <1>1, <1>8 DEF Finding!Woken
<1>9. CASE Finding(p)!Rested
  BY <1>1, <1>9 DEF Finding!Rested
<1>. QED
  BY <1>3, <1>4, <1>5, <1>6, <1>7, <1>8, <1>9 DEF Finding!ManagerStep

\* What was decided stands.  In any scene the manager replaces no target that was
\* chosen, whatever its scan saw and however its attempts end, but with the device
\* of a link that was verified before the choice (_connection_manager,
\* ble_service.py:965, 1103-1130); and, in either host, no operation that ended
\* changes again but to be pruned.
THEOREM DecisionsAreKept == MCSpec => DecisionsStand
<1>1. MCInit => IInv
  BY Initially, CallsAssumption DEF MCInit
<1>2. IInv /\ [MCNext]_<<part, discoveryVars, vars>> => IInv'
  BY SceneSteps, Inductive, CallsAssumption
<1>3. IInv /\ [MCNext]_<<part, discoveryVars, vars>> =>
        [\A c \in Calls : op[c] \in Terminal => op'[c] \in {op[c], "pruned"}]_vars
  BY SceneSteps, EndedKept
<1>4. ScenesInv /\ [MCNext]_<<part, discoveryVars, vars>> =>
        [\A p \in DOMAIN Scenes : part = p => Finding(p)!Stands]_discoveryVars
  <2>. SUFFICES ASSUME ScenesInv, NEW p \in DOMAIN Scenes, part = p,
                       Finding(p)!ManagerStep, service.target # None,
                       manager.pc = "verified" => manager.generation = service.generation
                PROVE  service'.target = service.target
    BY DEF Finding!Stands
  <2>. QED
    BY TargetKept DEF ScenesInv
<1>. QED
  BY <1>1, <1>2, <1>3, <1>4, ScenesInvariance, PTL DEF MCSpec, DecisionsStand, TerminalIsFinal
=============================================================================
