-------------------------- MODULE ConnectionProofs --------------------------
(***************************************************************************)
(* Proofs about ConnectionManager for any devices, passkeys and API calls, *)
(* any number of failures and clients, and about Enrollment for any        *)
(* devices, pairing ceremonies, crashes and power losses.                  *)
(***************************************************************************)
EXTENDS MCConnection, TLAPS

-----------------------------------------------------------------------------
(* The controller state.                                                   *)

\* A state that service_state.transition_state accepts.
Accepted(s) ==
  /\ DOMAIN s = {"phase", "desired", "target", "connected", "ready", "cred"}
  /\ s.connected \in BOOLEAN /\ s.ready \in BOOLEAN
  /\ s.ready => s.connected
  /\ s.phase = "CONNECTED" <=> s.ready

\* A transition without a transport is accepted.
LEMMA DownAccepted ==
  ASSUME Accepted(st), NEW to, to # "CONNECTED"
  PROVE  /\ Accepted(Down(to))
         /\ \A cred : Accepted([Down(to) EXCEPT !.cred = cred])
  BY DEF Accepted, Down

\* So are the transitions that keep the transport and stop being ready.
LEMMA UnreadyAccepted ==
  ASSUME Accepted(st)
  PROVE  /\ Accepted([st EXCEPT !.phase = "DISCONNECTING", !.ready = FALSE])
         /\ Accepted([st EXCEPT !.phase = "DISCONNECTING", !.desired = FALSE,
                                !.ready = FALSE])
         /\ Accepted([st EXCEPT !.phase = "VERIFYING", !.connected = TRUE,
                                !.ready = FALSE])
  BY DEF Accepted

\* A failure only takes the transport away.
LEMMA FailureAccepted ==
  ASSUME Accepted(st), NEW authentication \in BOOLEAN, HandleFailure(authentication)
  PROVE  Accepted(st')
<1>1. CASE ~st.desired
  BY <1>1 DEF HandleFailure
<1>2. CASE st.desired
  <2>1. \/ st' = [Down("AUTHENTICATION_REQUIRED") EXCEPT !.cred = "REJECTED"]
        \/ st' = Down(IF st.target = NoDevice THEN "DISCOVERING" ELSE "RECONNECTING")
    BY <1>2 DEF HandleFailure
  <2>. QED
    BY <2>1 DEF Accepted, Down
<1>. QED
  BY <1>1, <1>2

\* Losing the link takes the transport away, too.
LEMMA LossAccepted ==
  ASSUME Accepted(st), NEW then, ConnectionLost(then)
  PROVE  Accepted(st')
  BY DownAccepted DEF ConnectionLost

\* Becoming ready.
LEMMA CommitAccepted ==
  ASSUME Accepted(st), Commit
  PROVE  Accepted(st')
<1>1. CASE passkey = NoPasskey
  BY <1>1, FailureAccepted DEF Commit
<1>2. CASE passkey # NoPasskey
  BY <1>2 DEF Commit, Accepted
<1>. QED
  BY <1>1, <1>2

\* A step of the manager.
LEMMA ManagerAccepted ==
  ASSUME Accepted(st), ManagerStep
  PROVE  Accepted(st')
<1>1. CASE ManagerIdle \/ ManagerGone
  BY <1>1, DownAccepted DEF ManagerIdle, ManagerGone
<1>2. CASE ManagerReady \/ ManagerConnects \/ LostHandled \/ WakeupTimeout
  BY <1>2 DEF ManagerReady, ManagerConnects, LostHandled, WakeupTimeout
<1>3. CASE ManagerDiscovers
  BY <1>3, DownAccepted DEF ManagerDiscovers
<1>4. CASE ManagerNeedsPasskey
  <2>1. \/ st' = st
        \/ st' = [Down("AUTHENTICATION_REQUIRED") EXCEPT !.cred = "MISSING"]
    BY <1>4 DEF ManagerNeedsPasskey
  <2>. QED
    BY <2>1 DEF Accepted, Down
<1>5. CASE ScanReturns
  <2>1. \/ st' = st
        \/ st' = Down("DISCOVERING")
        \/ st' = [Down("SELECTION_REQUIRED") EXCEPT !.target = NoDevice]
        \/ \E d \in Devices :
             st' = [Down("AUTHENTICATION_REQUIRED") EXCEPT !.target = d, !.cred = "MISSING"]
        \/ \E d \in Devices :
             st' = [Down("PAIRING") EXCEPT !.target = d, !.cred = "AVAILABLE"]
    BY <1>5 DEF ScanReturns
  <2>. QED
    BY <2>1 DEF Accepted, Down
<1>6. CASE ScanFails
  BY <1>6, FailureAccepted DEF ScanFails
<1>7. CASE RescanReturns
  <2>1. st' = st \/ st' = [Down("RECONNECTING") EXCEPT !.target = M.dev]
    BY <1>7 DEF RescanReturns
  <2>. QED
    BY <2>1 DEF Accepted, Down
<1>8. CASE AttemptEnds
  BY <1>8, FailureAccepted, CommitAccepted DEF AttemptEnds
<1>9. CASE BootRead
  BY <1>9, CommitAccepted DEF BootRead
<1>10. CASE Wakeup
  BY <1>10, LossAccepted DEF Wakeup
<1>11. CASE CheckLink
  BY <1>11, LossAccepted DEF CheckLink
<1>12. CASE AcquireToClose("manager") \/ ClientClosed("manager")
              \/ HistoryCancelled("manager")
  BY <1>12 DEF AcquireToClose, ClientClosed, HistoryCancelled
<1>. QED
  BY <1>1, <1>2, <1>3, <1>4, <1>5, <1>6, <1>7, <1>8, <1>9, <1>10, <1>11, <1>12
     DEF ManagerStep

\* A step of the attempt task.
LEMMA AttemptAccepted ==
  ASSUME Accepted(st), AttemptStep
  PROVE  Accepted(st')
<1>1. CASE AttemptBegins
  BY <1>1, DownAccepted DEF AttemptBegins
<1>2. CASE AttemptPaired
  BY <1>2, DownAccepted DEF AttemptPaired
<1>3. CASE AttemptConnected
  BY <1>3, UnreadyAccepted DEF AttemptConnected
<1>4. CASE AttemptQueues \/ AttemptAuthenticated \/ AttemptRead \/ AttemptFails
             \/ AttemptClosed
  BY <1>4 DEF AttemptQueues, AttemptAuthenticated, AttemptRead, AttemptFails,
              AttemptClosed
<1>. QED
  BY <1>1, <1>2, <1>3, <1>4 DEF AttemptStep

\* A step of an API call.
LEMMA CallAccepted ==
  ASSUME Accepted(st), NEW c \in Calls,
         \/ CallStep(c)
         \/ \E d \in Devices, p \in Supplied : Connect(c, d, p)
         \/ Disconnect(c) \/ Forget(c)
  PROVE  Accepted(st')
<1>1. CASE Select(c) \/ Disconnected(c) \/ Forgotten(c) \/ ResetFailed(c)
  <2>1. \/ st' = st
        \/ st' = Down("DISCONNECTED")
        \/ st' = [Down("DISCONNECTED") EXCEPT !.cred = "MISSING"]
        \/ st' = [Down("PAIRING") EXCEPT !.desired = TRUE, !.target = task[c].dev,
                                         !.cred = "AVAILABLE"]
    BY <1>1 DEF Select, Disconnected, Forgotten, ResetFailed
  <2>. QED
    BY <2>1 DEF Accepted, Down
<1>2. CASE AttemptGone(c) \/ Perform(c) \/ BondReset(c) \/ Unpair(c)
             \/ AcquireToClose(c) \/ ClientClosed(c) \/ HistoryCancelled(c)
  BY <1>2 DEF AttemptGone, Perform, BondReset, Unpair, AcquireToClose, ClientClosed,
              HistoryCancelled
<1>3. ASSUME NEW d \in Devices, NEW p \in Supplied, Connect(c, d, p)
      PROVE  Accepted(st')
  <2>1. \/ st' = st
        \/ st' = [st EXCEPT !.phase = "DISCONNECTING", !.ready = FALSE]
        \/ st' = [Down("AUTHENTICATION_REQUIRED") EXCEPT
                    !.desired = TRUE, !.target = d, !.cred = "MISSING"]
    BY <1>3 DEF Connect
  <2>. QED
    BY <2>1 DEF Accepted, Down
<1>4. CASE Disconnect(c) \/ Forget(c)
  BY <1>4, UnreadyAccepted DEF Disconnect, Forget
<1>. QED
  BY <1>1, <1>2, <1>3, <1>4 DEF CallStep

\* service_state.py: no interleaving of manager, attempt and calls produces a
\* controller state that is ready without a transport, or CONNECTED without
\* being ready.
THEOREM StateIsConsistent == Spec => []ControllerConsistent
<1>1. Init => Accepted(st)
  BY DEF Init, Accepted
<1>2. Accepted(st) /\ [Next]_vars => Accepted(st)'
  <2> SUFFICES ASSUME Accepted(st), [Next]_vars PROVE Accepted(st')
    BY DEF Accepted
  <2>1. CASE \/ LinkDrops \/ NotifyManager \/ HistoryEnds \/ HistoryStarts
             \/ PollAsks \/ PollAnswered \/ PollFails \/ PollReported
    BY <2>1 DEF LinkDrops, NotifyManager, HistoryEnds, HistoryStarts,
                PollAsks, PollAnswered, PollFails, PollReported
  <2>2. CASE UNCHANGED vars
    BY <2>2 DEF vars
  <2>. QED
    BY <2>1, <2>2, ManagerAccepted, AttemptAccepted, CallAccepted DEF Next
<1>3. Accepted(st) => ControllerConsistent
  BY DEF Accepted, ControllerConsistent
<1>. QED
  BY <1>1, <1>2, <1>3, PTL DEF Spec

-----------------------------------------------------------------------------
(* The tasks: a call that has been made is never made again.               *)

\* A record with the fields that say where a task is.
TaskRecord(r) == {"pc", "kind", "then"} \subseteq DOMAIN r

\* Every task is there and says where it is; DevicesAssumption keeps the names of
\* calls and manager apart.
TaskInv ==
  /\ DevicesAssumption
  /\ DOMAIN task = Tasks
  /\ \A t \in Tasks : TaskRecord(task[t])
  /\ \A c \in Calls : task[c].then # "idle"

\* What every step but the making of a call does to the tasks.
CallsGoOn ==
  TaskInv' /\ \A c \in Calls : task'[c].pc = "idle" => task[c].pc = "idle"

\* The manager is a task and no call.
LEMMA TaskNames ==
  ASSUME DevicesAssumption
  PROVE  "manager" \in Tasks /\ "manager" \notin Calls /\ Calls \subseteq Tasks
  BY DEF DevicesAssumption, Tasks

\* Nobody moves.
LEMMA Stays ==
  ASSUME TaskInv, UNCHANGED task
  PROVE  CallsGoOn
  BY DEF TaskInv, CallsGoOn

\* One task moves; a call does not move to "idle", now or later.
LEMMA Moves ==
  ASSUME TaskInv, NEW t \in Tasks, NEW r, TaskRecord(r),
         t \in Calls => r.pc # "idle" /\ r.then # "idle",
         task' = [task EXCEPT ![t] = r]
  PROVE  CallsGoOn
  BY TaskNames DEF TaskInv, CallsGoOn

\* A task goes on at pc.
LEMMA GotoMoves ==
  ASSUME TaskInv, NEW t \in Tasks, NEW pc, t \in Calls => pc # "idle", Goto(t, pc)
  PROVE  CallsGoOn
<1> DEFINE r == [task[t] EXCEPT !.pc = pc]
<1>1. TaskRecord(r) /\ r.pc = pc /\ r.then = task[t].then
  BY DEF TaskInv, TaskRecord
<1>2. task' = [task EXCEPT ![t] = r]
  BY DEF Goto
<1>3. t \in Calls => r.then # "idle"
  BY <1>1 DEF TaskInv
<1>. HIDE DEF r
<1>. QED
  BY <1>1, <1>2, <1>3, Moves

\* A task closes the client or waits for the lock to do so.
LEMMA CloseMoves ==
  ASSUME TaskInv, NEW t \in Tasks, NEW r, TaskRecord(r), NEW then,
         t \in Calls => r.then # "idle" /\ then # "idle",
         CloseClient(t, r, then)
  PROVE  CallsGoOn
<1> DEFINE waiting == [r EXCEPT !.pc = "lock", !.then = then]
           gone    == [r EXCEPT !.pc = then]
           closing == [r EXCEPT !.pc = "close", !.then = then]
<1>1. /\ TaskRecord(waiting) /\ waiting.pc = "lock" /\ waiting.then = then
      /\ TaskRecord(gone) /\ gone.pc = then /\ gone.then = r.then
      /\ TaskRecord(closing) /\ closing.pc = "close" /\ closing.then = then
  BY DEF TaskRecord
<1>2. task' \in {[task EXCEPT ![t] = waiting], [task EXCEPT ![t] = gone],
                 [task EXCEPT ![t] = closing]}
  BY DEF CloseClient
<1>. HIDE DEF waiting, gone, closing
<1>3. CASE task' = [task EXCEPT ![t] = waiting]
  BY <1>1, <1>3, Moves
<1>4. CASE task' = [task EXCEPT ![t] = gone]
  BY <1>1, <1>4, Moves
<1>5. CASE task' = [task EXCEPT ![t] = closing]
  BY <1>1, <1>5, Moves
<1>. QED
  BY <1>2, <1>3, <1>4, <1>5

\* A task cancels the history task first.
LEMMA HistoryMoves ==
  ASSUME TaskInv, NEW t \in Tasks, NEW r, TaskRecord(r), NEW then,
         t \in Calls => r.then # "idle" /\ then # "idle",
         CancelHistoryAndClose(t, r, then)
  PROVE  CallsGoOn
<1>1. CASE syncing
  <2> DEFINE cancelling == [r EXCEPT !.pc = "cancel_history", !.then = then]
  <2>1. /\ TaskRecord(cancelling)
        /\ cancelling.pc = "cancel_history" /\ cancelling.then = then
    BY DEF TaskRecord
  <2>2. task' = [task EXCEPT ![t] = cancelling]
    BY <1>1 DEF CancelHistoryAndClose
  <2>. HIDE DEF cancelling
  <2>. QED
    BY <2>1, <2>2, Moves
<1>2. CASE ~syncing
  BY <1>2, CloseMoves DEF CancelHistoryAndClose
<1>. QED
  BY <1>1, <1>2

\* The steps that calls and manager share.
LEMMA SharedMoves ==
  ASSUME TaskInv, NEW t \in Tasks,
         AcquireToClose(t) \/ ClientClosed(t) \/ HistoryCancelled(t)
  PROVE  CallsGoOn
<1>1. t \in Calls => task[t].then # "idle"
  BY DEF TaskInv
<1>2. TaskRecord(task[t])
  BY DEF TaskInv
<1>3. \/ Goto(t, task[t].then) \/ Goto(t, "close") \/ Goto(t, "await_attempt")
      \/ CloseClient(t, task[t], task[t].then)
  BY DEF AcquireToClose, ClientClosed, HistoryCancelled
<1>4. CASE Goto(t, "close") \/ Goto(t, "await_attempt")
  BY <1>4, GotoMoves
<1>5. CASE Goto(t, task[t].then)
  BY <1>1, <1>5, GotoMoves
<1>6. CASE CloseClient(t, task[t], task[t].then)
  BY <1>1, <1>2, <1>6, CloseMoves
<1>. QED
  BY <1>3, <1>4, <1>5, <1>6

\* The manager moves no call.
LEMMA ManagerMoves ==
  ASSUME TaskInv, ManagerStep
  PROVE  CallsGoOn
<1> DEFINE m == "manager"
<1>0. m \in Tasks /\ m \notin Calls /\ TaskRecord(M)
  BY TaskNames DEF TaskInv, M
<1>1. ASSUME NEW pc, Goto(m, pc) PROVE CallsGoOn
  BY <1>0, <1>1, GotoMoves
<1>2. ASSUME NEW then, CloseClient(m, M, then) PROVE CallsGoOn
  BY <1>0, <1>2, CloseMoves
<1>3. ASSUME NEW d, NEW key, NEW g, NEW reconnecting, StartAttempt(d, key, g, reconnecting)
      PROVE  CallsGoOn
  <2> DEFINE r == [M EXCEPT !.pc = IF reconnecting THEN "rescan" ELSE "attempt",
                            !.dev = d, !.gen = g]
  <2>1. TaskRecord(r)
    BY <1>0 DEF TaskRecord
  <2>2. task' = [task EXCEPT ![m] = r]
    BY <1>3 DEF StartAttempt
  <2>. HIDE DEF r
  <2>. QED
    BY <1>0, <2>1, <2>2, Moves
<1>4. ASSUME NEW authentication, HandleFailure(authentication) PROVE CallsGoOn
  BY <1>2, <1>4 DEF HandleFailure
<1>5. ASSUME NEW then, ConnectionLost(then) PROVE CallsGoOn
  <2> DEFINE r == [M EXCEPT !.kind = then]
  <2>1. TaskRecord(r)
    BY <1>0 DEF TaskRecord
  <2>2. Goto(m, then) \/ CancelHistoryAndClose(m, r, "lost")
    BY <1>5 DEF ConnectionLost
  <2>. HIDE DEF r
  <2>. QED
    BY <1>0, <1>1, <2>1, <2>2, HistoryMoves
<1>6. ASSUME Commit PROVE CallsGoOn
  BY <1>1, <1>4, <1>6 DEF Commit
<1>7. CASE ManagerIdle \/ ManagerReady \/ ManagerGone \/ LostHandled \/ WakeupTimeout
  BY <1>1, <1>7 DEF ManagerIdle, ManagerReady, ManagerGone, LostHandled, WakeupTimeout
<1>8. CASE ManagerDiscovers
  <2> DEFINE r == [M EXCEPT !.pc = "scan", !.gen = gen]
  <2>1. TaskRecord(r)
    BY <1>0 DEF TaskRecord
  <2>2. task' = [task EXCEPT ![m] = r]
    BY <1>8 DEF ManagerDiscovers
  <2>. HIDE DEF r
  <2>. QED
    BY <1>0, <2>1, <2>2, Moves
<1>9. CASE ManagerNeedsPasskey \/ ManagerConnects
  BY <1>1, <1>3, <1>9 DEF ManagerNeedsPasskey, ManagerConnects
<1>10. CASE ScanReturns
  BY <1>1, <1>3, <1>10 DEF ScanReturns
<1>11. CASE ScanFails
  BY <1>4, <1>11 DEF ScanFails
<1>12. CASE RescanReturns
  BY <1>1, <1>3, <1>12 DEF RescanReturns
<1>13. CASE AttemptEnds
  BY <1>1, <1>4, <1>6, <1>13 DEF AttemptEnds
<1>14. CASE BootRead
  BY <1>6, <1>14 DEF BootRead
<1>15. CASE Wakeup \/ CheckLink
  BY <1>1, <1>5, <1>15 DEF Wakeup, CheckLink
<1>16. CASE AcquireToClose(m) \/ ClientClosed(m) \/ HistoryCancelled(m)
  BY <1>0, <1>16, SharedMoves
<1>. QED
  BY <1>7, <1>8, <1>9, <1>10, <1>11, <1>12, <1>13, <1>14, <1>15, <1>16
     DEF ManagerStep

\* The attempt, the link, the history task and the poller move no task.
LEMMA OthersMove ==
  ASSUME TaskInv,
         \/ AttemptStep \/ LinkDrops \/ NotifyManager \/ HistoryEnds \/ HistoryStarts
         \/ PollAsks \/ PollAnswered \/ PollFails \/ PollReported
         \/ UNCHANGED vars
  PROVE  CallsGoOn
<1>1. UNCHANGED task
  BY DEF AttemptStep, AttemptQueues, AttemptBegins, AttemptPaired, AttemptConnected,
         AttemptAuthenticated, AttemptRead, AttemptFails, AttemptClosed,
         attemptUnchanged, LinkDrops, NotifyManager, HistoryEnds, HistoryStarts,
         PollAsks, PollAnswered, PollFails, PollReported, vars
<1>. QED
  BY <1>1, Stays

\* A call that has been made goes on to its end.
LEMMA CallMoves ==
  ASSUME TaskInv, NEW c \in Calls, CallStep(c)
  PROVE  CallsGoOn
<1>0. c \in Tasks /\ TaskRecord(task[c]) /\ task[c].then # "idle"
  BY TaskNames DEF TaskInv
<1>1. ASSUME NEW pc, pc # "idle", Goto(c, pc) PROVE CallsGoOn
  BY <1>0, <1>1, GotoMoves
<1>2. ASSUME NEW then, then # "idle", CloseClient(c, task[c], then) PROVE CallsGoOn
  BY <1>0, <1>2, CloseMoves
<1>3. ASSUME NEW pc, pc # "idle", NEW next,
             task' = [task EXCEPT ![c].pc = pc, ![c].client = next]
      PROVE  CallsGoOn
  <2> DEFINE r == [[task[c] EXCEPT !.pc = pc] EXCEPT !.client = next]
  <2>1. TaskRecord(r) /\ r.pc = pc /\ r.then = task[c].then
    BY <1>0 DEF TaskRecord
  <2>2. task' = [task EXCEPT ![c] = r]
    BY <1>0, <1>3 DEF TaskInv
  <2>. HIDE DEF r
  <2>. QED
    BY <1>0, <1>3, <2>1, <2>2, Moves
<1>4. CASE Select(c) \/ Disconnected(c)
  BY <1>1, <1>4 DEF Select, Disconnected
<1>5. CASE AttemptGone(c) \/ BondReset(c)
  BY <1>2, <1>5 DEF AttemptGone, BondReset
<1>6. CASE Perform(c)
  <2>1. \/ task' = [task EXCEPT ![c].pc = "bond_reset", ![c].client = client]
        \/ Goto(c, "done")
    BY <1>6 DEF Perform, Goto
  <2>. QED
    BY <1>1, <1>3, <2>1
<1>7. CASE Unpair(c) \/ ResetFailed(c)
  BY <1>3, <1>7 DEF Unpair, ResetFailed
<1>8. CASE Forgotten(c)
  BY <1>1, <1>2, <1>8 DEF Forgotten
<1>9. CASE AcquireToClose(c) \/ ClientClosed(c) \/ HistoryCancelled(c)
  BY <1>0, <1>9, SharedMoves
<1>. QED
  BY <1>4, <1>5, <1>6, <1>7, <1>8, <1>9 DEF CallStep

\* A call is made: it moves, and it is the one that was idle.
LEMMA CallMade ==
  ASSUME TaskInv, NEW c \in Calls,
         \/ \E d \in Devices, p \in Supplied : Connect(c, d, p)
         \/ Disconnect(c) \/ Forget(c)
  PROVE  CallsGoOn
<1>0. c \in Tasks /\ TaskRecord(task[c]) /\ task[c].then # "idle"
  BY TaskNames DEF TaskInv
<1>1. ASSUME NEW d \in Devices, NEW p \in Supplied, Connect(c, d, p)
      PROVE  CallsGoOn
  <2> DEFINE r == [task[c] EXCEPT !.kind = "connect", !.dev = d,
                                  !.pass = IF p = NoPasskey THEN registry[d] ELSE p]
             done   == [r EXCEPT !.pc = "done"]
             select == [r EXCEPT !.pc = "select"]
  <2>1. /\ TaskRecord(r) /\ r.then # "idle"
        /\ TaskRecord(done) /\ done.pc = "done" /\ done.then # "idle"
        /\ TaskRecord(select) /\ select.pc = "select" /\ select.then # "idle"
    BY <1>0 DEF TaskRecord
  <2>2. \/ task' = [task EXCEPT ![c] = done]
        \/ task' = [task EXCEPT ![c] = select]
        \/ CancelHistoryAndClose(c, r, "select")
    BY <1>1 DEF Connect
  <2>. HIDE DEF r, done, select
  <2>3. CASE task' = [task EXCEPT ![c] = done]
    BY <1>0, <2>1, <2>3, Moves
  <2>4. CASE task' = [task EXCEPT ![c] = select]
    BY <1>0, <2>1, <2>4, Moves
  <2>5. CASE CancelHistoryAndClose(c, r, "select")
    BY <1>0, <2>1, <2>5, HistoryMoves
  <2>. QED
    BY <2>2, <2>3, <2>4, <2>5
<1>2. CASE Disconnect(c)
  <2> DEFINE r == [task[c] EXCEPT !.kind = "disconnect", !.then = "gone"]
             await == [r EXCEPT !.pc = "await_attempt"]
  <2>1. /\ TaskRecord(r) /\ r.then # "idle"
        /\ TaskRecord(await) /\ await.pc = "await_attempt" /\ await.then # "idle"
    BY <1>0 DEF TaskRecord
  <2>2. \/ task' = [task EXCEPT ![c] = await]
        \/ CancelHistoryAndClose(c, r, "gone")
    BY <1>2 DEF Disconnect
  <2>. HIDE DEF r, await
  <2>3. CASE task' = [task EXCEPT ![c] = await]
    BY <1>0, <2>1, <2>3, Moves
  <2>4. CASE CancelHistoryAndClose(c, r, "gone")
    BY <1>0, <2>1, <2>4, HistoryMoves
  <2>. QED
    BY <2>2, <2>3, <2>4
<1>3. CASE Forget(c)
  <2> DEFINE r == [task[c] EXCEPT !.kind = "forget", !.dev = st.target, !.then = "perform"]
             next == [r EXCEPT !.pc = IF syncing THEN "cancel_history" ELSE "perform"]
  <2>1. TaskRecord(next) /\ next.pc # "idle" /\ next.then # "idle"
    BY <1>0 DEF TaskRecord
  <2>2. task' = [task EXCEPT ![c] = next]
    BY <1>3 DEF Forget
  <2>. HIDE DEF next
  <2>. QED
    BY <1>0, <2>1, <2>2, Moves
<1>. QED
  BY <1>1, <1>2, <1>3

-----------------------------------------------------------------------------
(* The operations.                                                         *)

\* An idle call runs no operation, and whatever runs is the pending one.
OperationInv ==
  /\ TaskInv
  /\ DOMAIN op = Calls /\ pending \in Calls \cup {NoCall}
  /\ OperationsTracked
  /\ \A c \in Calls : task[c].pc = "idle" => op[c] # "RUNNING"

\* What every step but connect does to the operations: nothing, or it ends the
\* pending one.
OperationsKept ==
  \/ UNCHANGED operationVars
  \/ /\ \E state \in {"SUCCEEDED", "FAILED", "CANCELLED"} :
          op' = IF pending = NoCall THEN op ELSE [op EXCEPT ![pending] = state]
     /\ pending' = NoCall

\* What runs stays tracked in such a step.
LEMMA KeptTracked ==
  ASSUME OperationInv, CallsGoOn, OperationsKept
  PROVE  OperationInv'
<1>0. NoCall \notin Calls
  BY DEF OperationInv, TaskInv, DevicesAssumption
<1>1. CASE UNCHANGED operationVars
  BY <1>1 DEF OperationInv, CallsGoOn, OperationsTracked, operationVars
<1>2. CASE ~UNCHANGED operationVars
  <2>1. PICK state \in {"SUCCEEDED", "FAILED", "CANCELLED"} :
          /\ op' = IF pending = NoCall THEN op ELSE [op EXCEPT ![pending] = state]
          /\ pending' = NoCall
    BY <1>2 DEF OperationsKept
  <2>2. \A c \in Calls : op'[c] # "RUNNING"
    BY <1>0, <2>1 DEF OperationInv, OperationsTracked
  <2>3. DOMAIN op' = Calls
    BY <2>1 DEF OperationInv
  <2>. QED
    BY <1>0, <2>1, <2>2, <2>3 DEF OperationInv, CallsGoOn, OperationsTracked
<1>. QED
  BY <1>1, <1>2

\* The manager ends operations when an attempt ends and when a scan fails.
LEMMA ManagerKeeps ==
  ASSUME ManagerStep
  PROVE  OperationsKept
<1>1. ASSUME NEW authentication, HandleFailure(authentication) PROVE OperationsKept
  BY <1>1 DEF HandleFailure, FailPending, OperationsKept
<1>2. ASSUME Commit PROVE OperationsKept
  BY <1>1, <1>2 DEF Commit, OperationsKept
<1>3. CASE ScanFails \/ AttemptEnds \/ BootRead
  BY <1>1, <1>2, <1>3 DEF ScanFails, AttemptEnds, BootRead, OperationsKept
<1>4. CASE ~(ScanFails \/ AttemptEnds \/ BootRead)
  BY <1>4 DEF ManagerStep, ManagerIdle, ManagerReady, ManagerDiscovers,
              ManagerNeedsPasskey, ManagerConnects, ScanReturns, RescanReturns,
              ManagerGone, LostHandled, Wakeup, WakeupTimeout, CheckLink,
              AcquireToClose, ClientClosed, HistoryCancelled, OperationsKept
<1>. QED
  BY <1>3, <1>4

\* Nobody else has to do with them ...
LEMMA OthersKeep ==
  ASSUME \/ AttemptStep \/ LinkDrops \/ NotifyManager \/ HistoryEnds \/ HistoryStarts
         \/ PollAsks \/ PollAnswered \/ PollFails \/ PollReported
         \/ UNCHANGED vars
  PROVE  OperationsKept
  BY DEF AttemptStep, AttemptQueues, AttemptBegins, AttemptPaired, AttemptConnected,
         AttemptAuthenticated, AttemptRead, AttemptFails, AttemptClosed,
         attemptUnchanged, LinkDrops, NotifyManager, HistoryEnds, HistoryStarts,
         PollAsks, PollAnswered, PollFails, PollReported, vars, OperationsKept

\* ... but disconnect, at its end.
LEMMA CallsKeep ==
  ASSUME NEW c \in Calls, CallStep(c) \/ Disconnect(c) \/ Forget(c)
  PROVE  OperationsKept
<1>1. CASE Disconnected(c)
  BY <1>1 DEF Disconnected, OperationsKept
<1>2. CASE ~Disconnected(c)
  BY <1>2 DEF CallStep, Select, AttemptGone, Perform, BondReset, Unpair, Forgotten,
              ResetFailed, AcquireToClose, ClientClosed, HistoryCancelled, Disconnect,
              Forget, OperationsKept
<1>. QED
  BY <1>1, <1>2

\* connect ends the operation it displaces, and is the only one to begin one.
LEMMA ConnectTracked ==
  ASSUME OperationInv, CallsGoOn, NEW c \in Calls, NEW d \in Devices, NEW p \in Supplied,
         Connect(c, d, p)
  PROVE  OperationInv'
<1>0. NoCall \notin Calls /\ task[c].pc = "idle" /\ op[c] # "RUNNING" /\ pending # c
  BY DEF OperationInv, OperationsTracked, TaskInv, DevicesAssumption, Connect, At
<1>1. \A e \in Calls : task'[e].pc = "idle" => task[e].pc = "idle"
  BY DEF CallsGoOn
<1>2. c \in Tasks /\ DOMAIN task = Tasks /\ TaskRecord(task[c])
  BY TaskNames DEF OperationInv, TaskInv
<1> DEFINE credential == IF p = NoPasskey THEN registry[d] ELSE p
           r == [task[c] EXCEPT !.kind = "connect", !.dev = d, !.pass = credential]
<1>3. TaskRecord(r)
  BY <1>2 DEF TaskRecord
<1>4. CASE UNCHANGED operationVars
  BY <1>4, KeptTracked DEF OperationsKept
<1>5. CASE op' = [op EXCEPT ![c] = "SUCCEEDED"] /\ pending' = pending
  BY <1>0, <1>1, <1>5 DEF OperationInv, OperationsTracked, CallsGoOn
<1>6. CASE /\ op' = IF pending = NoCall THEN [op EXCEPT ![c] = "RUNNING"]
                    ELSE [op EXCEPT ![c] = "RUNNING", ![pending] = "CANCELLED"]
           /\ pending' = c
           /\ \/ task' = [task EXCEPT ![c] = [r EXCEPT !.pc = "select"]]
              \/ CancelHistoryAndClose(c, r, "select")
  <2>1. task'[c].pc # "idle"
    <3>. HIDE DEF r
    <3>. QED
      BY <1>2, <1>3, <1>6 DEF CancelHistoryAndClose, CloseClient, TaskRecord
  <2>2. \A e \in Calls : op'[e] = "RUNNING" <=> e = c
    BY <1>0, <1>6 DEF OperationInv, OperationsTracked
  <2>3. DOMAIN op' = Calls
    BY <1>6 DEF OperationInv
  <2>. QED
    BY <1>6, <2>1, <2>2, <2>3 DEF OperationInv, OperationsTracked, CallsGoOn
<1>7. \/ UNCHANGED operationVars
      \/ op' = [op EXCEPT ![c] = "SUCCEEDED"] /\ pending' = pending
      \/ /\ op' = IF pending = NoCall THEN [op EXCEPT ![c] = "RUNNING"]
                  ELSE [op EXCEPT ![c] = "RUNNING", ![pending] = "CANCELLED"]
         /\ pending' = c
         /\ \/ task' = [task EXCEPT ![c] = [r EXCEPT !.pc = "select"]]
            \/ CancelHistoryAndClose(c, r, "select")
  BY DEF Connect
<1>. QED
  BY <1>4, <1>5, <1>6, <1>7

\* README: an operation is polled until its state is terminal.  However calls
\* overlap with one another, with failures and with disconnections, the one that
\* runs is the pending one, which the next outcome ends; DevicesAssumption says
\* that calls, devices and passkeys differ from the names of their absence.
THEOREM OperationsAreTracked ==
  ASSUME DevicesAssumption
  PROVE  Spec => []OperationsTracked
<1>1. Init => OperationInv
  <2> SUFFICES ASSUME Init PROVE OperationInv
    OBVIOUS
  <2>1. NoCall \notin Calls /\ "manager" \notin Calls
    BY DEF DevicesAssumption
  <2>2. \A t \in Tasks :
          task[t] = IF t = "manager" THEN [IdleTask EXCEPT !.pc = "loop"] ELSE IdleTask
    BY DEF Init
  <2>3. DOMAIN task = Tasks /\ DOMAIN op = Calls /\ pending = NoCall
        /\ \A c \in Calls : op[c] = "NONE"
    BY DEF Init
  <2>4. \A t \in Tasks : TaskRecord(task[t]) /\ task[t].then = "done"
    BY <2>2 DEF IdleTask, TaskRecord
  <2>5. TaskInv
    BY <2>3, <2>4, TaskNames DEF TaskInv
  <2>. QED
    BY <2>1, <2>3, <2>5 DEF OperationInv, OperationsTracked
<1>2. OperationInv /\ [Next]_vars => OperationInv'
  <2> SUFFICES ASSUME OperationInv, [Next]_vars PROVE OperationInv'
    OBVIOUS
  <2>1. TaskInv
    BY DEF OperationInv
  <2>2. CASE ManagerStep
    BY <2>1, <2>2, ManagerMoves, ManagerKeeps, KeptTracked
  <2>3. CASE \/ AttemptStep \/ LinkDrops \/ NotifyManager \/ HistoryEnds \/ HistoryStarts
             \/ PollAsks \/ PollAnswered \/ PollFails \/ PollReported
             \/ UNCHANGED vars
    BY <2>1, <2>3, OthersMove, OthersKeep, KeptTracked
  <2>4. ASSUME NEW c \in Calls, CallStep(c) \/ Disconnect(c) \/ Forget(c)
        PROVE  OperationInv'
    BY <2>1, <2>4, CallMoves, CallMade, CallsKeep, KeptTracked
  <2>5. ASSUME NEW c \in Calls, NEW d \in Devices, NEW p \in Supplied, Connect(c, d, p)
        PROVE  OperationInv'
    BY <2>1, <2>5, CallMade, ConnectTracked
  <2>. QED
    BY <2>2, <2>3, <2>4, <2>5 DEF Next
<1>3. OperationInv => OperationsTracked
  BY DEF OperationInv
<1>. QED
  BY <1>1, <1>2, <1>3, PTL DEF Spec

-----------------------------------------------------------------------------
(* The credential registry.  The facts about a process p are relative to    *)
(* the entries e of the file and to the bonds o of the operating system.    *)

\* A rewrite goes from the copy through a synchronised temporary file.
Writes(p) ==
  /\ p.pc \in {"idle", "down", "done"} => p.device = None
  /\ p.pc \in {"connect", "verified", "unpair", "erase"} => p.device \in Owned
  /\ p.pc \notin {"sync", "replace"} => p.temp = None
  /\ p.pc \in {"sync", "replace"} =>
       p.temp \in Registry!Files /\ p.temp.entries = p.updated /\ p.temp.whole
  /\ p.pc = "replace" => p.temp.synced

\* A process that runs knows the file; after the rename its copy is the file.
Remembers(p, e) ==
  /\ p.pc \notin {"down", "done", "remember"} => p.records = e
  /\ p.pc = "remember" => p.updated = e

\* What a rewrite removes has lost the bond of the operating system.
Removes(p, e, o) == Registry!Writing(p) => \A d \in e \ p.updated : o[d] = 0

Orderly(p, e, o) ==
  p \in Registry!Processes /\ Writes(p) /\ Remembers(p, e) /\ Removes(p, e, o)

\* The service and the reset tool do not run at the same time,
Alone ==
  /\ service.process.pc = "down" \/ tool.process.pc \in {"down", "done"}
  /\ service.process.pc # "done"

\* and an entry to be erased is of a device whose bond is gone.
Erasing ==
  service.process.pc = "erase" => os[service.process.device] = 0

RegistryInv ==
  /\ Registry!TypeOK /\ file.whole /\ file.synced /\ Registry!SavedStays
  /\ Orderly(service.process, file.entries, os)
  /\ Orderly(tool.process, file.entries, os)
  /\ Alone /\ Erasing

\* A process that does not run has nothing to do with the file.
LEMMA RestIsOrderly ==
  ASSUME NEW e, NEW o
  PROVE  /\ Orderly(Registry!Stopped, e, o)
         /\ Orderly([Registry!Stopped EXCEPT !.pc = "done"], e, o)
         /\ \A p, f, b : p.pc \in {"down", "done"} /\ Orderly(p, f, b) => Orderly(p, e, o)
  BY DEF Orderly, Writes, Remembers, Removes, Registry!Writing, Registry!Stopped,
         Registry!Processes, Registry!Pcs

\* One that has started knows the file.
LEMMA ReadIsOrderly ==
  ASSUME NEW p, NEW o, Orderly(p, file.entries, o), p.pc = "down",
         file.entries \subseteq Owned
  PROVE  Orderly(Registry!Read(p), file.entries, o) /\ Registry!Read(p).pc = "idle"
  BY DEF Orderly, Writes, Remembers, Removes, Registry!Writing, Registry!Read,
         Registry!Processes, Registry!Pcs

\* Between the rewrites it only changes its place.
Placed(p, pc, d) == [p EXCEPT !.pc = pc, !.device = d]
Between == {"idle", "connect", "verified", "unpair", "erase"}
LEMMA PlaceIsOrderly ==
  ASSUME NEW p, NEW e, NEW o, NEW b, Orderly(p, e, o), p.pc \in Between,
         NEW pc \in Between, NEW d \in Owned \cup {None},
         IF pc = "idle" THEN d = None ELSE d \in Owned
  PROVE  Orderly(Placed(p, pc, d), e, b)
  BY DEF Placed, Between, Orderly, Writes, Remembers, Removes, Registry!Writing,
         Registry!Processes, Registry!Pcs

\* A rewrite begins with a copy that lacks only devices without a bond.
LEMMA RewriteIsOrderly ==
  ASSUME NEW p, NEW e, NEW o, NEW b, Orderly(p, e, o), p.pc \in Between,
         NEW d \in Owned \cup {None}, NEW updated \in SUBSET Owned,
         \A x \in e \ updated : b[x] = 0
  PROVE  /\ Orderly(Registry!Rewrite(p, d, updated), e, b)
         /\ Registry!Rewrite(p, d, updated).pc = "write"
  BY DEF Between, Orderly, Writes, Remembers, Removes, Registry!Writing,
         Registry!Rewrite, Registry!KeptUntilWritten, Registry!Processes, Registry!Pcs

\* One that fails leaves the records of the file.
LEMMA UnwrittenIsOrderly ==
  ASSUME NEW p, NEW e, NEW o, Orderly(p, e, o), Registry!Writing(p)
  PROVE  Orderly(Registry!Unwritten(p), e, o) /\ Registry!Unwritten(p).pc = "idle"
  BY DEF Orderly, Writes, Remembers, Removes, Registry!Writing, Registry!Unwritten,
         Registry!Processes, Registry!Pcs

\* Synchronising changes nothing else.
LEMMA SyncedIs ==
  ASSUME NEW t \in Registry!Files
  PROVE  /\ Registry!Synced(t) \in Registry!Files /\ Registry!Synced(t).synced
         /\ Registry!Synced(t).entries = t.entries /\ (t.whole => Registry!Synced(t).whole)
  BY DEF Registry!Synced, Registry!Files

\* Its steps, of which the rename makes the copy the file.
LEMMA AdvanceIsOrderly ==
  ASSUME NEW p, NEW e, NEW o, Orderly(p, e, o),
         p.pc \in {"write", "sync", "replace", "remember"}
  PROVE  /\ Orderly(Registry!Advanced(p), IF p.pc = "replace" THEN p.updated ELSE e, o)
         /\ Registry!Advanced(p).pc \in {"sync", "replace", "remember", "idle"}
         /\ p.pc = "replace" =>
              /\ p.temp \in Registry!Files /\ p.temp.entries = p.updated
              /\ p.temp.whole /\ p.temp.synced
<1> USE DEF Orderly, Writes, Remembers, Removes, Registry!Writing, Registry!Advanced,
            Registry!Processes, Registry!Pcs
<1>1. CASE p.pc = "write"
  <2> DEFINE temp == [entries |-> p.updated, synced |-> FALSE, whole |-> TRUE]
  <2>1. temp \in Registry!Files /\ temp.entries = p.updated /\ temp.whole
    BY DEF Registry!Files
  <2> HIDE DEF temp
  <2>2. Registry!Advanced(p) = [p EXCEPT !.pc = "sync", !.temp = temp]
    BY <1>1 DEF Registry!WriteTemp, temp
  <2> QED
    BY <1>1, <2>1, <2>2
<1>2. CASE p.pc = "sync"
  <2>1. p.temp \in Registry!Files /\ p.temp.entries = p.updated /\ p.temp.whole
    BY <1>2
  <2> DEFINE temp == Registry!Synced(p.temp)
  <2>2. /\ temp \in Registry!Files /\ temp.synced
        /\ temp.entries = p.updated /\ temp.whole
    BY <2>1, SyncedIs
  <2>3. Registry!Advanced(p) = [p EXCEPT !.pc = "replace", !.temp = temp]
    BY <1>2 DEF Registry!SyncTemp
  <2> HIDE DEF temp
  <2> QED
    BY <1>2, <2>2, <2>3
<1>3. CASE p.pc = "replace"
  BY <1>3 DEF Registry!Replaced
<1>4. CASE p.pc = "remember"
  BY <1>4 DEF Registry!Remembered
<1> QED
  BY <1>1, <1>2, <1>3, <1>4

\* In the beginning nothing is stored and nothing runs.
LEMMA RegistryBegins == Registry!Init => RegistryInv
<1> SUFFICES ASSUME Registry!Init PROVE RegistryInv
  OBVIOUS
<1>1. service.process = Registry!Stopped /\ tool.process = Registry!Stopped
  BY DEF Registry!Init
<1>2. Registry!Stopped.pc = "down"
  BY DEF Registry!Stopped
<1>3. \A e, o : Orderly(Registry!Stopped, e, o)
  BY RestIsOrderly
<1>4. Registry!Stopped \in Registry!Processes
  BY <1>3 DEF Orderly
<1>5. Registry!TypeOK
  <2>1. 0 \in 0..MaxKeys /\ 0 \in 0..MaxDisturbances
    BY RegistryAssumption DEF Registry!EnrollmentAssumption
  <2>2. Registry!Stopped.device = None /\ Registry!Stopped.temp = None
    BY DEF Registry!Stopped
  <2> QED
    BY <1>1, <1>4, <2>1, <2>2 DEF Registry!Init, Registry!TypeOK, Registry!Files
<1>6. file.whole /\ file.synced /\ Registry!SavedStays
  BY DEF Registry!Init, Registry!SavedStays
<1> QED
  BY <1>1, <1>2, <1>3, <1>5, <1>6 DEF RegistryInv, Alone, Erasing

\* What a step of a running service or tool leaves alone
LEMMA StoreRests ==
  ASSUME RegistryInv, UNCHANGED <<file, disk, promised, disturbances, powerLost>>,
         esp' \in [Owned -> 0..MaxKeys], os' \in [Owned -> 0..MaxKeys], keys' \in 0..MaxKeys,
         service' \in [process : Registry!Processes, verified : Owned \cup {None}],
         tool' \in [process : Registry!Processes, todo : SUBSET Owned, failed : BOOLEAN],
         Orderly(service'.process, file.entries, os'),
         Orderly(tool'.process, file.entries, os'),
         Alone', Erasing'
  PROVE  RegistryInv'
<1>1. Registry!SavedStays'
  BY DEF RegistryInv, Registry!SavedStays
<1>2. \A p : Writes(p) /\ p.pc \in {"idle", "down", "done"} => p.device = None /\ p.temp = None
  BY DEF Writes
<1>3. \A p \in {service'.process, tool'.process} :
        p.pc \in {"idle", "down", "done"} => p.device = None /\ p.temp = None
  BY <1>2 DEF Orderly
<1>4. Registry!TypeOK'
  BY <1>3 DEF RegistryInv, Registry!TypeOK
<1> QED
  BY <1>1, <1>4 DEF RegistryInv

\* The service starts, when the tool is not running.
LEMMA StartKeeps ==
  ASSUME RegistryInv, Registry!StartService \/ Registry!StartTool
  PROVE  RegistryInv'
<1> DEFINE S == service.process
           T == tool.process
<1>1. /\ file.entries \subseteq Owned
      /\ Orderly(S, file.entries, os) /\ Orderly(T, file.entries, os)
      /\ S \in Registry!Processes /\ T \in Registry!Processes
  BY DEF RegistryInv, Orderly, Registry!TypeOK, Registry!Files
<1>2. \A e, o : /\ Orderly(Registry!Stopped, e, o)
                /\ Registry!Stopped \in Registry!Processes /\ Registry!Stopped.pc = "down"
  BY RestIsOrderly DEF Orderly, Registry!Stopped
<1>3. CASE Registry!StartService
  <2>1. S.pc = "down"
    BY <1>3 DEF Registry!StartService
  <2>2. /\ service' = [process |-> Registry!Read(S), verified |-> None]
        /\ tool' = [process |-> Registry!Stopped, todo |-> {}, failed |-> FALSE]
        /\ UNCHANGED <<esp, os, keys, file, disk, promised, disturbances, powerLost>>
    BY <1>3 DEF Registry!StartService, Registry!bonds, Registry!store
  <2>3. Orderly(Registry!Read(S), file.entries, os) /\ Registry!Read(S).pc = "idle"
    BY <1>1, <2>1, ReadIsOrderly
  <2>4. Registry!Read(S) \in Registry!Processes
    BY <2>3 DEF Orderly
  <2>5. Alone' /\ Erasing'
    BY <1>2, <2>2, <2>3 DEF Alone, Erasing
  <2> QED
    BY <1>2, <2>2, <2>3, <2>4, <2>5, StoreRests DEF RegistryInv, Registry!TypeOK
<1>4. CASE Registry!StartTool
  <2>1. S.pc = "down" /\ T.pc = "down"
    BY <1>4 DEF Registry!StartTool
  <2>2. /\ tool' = [process |-> Registry!Read(T), todo |-> file.entries, failed |-> FALSE]
        /\ UNCHANGED <<service, esp, os, keys, file, disk, promised, disturbances, powerLost>>
    BY <1>4 DEF Registry!StartTool, Registry!bonds, Registry!store
  <2>3. Orderly(Registry!Read(T), file.entries, os)
    BY <1>1, <2>1, ReadIsOrderly
  <2>4. Registry!Read(T) \in Registry!Processes
    BY <2>3 DEF Orderly
  <2>5. Alone' /\ Erasing'
    BY <2>1, <2>2 DEF Alone, Erasing
  <2> QED
    BY <1>1, <2>2, <2>3, <2>4, <2>5, StoreRests DEF RegistryInv, Registry!TypeOK
<1> QED
  BY <1>3, <1>4

\* What a bond that goes has no one waiting for
LEMMA FewerBonds ==
  ASSUME NEW p, NEW e \in SUBSET Owned, NEW o, NEW b, Orderly(p, e, o),
         \A d \in Owned : o[d] = 0 => b[d] = 0
  PROVE  Orderly(p, e, b)
  BY DEF Orderly, Writes, Remembers, Removes

\* Where the service and the tool are.
LEMMA ServePlaces ==
  ASSUME service \in [process : Registry!Processes, verified : Owned \cup {None}],
         NEW pc \in Registry!Pcs, NEW d \in Owned \cup {None}
  PROVE  /\ Registry!Serve(pc, d).process = Placed(service.process, pc, d)
         /\ Registry!Serve(pc, d) \in [process : Registry!Processes, verified : Owned \cup {None}]
  BY DEF Placed, Registry!Serve, Registry!Processes

\* The steps of a service between two rewrites: what they need and leave.
LEMMA ServiceGoesOn ==
  ASSUME RegistryInv, service.process.pc \in Between,
         NEW pc \in Between, NEW d \in Owned \cup {None},
         IF pc = "idle" THEN d = None ELSE d \in Owned,
         NEW v \in Owned \cup {None},
         \/ service' = Registry!Serve(pc, d)
         \/ service' = [Registry!Serve(pc, d) EXCEPT !.verified = v],
         os' \in [Owned -> 0..MaxKeys], pc = "erase" => os'[d] = 0,
         esp' \in [Owned -> 0..MaxKeys], keys' \in 0..MaxKeys,
         UNCHANGED <<tool, file, disk, promised, disturbances, powerLost>>
  PROVE  RegistryInv'
<1>1. /\ service \in [process : Registry!Processes, verified : Owned \cup {None}]
      /\ tool \in [process : Registry!Processes, todo : SUBSET Owned, failed : BOOLEAN]
      /\ Orderly(service.process, file.entries, os)
      /\ Orderly(tool.process, file.entries, os)
  BY DEF RegistryInv, Registry!TypeOK
<1>2. pc \in Registry!Pcs
  BY DEF Between, Registry!Pcs
<1>3. /\ service'.process = Placed(service.process, pc, d)
      /\ service' \in [process : Registry!Processes, verified : Owned \cup {None}]
  <2> DEFINE next == Registry!Serve(pc, d)
  <2>1. /\ next.process = Placed(service.process, pc, d)
        /\ next \in [process : Registry!Processes, verified : Owned \cup {None}]
    BY <1>1, <1>2, ServePlaces
  <2>2. service' = next \/ service' = [next EXCEPT !.verified = v]
    OBVIOUS
  <2> HIDE DEF next
  <2> QED
    BY <2>1, <2>2
<1>4. Orderly(service'.process, file.entries, os')
  <2>1. Orderly(Placed(service.process, pc, d), file.entries, os')
    BY <1>1, PlaceIsOrderly
  <2> QED
    BY <1>3, <2>1
<1>5. tool.process.pc \in {"down", "done"}
  BY DEF RegistryInv, Alone, Between
<1>6. Orderly(tool'.process, file.entries, os')
  BY <1>1, <1>5, RestIsOrderly
<1>8. service'.process.pc = pc /\ service'.process.device = d
  BY <1>1, <1>3 DEF Placed, Registry!Processes
<1>7. Alone'
  BY <1>5, <1>8 DEF Alone, Between
<1>9. Erasing'
  BY <1>8 DEF Erasing
<1> QED
  BY <1>1, <1>3, <1>4, <1>6, <1>7, <1>9, StoreRests

\* Pairing, connecting and removing the bonds.
LEMMA PairKeeps ==
  ASSUME RegistryInv, NEW d \in Owned, Registry!Pair(d)
  PROVE  RegistryInv'
<1>1. /\ service.process.pc = "idle" /\ service.process.pc \in Between
      /\ UNCHANGED <<tool, file, disk, promised, disturbances, powerLost>>
  BY DEF Registry!Pair, Registry!store, Between
<1>2. /\ esp \in [Owned -> 0..MaxKeys] /\ os \in [Owned -> 0..MaxKeys] /\ keys \in 0..MaxKeys
      /\ MaxKeys \in Nat
  BY RegistryAssumption DEF RegistryInv, Registry!TypeOK, Registry!EnrollmentAssumption
<1>3. \/ service' = [Registry!Serve("connect", d) EXCEPT !.verified = d] /\ UNCHANGED <<esp, os, keys>>
      \/ /\ keys < MaxKeys /\ keys' = keys + 1 /\ esp' = [esp EXCEPT ![d] = keys + 1]
         /\ \/ /\ os' = [os EXCEPT ![d] = keys + 1]
               /\ service' = [Registry!Serve("connect", d) EXCEPT !.verified = d]
            \/ UNCHANGED <<os, service>>
  BY DEF Registry!Pair, Registry!bonds
<1>4. /\ esp' \in [Owned -> 0..MaxKeys] /\ os' \in [Owned -> 0..MaxKeys] /\ keys' \in 0..MaxKeys
  BY <1>2, <1>3
<1>5. CASE service' = [Registry!Serve("connect", d) EXCEPT !.verified = d]
  BY <1>1, <1>4, <1>5, ServiceGoesOn DEF Between
<1>6. CASE UNCHANGED <<os, service>>
  BY <1>1, <1>4, <1>6, StoreRests DEF RegistryInv, Registry!TypeOK, Alone, Erasing
<1> QED
  BY <1>3, <1>5, <1>6

LEMMA ConnectKeeps ==
  ASSUME RegistryInv, Registry!Connect
  PROVE  RegistryInv'
<1> DEFINE d == service.process.device
<1>1. /\ service.process.pc = "connect" /\ service.process.pc \in Between
      /\ UNCHANGED <<tool, esp, os, keys, file, disk, promised, disturbances, powerLost>>
      /\ service' = Registry!Serve("verified", d) \/ service' = Registry!Serve("idle", None)
  BY DEF Registry!Connect, Registry!Give, Registry!store, Registry!bonds, Between
<1>2. d \in Owned /\ d \in Owned \cup {None} /\ None \in Owned \cup {None}
  BY <1>1 DEF RegistryInv, Orderly, Writes
<1>3. esp \in [Owned -> 0..MaxKeys] /\ os \in [Owned -> 0..MaxKeys] /\ keys \in 0..MaxKeys
  BY DEF RegistryInv, Registry!TypeOK
<1>4. "verified" \in Between /\ "idle" \in Between
  BY DEF Between
<1> HIDE DEF d
<1> QED
  BY <1>1, <1>2, <1>3, <1>4, ServiceGoesOn

LEMMA ForgetKeeps ==
  ASSUME RegistryInv, Registry!ForgetOs \/ \E d \in Owned : Registry!ForgetEsp(d)
  PROVE  RegistryInv'
<1>1. /\ esp \in [Owned -> 0..MaxKeys] /\ os \in [Owned -> 0..MaxKeys] /\ keys \in 0..MaxKeys
      /\ 0 \in 0..MaxKeys
  BY RegistryAssumption DEF RegistryInv, Registry!TypeOK, Registry!EnrollmentAssumption
<1>2. None \in Owned \cup {None}
  OBVIOUS
<1>3. "unpair" \in Between /\ "erase" \in Between /\ "idle" \in Between
  BY DEF Between
<1>4. CASE Registry!ForgetOs
  <2> DEFINE d == service.process.device
  <2>1. /\ service.process.pc \in Between
        /\ d \in Owned /\ d \in Owned \cup {None}
        /\ UNCHANGED <<tool, esp, keys, file, disk, promised, disturbances, powerLost>>
        /\ \/ os' = [os EXCEPT ![d] = 0] /\ service' = Registry!Serve("erase", d)
           \/ os' = os /\ service' = Registry!Serve("idle", None)
    BY <1>4 DEF Registry!ForgetOs, Registry!Give, Registry!store, Between, RegistryInv,
                Orderly, Writes
  <2>2. os' \in [Owned -> 0..MaxKeys]
    BY <1>1, <2>1
  <2> HIDE DEF d
  <2>3. CASE os' = [os EXCEPT ![d] = 0] /\ service' = Registry!Serve("erase", d)
    <3>1. os'[d] = 0
      BY <1>1, <2>1, <2>3
    <3> QED
      BY <1>1, <1>2, <1>3, <2>1, <2>2, <2>3, <3>1, ServiceGoesOn DEF d
  <2>4. CASE os' = os /\ service' = Registry!Serve("idle", None)
    BY <1>1, <1>2, <1>3, <2>1, <2>2, <2>4, ServiceGoesOn
  <2> QED
    BY <2>1, <2>3, <2>4
<1>5. ASSUME NEW d \in Owned, Registry!ForgetEsp(d) PROVE RegistryInv'
  <2>1. /\ service.process.pc \in Between
        /\ UNCHANGED <<tool, os, keys, file, disk, promised, disturbances, powerLost>>
        /\ esp' = [esp EXCEPT ![d] = 0]
        /\ service' = [Registry!Serve("unpair", d) EXCEPT !.verified = None]
    BY <1>5 DEF Registry!ForgetEsp, Registry!store, Between
  <2>2. esp' \in [Owned -> 0..MaxKeys]
    BY <1>1, <2>1
  <2> QED
    BY <1>1, <1>2, <1>3, <2>1, <2>2, ServiceGoesOn
<1> QED
  BY <1>4, <1>5

\* Beginning and giving up a rewrite leave the file alone.
LEMMA ServiceRewrites ==
  ASSUME RegistryInv, Registry!Save \/ Registry!ForgetEntry \/ Registry!ServiceWriteFails
  PROVE  RegistryInv'
<1> DEFINE S == service.process
           d == S.device
<1>1. /\ service \in [process : Registry!Processes, verified : Owned \cup {None}]
      /\ tool \in [process : Registry!Processes, todo : SUBSET Owned, failed : BOOLEAN]
      /\ Orderly(S, file.entries, os) /\ Orderly(tool.process, file.entries, os)
      /\ esp \in [Owned -> 0..MaxKeys] /\ os \in [Owned -> 0..MaxKeys] /\ keys \in 0..MaxKeys
      /\ file.entries \subseteq Owned
  BY DEF RegistryInv, Registry!TypeOK, Registry!Files
<1>2. /\ S.records \subseteq Owned /\ d \in Owned \cup {None} /\ None \in Owned \cup {None}
      /\ S.pc \in {"verified", "erase"} => S.records = file.entries
  BY <1>1 DEF Registry!Processes, Orderly, Remembers
<1>3. /\ UNCHANGED <<tool, esp, os, keys, file, disk, promised, disturbances, powerLost>>
      /\ S.pc # "down"
  BY DEF Registry!Save, Registry!ForgetEntry, Registry!ServiceWriteFails, Registry!bonds,
         Registry!store, Registry!Writing
<1>4. tool.process.pc \in {"down", "done"}
  BY <1>3 DEF RegistryInv, Alone
<1>5. ASSUME NEW q, service' = [service EXCEPT !.process = q],
             Orderly(q, file.entries, os), q.pc \in {"write", "idle"}
      PROVE  RegistryInv'
  <2>1. q \in Registry!Processes
    BY <1>5 DEF Orderly
  <2>2. /\ service'.process = q
        /\ service' \in [process : Registry!Processes, verified : Owned \cup {None}]
    BY <1>1, <1>5, <2>1
  <2>3. Orderly(service'.process, file.entries, os') /\ Orderly(tool'.process, file.entries, os')
    BY <1>1, <1>3, <1>5, <2>2
  <2>4. Alone' /\ Erasing'
    BY <1>3, <1>4, <1>5, <2>2 DEF Alone, Erasing
  <2> QED
    BY <1>1, <1>3, <2>2, <2>3, <2>4, StoreRests
<1>6. CASE Registry!Save
  <2> DEFINE updated == Registry!Merged(S.records, d)
  <2>1. S.pc = "verified" /\ service' = [service EXCEPT !.process = Registry!Rewrite(S, d, updated)]
    BY <1>6 DEF Registry!Save
  <2>2. d \in Owned
    BY <1>1, <2>1 DEF Orderly, Writes
  <2>3. updated \in SUBSET Owned /\ \A x \in file.entries \ updated : os[x] = 0
    BY <1>2, <2>1, <2>2 DEF Registry!Merged
  <2> HIDE DEF updated
  <2>4. /\ Orderly(Registry!Rewrite(S, d, updated), file.entries, os)
        /\ Registry!Rewrite(S, d, updated).pc = "write"
    BY <1>1, <1>2, <2>1, <2>3, RewriteIsOrderly DEF Between
  <2> QED
    BY <1>5, <2>1, <2>4
<1>7. CASE Registry!ForgetEntry
  <2> DEFINE updated == S.records \ {d}
  <2>1. S.pc = "erase"
    BY <1>7 DEF Registry!ForgetEntry
  <2>2. CASE service' = [service EXCEPT !.process = Registry!Rewrite(S, d, updated)]
    <3>1. updated \in SUBSET Owned /\ \A x \in file.entries \ updated : os[x] = 0
      BY <1>2, <2>1 DEF RegistryInv, Erasing
    <3> HIDE DEF updated
    <3>2. /\ Orderly(Registry!Rewrite(S, d, updated), file.entries, os)
          /\ Registry!Rewrite(S, d, updated).pc = "write"
      BY <1>1, <1>2, <2>1, <3>1, RewriteIsOrderly DEF Between
    <3> QED
      BY <1>5, <2>2, <3>2
  <2>3. CASE service' = Registry!Serve("idle", None)
    <3>1. S.pc \in Between /\ "idle" \in Between
      BY <2>1 DEF Between
    <3> QED
      BY <1>1, <1>2, <1>3, <2>3, <3>1, ServiceGoesOn
  <2> QED
    BY <1>7, <2>2, <2>3 DEF Registry!ForgetEntry
<1>8. CASE Registry!ServiceWriteFails
  <2>1. /\ service' = [service EXCEPT !.process = Registry!Unwritten(S)]
        /\ Registry!Writing(S)
    BY <1>8 DEF Registry!ServiceWriteFails
  <2>2. Orderly(Registry!Unwritten(S), file.entries, os) /\ Registry!Unwritten(S).pc = "idle"
    BY <1>1, <2>1, UnwrittenIsOrderly
  <2> QED
    BY <1>5, <2>1, <2>2
<1> QED
  BY <1>6, <1>7, <1>8

\* A step of a rewrite: its rename leaves a whole file that has all that was
\* promised.
LEMMA FileMoves ==
  ASSUME RegistryInv, NEW p, Orderly(p, file.entries, os), Registry!RegistryStep(p)
  PROVE  /\ p.pc \in {"write", "sync", "replace", "remember"}
         /\ file' \in Registry!Files /\ file'.whole /\ file'.synced
         /\ disk' \subseteq Owned /\ promised' \subseteq Owned
         /\ ~powerLost => promised' \subseteq file'.entries
         /\ Orderly(Registry!Advanced(p), file'.entries, os)
         /\ Registry!Advanced(p).pc \in {"sync", "replace", "remember", "idle"}
<1>1. /\ p.pc \in {"write", "sync", "replace", "remember"}
      /\ p.updated \subseteq Owned /\ file \in Registry!Files /\ file.whole /\ file.synced
      /\ disk \subseteq Owned /\ promised \subseteq Owned
      /\ ~powerLost => promised \subseteq file.entries
      /\ p.pc = "remember" => p.updated = file.entries
  BY DEF Registry!RegistryStep, RegistryInv, Registry!TypeOK, Registry!SavedStays, Orderly,
         Remembers, Registry!Processes
<1>2. /\ Orderly(Registry!Advanced(p), IF p.pc = "replace" THEN p.updated ELSE file.entries, os)
      /\ Registry!Advanced(p).pc \in {"sync", "replace", "remember", "idle"}
      /\ p.pc = "replace" =>
           /\ p.temp \in Registry!Files /\ p.temp.entries = p.updated
           /\ p.temp.whole /\ p.temp.synced
  BY <1>1, AdvanceIsOrderly
<1>3. CASE p.pc \in {"write", "sync"}
  <2>1. UNCHANGED <<file, disk, promised>>
    BY <1>3 DEF Registry!RegistryStep, Registry!store
  <2> QED
    BY <1>1, <1>2, <1>3, <2>1
<1>4. CASE p.pc = "replace"
  <2>1. file' = p.temp /\ disk' = disk /\ promised' = promised \cap p.updated
    BY <1>4 DEF Registry!RegistryStep
  <2> QED
    BY <1>1, <1>2, <1>4, <2>1
<1>5. CASE p.pc = "remember"
  <2>1. promised' = promised \cup p.updated /\ UNCHANGED <<file, disk>>
    BY <1>5 DEF Registry!RegistryStep
  <2> QED
    BY <1>1, <1>2, <1>5, <2>1
<1> QED
  BY <1>1, <1>3, <1>4, <1>5

\* The steps of a rewrite by the service or by the tool
LEMMA WritesKeep ==
  ASSUME RegistryInv, Registry!ServiceWrites \/ Registry!ToolWrites
  PROVE  RegistryInv'
<1> DEFINE S == service.process
           T == tool.process
<1>1. /\ service \in [process : Registry!Processes, verified : Owned \cup {None}]
      /\ tool \in [process : Registry!Processes, todo : SUBSET Owned, failed : BOOLEAN]
      /\ Orderly(S, file.entries, os) /\ Orderly(T, file.entries, os)
      /\ esp \in [Owned -> 0..MaxKeys] /\ os \in [Owned -> 0..MaxKeys] /\ keys \in 0..MaxKeys
      /\ disturbances \in 0..MaxDisturbances /\ powerLost \in BOOLEAN
  BY DEF RegistryInv, Registry!TypeOK
<1>2. UNCHANGED <<esp, os, keys, disturbances, powerLost>>
  BY DEF Registry!ServiceWrites, Registry!ToolWrites, Registry!bonds
<1>3. ASSUME file' \in Registry!Files, file'.whole, file'.synced,
             disk' \subseteq Owned, promised' \subseteq Owned,
             ~powerLost => promised' \subseteq file'.entries,
             service' \in [process : Registry!Processes, verified : Owned \cup {None}],
             tool' \in [process : Registry!Processes, todo : SUBSET Owned, failed : BOOLEAN],
             Orderly(service'.process, file'.entries, os),
             Orderly(tool'.process, file'.entries, os),
             service'.process.pc # "erase", Alone'
      PROVE  RegistryInv'
  <2>1. \A p : Writes(p) /\ p.pc \in {"idle", "down", "done"} => p.device = None /\ p.temp = None
    BY DEF Writes
  <2>2. \A p \in {service'.process, tool'.process} :
          p.pc \in {"idle", "down", "done"} => p.device = None /\ p.temp = None
    BY <1>3, <2>1 DEF Orderly
  <2>3. Registry!TypeOK'
    BY <1>1, <1>2, <1>3, <2>2 DEF Registry!TypeOK
  <2>4. Registry!SavedStays' /\ Erasing'
    BY <1>2, <1>3 DEF Registry!SavedStays, Erasing
  <2> QED
    BY <1>2, <1>3, <2>3, <2>4 DEF RegistryInv
<1>4. CASE Registry!ServiceWrites
  <2> DEFINE q == Registry!Advanced(S)
  <2>1. /\ Registry!RegistryStep(S) /\ tool' = tool
        /\ service' = [service EXCEPT !.process = q]
    BY <1>4 DEF Registry!ServiceWrites
  <2>2. /\ S.pc \in {"write", "sync", "replace", "remember"}
        /\ file' \in Registry!Files /\ file'.whole /\ file'.synced
        /\ disk' \subseteq Owned /\ promised' \subseteq Owned
        /\ ~powerLost => promised' \subseteq file'.entries
        /\ Orderly(q, file'.entries, os)
        /\ q.pc \in {"sync", "replace", "remember", "idle"}
    BY <1>1, <2>1, FileMoves
  <2> HIDE DEF q
  <2>3. T.pc \in {"down", "done"}
    BY <2>2 DEF RegistryInv, Alone
  <2>4. q \in Registry!Processes
    BY <2>2 DEF Orderly
  <2>5. /\ service'.process = q
        /\ service' \in [process : Registry!Processes, verified : Owned \cup {None}]
    BY <1>1, <2>1, <2>4
  <2>6. Orderly(T, file'.entries, os)
    BY <1>1, <2>3, RestIsOrderly
  <2>7. Alone'
    BY <2>1, <2>2, <2>3, <2>5 DEF Alone
  <2> QED
    BY <1>1, <1>3, <2>1, <2>2, <2>5, <2>6, <2>7
<1>5. CASE Registry!ToolWrites
  <2> DEFINE q == Registry!Advanced(T)
  <2>1. /\ Registry!RegistryStep(T) /\ service' = service
        /\ tool' = [tool EXCEPT !.process = q]
    BY <1>5 DEF Registry!ToolWrites
  <2>2. /\ T.pc \in {"write", "sync", "replace", "remember"}
        /\ file' \in Registry!Files /\ file'.whole /\ file'.synced
        /\ disk' \subseteq Owned /\ promised' \subseteq Owned
        /\ ~powerLost => promised' \subseteq file'.entries
        /\ Orderly(q, file'.entries, os)
        /\ q.pc \in {"sync", "replace", "remember", "idle"}
    BY <1>1, <2>1, FileMoves
  <2> HIDE DEF q
  <2>3. S.pc = "down"
    BY <2>2 DEF RegistryInv, Alone
  <2>4. q \in Registry!Processes
    BY <2>2 DEF Orderly
  <2>5. /\ tool'.process = q
        /\ tool' \in [process : Registry!Processes, todo : SUBSET Owned, failed : BOOLEAN]
    BY <1>1, <2>1, <2>4
  <2>6. Orderly(S, file'.entries, os)
    BY <1>1, <2>3, RestIsOrderly
  <2>7. Alone'
    BY <2>1, <2>3 DEF Alone
  <2> QED
    BY <1>1, <1>3, <2>1, <2>2, <2>3, <2>5, <2>6, <2>7
<1> QED
  BY <1>4, <1>5

\* Between its rewrites the tool removes bonds, fails, and ends.
LEMMA ToolKeeps ==
  ASSUME RegistryInv,
         Registry!ToolWriteFails \/ Registry!ToolEnds \/ \E d \in Owned : Registry!ToolRemoves(d)
  PROVE  RegistryInv'
<1> DEFINE T == tool.process
           Over == [Registry!Stopped EXCEPT !.pc = "done"]
<1>1. /\ service \in [process : Registry!Processes, verified : Owned \cup {None}]
      /\ tool \in [process : Registry!Processes, todo : SUBSET Owned, failed : BOOLEAN]
      /\ Orderly(service.process, file.entries, os) /\ Orderly(T, file.entries, os)
      /\ esp \in [Owned -> 0..MaxKeys] /\ os \in [Owned -> 0..MaxKeys] /\ keys \in 0..MaxKeys
      /\ 0 \in 0..MaxKeys /\ file.entries \subseteq Owned
  BY RegistryAssumption
  DEF RegistryInv, Registry!TypeOK, Registry!Files, Registry!EnrollmentAssumption
<1>2. /\ UNCHANGED <<service, esp, keys, file, disk, promised, disturbances, powerLost>>
      /\ T.pc \notin {"down", "done"}
  <2>1. CASE Registry!ToolWriteFails \/ Registry!ToolEnds
    BY <2>1 DEF Registry!ToolWriteFails, Registry!ToolEnds, Registry!bonds, Registry!store,
                Registry!Writing
  <2>2. ASSUME NEW d \in Owned, Registry!ToolRemoves(d)
        PROVE  /\ UNCHANGED <<service, esp, keys, file, disk, promised, disturbances, powerLost>>
               /\ T.pc = "idle"
    BY Zenon, <2>2 DEF Registry!ToolRemoves, Registry!store
  <2> QED
    BY <2>1, <2>2
<1>3. service.process.pc = "down"
  BY <1>2 DEF RegistryInv, Alone
<1>4. \A e, o : Orderly(service.process, e, o)
  BY <1>1, <1>3, RestIsOrderly
<1>5. ASSUME tool' \in [process : Registry!Processes, todo : SUBSET Owned, failed : BOOLEAN],
             os' \in [Owned -> 0..MaxKeys], Orderly(tool'.process, file.entries, os')
      PROVE  RegistryInv'
  <2>1. Alone' /\ Erasing'
    BY <1>2, <1>3 DEF Alone, Erasing
  <2> QED
    BY <1>1, <1>2, <1>4, <1>5, <2>1, StoreRests
<1>6. Orderly(Over, file.entries, os) /\ Over \in Registry!Processes
  BY RestIsOrderly DEF Orderly
<1>7. CASE Registry!ToolWriteFails
  <2>1. tool' = [process |-> Over, todo |-> {}, failed |-> TRUE] /\ os' = os
    BY <1>7 DEF Registry!ToolWriteFails, Registry!bonds
  <2> HIDE DEF Over
  <2> QED
    BY <1>1, <1>5, <1>6, <2>1
<1>8. CASE Registry!ToolEnds
  <2>1. tool' = [tool EXCEPT !.process = Over] /\ os' = os
    BY <1>8 DEF Registry!ToolEnds, Registry!bonds
  <2> HIDE DEF Over
  <2> QED
    BY <1>1, <1>5, <1>6, <2>1
<1>9. ASSUME NEW d \in Owned, Registry!ToolRemoves(d) PROVE RegistryInv'
  <2> DEFINE updated == T.records \ {d}
             q == Registry!Rewrite(T, d, updated)
  <2>1. T.pc = "idle" /\ T.records = file.entries
    <3>1. T.pc = "idle"
      BY Zenon, <1>9 DEF Registry!ToolRemoves
    <3> QED
      BY <1>1, <3>1 DEF Orderly, Remembers
  <2>2. CASE /\ os' = [os EXCEPT ![d] = 0]
             /\ tool' = [tool EXCEPT !.todo = @ \ {d}, !.process = q]
    <3>1. os' \in [Owned -> 0..MaxKeys] /\ os'[d] = 0
      BY <1>1, <2>2
    <3>2. updated \in SUBSET Owned /\ \A x \in file.entries \ updated : os'[x] = 0
      BY <1>1, <2>1, <3>1
    <3> HIDE DEF updated
    <3>3. Orderly(q, file.entries, os')
      BY <1>1, <2>1, <3>2, RewriteIsOrderly DEF Between
    <3>4. q \in Registry!Processes
      BY <3>3 DEF Orderly
    <3> HIDE DEF q
    <3>5. /\ tool' \in [process : Registry!Processes, todo : SUBSET Owned, failed : BOOLEAN]
          /\ tool'.process = q
      BY <1>1, <2>2, <3>4
    <3> QED
      BY <1>5, <3>1, <3>3, <3>5
  <2>3. CASE tool' = [tool EXCEPT !.todo = @ \ {d}, !.failed = TRUE] /\ os' = os
    <3>1. /\ tool' \in [process : Registry!Processes, todo : SUBSET Owned, failed : BOOLEAN]
          /\ tool'.process = T
      BY <1>1, <2>3
    <3> QED
      BY <1>1, <1>5, <2>3, <3>1
  <2> QED
    BY Zenon, <1>9, <2>2, <2>3 DEF Registry!ToolRemoves, Registry!RemoveBond
<1> QED
  BY <1>7, <1>8, <1>9

\* Both processes end, wherever they are, and a power loss undoes or tears no
\* more than a rename that was not written.
LEMMA StopsKeep ==
  ASSUME RegistryInv, Registry!Crash \/ Registry!StopService \/ Registry!PowerLoss
  PROVE  RegistryInv'
<1> DEFINE Z == Registry!Stopped
<1>1. \A e, o : Orderly(Z, e, o)
  BY RestIsOrderly
<1>2. /\ Z \in Registry!Processes /\ Z.pc = "down" /\ Z.device = None /\ Z.temp = None
  BY <1>1 DEF Orderly, Registry!Stopped
<1> HIDE DEF Z
<1>3. /\ service' = [process |-> Z, verified |-> None]
      /\ tool' = [process |-> Z, todo |-> {}, failed |-> FALSE]
      /\ UNCHANGED <<esp, os, keys, promised>>
  BY DEF Registry!Crash, Registry!StopService, Registry!PowerLoss, Registry!BothStopped,
         Registry!bonds, Registry!store, Z
<1>4. disturbances' \in 0..MaxDisturbances
  BY RegistryAssumption
  DEF RegistryInv, Registry!TypeOK, Registry!Crash, Registry!StopService, Registry!PowerLoss,
      Registry!Fault, Registry!EnrollmentAssumption
<1>5. file \in Registry!Files /\ file.whole /\ file.synced /\ disk \subseteq Owned
  BY DEF RegistryInv, Registry!TypeOK
<1>6. /\ file' \in Registry!Files /\ file'.whole /\ file'.synced /\ disk' \subseteq Owned
      /\ powerLost' \in BOOLEAN
      /\ ~powerLost' => UNCHANGED <<file, powerLost>>
  <2>1. CASE UNCHANGED <<file, disk, powerLost>>
    BY <1>5, <2>1 DEF RegistryInv, Registry!TypeOK
  <2>2. CASE Registry!PowerLoss
    <3>1. CASE file' = [file EXCEPT !.whole = @ /\ file.synced] /\ disk' = file.entries
      BY <1>5, <2>2, <3>1 DEF Registry!PowerLoss, Registry!Files
    <3>2. CASE file' = [entries |-> disk, synced |-> TRUE, whole |-> TRUE] /\ UNCHANGED disk
      BY <1>5, <2>2, <3>2 DEF Registry!PowerLoss, Registry!Files
    <3> QED
      BY <2>2, <3>1, <3>2 DEF Registry!PowerLoss
  <2> QED
    BY <2>1, <2>2 DEF Registry!Crash, Registry!StopService, Registry!store
<1>7. Registry!TypeOK'
  BY <1>2, <1>3, <1>4, <1>6 DEF RegistryInv, Registry!TypeOK
<1>8. Registry!SavedStays' /\ Alone' /\ Erasing'
  BY <1>2, <1>3, <1>6 DEF RegistryInv, Registry!SavedStays, Alone, Erasing
<1> QED
  BY <1>1, <1>3, <1>6, <1>7, <1>8 DEF RegistryInv

\* The system writes a rename.
LEMMA SettlesKeeps ==
  ASSUME RegistryInv, Registry!Settles
  PROVE  RegistryInv'
<1>1. /\ UNCHANGED <<service, tool, esp, os, file, promised, keys, disturbances, powerLost>>
      /\ disk' = file.entries
  BY DEF Registry!Settles, Registry!bonds
<1>2. Registry!TypeOK'
  BY <1>1 DEF RegistryInv, Registry!TypeOK, Registry!Files
<1>3. Registry!SavedStays' /\ Alone' /\ Erasing'
  BY <1>1 DEF RegistryInv, Registry!SavedStays, Alone, Erasing
<1>4. Orderly(service'.process, file'.entries, os') /\ Orderly(tool'.process, file'.entries, os')
  BY <1>1 DEF RegistryInv
<1> QED
  BY <1>1, <1>2, <1>3, <1>4 DEF RegistryInv

\* A bond goes on one side, behind the back of both processes.
LEMMA BondMayGo ==
  ASSUME RegistryInv, NEW d \in Owned, Registry!UserRemovesBond(d) \/ Registry!NvsErased(d)
  PROVE  RegistryInv'
<1>1. /\ UNCHANGED <<service, tool, file, disk, promised, keys, powerLost>>
      /\ disturbances < MaxDisturbances /\ disturbances' = disturbances + 1
      /\ \/ os' = [os EXCEPT ![d] = 0] /\ esp' = esp
         \/ esp' = [esp EXCEPT ![d] = 0] /\ os' = os
  BY Zenon DEF Registry!UserRemovesBond, Registry!NvsErased, Registry!store, Registry!Fault
<1>2. /\ esp \in [Owned -> 0..MaxKeys] /\ os \in [Owned -> 0..MaxKeys] /\ 0 \in 0..MaxKeys
      /\ file.entries \in SUBSET Owned
      /\ disturbances \in 0..MaxDisturbances /\ MaxDisturbances \in Nat
  BY RegistryAssumption
  DEF RegistryInv, Registry!TypeOK, Registry!EnrollmentAssumption, Registry!Files
<1>3. /\ esp' \in [Owned -> 0..MaxKeys] /\ os' \in [Owned -> 0..MaxKeys]
      /\ \A x \in Owned : os[x] = 0 => os'[x] = 0
      /\ disturbances' \in 0..MaxDisturbances
  BY <1>1, <1>2
<1>4. Registry!TypeOK'
  BY <1>1, <1>3 DEF RegistryInv, Registry!TypeOK
<1>5. Orderly(service'.process, file'.entries, os') /\ Orderly(tool'.process, file'.entries, os')
  BY <1>1, <1>2, <1>3, FewerBonds DEF RegistryInv
<1>6. service.process.pc = "erase" => service.process.device \in Owned
  BY DEF RegistryInv, Orderly, Writes
<1>7. Registry!SavedStays' /\ Alone' /\ Erasing'
  BY <1>1, <1>3, <1>6 DEF RegistryInv, Registry!SavedStays, Alone, Erasing
<1> QED
  BY <1>1, <1>4, <1>5, <1>7 DEF RegistryInv

\* Every step of the registry and of those who use it
LEMMA RegistryStays == RegistryInv /\ [Registry!Next]_enrollmentVars => RegistryInv'
<1>1. ASSUME RegistryInv, UNCHANGED enrollmentVars PROVE RegistryInv'
  BY <1>1 DEF enrollmentVars, RegistryInv, Registry!TypeOK, Registry!SavedStays, Orderly,
              Writes, Remembers, Removes, Alone, Erasing
<1>2. ASSUME RegistryInv, Registry!Next PROVE RegistryInv'
  <2>1. CASE Registry!StartService \/ Registry!StartTool
    BY <1>2, <2>1, StartKeeps
  <2>2. ASSUME NEW d \in Owned, Registry!Pair(d) PROVE RegistryInv'
    BY <1>2, <2>2, PairKeeps
  <2>3. CASE Registry!Connect
    BY <1>2, <2>3, ConnectKeeps
  <2>4. CASE Registry!ForgetOs \/ \E d \in Owned : Registry!ForgetEsp(d)
    BY <1>2, <2>4, ForgetKeeps
  <2>5. CASE Registry!Save \/ Registry!ForgetEntry \/ Registry!ServiceWriteFails
    BY <1>2, <2>5, ServiceRewrites
  <2>6. CASE Registry!ServiceWrites \/ Registry!ToolWrites
    BY <1>2, <2>6, WritesKeep
  <2>7. CASE Registry!ToolWriteFails \/ Registry!ToolEnds \/ \E d \in Owned : Registry!ToolRemoves(d)
    BY <1>2, <2>7, ToolKeeps
  <2>8. CASE Registry!Crash \/ Registry!StopService \/ Registry!PowerLoss
    BY <1>2, <2>8, StopsKeep
  <2>9. CASE Registry!Settles
    BY <1>2, <2>9, SettlesKeeps
  <2>10. ASSUME NEW d \in Owned, Registry!UserRemovesBond(d) \/ Registry!NvsErased(d)
         PROVE  RegistryInv'
    BY <1>2, <2>10, BondMayGo
  <2> QED
    BY <1>2, <2>1, <2>2, <2>3, <2>4, <2>5, <2>6, <2>7, <2>8, <2>9, <2>10
    DEF Registry!Next, Registry!ServiceNext, Registry!ToolNext
<1> QED
  BY Zenon, <1>1, <1>2

\* An entry goes only in the rename of a copy that lacks devices without a bond.
LEMMA BondsGoFirst ==
  ASSUME RegistryInv, [Registry!Next]_enrollmentVars
  PROVE  Registry!BondFirst
<1> SUFFICES ASSUME NEW d \in file.entries, d \notin file'.entries,
                    disturbances' = disturbances
             PROVE  os[d] = 0
  BY DEF Registry!BondFirst
<1>1. ASSUME NEW p, Orderly(p, file.entries, os), Registry!RegistryStep(p) PROVE os[d] = 0
  <2>1. CASE p.pc = "replace"
    <3>1. file'.entries = p.updated
      BY <1>1, <2>1 DEF Registry!RegistryStep, Orderly, Writes
    <3> QED
      BY <1>1, <2>1, <3>1 DEF Orderly, Removes, Registry!Writing
  <2>2. CASE p.pc # "replace"
    BY <1>1, <2>2 DEF Registry!RegistryStep, Registry!store
  <2> QED
    BY <2>1, <2>2
<1>2. CASE Registry!ServiceWrites \/ Registry!ToolWrites
  BY <1>1, <1>2 DEF RegistryInv, Registry!ServiceWrites, Registry!ToolWrites
<1>3. CASE Registry!PowerLoss
  BY <1>3 DEF Registry!PowerLoss, Registry!Fault, RegistryInv, Registry!TypeOK
<1>4. CASE UNCHANGED file
  BY <1>4
<1> QED
  <2>1. ASSUME Registry!ServiceNext PROVE Registry!ServiceWrites \/ UNCHANGED file
    BY Zenon, <2>1
    DEF Registry!ServiceNext, Registry!StartService, Registry!Connect, Registry!Save,
        Registry!ServiceWriteFails, Registry!ForgetOs, Registry!ForgetEntry, Registry!store
  <2>2. ASSUME Registry!ToolNext PROVE Registry!ToolWrites \/ UNCHANGED file
    BY Zenon, <2>2
    DEF Registry!ToolNext, Registry!ToolWriteFails, Registry!ToolEnds, Registry!ToolRemoves,
        Registry!store
  <2>3. ASSUME NEW x \in Owned, \/ Registry!Pair(x) \/ Registry!ForgetEsp(x)
                                \/ Registry!UserRemovesBond(x) \/ Registry!NvsErased(x)
        PROVE  UNCHANGED file
    BY Zenon, <2>3 DEF Registry!Pair, Registry!ForgetEsp, Registry!UserRemovesBond,
                       Registry!NvsErased, Registry!store
  <2>4. ASSUME \/ Registry!StopService \/ Registry!StartTool \/ Registry!Crash \/ Registry!Settles
               \/ UNCHANGED enrollmentVars
        PROVE  UNCHANGED file
    BY Zenon, <2>4 DEF Registry!StopService, Registry!StartTool, Registry!Crash,
                       Registry!Settles, Registry!store, enrollmentVars
  <2> QED
    BY Zenon, <1>2, <1>3, <1>4, <2>1, <2>2, <2>3, <2>4 DEF Registry!Next
\* No crash, failed write or power loss leaves a registry that the next start
\* cannot read, loses an entry whose saving returned, or makes the service
\* believe other entries than the file has; and an entry goes after its bond
\* (credential_registry.py:_write_all, pairing_reset.py:reset_all_pairings).
THEOREM CredentialsSurvive == MCSpec => CredentialsKept
<1> DEFINE Inv == part = "registry" => RegistryInv
           allVars == <<part, vars, protocolVars, enrollmentVars>>
<1>1. MCInit => Inv
  BY RegistryBegins DEF MCInit
<1>2. [MCNext]_allVars => part' = part /\ (part = "registry" => [Registry!Next]_enrollmentVars)
  BY DEF MCNext, LifecycleRuns, ProtocolRuns, RegistryRuns
<1>3. Inv /\ [MCNext]_allVars => Inv'
  BY Zenon, <1>2, RegistryStays
<1>4. Inv => (part = "registry" => /\ Registry!TypeOK /\ Registry!FileWhole
                                   /\ Registry!SavedStays /\ Registry!MemoryIsFile)
  BY DEF RegistryInv, Registry!FileWhole, Registry!MemoryIsFile, Registry!Writing, Alone,
         Orderly, Remembers
<1>5. Inv /\ [MCNext]_allVars => [part = "registry" => Registry!BondFirst]_enrollmentVars
  BY Zenon, <1>2, BondsGoFirst
<1> QED
  BY <1>1, <1>3, <1>4, <1>5, PTL DEF MCSpec, CredentialsKept
=============================================================================
