----------------------------- MODULE MCPairing -----------------------------
(***************************************************************************)
(* How calls to the device and to the operating system end: the requests   *)
(* that queue for the device (BleScheduler), the calls that share its      *)
(* client (DeviceExchange), and the ceremonies of Linux (LinuxPairing) and *)
(* Windows (WindowsPairing).  A behaviour follows one of these; the others *)
(* rest in their initial state.                                            *)
(***************************************************************************)
EXTENDS DeviceExchange

CONSTANTS
  Nothing,            \* no value, of either platform's client
  Callers, Priority,  \* BleScheduler's: who submits requests, how urgent
  MaxQueue,           \* BleScheduler's bound on the queue
  Polls               \* LinuxPairing's looks during one discovery

VARIABLES
  part,
  queue, worker, current, future, ready, service,              \* scheduler
  linuxClient, bluez, seen,
  windowsClient, windows

schedulerVars == <<queue, worker, current, future, ready, service>>
linuxVars == <<linuxClient, bluez, seen>>
windowsVars == <<windowsClient, windows>>

Scheduler == INSTANCE BleScheduler
Linux == INSTANCE LinuxPairing WITH None <- Nothing, client <- linuxClient
Windows == INSTANCE WindowsPairing WITH None <- Nothing, client <- windowsClient

\* A display, a poll and a history caller; READ priorities of the service.
MCCallers == {"display", "poll", "history"}
MCPriority ==
  "display" :> 0 @@ "poll" :> 10 @@ "history" :> 20

MCTasks == {"connect", "poll", "chunk", "close", "forget"}
MCCall(t) == IF t = "poll" THEN "request" ELSE t

ASSUME SchedulerAssumption == Scheduler!PriorityAssumption /\ Scheduler!MaxQueueAssumption
ASSUME PairingAssumption == Linux!LinuxPairingAssumption /\ Windows!WindowsPairingAssumption

MCInit ==
  /\ part \in {"scheduler", "exchange", "linux", "windows"}
  /\ Scheduler!Init /\ Init /\ Linux!Init /\ Windows!Init
SchedulerRuns ==
  part = "scheduler" /\ Scheduler!Next /\ UNCHANGED <<part, vars, linuxVars, windowsVars>>
ExchangeRuns ==
  part = "exchange" /\ Next /\ UNCHANGED <<part, schedulerVars, linuxVars, windowsVars>>
LinuxRuns ==
  part = "linux" /\ Linux!Next /\ UNCHANGED <<part, schedulerVars, vars, windowsVars>>
WindowsRuns ==
  part = "windows" /\ Windows!Next /\ UNCHANGED <<part, schedulerVars, vars, linuxVars>>
MCNext == SchedulerRuns \/ ExchangeRuns \/ LinuxRuns \/ WindowsRuns

\* The fairness of BleScheduler and DeviceExchange, LinuxPairing's AnsweredSpec
\* and WindowsPairing's TimedSpec.
SchedulerFairness ==
  /\ WF_schedulerVars(part = "scheduler" /\ Scheduler!Take)
  /\ WF_schedulerVars(part = "scheduler" /\ Scheduler!Finish)
  /\ WF_schedulerVars(part = "scheduler" /\ Scheduler!CancelWorker)
  /\ WF_schedulerVars(part = "scheduler" /\ Scheduler!WorkerEnds)
  /\ WF_schedulerVars(part = "scheduler" /\ Scheduler!FailPending)
ExchangeFairness ==
  /\ \A t \in Tasks : SF_vars(part = "exchange" /\ Step(t))
  /\ \A t \in Tasks : WF_vars(part = "exchange" /\ ExchangeFails(t))
  /\ WF_vars(part = "exchange" /\ AttWrite)
  /\ WF_vars(part = "exchange" /\ AttRead)
PairingFairness ==
  /\ WF_linuxVars(part = "linux" /\ Linux!Bounded /\ Linux!Observed)
  /\ WF_linuxVars(part = "linux" /\ Linux!TimesOut /\ Linux!Observed)
  /\ WF_linuxVars(part = "linux" /\ Linux!Answer /\ Linux!Observed)
  /\ WF_windowsVars(part = "windows" /\ Windows!Bounded)
  /\ WF_windowsVars(part = "windows" /\ Windows!TimesOut)
MCSpec ==
  /\ MCInit /\ [][MCNext]_<<part, schedulerVars, vars, linuxVars, windowsVars>>
  /\ SchedulerFairness /\ ExchangeFairness /\ PairingFairness

-----------------------------------------------------------------------------
\* Nobody waits for an answer that no one is left to give: every pending
\* future of a request belongs to one request that is queued or under way,
\* through give-ups, link changes and stop (BleScheduler's invariants, with
\* the types).
NobodyForgotten ==
  /\ Scheduler!TypeOK /\ TypeOK
  /\ Scheduler!NoOrphanedFuture /\ Scheduler!StoppedIsQuiet

\* LinuxPairing's NothingLeft: no call, however it ends, leaves an agent, a
\* discovery or a bus connection behind.
NothingLeft == Linux!TypeOK /\ Windows!TypeOK /\ Linux!NothingLeft

\* A call that reports success did what it says: a bond exists after pairing
\* (authenticated on Windows) and none after a removal, no ceremony this
\* program answered skips the PIN and none starts during a discovery
\* (LinuxPairing's QuietCeremony, PairedReturnsBond, RemovedIsGone,
\* WindowsPairing's PairEnsuresAuthenticated, OnlyPinnedBonds, ForgottenIsGone).
BondsTrue ==
  /\ Linux!QuietCeremony /\ Linux!PairedReturnsBond /\ Linux!RemovedIsGone
  /\ Windows!PairEnsuresAuthenticated /\ Windows!OnlyPinnedBonds
  /\ Windows!ForgottenIsGone

\* Every call returns, urgent requests first: BleScheduler's PriorityOrder and
\* HighestAnswered, DeviceExchange's CallsEnd (a call asks twice only while
\* nobody learnt what the firmware supports, FormatLearnt), PairEnds of
\* LinuxPairing while BlueZ answers, and of WindowsPairing whatever WinRT does.
CallsReturn ==
  /\ Scheduler!PriorityOrder /\ Scheduler!HighestAnswered
  /\ FormatLearnt /\ (part = "exchange" => CallsEnd)
  /\ Linux!PairEnds /\ Windows!PairEnds
=============================================================================
