----------------------------- MODULE MCSamples -----------------------------
(***************************************************************************)
(* The way of a sample to the database: the one-second poll and the        *)
(* display commands (CurrentSamples), when transfers of the device's       *)
(* history run (HistoryTask), one transfer (HistoryTransfer, with firmware *)
(* that freezes its rings and with firmware that does not), and what the   *)
(* MySQL adapter makes of the records (SampleStore, with failed database   *)
(* calls and, over more seconds, without).  A behaviour follows one of     *)
(* them; the others rest in an initial state.                              *)
(***************************************************************************)
EXTENDS HistoryTask, TLC

CONSTANTS
  Commands, Wanted,                               \* the display commands
  MaxSlot, MaxFaults, MaxSwitches,                \* bounds of the poll
  Sensors, Capacity, SeqSpace, FirstSeq, InitialCount, ChunkSize, Retries,
  MaxCount, MaxBroken,                            \* the device's history and bounds
  Second, PollPhase, HistoryPhase, BatchSize,     \* the database
  Stores                                          \* bounds of it, by name

VARIABLES
  part,
  now, next, poll, rows, pollReady, pollTarget, pollClient, queue, wire,
  display, cache, cmd, log, shown, faults, switches,                \* poll
  count, frozen, linkUp, expired, pc, anchor, expected, pending,
  remaining, nextSeq, retrieved, records, attempt, reported, broken, first,  \* transfer
  second, truth, work, table, syncs, failures                       \* store

pollVars == <<now, next, poll, rows, pollReady, pollTarget, pollClient, queue,
              wire, display, cache, cmd, log, shown, faults, switches>>
transferVars == <<count, frozen, linkUp, expired, pc, anchor, expected, pending,
                  remaining, nextSeq, retrieved, records, attempt, reported, broken, first>>
storeVars == <<second, truth, work, table, syncs, failures>>

Poll == INSTANCE CurrentSamples WITH
  ready <- pollReady, target <- pollTarget, client <- pollClient

\* Firmware that freezes its rings for a transfer, and firmware that does not.
Firmware == [transfer |-> TRUE, old |-> FALSE]
Transfer(p) == INSTANCE HistoryTransfer WITH
  Freezes <- Firmware[p], MaxFaults <- MaxBroken,
  next <- nextSeq, failures <- reported, faults <- broken

Store(p) == INSTANCE SampleStore WITH
  MaxSecond <- Stores[p].seconds, MaxSyncs <- Stores[p].syncs,
  MaxFailures <- Stores[p].failures

MCWanted == [c \in Commands |-> c = "on"]
MCStores ==
  LET bounds(n, transfers, failed) ==
        [seconds |-> n, syncs |-> transfers, failures |-> failed]
  IN  "store" :> bounds(2, 2, 1) @@ "slots" :> bounds(3, 1, 0)

ASSUME SamplesAssumption ==
  /\ Poll!SampleAssumption
  /\ \A p \in DOMAIN Firmware : Transfer(p)!SizeAssumption
  /\ \A p \in DOMAIN Stores : Store(p)!TimeAssumption
  /\ DOMAIN Stores \cap ({"poll", "task"} \cup DOMAIN Firmware) = {}
  /\ DOMAIN Stores # {}

\* For what does not depend on the bounds.
AnyStore == CHOOSE p \in DOMAIN Stores : TRUE

MCInit ==
  /\ part \in {"poll", "task"} \cup DOMAIN Firmware \cup DOMAIN Stores
  /\ Poll!Init
  /\ Init /\ (part # "task" => target = "a")
  /\ Transfer("old")!Init /\ (part \notin DOMAIN Firmware => anchor.time = 1)
  /\ \E p \in DOMAIN Stores :
       /\ part = p \/ (part \notin DOMAIN Stores /\ p = AnyStore)
       /\ Store(p)!Init
       /\ part \notin DOMAIN Stores => \A n \in DOMAIN truth : truth[n][2] = "VALID"
PollRuns ==
  part = "poll" /\ Poll!Next /\ UNCHANGED <<part, vars, transferVars, storeVars>>
TaskRuns ==
  part = "task" /\ Next /\ UNCHANGED <<part, pollVars, transferVars, storeVars>>
TransferRuns ==
  /\ \E p \in DOMAIN Firmware : part = p /\ Transfer(p)!Next
  /\ UNCHANGED <<part, pollVars, vars, storeVars>>
StoreRuns ==
  /\ \E p \in DOMAIN Stores : part = p /\ Store(p)!Next
  /\ UNCHANGED <<part, pollVars, vars, transferVars>>
MCNext == PollRuns \/ TaskRuns \/ TransferRuns \/ StoreRuns

\* HistoryTask's and HistoryTransfer's own fairness.
TaskFairness ==
  /\ \A o \in Ops :
       /\ WF_vars(part = "task" /\ Finished(o))
       /\ WF_vars(part = "task" /\
            \E r \in {"complete", "incomplete", "failed"} : TaskEnds(o, r))
  /\ WF_vars(part = "task" /\
       (LostHandled \/ DisconnectEnds \/ Select \/ StopEnds))
Transferring == part \in DOMAIN Firmware
TransferFairness ==
  /\ WF_transferVars(Transferring /\ Transfer("old")!Expire)
  /\ WF_transferVars(Transferring /\ Transfer("old")!EndsEarly)
  /\ WF_transferVars(Transferring /\ Transfer("old")!RefreshRaises)
  /\ WF_transferVars(Transferring /\ Transfer("old")!Finish)
MCSpec ==
  /\ MCInit /\ [][MCNext]_<<part, pollVars, vars, transferVars, storeVars>>
  /\ TaskFairness /\ TransferFairness

-----------------------------------------------------------------------------
\* Nothing is lost between the device and the table without a trace: every
\* second is polled or reported missing once (SlotsAccounted), a transfer has
\* every record it was announced or says what failed (NoSilentLoss,
\* NothingOverwritten), and reconciliation leaves no second without a row
\* (NoHole).
NoSampleLost ==
  /\ Poll!SlotsAccounted
  /\ \A p \in DOMAIN Firmware :
       part = p => Transfer(p)!NoSilentLoss /\ Transfer(p)!NothingOverwritten
  /\ \A p \in DOMAIN Stores : part = p => Store(p)!NoHole

\* What is recorded happened: the stored readings are the device's and agree
\* with their average (RowsTrue), a record is dated by the second it was
\* sampled in (DatesTrue), a display result is a state the display showed
\* (ConfirmedWasShown, LogFollowsDevice).
RecordsTrue ==
  /\ TypeOK /\ Poll!TypeOK /\ Poll!ConfirmedWasShown /\ Poll!LogFollowsDevice
  /\ \A p \in DOMAIN Firmware : part = p => Transfer(p)!TypeOK /\ Transfer(p)!DatesTrue
  /\ \A p \in DOMAIN Stores : part = p => Store(p)!TypeOK /\ Store(p)!RowsTrue

\* SampleStore's SamplesOnlyGain: a stored reading is never taken back.
SamplesOnlyGain == [][Store(AnyStore)!OnlyGain]_storeVars

\* Every transfer and every operation of one ends, whatever the device, the
\* link and the callers do (HistoryTransfer's TransferEnds, HistoryTask's
\* OperationsEnd).
TransfersEnd ==
  /\ Transferring => Transfer("old")!TransferEnds
  /\ OperationsEnd
=============================================================================
