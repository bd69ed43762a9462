------------------------------ MODULE MCQueues ------------------------------
(***************************************************************************)
(* Where the service's work waits: two calls that connect and disconnect   *)
(* beside the connection manager, one call among faults, and the failing   *)
(* poll of one device (ConnectionManager), and the records for the         *)
(* database (Persistence).                                                 *)
(* Each has variables of its own; a behaviour follows one of them and the  *)
(* others rest in their initial state.                                     *)
(***************************************************************************)
EXTENDS Persistence

CONSTANTS Nothing, A, B, pA, pB, c1, c2

VARIABLES
  part,
  st, gen, passkey, registry, bonded, bootKnown, client, alive, callbacks,
  events, lock, syncing, polling, att, task, op, pending, lost \* connection

connectionVars == <<st, gen, passkey, registry, bonded, bootKnown, client, alive,
                    callbacks, events, lock, syncing, polling, att, task, op, pending,
                    lost>>

Accepts == [d \in {A, B} |-> IF d = A THEN pA ELSE pB]
TwoCalls == INSTANCE ConnectionManager WITH
  Devices <- {A, B}, Passkeys <- {pA, pB}, PasskeyOf <- Accepts, Calls <- {c1, c2},
  CallKinds <- {"connect", "disconnect"}, Supplied <- {Nothing},
  Registered <- {A, B}, PersistedBoot <- TRUE, MaxFaults <- 0, MaxClients <- 4,
  NoDevice <- Nothing, NoPasskey <- Nothing, NoCall <- Nothing,
  faults <- lost
Faulty == INSTANCE ConnectionManager WITH
  Devices <- {A, B}, Passkeys <- {pA, pB}, PasskeyOf <- Accepts, Calls <- {c1},
  CallKinds <- {"connect", "disconnect", "forget"}, Supplied <- {Nothing},
  Registered <- {A, B}, PersistedBoot <- TRUE, MaxFaults <- 1, MaxClients <- 4,
  NoDevice <- Nothing, NoPasskey <- Nothing, NoCall <- Nothing,
  faults <- lost

Polled == INSTANCE ConnectionManager WITH
  Devices <- {A}, Passkeys <- {pA, pB}, PasskeyOf <- [d \in {A} |-> pA], Calls <- {c1},
  CallKinds <- {}, Supplied <- {Nothing},
  Registered <- {A}, PersistedBoot <- TRUE, MaxFaults <- 2, MaxClients <- 4,
  NoDevice <- Nothing, NoPasskey <- Nothing, NoCall <- Nothing,
  faults <- lost

ASSUME TwoCalls!DevicesAssumption /\ TwoCalls!BoundsAssumption
ASSUME Faulty!DevicesAssumption /\ Faulty!BoundsAssumption
ASSUME Polled!DevicesAssumption /\ Polled!BoundsAssumption

MCInit ==
  /\ part \in {"calls", "faults", "poll", "persistence"}
  /\ CASE part = "faults" -> Faulty!Init
       [] part = "poll" -> Polled!Init
       [] OTHER -> TwoCalls!Init
  /\ Init
\* Bound: the poller asks in a part of its own.
ConnectionRuns ==
  /\ \/ part = "calls" /\ TwoCalls!Next /\ polling' = "none"
     \/ part = "faults" /\ Faulty!Next /\ polling' = "none"
     \/ part = "poll" /\ Polled!Next
  /\ UNCHANGED <<part, vars>>
PersistenceRuns ==
  part = "persistence" /\ Next /\ UNCHANGED <<part, connectionVars>>
MCNext == ConnectionRuns \/ PersistenceRuns

\* The components' own fairness, of the component the behaviour follows (but
\* Persistence's poller, which no property below needs).
ManagerStep == \/ part = "calls" /\ TwoCalls!ManagerStep
               \/ part = "faults" /\ Faulty!ManagerStep
               \/ part = "poll" /\ Polled!ManagerStep
AttemptStep == \/ part = "calls" /\ TwoCalls!AttemptStep
               \/ part = "faults" /\ Faulty!AttemptStep
               \/ part = "poll" /\ Polled!AttemptStep
NotifyManager == \/ part = "calls" /\ TwoCalls!NotifyManager
                 \/ part = "faults" /\ Faulty!NotifyManager
                 \/ part = "poll" /\ Polled!NotifyManager
CallStep(c) == \/ part = "calls" /\ TwoCalls!CallStep(c)
               \/ part = "faults" /\ c = c1 /\ Faulty!CallStep(c1)
               \/ part = "poll" /\ c = c1 /\ Polled!CallStep(c1)
ConnectionFairness ==
  /\ WF_connectionVars(ManagerStep) /\ SF_connectionVars(AttemptStep)
  /\ SF_connectionVars(NotifyManager)
  /\ \A c \in {c1, c2} : SF_connectionVars(CallStep(c))
PersistenceFairness ==
  /\ WF_vars(part = "persistence" /\ Take)
  /\ WF_vars(part = "persistence" /\ ExecuteReturns)
  /\ WF_vars(part = "persistence" /\ SubmitState)
  /\ WF_vars(part = "persistence" /\ StatePublished)
  /\ WF_vars(part = "persistence" /\ StatesFlushed)
  /\ WF_vars(part = "persistence" /\ StatesTimeout)
  /\ WF_vars(part = "persistence" /\ CancelWorker)
  /\ WF_vars(part = "persistence" /\ WorkerEnds)
  /\ WF_vars(part = "persistence" /\ FailPending)
MCSpec ==
  /\ MCInit /\ [][MCNext]_<<part, connectionVars, vars>>
  /\ ConnectionFairness /\ PersistenceFairness

-----------------------------------------------------------------------------
\* Who waits is served: every call while others are made, a stop during an
\* outage, and a state that met none, in order (ConnectionManager's CallsReturn,
\* Persistence's StopEnds, StatesStored, StatesAdvance, with its types).
WaitingEnds ==
  /\ []TypeOK /\ StatesAdvance
  /\ \A c \in {c1, c2} :
       (part = "calls" /\ task[c].pc # "idle") ~> (part = "calls" /\ task[c].pc = "done")
  /\ StopEnds /\ (part = "persistence" => StatesStored)

\* ConnectionManager's DisconnectHolds: a service told to disconnect comes to
\* rest without a client.
DisconnectHolds ==
  (part = "calls" /\ ~st.desired /\ TwoCalls!Quiet) ~>
     (st.desired \/ (st.phase = "DISCONNECTED" /\ client = TwoCalls!NoClient))

\* ConnectionManager's Recovers and ReadyHeals: after any of the faults, and of
\* the poller's reports, a selected device is connected again, and a readiness
\* that is wrong is noticed.
Recovers == part \in {"faults", "poll"} => Faulty!Recovers /\ Faulty!ReadyHeals
=============================================================================
