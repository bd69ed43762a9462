------------------------- MODULE ConnectionManager -------------------------
(***************************************************************************)
(* backend/pc_client/ble_service.py and service_state.py: the connection   *)
(* lifecycle of ThermometerBleService.  Several tasks of one asyncio loop  *)
(* share its state: the connection manager, the connection attempt it      *)
(* awaits, and the API calls connect, disconnect and forget_pairing.       *)
(*                                                                         *)
(* A task runs alone until it suspends; the pcs in Running are the places  *)
(* between two actions where it does not.  Scheduling is left open at      *)
(* every await that can suspend: a device or system call, a wait for an    *)
(* event, for a task or for the lifecycle lock.  Retry counts, attempt     *)
(* numbers, messages and times of the controller state are left out.       *)
(***************************************************************************)
EXTENDS Integers, Sequences, FiniteSets

CONSTANTS
  Devices, Passkeys,
  PasskeyOf,        \* the passkey each device accepts
  Calls,            \* API calls made during a behaviour
  CallKinds,        \* which of "connect", "disconnect", "forget" they may be
  Supplied,         \* the passkeys callers pass; NoPasskey when they pass none
  Registered,       \* the devices whose passkey the registry holds at the start
  PersistedBoot,    \* whether get_last_boot_id awaits a database
  MaxFaults,        \* bound: failures of device and system calls, lost links
  MaxClients,       \* bound: client objects alive at the same time
  NoDevice, NoPasskey, NoCall

DevicesAssumption ==
  /\ NoDevice \notin Devices /\ NoPasskey \notin Passkeys /\ NoCall \notin Calls
  /\ "manager" \notin Calls /\ "attempt" \notin Calls
  /\ PasskeyOf \in [Devices -> Passkeys]
  /\ Registered \subseteq Devices
  /\ Supplied \subseteq Passkeys \cup {NoPasskey}
BoundsAssumption ==
  /\ CallKinds \subseteq {"connect", "disconnect", "forget"}
  /\ PersistedBoot \in BOOLEAN
  /\ MaxFaults \in Nat /\ MaxClients \in Nat

VARIABLES
  st,         \* ControllerState
  gen,        \* _target_generation
  passkey,    \* _target_passkey
  registry,   \* the credential registry
  bonded,     \* _verified_bond_address
  bootKnown,  \* _last_boot_id is not None
  client,     \* _client
  alive,      \* the clients whose transport is connected
  callbacks,  \* disconnect callbacks on their way to the loop
  events,     \* _manager_events
  lock,       \* _lifecycle_lock: its holder, then those who wait for it
  syncing,    \* a history task is running
  polling,    \* the poller's request: "none", "asked", or "failed", not yet reported
  att,        \* _connection_attempt_task
  task,       \* the manager and the API calls
  op,         \* the connect operations by the call that made them
  pending,    \* _pending_connect_operation_id
  faults      \* failures left

credentialVars == <<passkey, registry, bonded, bootKnown>>
linkVars       == <<client, alive, callbacks>>
readyVars      == <<syncing, polling>>
operationVars  == <<op, pending>>
vars == <<st, gen, credentialVars, linkVars, events, lock, readyVars, att, task,
          operationVars, faults>>

Tasks == {"manager"} \cup Calls

Phases ==
  {"DISCOVERING", "SELECTION_REQUIRED", "AUTHENTICATION_REQUIRED", "PAIRING",
   "CONNECTING", "VERIFYING", "CONNECTED", "RECONNECTING", "DISCONNECTING",
   "DISCONNECTED"}

NoClient  == [id |-> 0, dev |-> NoDevice]
NoAttempt == [pc |-> "none", dev |-> NoDevice, pass |-> NoPasskey, gen |-> 0,
              client |-> NoClient, result |-> "none", drop |-> FALSE]
IdleTask  == [pc |-> "idle", kind |-> "none", dev |-> NoDevice,
              pass |-> NoPasskey, gen |-> 0, client |-> NoClient, then |-> "done"]

\* The places where a task goes on without suspending.
Running == {"loop", "check", "lost", "select", "gone", "reset_failed", "unpair"}

Turn(t) == \A u \in Tasks \ {t} : task[u].pc \notin Running

At(t, pc)   == task[t].pc = pc /\ Turn(t)
Goto(t, pc) == task' = [task EXCEPT ![t].pc = pc]

Wake(g) == [kind |-> "WAKE", gen |-> g, client |-> NoClient]

LinkLost(g, c) == [kind |-> "LINK_LOST", gen |-> g, client |-> c]

\* Plausible bug: readiness is not cleared with the transport.
DownStillReady(phase) == [st EXCEPT !.phase = phase, !.connected = FALSE]

\* _transition to a phase without a transport.
Down(phase) ==
  [st EXCEPT !.phase = phase, !.connected = FALSE, !.ready = FALSE]

Init ==
  /\ st = [phase |-> "DISCOVERING", desired |-> TRUE, target |-> NoDevice,
           connected |-> FALSE, ready |-> FALSE, cred |-> "MISSING"]
  /\ gen = 0
  /\ passkey = NoPasskey
  /\ registry = [d \in Devices |-> IF d \in Registered THEN PasskeyOf[d] ELSE NoPasskey]
  /\ bonded = NoDevice /\ bootKnown = FALSE
  /\ client = NoClient /\ alive = {} /\ callbacks = {}
  /\ events = <<Wake(0)>>
  /\ lock = <<>> /\ syncing = FALSE /\ polling = "none"
  /\ att = NoAttempt
  /\ task = [t \in Tasks |-> IF t = "manager" THEN [IdleTask EXCEPT !.pc = "loop"]
                                              ELSE IdleTask]
  /\ op = [c \in Calls |-> "NONE"] /\ pending = NoCall
  /\ faults = MaxFaults

Fault == faults > 0 /\ faults' = faults - 1

-----------------------------------------------------------------------------
(* _close_client and _cancel_history, called by several tasks.             *)

\* Task t, whose record is r, closes _client and goes on at then.
CloseClient(t, r, then) ==
  \/ /\ lock # <<>>
     /\ lock' = Append(lock, t)
     /\ task' = [task EXCEPT ![t] = [r EXCEPT !.pc = "lock", !.then = then]]
     /\ UNCHANGED linkVars
  \/ /\ lock = <<>> /\ client = NoClient
     /\ task' = [task EXCEPT ![t] = [r EXCEPT !.pc = then]]
     /\ UNCHANGED <<lock, linkVars>>
  \/ /\ lock = <<>> /\ client # NoClient
     /\ lock' = <<t>>
     /\ client' = NoClient
     /\ alive' = alive \ {client}
     /\ task' = [task EXCEPT ![t] = [r EXCEPT !.pc = "close", !.then = then]]
     /\ UNCHANGED callbacks

\* The lock is granted to the first who waits.
AcquireToClose(t) ==
  /\ At(t, "lock") /\ Head(lock) = t
  /\ IF client = NoClient
     THEN /\ lock' = Tail(lock)
          /\ Goto(t, task[t].then)
          /\ UNCHANGED linkVars
     ELSE /\ client' = NoClient
          /\ alive' = alive \ {client}
          /\ Goto(t, "close")
          /\ UNCHANGED <<lock, callbacks>>
  /\ UNCHANGED <<st, gen, credentialVars, events, readyVars, att, operationVars, faults>>

\* client.close() returns or times out.
ClientClosed(t) ==
  /\ At(t, "close")
  /\ lock' = Tail(lock)
  /\ Goto(t, task[t].then)
  /\ UNCHANGED <<st, gen, credentialVars, linkVars, events, readyVars, att,
                 operationVars, faults>>

\* Cancels the history task if there is one, then closes the client.
CancelHistoryAndClose(t, r, then) ==
  IF syncing
  THEN /\ task' = [task EXCEPT ![t] = [r EXCEPT !.pc = "cancel_history", !.then = then]]
       /\ UNCHANGED <<lock, linkVars>>
  ELSE CloseClient(t, r, then)

-----------------------------------------------------------------------------
(* The connection manager.                                                 *)

M == task["manager"]

\* Plausible bug: a manager that is not wanted waits without looking further.
ManagerIdleUnchecked ==
  /\ At("manager", "loop") /\ ~st.desired
  /\ Goto("manager", "wait")
  /\ UNCHANGED <<st, gen, credentialVars, linkVars, events, lock, readyVars, att,
                 operationVars, faults>>

\* The head of the loop, down to its first suspension.
ManagerIdle ==
  /\ At("manager", "loop") /\ ~st.desired
  /\ st' = IF st.phase = "DISCONNECTED" THEN st ELSE Down("DISCONNECTED")
  /\ Goto("manager", "wait")
  /\ UNCHANGED <<gen, credentialVars, linkVars, events, lock, readyVars, att,
                 operationVars, faults>>

ManagerReady ==
  /\ At("manager", "loop") /\ st.desired /\ st.ready
  /\ Goto("manager", "watch")
  /\ UNCHANGED <<st, gen, credentialVars, linkVars, events, lock, readyVars, att,
                 operationVars, faults>>

ManagerDiscovers ==
  /\ At("manager", "loop") /\ st.desired /\ ~st.ready /\ st.target = NoDevice
  /\ st' = [Down("DISCOVERING") EXCEPT !.cred = "MISSING"]
  /\ task' = [task EXCEPT !["manager"] = [M EXCEPT !.pc = "scan", !.gen = gen]]
  /\ UNCHANGED <<gen, credentialVars, linkVars, events, lock, readyVars, att,
                 operationVars, faults>>

\* Creates the attempt task for device d; after a lost link the device is
\* scanned for first.
StartAttempt(d, key, g, reconnecting) ==
  /\ task' = [task EXCEPT !["manager"] =
                [M EXCEPT !.pc = IF reconnecting THEN "rescan" ELSE "attempt",
                          !.dev = d, !.gen = g]]
  /\ att' = IF reconnecting THEN att
            ELSE [NoAttempt EXCEPT !.pc = "begin", !.dev = d, !.pass = key, !.gen = g]

\* A target without a passkey: the registry may have one.
ManagerNeedsPasskey ==
  /\ At("manager", "loop") /\ st.desired /\ ~st.ready /\ st.target # NoDevice
  /\ passkey = NoPasskey
  /\ LET rejected == st.phase = "AUTHENTICATION_REQUIRED" /\ st.cred = "REJECTED"
         stored   == registry[st.target]
     IN  \/ /\ rejected \/ stored = NoPasskey
            /\ st' = IF rejected THEN st
                     ELSE [Down("AUTHENTICATION_REQUIRED") EXCEPT !.cred = "MISSING"]
            /\ Goto("manager", "wait")
            /\ UNCHANGED <<passkey, att>>
         \/ /\ ~rejected /\ stored # NoPasskey
            /\ passkey' = stored
            /\ StartAttempt(st.target, stored, gen, st.phase = "RECONNECTING")
            /\ UNCHANGED st
  /\ UNCHANGED <<gen, registry, bonded, bootKnown, linkVars, events, lock, readyVars,
                 operationVars, faults>>

ManagerConnects ==
  /\ At("manager", "loop") /\ st.desired /\ ~st.ready /\ st.target # NoDevice
  /\ passkey # NoPasskey
  /\ StartAttempt(st.target, passkey, gen, st.phase = "RECONNECTING")
  /\ UNCHANGED <<st, gen, credentialVars, linkVars, events, lock, readyVars,
                 operationVars, faults>>

\* The discovery scan returns; a newer selection wins over it.
ScanReturns ==
  /\ At("manager", "scan")
  /\ \E devices \in SUBSET Devices :
       IF M.gen # gen \/ st.target # NoDevice
       THEN Goto("manager", "loop") /\ UNCHANGED <<st, gen, passkey, att>>
       ELSE \/ /\ devices = {}
               /\ st' = Down("DISCOVERING")
               /\ Goto("manager", "rest")
               /\ UNCHANGED <<gen, passkey, att>>
            \/ /\ Cardinality(devices) > 1
               /\ st' = [Down("SELECTION_REQUIRED") EXCEPT !.target = NoDevice]
               /\ Goto("manager", "wait")
               /\ UNCHANGED <<gen, passkey, att>>
            \/ \E d \in Devices :
                 /\ devices = {d}
                 /\ gen' = gen + 1
                 /\ passkey' = registry[d]
                 /\ IF registry[d] = NoPasskey
                    THEN /\ st' = [Down("AUTHENTICATION_REQUIRED") EXCEPT
                                     !.target = d, !.cred = "MISSING"]
                         /\ Goto("manager", "wait")
                         /\ UNCHANGED att
                    ELSE /\ st' = [Down("PAIRING") EXCEPT
                                     !.target = d, !.cred = "AVAILABLE"]
                         /\ StartAttempt(d, registry[d], gen', FALSE)
  /\ UNCHANGED <<registry, bonded, bootKnown, linkVars, events, lock, readyVars,
                 operationVars, faults>>

\* _find_reconnect_target: the device is tried whether or not it was seen, and
\* whether or not the scan failed.
RescanReturns ==
  /\ At("manager", "rescan")
  /\ IF ~st.desired \/ M.gen # gen
     THEN Goto("manager", "loop") /\ UNCHANGED <<st, att>>
     ELSE /\ st' = [Down("RECONNECTING") EXCEPT !.target = M.dev]
          /\ StartAttempt(M.dev, passkey, M.gen, FALSE)
  /\ UNCHANGED <<gen, credentialVars, linkVars, events, lock, readyVars,
                 operationVars, faults>>

\* Plausible bug: the failed operation stays the pending one.
FailKeepsPending ==
  /\ op' = IF pending = NoCall THEN op ELSE [op EXCEPT ![pending] = "FAILED"]
  /\ UNCHANGED pending

FailPending ==
  /\ op' = IF pending = NoCall THEN op ELSE [op EXCEPT ![pending] = "FAILED"]
  /\ pending' = NoCall

\* The except clause of the manager's loop.
HandleFailure(authentication) ==
  \/ /\ ~st.desired
     /\ CloseClient("manager", M, "gone")
     /\ UNCHANGED <<st, passkey, operationVars>>
  \/ /\ st.desired /\ authentication
     /\ passkey' = NoPasskey
     /\ FailPending
     /\ st' = [Down("AUTHENTICATION_REQUIRED") EXCEPT !.cred = "REJECTED"]
     /\ CloseClient("manager", M, "wait")
  \/ /\ st.desired /\ ~authentication
     /\ FailPending
     /\ st' = Down(IF st.target = NoDevice THEN "DISCOVERING" ELSE "RECONNECTING")
     /\ CloseClient("manager", M, "rest")
     /\ UNCHANGED passkey

ScanFails ==
  /\ At("manager", "scan") /\ Fault
  /\ HandleFailure(FALSE)
  /\ UNCHANGED <<gen, registry, bonded, bootKnown, events, readyVars, att>>

\* A failure found the connection no longer wanted.
ManagerGone ==
  /\ At("manager", "gone")
  /\ st' = IF st.phase = "DISCONNECTED" THEN st ELSE Down("DISCONNECTED")
  /\ Goto("manager", "loop")
  /\ UNCHANGED <<gen, credentialVars, linkVars, events, lock, readyVars, att,
                 operationVars, faults>>

\* What follows a successful attempt.  The credential saved and the operation
\* completed are the ones current now.
Commit ==
  /\ bootKnown' = TRUE
  /\ IF passkey = NoPasskey
     THEN HandleFailure(FALSE) /\ UNCHANGED <<registry, readyVars>>
     ELSE /\ registry' = [registry EXCEPT ![M.dev] = passkey]
          /\ st' = [st EXCEPT !.phase = "CONNECTED", !.target = M.dev,
                              !.connected = TRUE, !.ready = TRUE, !.cred = "VERIFIED"]
          /\ op' = IF pending = NoCall THEN op ELSE [op EXCEPT ![pending] = "SUCCEEDED"]
          /\ pending' = NoCall
          /\ syncing' = TRUE
          /\ Goto("manager", "loop")
          /\ UNCHANGED <<passkey, lock, linkVars, polling>>

\* The attempt task has ended.
AttemptEnds ==
  /\ At("manager", "attempt") /\ att.pc = "done"
  /\ att' = NoAttempt
  /\ \/ /\ att.result \in {"none", "cancelled"}
        /\ Goto("manager", "loop")
        /\ UNCHANGED <<st, credentialVars, linkVars, lock, readyVars, operationVars>>
     \/ /\ att.result \in {"failed", "rejected"}
        /\ HandleFailure(att.result = "rejected")
        /\ UNCHANGED <<registry, bonded, bootKnown, readyVars>>
     \/ /\ att.result = "verified" /\ PersistedBoot /\ ~bootKnown
        /\ Goto("manager", "boot")
        /\ UNCHANGED <<st, credentialVars, linkVars, lock, readyVars, operationVars>>
     \/ /\ att.result = "verified" /\ (~PersistedBoot \/ bootKnown)
        /\ Commit
        /\ UNCHANGED bonded
  /\ UNCHANGED <<gen, events, faults>>

\* _read_last_persisted_boot returns, or fails and is ignored.
BootRead ==
  /\ At("manager", "boot")
  /\ Commit
  /\ UNCHANGED <<gen, bonded, events, att, faults>>

\* _connection_lost, after which the manager goes on at then.
ConnectionLost(then) ==
  IF ~st.connected /\ st.phase \in {"RECONNECTING", "DISCONNECTED"}
  THEN Goto("manager", then) /\ UNCHANGED <<st, lock, linkVars>>
  ELSE /\ st' = Down(IF st.desired THEN "RECONNECTING" ELSE "DISCONNECTED")
       /\ CancelHistoryAndClose("manager", [M EXCEPT !.kind = then], "lost")

\* The end of _connection_lost notifies the manager itself.
LostHandled ==
  /\ At("manager", "lost")
  /\ events' = Append(events, Wake(gen))
  /\ Goto("manager", M.kind)
  /\ UNCHANGED <<st, gen, credentialVars, linkVars, lock, readyVars, att,
                 operationVars, faults>>

\* _wait_for_manager_wakeup takes an event.  Only the loss of the client in
\* use, in this generation, is acted upon; the poller's names no client, which
\* is the one in use when there is none.
Wakeup ==
  /\ \E pc \in {"wait", "rest", "watch"} : At("manager", pc)
  /\ events # <<>>
  /\ events' = Tail(events)
  /\ LET e    == Head(events)
         then == IF M.pc = "watch" THEN "check" ELSE "loop"
     IN  IF e.kind = "LINK_LOST" /\ e.gen = gen /\ e.client = client
         THEN ConnectionLost(then)
         ELSE Goto("manager", then) /\ UNCHANGED <<st, lock, linkVars>>
  /\ UNCHANGED <<gen, credentialVars, readyVars, att, operationVars, faults>>

\* Plausible bug: only the watch on a ready link has a timeout.
TimeoutOnlyReady ==
  /\ At("manager", "watch") /\ events = <<>>
  /\ Goto("manager", "check")
  /\ UNCHANGED <<st, gen, credentialVars, linkVars, events, lock, readyVars, att,
                 operationVars, faults>>

\* Its timeout: nothing in the queue for two seconds.
WakeupTimeout ==
  /\ \E pc \in {"rest", "watch"} : At("manager", pc)
  /\ events = <<>>
  /\ Goto("manager", IF M.pc = "watch" THEN "check" ELSE "loop")
  /\ UNCHANGED <<st, gen, credentialVars, linkVars, events, lock, readyVars, att,
                 operationVars, faults>>

\* A ready manager looks whether the transport is still there.
CheckLink ==
  /\ At("manager", "check")
  /\ IF st.desired /\ client \notin alive
     THEN ConnectionLost("loop")
     ELSE Goto("manager", "loop") /\ UNCHANGED <<st, lock, linkVars>>
  /\ UNCHANGED <<gen, credentialVars, events, readyVars, att, operationVars, faults>>

-----------------------------------------------------------------------------
(* _open_connection, the attempt task.                                     *)

Loop == \A t \in Tasks : task[t].pc \notin Running

Wanted == st.desired /\ att.gen = gen

UsedIds ==
  {c.id : c \in alive \cup callbacks \cup {client, att.client}}
    \cup {task[t].client.id : t \in Tasks}
    \cup {events[i].client.id : i \in 1 .. Len(events)}

Fresh(d) ==
  [id  |-> CHOOSE i \in 1 .. MaxClients :
             i \notin UsedIds /\ \A j \in 1 .. (i - 1) : j \in UsedIds,
   dev |-> d]

attemptUnchanged ==
  <<gen, passkey, registry, bootKnown, events, readyVars, task, operationVars>>

\* The client is closed; then it is dropped from _client where the code does so.
GiveUp(result, drop) ==
  /\ att' = [att EXCEPT !.pc = "closing", !.result = result, !.drop = drop]
  /\ alive' = alive \ {att.client}

AttemptQueues ==
  /\ att.pc = "begin" /\ lock # <<>> /\ Loop
  /\ att' = [att EXCEPT !.pc = "waiting"]
  /\ lock' = Append(lock, "attempt")
  /\ UNCHANGED <<attemptUnchanged, st, bonded, linkVars, faults>>

AttemptBegins ==
  /\ \/ att.pc = "begin" /\ lock = <<>> /\ lock' = <<"attempt">>
     \/ att.pc = "waiting" /\ Head(lock) = "attempt" /\ UNCHANGED lock
  /\ Loop
  /\ (1 .. MaxClients) \ UsedIds # {}
  /\ LET pc == IF bonded = att.dev THEN "connecting" ELSE "pairing"
     IN  /\ att' = [att EXCEPT !.pc = pc, !.client = Fresh(att.dev)]
         /\ st' = IF pc = "pairing" THEN [Down("PAIRING") EXCEPT !.cred = "AVAILABLE"]
                                    ELSE Down("CONNECTING")
  /\ UNCHANGED <<attemptUnchanged, bonded, linkVars, faults>>

\* client.pair: the system's bond is created or verified.
AttemptPaired ==
  /\ att.pc = "pairing" /\ Loop
  /\ \/ /\ Wanted
        /\ bonded' = att.dev
        /\ st' = Down("CONNECTING")
        /\ att' = [att EXCEPT !.pc = "connecting"]
        /\ UNCHANGED alive
     \/ /\ ~Wanted
        /\ GiveUp("none", FALSE)
        /\ UNCHANGED <<st, bonded>>
  /\ UNCHANGED <<attemptUnchanged, client, callbacks, lock, faults>>

\* client.connect: the GATT transport opens.
AttemptConnected ==
  /\ att.pc = "connecting" /\ Loop /\ att.pass # NoPasskey
  /\ \/ /\ Wanted
        /\ client' = att.client
        /\ alive' = alive \cup {att.client}
        /\ st' = [st EXCEPT !.phase = "VERIFYING", !.connected = TRUE, !.ready = FALSE]
        /\ att' = [att EXCEPT !.pc = "authenticating"]
     \/ /\ ~Wanted
        /\ GiveUp("none", FALSE)
        /\ UNCHANGED <<st, client>>
  /\ UNCHANGED <<attemptUnchanged, bonded, callbacks, lock, faults>>

\* client.authenticate: the device accepts or rejects the passkey.
AttemptAuthenticated ==
  /\ att.pc = "authenticating" /\ Loop /\ att.client \in alive
  /\ \/ /\ att.pass = PasskeyOf[att.dev] /\ Wanted
        /\ att' = [att EXCEPT !.pc = "reading"]
        /\ UNCHANGED alive
     \/ /\ att.pass = PasskeyOf[att.dev] /\ ~Wanted
        /\ GiveUp("none", TRUE)
     \/ /\ att.pass # PasskeyOf[att.dev]
        /\ GiveUp("rejected", TRUE)
  /\ UNCHANGED <<attemptUnchanged, st, bonded, client, callbacks, lock, faults>>

\* The first protected request succeeds; the last check precedes the release.
AttemptRead ==
  /\ att.pc = "reading" /\ Loop /\ att.client \in alive
  /\ \/ /\ Wanted
        /\ att' = [att EXCEPT !.pc = "done", !.result = "verified"]
        /\ lock' = Tail(lock)
        /\ UNCHANGED alive
     \/ /\ ~Wanted
        /\ GiveUp("none", FALSE)
        /\ UNCHANGED lock
  /\ UNCHANGED <<attemptUnchanged, st, bonded, client, callbacks, faults>>

\* A step fails or times out: a fault, a locked device, a transport already
\* gone, a passkey the pairing does not accept or that has been forgotten.
AttemptFails ==
  /\ att.pc \in {"pairing", "connecting", "authenticating", "reading"} /\ Loop
  /\ \/ Fault /\ GiveUp("failed", TRUE)
     \/ Fault /\ att.pc = "authenticating" /\ GiveUp("rejected", TRUE)
     \/ /\ \/ att.pc \in {"authenticating", "reading"} /\ att.client \notin alive
           \/ att.pc = "pairing" /\ att.pass # PasskeyOf[att.dev]
           \/ att.pc = "connecting" /\ att.pass = NoPasskey
        /\ GiveUp("failed", TRUE)
        /\ UNCHANGED faults
  /\ UNCHANGED <<attemptUnchanged, st, bonded, client, callbacks, lock>>

\* Plausible bug: the clean-up returns without releasing the lock.
AttemptKeepsLock ==
  /\ att.pc = "closing" /\ Loop
  /\ att' = [att EXCEPT !.pc = "done"]
  /\ client' = IF att.drop /\ client = att.client THEN NoClient ELSE client
  /\ UNCHANGED <<attemptUnchanged, st, bonded, alive, callbacks, lock, faults>>

\* The client's close returns and the lock is released.
AttemptClosed ==
  /\ att.pc = "closing" /\ Loop
  /\ att' = [att EXCEPT !.pc = "done"]
  /\ client' = IF att.drop /\ client = att.client THEN NoClient ELSE client
  /\ lock' = Tail(lock)
  /\ UNCHANGED <<attemptUnchanged, st, bonded, alive, callbacks, faults>>

\* Its client is being closed because the attempt is no longer wanted, and the
\* first protected request had not been made.
Unneeded == att.result = "none" /\ (att.drop \/ client # att.client)

\* task.cancel: before the lock is taken nothing has happened; the clean-up of
\* a failed attempt is cut short, that of one found unwanted before its first
\* protected request is begun again.
CancelAttempt ==
  \/ /\ att.pc \in {"begin", "waiting"}
     /\ att' = [att EXCEPT !.pc = "done", !.result = "cancelled"]
     /\ lock' = SelectSeq(lock, LAMBDA t : t # "attempt")
     /\ UNCHANGED alive
  \/ /\ att.pc = "closing" /\ ~Unneeded
     /\ att' = [att EXCEPT !.pc = "done", !.result = "cancelled"]
     /\ lock' = Tail(lock)
     /\ UNCHANGED alive
  \/ /\ att.pc = "closing" /\ Unneeded
     /\ GiveUp("cancelled", TRUE)
     /\ UNCHANGED lock
  \/ /\ att.pc \in {"pairing", "connecting", "authenticating", "reading"}
     /\ GiveUp("cancelled", TRUE)
     /\ UNCHANGED lock

-----------------------------------------------------------------------------
(* The API calls.                                                          *)

\* connect and pair, up to their first suspension.
Connect(c, d, supplied) ==
  LET credential == IF supplied = NoPasskey THEN registry[d] ELSE supplied
      r == [task[c] EXCEPT !.kind = "connect", !.dev = d, !.pass = credential]
  IN
  /\ At(c, "idle") /\ "connect" \in CallKinds
  /\ \/ /\ st.ready /\ st.target = d
        /\ op' = [op EXCEPT ![c] = "SUCCEEDED"]
        /\ task' = [task EXCEPT ![c] = [r EXCEPT !.pc = "done"]]
        /\ UNCHANGED <<st, gen, pending, lock, linkVars>>
     \/ /\ ~(st.ready /\ st.target = d) /\ credential = NoPasskey
        /\ gen' = gen + 1
        /\ st' = [Down("AUTHENTICATION_REQUIRED") EXCEPT
                    !.desired = TRUE, !.target = d, !.cred = "MISSING"]
        /\ task' = [task EXCEPT ![c] = [r EXCEPT !.pc = "done"]]
        /\ UNCHANGED <<operationVars, lock, linkVars>>
     \/ /\ ~(st.ready /\ st.target = d) /\ credential # NoPasskey
        /\ op' = IF pending = NoCall THEN [op EXCEPT ![c] = "RUNNING"]
                 ELSE [op EXCEPT ![c] = "RUNNING", ![pending] = "CANCELLED"]
        /\ pending' = c
        /\ IF st.connected /\ st.target # d
           THEN /\ st' = [st EXCEPT !.phase = "DISCONNECTING", !.ready = FALSE]
                /\ CancelHistoryAndClose(c, r, "select")
           ELSE /\ task' = [task EXCEPT ![c] = [r EXCEPT !.pc = "select"]]
                /\ UNCHANGED <<st, lock, linkVars>>
        /\ UNCHANGED gen
  /\ UNCHANGED <<credentialVars, events, readyVars, att, faults>>

\* The rest of connect: the new target and its passkey.
Select(c) ==
  /\ At(c, "select")
  /\ gen' = gen + 1
  /\ passkey' = task[c].pass
  /\ st' = [Down("PAIRING") EXCEPT !.desired = TRUE, !.target = task[c].dev,
                                   !.cred = "AVAILABLE"]
  /\ events' = Append(events, Wake(gen'))
  /\ Goto(c, "done")
  /\ UNCHANGED <<registry, bonded, bootKnown, linkVars, lock, readyVars, att,
                 operationVars, faults>>

\* The history task has been cancelled; disconnect cancels the attempt next.
HistoryCancelled(t) ==
  /\ At(t, "cancel_history")
  /\ syncing' = FALSE
  /\ \/ /\ task[t].kind = "disconnect" /\ att.pc \notin {"none", "done"}
        /\ CancelAttempt
        /\ Goto(t, "await_attempt")
        /\ UNCHANGED <<client, callbacks>>
     \/ /\ task[t].kind # "disconnect" \/ att.pc \in {"none", "done"}
        /\ \/ /\ task[t].kind = "forget"
              /\ Goto(t, task[t].then)
              /\ UNCHANGED <<lock, linkVars>>
           \/ /\ task[t].kind # "forget"
              /\ CloseClient(t, task[t], task[t].then)
        /\ UNCHANGED att
  /\ UNCHANGED <<st, gen, credentialVars, events, polling, operationVars, faults>>

\* disconnect, up to its first suspension.
Disconnect(c) ==
  LET r == [task[c] EXCEPT !.kind = "disconnect", !.then = "gone"] IN
  /\ At(c, "idle") /\ "disconnect" \in CallKinds
  /\ gen' = gen + 1
  /\ st' = [st EXCEPT !.phase = "DISCONNECTING", !.desired = FALSE, !.ready = FALSE]
  /\ events' = Append(events, Wake(gen'))
  /\ \/ /\ ~syncing /\ att.pc \notin {"none", "done"}
        /\ CancelAttempt
        /\ task' = [task EXCEPT ![c] = [r EXCEPT !.pc = "await_attempt"]]
        /\ UNCHANGED <<client, callbacks>>
     \/ /\ syncing \/ att.pc \in {"none", "done"}
        /\ CancelHistoryAndClose(c, r, "gone")
        /\ UNCHANGED att
  /\ UNCHANGED <<credentialVars, readyVars, operationVars, faults>>

AttemptGone(c) ==
  /\ At(c, "await_attempt") /\ att.pc \in {"none", "done"}
  /\ CloseClient(c, task[c], "gone")
  /\ UNCHANGED <<st, gen, credentialVars, events, readyVars, att, operationVars, faults>>

\* The end of disconnect, whatever has been asked for in between.
Disconnected(c) ==
  /\ At(c, "gone") /\ task[c].kind = "disconnect"
  /\ st' = Down("DISCONNECTED")
  /\ op' = IF pending = NoCall THEN op ELSE [op EXCEPT ![pending] = "CANCELLED"]
  /\ pending' = NoCall
  /\ Goto(c, "done")
  /\ UNCHANGED <<gen, credentialVars, linkVars, events, lock, readyVars, att, faults>>

\* forget_pairing of the connected device; perform runs as a task of its own.
Forget(c) ==
  LET r == [task[c] EXCEPT !.kind = "forget", !.dev = st.target, !.then = "perform"] IN
  /\ At(c, "idle") /\ "forget" \in CallKinds
  /\ st.ready
  /\ gen' = gen + 1
  /\ st' = [st EXCEPT !.phase = "DISCONNECTING", !.desired = FALSE, !.ready = FALSE]
  /\ events' = Append(events, Wake(gen'))
  /\ task' = [task EXCEPT ![c] =
                [r EXCEPT !.pc = IF syncing THEN "cancel_history" ELSE "perform"]]
  /\ UNCHANGED <<credentialVars, linkVars, lock, readyVars, att, operationVars, faults>>

\* perform needs the client in use; without it the operation fails at once and
\* the manager, no longer wanted, is the one to report DISCONNECTED.
Perform(c) ==
  /\ At(c, "perform")
  /\ task' = IF client \in alive
             THEN [task EXCEPT ![c].pc = "bond_reset", ![c].client = client]
             ELSE [task EXCEPT ![c].pc = "done"]
  /\ UNCHANGED <<st, gen, credentialVars, linkVars, events, lock, readyVars, att,
                 operationVars, faults>>

\* The device schedules the removal of its bond, or does not answer.
BondReset(c) ==
  /\ At(c, "bond_reset")
  /\ \/ /\ task[c].client \in alive
        /\ CloseClient(c, task[c], "unpair")
        /\ UNCHANGED faults
     \/ /\ \/ Fault
           \/ task[c].client \notin alive /\ UNCHANGED faults
        /\ CloseClient(c, task[c], "reset_failed")
  /\ UNCHANGED <<st, gen, credentialVars, events, readyVars, att, operationVars>>

Unpair(c) ==
  /\ At(c, "unpair")
  /\ bonded' = NoDevice
  /\ alive' = alive \ {task[c].client}
  /\ task' = [task EXCEPT ![c].pc = "unpairing", ![c].client = NoClient]
  /\ UNCHANGED <<st, gen, passkey, registry, bootKnown, client, callbacks, events,
                 lock, readyVars, att, operationVars, faults>>

\* The system's bond is removed, then the credential; the passkey in memory
\* goes with it.
Forgotten(c) ==
  /\ At(c, "unpairing")
  /\ \/ /\ registry' = [registry EXCEPT ![task[c].dev] = NoPasskey]
        /\ passkey' = NoPasskey
        /\ st' = [Down("DISCONNECTED") EXCEPT !.cred = "MISSING"]
        /\ Goto(c, "done")
        /\ UNCHANGED <<lock, linkVars, faults>>
     \/ /\ Fault
        /\ CloseClient(c, task[c], "reset_failed")
        /\ UNCHANGED <<st, passkey, registry>>
  /\ UNCHANGED <<gen, bonded, bootKnown, events, readyVars, att, operationVars>>

ResetFailed(c) ==
  /\ At(c, "reset_failed")
  /\ st' = Down("DISCONNECTED")
  /\ task' = [task EXCEPT ![c].pc = "done", ![c].client = NoClient]
  /\ UNCHANGED <<gen, credentialVars, linkVars, events, lock, readyVars, att,
                 operationVars, faults>>

-----------------------------------------------------------------------------
(* The link and the history task.                                          *)

\* A transport is lost; its callback is scheduled on the loop.
LinkDrops ==
  /\ Fault
  /\ \E c \in alive :
       /\ alive' = alive \ {c}
       /\ callbacks' = callbacks \cup {c}
  /\ UNCHANGED <<st, gen, credentialVars, client, events, lock, readyVars, att, task,
                 operationVars>>

\* notify_manager: the loss of a client that was replaced is ignored.
NotifyManager ==
  /\ Loop
  /\ \E c \in callbacks :
       /\ callbacks' = callbacks \ {c}
       /\ events' = IF st.phase = "DISCONNECTING" \/ client # c THEN events
                    ELSE Append(events, LinkLost(gen, c))
  /\ UNCHANGED <<st, gen, credentialVars, client, alive, lock, readyVars, att, task,
                 operationVars, faults>>

\* The history task ends by itself.
HistoryEnds ==
  /\ syncing /\ Loop
  /\ syncing' = FALSE
  /\ UNCHANGED <<st, gen, credentialVars, linkVars, events, lock, polling, att,
                 task, operationVars, faults>>

\* Another synchronisation of a ready link: asked for by a caller, or the retry
\* of one that was incomplete.
HistoryStarts ==
  /\ ~syncing /\ st.ready /\ Loop
  /\ syncing' = TRUE
  /\ UNCHANGED <<st, gen, credentialVars, linkVars, events, lock, polling, att,
                 task, operationVars, faults>>

\* _poll_current asks for the current sample of a ready service.
PollAsks ==
  /\ polling = "none" /\ st.ready /\ Loop
  /\ polling' = "asked"
  /\ UNCHANGED <<st, gen, credentialVars, linkVars, events, lock, syncing, att, task,
                 operationVars, faults>>

PollAnswered ==
  /\ polling = "asked" /\ st.ready /\ client \in alive /\ Loop
  /\ polling' = "none"
  /\ UNCHANGED <<st, gen, credentialVars, linkVars, events, lock, syncing, att, task,
                 operationVars, faults>>

\* The request fails: a fault, or the link it was made over is gone.
PollFails ==
  /\ polling = "asked" /\ Loop
  /\ \/ Fault
     \/ ~(st.ready /\ client \in alive) /\ UNCHANGED faults
  /\ polling' = "failed"
  /\ UNCHANGED <<st, gen, credentialVars, linkVars, events, lock, syncing, att, task,
                 operationVars>>

\* The failed poll is published, then reported to the manager as a lost link of
\* no client, in the generation of that moment.  Bound: one such event waits.
PollReported ==
  /\ polling = "failed" /\ Loop
  /\ \A i \in 1 .. Len(events) : events[i].kind = "LINK_LOST" => events[i].client # NoClient
  /\ polling' = "none"
  /\ events' = Append(events, LinkLost(gen, NoClient))
  /\ UNCHANGED <<st, gen, credentialVars, linkVars, lock, syncing, att, task,
                 operationVars, faults>>

ManagerStep ==
  \/ ManagerIdle \/ ManagerReady \/ ManagerDiscovers \/ ManagerNeedsPasskey
  \/ ManagerConnects \/ ScanReturns \/ ScanFails \/ RescanReturns \/ ManagerGone
  \/ AttemptEnds \/ BootRead \/ LostHandled \/ Wakeup \/ WakeupTimeout \/ CheckLink
  \/ AcquireToClose("manager") \/ ClientClosed("manager") \/ HistoryCancelled("manager")

AttemptStep ==
  \/ AttemptQueues \/ AttemptBegins \/ AttemptPaired \/ AttemptConnected \/ AttemptAuthenticated
  \/ AttemptRead \/ AttemptFails \/ AttemptClosed

\* What a call does once it has been made.
CallStep(c) ==
  \/ Select(c) \/ AttemptGone(c) \/ Disconnected(c)
  \/ Perform(c) \/ BondReset(c) \/ Unpair(c) \/ Forgotten(c) \/ ResetFailed(c)
  \/ AcquireToClose(c) \/ ClientClosed(c) \/ HistoryCancelled(c)

Next ==
  \/ ManagerStep \/ AttemptStep
  \/ \E c \in Calls :
       \/ CallStep(c)
       \/ \E d \in Devices, p \in Supplied : Connect(c, d, p)
       \/ Disconnect(c) \/ Forget(c)
  \/ LinkDrops \/ NotifyManager \/ HistoryEnds \/ HistoryStarts
  \/ PollAsks \/ PollAnswered \/ PollFails \/ PollReported

Spec == Init /\ [][Next]_vars

\* Every awaited call of the device or the system has a time limit.  The loop
\* serves ready tasks, and the lifecycle lock its waiters, first come, first
\* served; a task is not ready while another one runs, hence SF.
Fairness ==
  /\ WF_vars(ManagerStep) /\ SF_vars(AttemptStep) /\ SF_vars(NotifyManager)
  /\ \A c \in Calls : SF_vars(CallStep(c))

FairSpec == Spec /\ Fairness

-----------------------------------------------------------------------------
(* Properties.                                                             *)

Clients == [id : 1 .. MaxClients, dev : Devices] \cup {NoClient}

\* The shape of the state.
TypeOK ==
  /\ st \in [phase : Phases, desired : BOOLEAN, target : Devices \cup {NoDevice},
             connected : BOOLEAN, ready : BOOLEAN,
             cred : {"MISSING", "AVAILABLE", "VERIFIED", "REJECTED"}]
  /\ gen \in Nat
  /\ passkey \in Passkeys \cup {NoPasskey}
  /\ registry \in [Devices -> Passkeys \cup {NoPasskey}]
  /\ bonded \in Devices \cup {NoDevice} /\ bootKnown \in BOOLEAN
  /\ client \in Clients /\ alive \subseteq Clients /\ callbacks \subseteq Clients
  /\ events \in Seq([kind : {"WAKE", "LINK_LOST"}, gen : Nat, client : Clients])
  /\ lock \in Seq(Tasks \cup {"attempt"})
  /\ syncing \in BOOLEAN /\ polling \in {"none", "asked", "failed"}
  /\ op \in [Calls -> {"NONE", "RUNNING", "SUCCEEDED", "FAILED", "CANCELLED"}]
  /\ pending \in Calls \cup {NoCall}
  /\ faults \in 0 .. MaxFaults

\* service_state.transition_state raises on a state that is ready without a
\* transport or CONNECTED without being ready: no interleaving of the tasks
\* produces one.  What the status reports as CONNECTED is exactly what the
\* request scheduler regards as ready.
ControllerConsistent ==
  /\ st.ready => st.connected
  /\ st.phase = "CONNECTED" <=> st.ready

\* README: an operation is polled "until `state` is terminal".  An operation
\* that is still running is the pending one, so a later success, failure or
\* disconnection ends it; none is forgotten by a newer call.
OperationsTracked == \A c \in Calls : op[c] = "RUNNING" <=> pending = c

Quiet == \A c \in Calls : task[c].pc \in {"idle", "done"}

\* ble_service.py waits for locks, tasks and device calls inside API calls:
\* every call returns, whatever the manager and the other calls do.
CallsReturn == \A c \in Calls : (task[c].pc # "idle") ~> (task[c].pc = "done")

\* README, table of states: every device-dependent state has a bounded exit.
\* A service that claims to be ready over a closed client or a lost transport
\* finds out.
ReadyHeals ==
  (st.ready /\ client \notin alive) ~> (~st.ready \/ client \in alive)

\* "only an explicit caller action suppresses reconnects" and such an action
\* is final: a service told to disconnect comes to rest without a client,
\* unless it is told to connect again.
DisconnectHolds ==
  (~st.desired /\ Quiet) ~>
     (st.desired \/ (st.phase = "DISCONNECTED" /\ client = NoClient))

\* A selected device whose right passkey is known is connected in the end, or
\* the attempt ends where a decision of the caller is required.
Recovers ==
  (st.desired /\ st.target # NoDevice) ~>
     \/ ~st.desired
     \/ st.ready /\ client \in alive
     \/ st.phase = "AUTHENTICATION_REQUIRED"

\* README: "No credential is saved until pairing, challenge verification,
\* protocol verification, and the initial protected temperature request all
\* succeed": what the registry holds for a device opens it.
SavedCredentialsVerified ==
  \A d \in Devices : registry[d] \in {NoPasskey, PasskeyOf[d]}

\* ble_service.py:1039-1041: "Unrelated scan or database events must never retry
\* a credential the ESP32 has already rejected.  A caller must explicitly provide
\* a replacement passkey."
RejectedNotRetried ==
  [][(att.pc = "none" /\ att'.pc = "begin") => st.cred # "REJECTED"]_vars

\* README, table of states: in AUTHENTICATION_REQUIRED "An explicit API/GUI
\* decision is required; these states do not guess user intent".  The manager
\* leaves it for a connection attempt only with a credential of the target.
AuthenticationAwaitsCaller ==
  [][(st.phase = "AUTHENTICATION_REQUIRED" /\ att'.pc = "begin" /\ att.pc = "none")
       => registry[st.target] # NoPasskey]_vars
=============================================================================
