--------------------------- MODULE CurrentSamples ---------------------------
(***************************************************************************)
(* The one-second poll of backend/pc_client/ble_service.py, the diagnostic *)
(* cache behind GET /api/v1/ble/current and the display commands, while    *)
(* the clock stalls, requests fail and another thermometer is selected.    *)
(*                                                                         *)
(* Requests go through the scheduler (BleScheduler.tla): one at a time,    *)
(* display commands first.  A step is what the event loop runs without     *)
(* suspending.  One display is modelled; the sensors are alike.            *)
(***************************************************************************)
EXTENDS Naturals, Sequences, SequencesExt

CONSTANTS Devices, NoDevice,
          Unenrolled,   \* devices without a stored passkey
          Commands,     \* PUT /displays calls
          Wanted,       \* the state a command asks for
          MaxSlot,      \* bound: one-second slots
          MaxFaults,    \* bound: failed requests and button presses
          MaxSwitches   \* bound: selections of a device

SampleAssumption ==
    /\ Unenrolled \subseteq Devices /\ NoDevice \notin Devices
    /\ Wanted \in [Commands -> BOOLEAN]
    /\ {MaxSlot, MaxFaults, MaxSwitches} \subseteq Nat

VARIABLES
    now, next,  \* seconds since the poller's anchor, next_deadline
    poll,       \* "sleep" or "asked"
    rows,       \* per slot: what the poller published for it
    ready, target, client,      \* controller state and the open client
    queue,      \* requests in the scheduler
    wire,       \* [req, dev] in the exchange, or Idle
    display,    \* per device: its display is enabled
    cache,      \* _last_current
    cmd,        \* per command: [pc, dev]
    log,        \* display results queued for the database
    shown,      \* per command: its device showed the wanted state since
    faults, switches

time == <<now, next, poll, rows>>
connection == <<ready, target, client>>
vars == <<time, connection, queue, wire, display, cache, cmd, log, shown, faults,
          switches>>

PollRequest == [kind |-> "poll", of |-> "poller"]
SetRequest(c) == [kind |-> "set", of |-> c]
ConfirmRequest(c) == [kind |-> "confirm", of |-> c]
Requests == {PollRequest} \cup {SetRequest(c) : c \in Commands}
                          \cup {ConfirmRequest(c) : c \in Commands}
Idle == [req |-> [kind |-> "none", of |-> "nobody"], dev |-> NoDevice]
Unavailable == [available |-> FALSE, dev |-> NoDevice, shows |-> FALSE]

TypeOK ==
    /\ now \in 0..MaxSlot /\ next \in 1..MaxSlot + 1 /\ poll \in {"sleep", "asked"}
    /\ rows \in [1..MaxSlot -> Seq({"LIVE", "PROVISIONAL"})]
    /\ ready \in BOOLEAN /\ {target, client} \subseteq Devices \cup {NoDevice}
    /\ queue \subseteq Requests
    /\ wire = Idle \/ wire \in [req : Requests, dev : Devices]
    /\ display \in [Devices -> BOOLEAN]
    /\ cache = Unavailable
         \/ cache \in [available : {TRUE}, dev : Devices, shows : BOOLEAN]
    /\ cmd \in [Commands -> [pc : {"idle", "sent", "confirm", "persist", "ok", "failed"},
                             dev : Devices \cup {NoDevice}]]
    /\ log \in Seq([dev : Devices, shows : BOOLEAN])

\* A ready connection; the poller has just set its anchor.
Init ==
    /\ now = 0 /\ next = 1 /\ poll = "sleep" /\ rows = [k \in 1..MaxSlot |-> <<>>]
    /\ target \in Devices \ Unenrolled /\ client = target /\ ready = TRUE
    /\ queue = {} /\ wire = Idle /\ display = [d \in Devices |-> FALSE]
    /\ cache = [available |-> TRUE, dev |-> target, shows |-> FALSE]
    /\ cmd = [c \in Commands |-> [pc |-> "idle", dev |-> NoDevice]]
    /\ log = <<>> /\ shown = [c \in Commands |-> FALSE] /\ faults = 0 /\ switches = 0

Fault == faults < MaxFaults /\ faults' = faults + 1

-----------------------------------------------------------------------------
(* The poller *)

Tick ==
    /\ now < MaxSlot /\ now' = now + 1
    /\ UNCHANGED <<next, poll, rows, connection, queue, wire, display, cache, cmd,
                   log, shown, faults, switches>>

Publish(r, ks, kind) ==
    [k \in DOMAIN r |-> IF k \in ks THEN Append(r[k], kind) ELSE r[k]]

\* Deadlines that passed a whole interval ago.
Missed == next..now - 1

\* The newest due slot is requested, the older ones are published as missing.
PollWakes ==
    /\ poll = "sleep" /\ next <= now
    /\ LET late == Publish(rows, Missed, "PROVISIONAL")
       IN  IF ready
           THEN /\ rows' = late /\ next' = now
                /\ queue' = queue \cup {PollRequest} /\ poll' = "asked"
           ELSE /\ rows' = Publish(late, {now}, "PROVISIONAL") /\ next' = now + 1
                /\ UNCHANGED <<queue, poll>>
    /\ cache' = IF Missed # {} \/ ~ready THEN Unavailable ELSE cache
    /\ UNCHANGED <<now, connection, wire, display, cmd, log, shown, faults, switches>>

\* The request returned or raised; the next slot follows this one.
SlotDone(kind) ==
    /\ rows' = Publish(rows, {next}, kind)
    /\ next' = next + 1 /\ poll' = "sleep" /\ UNCHANGED now

-----------------------------------------------------------------------------
(* The scheduler's worker *)

\* set_display's waiter, when its request failed before the timeout.
CommandFails(c) == cmd' = [cmd EXCEPT ![c].pc = "failed"]

\* A request that raises: not connected, or the exchange broke.
Raises(r) ==
    CASE r.kind = "poll" ->
            SlotDone("PROVISIONAL") /\ cache' = Unavailable /\ UNCHANGED cmd
      [] r.kind = "set" ->
            /\ IF cmd[r.of].pc = "sent" THEN CommandFails(r.of) ELSE UNCHANGED cmd
            /\ UNCHANGED <<time, cache>>
      [] OTHER ->
            /\ IF cmd[r.of].pc = "confirm" THEN CommandFails(r.of) ELSE UNCHANGED cmd
            /\ UNCHANGED <<time, cache>>

\* The worker takes the most urgent request.
Take(r) ==
    /\ wire = Idle /\ r \in queue
    /\ r.kind = "set" \/ \A q \in queue : q.kind # "set"
    /\ queue' = queue \ {r}
    /\ IF ready /\ client # NoDevice
       THEN wire' = [req |-> r, dev |-> client] /\ UNCHANGED <<time, cache, cmd>>
       ELSE Raises(r) /\ UNCHANGED wire
    /\ UNCHANGED <<connection, display, log, shown, faults, switches>>

ExchangeFails ==
    /\ wire # Idle /\ Fault
    /\ Raises(wire.req) /\ wire' = Idle
    /\ UNCHANGED <<connection, queue, display, log, shown, switches>>

\* The device that answered, and what it shows.
Snapshot(d) == [available |-> TRUE, dev |-> d, shows |-> display[d]]

CurrentAnswered ==
    /\ wire # Idle /\ wire.req.kind = "poll"
    /\ wire' = Idle
    /\ SlotDone("LIVE") /\ cache' = Snapshot(wire.dev)
    /\ UNCHANGED <<connection, queue, display, cmd, log, shown, faults, switches>>

Logged(d, e) == Append(log, [dev |-> d, shows |-> e])

\* Every command whose device shows what it wants now.
Shows(d, e) ==
    [c \in Commands |-> shown[c] \/ (/\ cmd[c].pc \notin {"idle", "ok", "failed"}
                                     /\ cmd[c].dev = d /\ Wanted[c] = e)]

\* SET_DISPLAY is carried out and answered.  If the command was given up
\* meanwhile, the answer is dropped.
DisplaySet ==
    /\ wire # Idle /\ wire.req.kind = "set"
    /\ wire' = Idle
    /\ LET c == wire.req.of
           e == Wanted[c]
       IN  /\ display' = [display EXCEPT ![wire.dev] = e]
           /\ shown' = Shows(wire.dev, e)
           /\ IF cmd[c].pc = "sent"
              THEN cmd' = [cmd EXCEPT ![c].pc = "persist"] /\ log' = Logged(target, e)
              ELSE UNCHANGED <<cmd, log>>
    /\ UNCHANGED <<time, connection, queue, cache, faults, switches>>

Matches(c, e) == Wanted[c] = e

\* The authoritative state after a timeout.
Confirmed ==
    /\ wire # Idle /\ wire.req.kind = "confirm"
    /\ wire' = Idle
    /\ LET c == wire.req.of
           e == display[wire.dev]
       IN  IF cmd[c].pc # "confirm" THEN UNCHANGED <<cmd, log, cache>>
           ELSE IF Matches(c, e)
           THEN /\ cmd' = [cmd EXCEPT ![c].pc = "persist"]
                /\ log' = Logged(target, e) /\ cache' = Snapshot(wire.dev)
           ELSE CommandFails(c) /\ UNCHANGED <<log, cache>>
    /\ UNCHANGED <<time, connection, queue, display, shown, faults, switches>>

-----------------------------------------------------------------------------
(* set_display *)

SetDisplay(c) ==
    /\ cmd[c].pc = "idle" /\ ready
    /\ cmd' = [cmd EXCEPT ![c] = [pc |-> "sent", dev |-> target]]
    /\ shown' = [shown EXCEPT ![c] = display[target] = Wanted[c]]
    /\ queue' = queue \cup {SetRequest(c)}
    /\ UNCHANGED <<time, connection, wire, display, cache, log, faults, switches>>

\* display_command_timeout_seconds passed: a queued command is withdrawn, one
\* in the exchange goes on, and the state is asked for.
CommandTimeout(c) ==
    /\ cmd[c].pc = "sent"
    /\ IF ready
       THEN /\ cmd' = [cmd EXCEPT ![c].pc = "confirm"]
            /\ queue' = (queue \ {SetRequest(c)}) \cup {ConfirmRequest(c)}
       ELSE CommandFails(c) /\ queue' = queue \ {SetRequest(c)}
    /\ UNCHANGED <<time, connection, wire, display, cache, log, shown, faults, switches>>

ConfirmTimeout(c) ==
    /\ cmd[c].pc = "confirm"
    /\ CommandFails(c) /\ queue' = queue \ {ConfirmRequest(c)}
    /\ UNCHANGED <<time, connection, wire, display, cache, log, shown, faults, switches>>

\* The database write returned or its share of the budget is used up: the
\* cached snapshot is corrected and the caller answered.
CommandReturns(c) ==
    /\ cmd[c].pc = "persist"
    /\ cmd' = [cmd EXCEPT ![c].pc = "ok"]
    /\ cache' = IF cache.available THEN [cache EXCEPT !.shows = Wanted[c]] ELSE cache
    /\ UNCHANGED <<time, connection, queue, wire, display, log, shown, faults, switches>>

-----------------------------------------------------------------------------
(* The device and the connection *)

\* The button beside the display.
Button(d) ==
    /\ Fault
    /\ display' = [display EXCEPT ![d] = ~@]
    /\ shown' = Shows(d, ~display[d])
    /\ UNCHANGED <<time, connection, queue, wire, cache, cmd, log, switches>>

\* _connection_lost
Lost ==
    /\ ready /\ Fault
    /\ ready' = FALSE /\ client' = NoDevice /\ cache' = Unavailable
    /\ UNCHANGED <<time, target, queue, wire, display, cmd, log, shown, switches>>

\* connect(d): a connected client is closed first, which waits for the
\* exchange.
Select(d) ==
    /\ d # target /\ d \notin Unenrolled /\ ready => wire = Idle
    /\ switches < MaxSwitches /\ switches' = switches + 1
    /\ target' = d /\ ready' = FALSE /\ client' = IF ready THEN NoDevice ELSE client
    /\ UNCHANGED <<time, queue, wire, display, cache, cmd, log, shown, faults>>

\* connect(d) without a passkey for d: nothing is closed.
SelectUnenrolled(d) ==
    /\ d # target /\ d \in Unenrolled
    /\ switches < MaxSwitches /\ switches' = switches + 1
    /\ target' = d /\ ready' = FALSE
    /\ UNCHANGED <<time, client, queue, wire, display, cache, cmd, log, shown, faults>>

\* The manager verified the target: its first snapshot is published.  The
\* worker has long refused what was queued for the previous connection.
Ready ==
    /\ ~ready /\ target \notin Unenrolled /\ queue = {} /\ wire = Idle
    /\ ready' = TRUE /\ client' = target /\ cache' = Snapshot(target)
    /\ UNCHANGED <<time, target, queue, wire, display, cmd, log, shown, faults, switches>>

Next ==
    \/ Tick \/ PollWakes
    \/ \E r \in queue : Take(r)
    \/ ExchangeFails \/ CurrentAnswered \/ DisplaySet \/ Confirmed
    \/ \E c \in Commands : SetDisplay(c) \/ CommandTimeout(c) \/ ConfirmTimeout(c)
                            \/ CommandReturns(c)
    \/ \E d \in Devices : Button(d) \/ Select(d) \/ SelectUnenrolled(d)
    \/ Lost \/ Ready

Spec == Init /\ [][Next]_vars

-----------------------------------------------------------------------------

\* Every one-second slot that passed is published once, as a sample or as
\* missing, however long the loop, a request or the operating system stalled
\* (_poll_current).
SlotsAccounted ==
    \A k \in 1..MaxSlot : Len(rows[k]) = IF k < next THEN 1 ELSE 0

\* A display command that is answered with success names a state its device
\* showed after the command was given, even when the first exchange timed out
\* and another caller or the button changed the display meanwhile
\* (set_display).
ConfirmedWasShown ==
    \A c \in Commands : cmd[c].pc \in {"persist", "ok"} => shown[c]

\* The display results queued for the database end with what the device
\* shows, once nobody commands it and unless the button or a failed command
\* changed it (set_display queues its result before it waits for it).
LogFollowsDevice ==
    (/\ faults = 0 /\ log # <<>> /\ switches = 0
     /\ \A c \in Commands : cmd[c].pc \in {"idle", "persist", "ok"})
    => Last(log).shows = display[Last(log).dev]

\* service_api.py:241: "No stale numeric values are returned when the current
\* cycle is absent": an available snapshot is the selected device's.
NoStaleValues == cache.available => cache.dev = target
=============================================================================
