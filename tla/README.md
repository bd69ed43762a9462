# Networked thermometer: TLA+ models, checks and proofs

The system is a two-probe thermometer on an ESP32 that serves its readings over
Bluetooth LE, a Python connector that keeps one thermometer connected and
stores its samples, and a browser console with an e-mail notifier. This
directory holds TLA+ models of its components, the TLC runs that check small
instances, and TLAPS proofs of results for every instance.

`PROJECT.json` links every definition to the source lines it models and lists
the runs, the findings, the hazards and the theorems. Line numbers below are
those of the repository's files under `src/`.

## 1. Inventory

### Firmware (`firmware/main`)

| Part | State | Operations | Interactions |
|---|---|---|---|
| `history_buffer.c` | ring of 300 records, write index, count | init, append, oldest sequence, copy from a sequence number | called under the state mutex |
| `thermometer.c` | latest reading, counters and display setting per sensor; rings; frozen rings; sequence number | acquisition tasks, state task, set/toggle display, history metadata and copy, redraw | queue from acquisition to state task; called by the button task and the NimBLE task |
| `local_controls.c` | debounced level per button | poll, toggle on press | calls `thermometer_toggle_display` |
| `real_display.c`, `real_temperature_sensors.c` | LCD, 1-Wire bus | render, read | own mutexes |
| `application_auth.c` | session, failure counter, lockout end | begin, prove | called by `protocol.c` |
| `protocol.c` | session | one handler per opcode | calls authentication and thermometer |
| `ble_server.c` | link, last response, bond to clear | GAP events, write request, read response, advertise | runs on the NimBLE host task |

Hard behaviour: five tasks share the state; redraws are not atomic; the rings
wrap and the sequence number overflows at different moments; a history transfer
overlaps sampling; authentication spans links, lockouts and power cycles; the
tick counter wraps while a button is debounced.

### Connector (`backend/pc_client`)

| Part | State | Operations | Interactions |
|---|---|---|---|
| `ble_service.py`, `service_state.py` | controller state, target, generation, passkey, client, event queue, operations | connection manager, attempts, connect, disconnect, forget, scan, start, stop, poll, history tasks, set display | one asyncio loop; Bleak callbacks from other threads |
| `ble_scheduler.py` | priority queue | submit, run, stop | one GATT request at a time |
| `thermometer_client.py`, `protocol.py` | Bleak client, request id, three locks | pair, connect, authenticate, request/response | the device |
| `history_sync.py` | progress of one transfer | synchronize, validate, timestamp | scheduler, device |
| `persistence_worker.py`, `mysql_adapter.py` | bounded queue; tables | enqueue, run, stop; upsert, reconcile | MySQL |
| `credential_registry.py`, `pairing_reset.py` | CSV of verified credentials | lookup, save, delete | file system, operating-system bonds |
| `linux_pairing.py`, `windows_pairing.py` | agent, discovery, bus connection; pairing handler | pair, remove | BlueZ over D-Bus, WinRT |
| `service_api.py`, `gui.py` | a thread with the loop (window) | HTTP and desktop calls, start, stop | the service |

Hard behaviour: every `await` lets another task change the target, the passkey,
the generation or the client; every `await` may be cancelled; locks are held
across device calls; callbacks of replaced clients arrive late; the process may
die between two writes.

### Console (`frontend`)

The alert engine and notifier, the notification server with its duplicate
suppression and saved configuration, and the data source that polls status and
samples and locks display switches while a command is on its way. Hard
behaviour: an answer older than a confirmed command; two deliveries of one
event while the first send is awaited; edits, load and delayed save of the
configuration in any order.

### Other

`protocol/` (shared configuration and header generation) carries no product
state; `verification/` is the repository's own test harness.

## 2. Modules

| Module | Models |
|---|---|
| `HistoryBuffer` | `history_buffer.c`: operators on one ring |
| `HistoryLog` | abstract specification: what the history promises a client |
| `Thermometer` | `thermometer.c` with the LCD and the probes; EXTENDS `HistoryBuffer`, instantiates `HistoryLog` |
| `LocalControls` | `local_controls.c`: polling, debounce, wrapping ticks |
| `DeviceSession` | `ble_server.c`, `application_auth.c`, the order of tests of `protocol.c` |
| `Packets`, `Protocol` | `protocol.c` against `protocol.py`: layouts, handlers, parsers, byte by byte |
| `ConnectionManager` | the connection lifecycle of `ble_service.py` |
| `Discovery` | scans, the decisions the manager takes on them, the search before a reconnection, attempt and commit |
| `ServiceLifecycle` | start, stop, supervisor, the shared scan's task, closing of clients, tracked operations, window and HTTP host |
| `BleScheduler` | `ble_scheduler.py` |
| `DeviceExchange` | `thermometer_client.py`: three locks, exchanges, opening and closing |
| `CurrentSamples` | the one-second poll, its cache, `set_display` |
| `HistoryTask` | when transfers start, are shared, retried and cancelled |
| `HistoryTransfer` | `history_sync.py` against the device's rings |
| `Persistence` | `persistence_worker.py`, the state publisher, the flush of `stop` |
| `SampleStore` | `mysql_adapter.py`: upsert, merge, reconciliation |
| `Enrollment` | `credential_registry.py`, `pairing_reset.py` and both bonds, through crashes |
| `LinuxPairing`, `WindowsPairing` | the two operating-system helpers |
| `ConsoleDisplay` | the display switch of `pythonBleSource.ts` |
| `AlertPipeline` | `alertEngine.ts` to `notify.ts`: from a sample to an email |
| `AlertConfig` | loading and the delayed saving of the alert configuration |
| `MC...` | instances for TLC and the properties of the runs |
| `...Proofs` | theorems (section 6) |

How state and actions correspond to the code, module by module:

**Thermometer.** Variables carry the C names (`latest` is `s_sensors[i].latest`
with its counters, `history_snapshot` is `s_history_snapshot`). Each critical
section is one action: `ReceiveEvent` and `SampleDeadline` are the two branches
of the state task, `SensorRead` and `SensorSend` the acquisition loop,
`SetDisplay`, `ToggleDisplay` and `GetHistoryMeta` the calls of the other tasks.
`render_current_display` copies under the state mutex (`CopyPicture`) and draws
under the LCD's own (`Draw`). Ticks are abstracted to `late`, the deadlines owed;
`next_snapshot += sample_period` is the decrement in `Draw("state")`. A Reboot
starts everything again, with or without a working LCD.

**LocalControls.** One tick is one polling period. `Wake` and `Poll(b)` are the
loop; a toggle only takes time here (`busy`), the polls missed meanwhile follow
at once (`owed`). `held` and `seen` are histories.

**DeviceSession.** NimBLE runs one callback at a time, so each is one action. A
write runs all of `protocol_process_request` (`Malformed`, `AuthBegin`,
`AuthProve`, `AfterAuthentication`, in the order of its tests). `esp_timer` time
is relative: `age` of the challenge, `lock` left of the lockout. Whether a proof
is right is a choice. `wrong`, `judged` and `prover` are histories that no guard
reads. The bond store survives `PowerCycle`.

**Packets, Protocol.** A byte is a digit of base `Base` (256 in the code, 16
here), so that `u32` and `i16` wrap and carry as they do in C and in `struct`
with numbers TLC can enumerate. `Request` is what `build_request` writes,
`Process` all of `protocol_process_request`, `Read` `parse_response` and the
decoder. `Disturb` cuts or alters the response meanwhile, or replaces it by one
to another request. HMAC is a mixing function that keeps apart the messages used.

**ConnectionManager.** `task[t].pc` is where the manager or an API call is
suspended; `att` is the connection attempt. The places in `Running` are those
where a task continues without suspending, and `Turn` lets nobody else run
there. The lifecycle lock is the sequence of its holder and waiters, as
`asyncio.Lock` is. A client is an identity with a device, so that events of a
replaced client can be told from those of its successor. The manager's actions
follow its loop from top to bottom; `Commit` is what follows a verified attempt,
and `BootRead` the suspension before it. `polling` is the poll of `_poll_current`:
it fails on the link it was made over and reports that later, without a client
(`PollReported`), to whatever generation and client are there then. A time limit
is the failure of the step it limits.

**Discovery, ServiceLifecycle.** Two further sides of the same object. Discovery
keeps scan tasks apart from those who wait for them (`Shielded`, `Leave`); an
attempt is two suspensions, the link's verification (`Attempted`) and, before the
first commit, the database read (`Committed`), after which nothing is looked at
again. ServiceLifecycle has the suspension points of `stop`, the supervisor's
back-off, background operations and the two hosts, one of which is chosen at the
start (`window`). `scan` is the task of the shared scan, which `stop` does not
know of. Whoever closes a client first drops it (`ManagerCloses`, `WorkCloses`,
`StopCloses`) and then awaits its close, which a cancellation may cut short;
`client` is the `_client` of the service, not the session behind it, which is the
matter of DeviceExchange.

**BleScheduler, Persistence, DeviceExchange.** One action per stretch of code
between two suspensions. A future is `pending` until set. In DeviceExchange any
coroutine can be cancelled where it awaits, `wire` holds the ATT operations
already issued, and a backend is `open` as long as the operating system keeps
its session. A close or a disposal may raise, run out of its time or be
cancelled; whether the session is gone then is open, and `given` is the history
of those that were left so.

**CurrentSamples, HistoryTask, HistoryTransfer, SampleStore.** Time is counted in
seconds since an anchor (`SampleStore`: in fractions, so that live and recovered
dates of one second differ). In HistoryTransfer record k has sequence number
`Seqn(k)`; the connector only handles sequence numbers, k is the truth. `frozen`
is the device's copy of its rings.

**Enrollment.** A process is a program counter inside `_write_all` with its
in-memory copy; `file` is what a reader finds, `disk` what a power loss leaves.
`promised` is a history of the saves that returned.

**LinuxPairing, WindowsPairing.** One coroutine; every action is the answer, the
refusal or the cancellation of the call it awaits. `bluez` and `windows` hold
what the system keeps of the device and of the caller.

**AlertPipeline, AlertConfig, ConsoleDisplay.** A page's effects run in the order
React runs them after one state change; requests are in flight until the server
takes them. A save is sent whatever became of the one before, and each has its
own connection of the database pool, so `puts` is a set from which any may be
stored next. `fired`, `removed`, `last` and `newest` (which save was stored last,
and the latest one stored) are histories.

## 3. Composition

`Thermometer` extends the ring and refines the abstract log. `Protocol` composes
the two codecs. `Enrollment` composes service, reset tool, file system and both
bonds. `HistoryTransfer` composes the connector with the device's rings.
`AlertPipeline` composes pages and server. The parts of the connector are
otherwise checked one by one: where one needs another it has that one's promise
(the scheduler serves one request at a time in `CurrentSamples`; an attempt
is verified, refused or fails as a whole in `Discovery`).

Several components share a run. The MC module extends the component the theorems
are about, instantiates the others and declares their variables; a variable
`part`, chosen in the initial state, says which one a behaviour follows while the
others rest in an initial state. Each part's fairness is stated for its own
steps. A property of a run is a conjunction of the components' properties, named
in its comment and defined in the component's module.

| MC module | Extends | Instantiates |
|---|---|---|
| `MCConnection` | `ConnectionManager` | `Protocol`, `Enrollment` |
| `MCPairing` | `DeviceExchange` | `BleScheduler`, `LinuxPairing`, `WindowsPairing` |
| `MCQueues` | `Persistence` | `ConnectionManager` three times: two calls, one call among faults, and polls that fail |
| `MCSamples` | `HistoryTask` | `CurrentSamples`; `HistoryTransfer` for firmware that freezes its rings and for firmware that does not; `SampleStore` for each set of bounds in `Stores` |
| `MCService` | `ServiceLifecycle` | `Discovery` once for each scene: a choice of devices, and shared scans |
| `MCConsole` | `ConsoleDisplay` | `AlertPipeline` for each part in `Pipelines`, `AlertConfig` for each in `Forms`: their pages, keys, recipients, failures and bounds |

## 4. Runs

| Run | Shows | Instance |
|---|---|---|
| `thermometer_history` | rings stay contiguous, an announced range is served, the rings implement the abstract log | 2 sensors, capacity 2, sequence numbers modulo 3 |
| `thermometer_display` | LCD and owner's view of the probes become true; a fault leaves the display setting alone | 1 sensor, queue of 1, button, NimBLE and state task, one restart, no history requests |
| `thermometer_recovery` (violated) | see section 5 | 1 sensor |
| `device_session` | who may act, how often a proof may be tried, the device is reachable again; held buttons count and bouncing ones do not | 2 centrals, 3 failures, lockout 2, challenge 1; 2 buttons, ticks modulo 10, debounce 2 |
| `connection` | controller state consistent and operations tracked; both codecs agree at every MTU and no disturbed response is a result; the registry survives crashes and power losses | 2 devices, 2 calls of any kind, polls, 1 failure; base 16, 3 device states, MTU 23 and 44; 2 devices, 3 keys, 2 faults |
| `connection_credential`, `connection_authentication` (violated) | see section 5 | 2 calls; 1 call |
| `pairing` | nobody waits for an answer nobody gives, answers belong to their requests, every session has an owner or was asked to end, no ceremony is left open, only real bonds are reported, every call returns | 3 callers, queue of 3; 5 tasks sharing a client, ids modulo 3, 1 connection, 2 failures, 1 cancellation; 2 polls of BlueZ |
| `queues` | calls return while others are made, a disconnection is final, a lost link recovers; records are answered once, stop ends with the last state stored | 2 calls without and 1 call with a fault, polls of 1 device with 2 faults; 2 samples and 2 states for a queue of 2, 1 outage |
| `samples` | no second and no record is lost silently, what is stored happened and stays, one transfer at a time, transfers end | 3 slots; 2 transfers and 3 calls on 2 devices; rings of 3, sequence numbers modulo 16; 2 or 3 seconds, 1 failed call |
| `service` | scans are shared, choices stand, operations end once, no task outlives its host, probing goes on, callers and hosts do not wait for ever | 2 devices, 1 caller, 1 choice; 1 device, 2 callers; 2 calls, 1 fault, either host |
| `console` | a confirmed display does not flicker, nobody is told of an email that was not sent, saves in any order forget nobody for good, everything settles | 2 commands, 2 presses, 2 faults; 1 page with 3 samples, 2 pages; 3 edits |

**Bounds.** A ring of two or three wraps and is read across the wrap; modulo 3
(or 16) the sequence number overflows after the ring does, so the two are out of
step in every combination. A queue of one is always empty or full. Read limits of
one and three wrong proofs are the product's. Two centrals are enough for one to
inherit what the other left. Two devices and two calls give every pairwise
overlap of calls with the manager and with an attempt; four client identities are
more than can be alive, and a fresh one is the smallest that nothing refers to.
Base 16 keeps one sign bit, a carry and a wrap in every field. Three device
states have both sensors visible with a negative odd sum and rings across the
wrap, one sensor disconnected, and nothing yet. Two waiters are enough to share a
scan and to leave it last. One outage or one cancellation is placed at every
point; more would repeat a state that is reachable with one. Where one failure
needs another to matter (a connect that fails and whose disposal fails, a poll
that fails on a link that drops) there are two. Three edits after the load make
four saves that overlap, of which any two can change places. Three calls reach
the longest chain of `HistoryTask`: a disconnection that awaits its transfer, a
connection elsewhere and one back. Polls run beside one call, and one
report of a failed poll at a time waits in the manager's queue. Each bound is a
constant or guard named as such in its module. Runs do not check for deadlock where the
program really rests: a service that waits for a caller's decision, a stopped
queue, a transfer that is over, an environment that has used up its faults.
`thermometer_history`, `thermometer_display` and `device_session` check it.

**Fairness.** FreeRTOS schedules every task again and again, blocked senders are
served in turn, and the state task's work takes far less than its period: weak
fairness of task steps, strong fairness of the queue operations, which deadlines
and other senders can disable for a while. NimBLE completes what it has begun:
weak fairness of its events, none of the centrals. In the connector the loop
serves ready tasks and every awaited device call of an attempt has a time limit
(`_run_connection_step`, `_close_client_instance`): weak fairness of the manager,
strong fairness of the tasks that others can keep from running. Linux calls end
if BlueZ answers its D-Bus calls; Windows pairings by their own time limit.
Transfers have a budget (`Expire`). The scheduler's worker, the persistence worker and the
flush of `stop` run when they can. In the console the timers go on, a request is
answered or fails, nodemailer gives up on a send. Nothing is assumed of callers,
users, the radio, the database's availability or the work of an operation.

## 5. Disagreements

Violated runs:

- `thermometer_recovery`: the firmware restores the display setting that was
  active before the fault, and says so in a comment (SWE-EMB-LLR-311); README:799
  says "with its display disabled". What the code has is `FaultPreservesDisplay`,
  checked and proved.
- `connection_credential`: between a verified attempt on A and its commit the
  manager awaits the database. A connect to B in that window replaces the passkey,
  and B's passkey is saved under A.
- `connection_authentication`: a connect to an unknown device without a passkey
  does not clear the passkey of the previous target, and the manager tries it on
  the new device.

Other statements of the repository that the models contradict. Each is a
definition of its module; TLC refutes it when it is added to a configuration of
that module alone:

| Definition | Statement | What happens |
|---|---|---|
| `BleScheduler!NoStarvation` | priorities only order the queue | two display callers that take turns keep the poll waiting for ever |
| `Persistence!HealthRecovers` | `ble_service.py`:1849, failures affect only one cycle | one failed read of the last boot id keeps the health check failing |
| `SampleStore!RemovedIsSuperseded` | `mysql_adapter.py`:233, placeholders go once superseded | a failed upsert is followed by its reconciliation |
| `SampleStore!StaleRemoved` | README:1127 | stored whole seconds let a placeholder within half a period survive |
| `HistoryTransfer!RecentFirst` | README, most recent first | a transfer begins with the oldest record |
| `HistoryTask!OneTransfer` without `~overtaken` | README:940, one deduplicated operation | `_cancel_history` (`ble_service.py`:1710-1718) cancels whatever the slot holds after its await: after a connect elsewhere and back that is the transfer of the new connection, or its slot is emptied while that runs |
| `HistoryTask!RecordsOfTarget` | records belong to their device | a connect to a device that is not enrolled changes the target of a running transfer's batch |
| `CurrentSamples!NoStaleValues` | `service_api.py`:241 | after a change of device the old values are still offered as available |
| `Enrollment!ResetRemovesAll` | `pairing_reset.py`:1 | a bond whose credential was never saved stays |
| `Enrollment!RemovedBondIsRepaired` | README:1135 | after the host bond is removed every attempt skips pairing |
| `LinuxPairing!PairEnds` without answers | `ble_service.py`:1357 | the cleanup of a cancelled pairing waits for BlueZ itself |
| `LinuxPairing!PairEnsuresAuthenticated` | `linux_pairing.py`:53 | any bond counts on Linux |
| `WindowsPairing!ForgetEnds` | README:892 | a removal has no time limit |
| `Discovery!ScansDisconnected` | README:932 | a scan goes on during a connection |
| `Discovery!SeenBeforeReconnect` | README:902 | a device no scan saw is attempted |
| `Discovery!ProbeFailsOnlyItself` | `ble_service.py`:965 | a failing probe fails a connect that was never attempted |
| `Discovery!SelectionFinal` | `ble_service.py`:965, the newer state is authoritative | a connect to B while the commit of A awaits the database: the target is A again (1128-1130) |
| `ConnectionManager!RejectedNotRetried` | `ble_service.py`:1039, nothing unrelated retries a rejected credential | a poll that fails on a lost link reports it without its client (1459). While the attempt that follows runs `_client` is `None`, so once that attempt was rejected the manager takes the report for its own (2107-2111), leaves `REJECTED` and tries the stored passkey again. It takes two faults; `MCConnectionManager` with `Calls <- MCOneCall` and no `CallKinds` finds it |
| `DeviceExchange!OnlyCancelledLeave` | `thermometer_client.py`:346, a partial backend is released | the disposal has three seconds and its errors are suppressed (351); so are those of the close after a failed exchange (435) |
| `ServiceLifecycle!StopLeavesNothing` | README:1064, `stop` | the task of the shared scan (1903) is neither cancelled nor awaited by `stop` (434-481); it ends at its own limit, or its host cancels it |
| `ServiceLifecycle!ClosesEnd` | `ble_service.py`:1407, only time limits a cleanup | `stop` cancels the manager or a reset that awaits the close of a client it has dropped |
| `AlertConfig!SavedAsShown`, `AlertConfig!OnlyRemoved` | README:695, configured recipients are persisted | saves overlap (`App.tsx`:49), each on its own connection (`alertConfig.ts`:108): the save before the last may be stored last, without the recipient that was added or the last edit |
| `AlertPipeline!EveryAlertPosted` | `useAlertNotifier.ts`:8 | more than 40 events of one frame are cut off |
| `AlertPipeline!MailedOnce`, two pages | `server/notify.test.ts`:77 | two pages post one event while the first email is being sent |
| `AlertPipeline!RearmsInBand` | README:593 | a jump from LOW to HIGH fires twice |
| `AlertConfig!NothingForgotten`, failed load | README:695 | the first edit after a failed load replaces the stored list |

## 6. Proofs

`ThermometerProofs` (any non-empty set of sensors, any capacity below the
sequence modulus, any limits and queue):

- `TypeCorrect`. Its last conjunct, that the state task redraws only while it owes
  a deadline, is what makes the decrement in `Draw` safe.
- `HistoryIsContiguous`: the live records of every ring are consecutive and end
  at the latest sequence number. `TypeOK /\ HistoryContiguous` is inductive. The
  argument is modular arithmetic: appending shifts "the k-th most recent" by one
  (`AppendEndsAt`), and the facts about `%` it needs are lemmas of their own.
- `FaultKeepsDisplay`: the action property behind the first finding.
- `AnnouncedIsServed`. `MetaDescribesCopies` (the copies end where the metadata
  say, until the next request) is inductive together with `HistoryContiguous`;
  that the linear search stops at one record only is where the capacity has to be
  below the sequence modulus (`MatchIsUnique`).
- `RingsImplementLog`: the refinement of `HistoryLog`. `ContentsAppend` shows that
  appending to a ring appends to the log it stands for and drops the oldest sample
  of a full one; `Reboot`, `SampleDeadline` and `GetHistoryMeta` are the `Restart`,
  `Sample` and `Freeze` of the log and every other step stutters.

`ConnectionProofs`, first the lifecycle (any devices, passkeys, calls, failures and
clients):

- `StateIsConsistent`: every transition of manager, attempt and calls leads to a
  controller state that `transition_state` accepts. `Accepted` is inductive alone.
- `OperationsAreTracked`, under `DevicesAssumption` (names of calls and of their
  absence differ). `OperationInv` adds that a call that was never made runs
  nothing, which needs that no task ever returns to that place, through every
  continuation it stores while it waits for the lock (`TaskInv`, `CallsGoOn`).

Then the registry (any devices, ceremonies, crashes and power losses), with
`RegistryInv` as the invariant:

- A rewrite goes from a copy through a synchronised temporary file (`Writes`), so
  what the rename leaves is whole, and a power loss tears nothing.
- A process that runs knows the file, and between the rename and the assignment its
  copy is the file (`Remembers`); the service and the reset tool do not run at the
  same time (`Alone`). So no save revives or loses an entry that another wrote.
- The devices a copy lacks have no bond in the operating system (`Removes`,
  `Erasing`), and while it is written nobody pairs. From these `CredentialsSurvive`,
  with the action property that an entry goes after its bond, or with the rename
  that a power loss undoes.

`DeviceSessionProofs` (any centrals, times and limit). None of the properties is
inductive alone. `IInv` adds that the counter agrees with the history of wrong
proofs, that an active challenge has not been judged, that a secured link is up,
and that a link has a peer; from it follow `TypeCorrect`, `WrongProofsBounded`,
`ChallengeJudgedOnce`, `SessionEndsWithLink`, `AuthenticatedMeansUnlocked` and
the action property `ProtectedAnswersNeedProof`.

`ConsoleProofs` is about all three parts of `MCConsole`, whose invariants together
make `ConsoleInv`.

- Display (any number of commands, presses and failures), `DisplayInv`.
  `ConfirmedIsShown` needs that what the device last confirmed is what it does and
  what the connector's cache says (`Fresh`), that an answer under way carries it
  (`AnswerProven`), and that a poll answered before the confirmation is met by a
  fresh override (`OldTick`). Only the arrival of a poll uses the last.
- Alerts (any pages, keys, thresholds' edits, failures and bounds), `MailInv`. The
  server remembers only what was mailed (`SeenMailed`), and a page has no two
  requests for one event (`OneRequest`); so with one page an email that goes out is
  its event's first (`MailsOnce`), and `AlertsAreTrue`. The engine's episode is the
  zone of the reading its page has (`InStep`), a page is not ahead of the database
  and shows no other readings of its row (`Behind`), and no event is later than its
  page's frame (`FiredPast`); so the event of a crossing is a new one. What the
  engine emits, and what the bounded lists keep, are lemmas about sequences
  (`TransitionsAre`, `KeptList`, `EvictedList`), by counting the places that changed
  (`RankOnto`, `InOrderLists`).
- Configuration (any recipients, edits and failures), `FormInv`. Before the load is
  over nothing is saved (`BeforeLoad`); afterwards, but for what the user removed,
  the page shows all that is or will be stored (`UiCovers`), so does the save that
  is due (`DueCovers`), and a save on its way has what was read, all saves put
  before it and, unless a later one was stored, what is stored (`SavesCover`). The
  order in which saves are stored plays no part, so the conclusion is what survives
  any order. With the crossings this gives `NobodyIsForgotten`.

`PairingProofs` is about all four parts of `MCPairing`. The exchange (any callers,
ids, connections, failures, cancellations): `IInv` says who is where and what he
holds:

- Who writes or reads holds the request lock, who pairs, opens, disposes or
  closes holds the connect lock (`LocksHeld`), and the line for the connect lock
  holds each waiter once, no connect behind a close (`LineOrdered`). So there is
  at most one exchange (`OneExchange`) and one connection (`OneConnection`).
- What a task waits for is the last operation on its way, its read the only one
  (`OwnIsLast`): ATT carries out in order, so a cancelled operation is over before
  a later one is answered. From this `ResponsesTrue`.
- A client being opened is new and replaces none that is alive (`Opening`), and a
  close that took the client finds no connect at work or in line, while `closed`
  turns later ones away (`Closing`). From this `SessionsTrue`: whoever drops a
  session has called its `disconnect()`. That this succeeds is not proved, for the
  code does not wait until it does (`OnlyCancelledLeave`, section 5).
- What was learnt of the firmware is true, so nothing overrules it: `LearntOnce`.

The others, with which it makes `PairingInv`:

- Scheduler (any callers, priorities, length of the queue). A pending future
  belongs to exactly one live request, in the queue or with the worker
  (`OneRequest`, `Awaited`), and a worker that is off holds none (`WorkerHolds`).
  From these `FuturesKept`; `UrgentFirst` needs that a nonempty queue has a most
  urgent request (`LeastNat`, by well-foundedness).
- Linux (any number of polls). A discovery runs only at the places whose every way
  out stops it (`DiscoveryBounded`); what the client concludes from an answer of
  BlueZ was so during the call (`LinuxSeen`). Each step either walks on inside the
  call (`LinuxWalk`) or ends it through its cleanup (`LinuxStop`).
- Windows. No ceremony that this program answered goes on by consent alone
  (`WindowsPlaces`), not even one it has abandoned.
- From these `CleanedUp` and, as action properties, `CallsKeepTheirWord`.

`SamplesProofs` is about all four parts of `MCSamples`, whose invariants together
make `SamplesInv`.

- Poll (any devices, commands, slots, failures and changes of device), `PollInv`. A
  slot is asked for once, when it is due (`Polling`), so each is published once. A
  command that waits has its one request in the queue or in the exchange
  (`Requested`), which serves the target (`Wired`).
- Database (any seconds, phases and number of transfers and failures), `StoreInv`.
  A row of a sample is keyed by its second and holds the device's readings or none
  (`RowFine`); a batch has one sample for a second (`BatchFine`), so a merge loses
  no reading, from which `ReadingsKept`. While no call failed, a reconciliation
  comes right after its own batch (`Follows`) and every second is to be applied
  still, or has its row, or an adjacent sample has (`Covered`). What is adjacent is
  arithmetic over any clock phases: a rounded date is at most one second away
  (`StoredAt`), and a placeholder near a sample is one of its neighbours
  (`NearIsAdjacent`).
- Transfer (any ring, chunk size, sequence space over twice the records in reach,
  retries and failures), `TransferInv`. Of every sensor the records up to the one
  that was newest at the metadata are left to be read, beginning with the number
  asked for (`Ahead`); what was received comes before (`Behind`), and its number
  is what was counted (`Counted`). A sensor waits while something is left of it,
  and only a reported failure ends that (`Waiting`, `Unreported`, `Missing`). Rings
  that were frozen still hold all of it (`Freezing`); the others lose it only by
  going on (`Refreshing`). That no two numbers in reach are alike (`NumbersDiffer`)
  and how far one is from another in both directions (`Distance`) are lemmas about
  remainders.
- Tasks (any devices, operations and calls), `IInv`. Operations are numbered as
  they started and the slot holds the last (`Numbered`), a running transfer is in
  the slot (`SlotHolds`), the transfer a caller awaits is over, the last one
  started, and not followed by another before the next commit (`Awaited`), and a
  stop leaves no attempt to commit (`Stopping`). All but `Numbered`, `RetryPending`
  and `Stopping` hold until a commit overtakes a caller (`overtaken`, see
  section 5): that is where the code itself loses track. From these
  `TransfersFollowed`.
- From all four `NothingLost` and `RecordedHappened`.

`PersistenceProofs` (any records, capacity, states and outages):

- `Tracked`: a job waits once, in the queue or with the worker, exactly while its
  future is pending. `NoLostJob` counts the same.
- `Publication`: the states that wait are the newest, in order, and the publisher
  hands over one at a time, so at most one state is a job.
- `Ordered`: that job, and every state behind it, is newer than what is stored.
  From this the action property in `StatesNeverGoBack`.
- `Stored`: without outage or overflow, what is stored is what was published. With
  `Tracked` it gives `RecordsAreAnswered`.

`ServiceProofs`, first the lifecycle (any calls, lost links and failures, both
hosts). What a
step does to a call, its operation and its background task is one of eleven moves
(`Moves`), each call's part of the invariant follows from its move alone:

- `Fresh`, `WorkFollows`, `Awaited`: a call that has not run made nothing, a task
  and its operation go together, and what is forgotten ended long ago. From these
  `EndedStaysEnded`.
- `Stopping`: after `stop()` has begun nothing is desired, pending or called. So
  nothing connects or launches any more, and each stage of `stop()` keeps what the
  one before it reached (`Drains`, for the HTTP application, whose requests end
  first). What `stop()` leaves the host reaps (`Reaped`): the shared scan, and in
  the window, which may cut `stop()` short, every other task. From these
  `NothingIsLeft`.

Then the discovery, in any scenes (any devices, finitely many callers, any number
of calls and choices), with `FindingInv` as the invariant:

- `ScansKept`: a scan that runs is the one to be joined, so there is at most one;
  every scan that is kept is waited for or to be joined, every one that is waited
  for is kept, and numbers are unique. A number for a new scan is free because
  there are two more than callers (`Spare`, by counting). `Watching` says where the
  manager waits. From these `ScansAreShared`.
- `Decided`: the generation grows with the calls and with the first choice of a
  device only. `Follows`: an attempt is for the target of its generation, until the
  generation passes. So a step of the manager keeps a target (`TargetKept`) unless
  it commits an attempt that a choice has overtaken, from which, with `EndedKept`,
  the action properties in `DecisionsAreKept`.

Only model-checked: liveness under fairness and `ENABLED`, which are out of the
prover's reach, and so is what the codecs' folds over bytes and layouts compute
(`Protocol`, and with it `SidesAgree`, which also has the type invariant of
`ConnectionManager`); and `errors` and `lastError` of `Persistence`.

## 7. Left to do

Composition of `ConnectionManager` with `Discovery` and `ServiceLifecycle`, of
`HistoryTask` with `HistoryTransfer` and `SampleStore`.

## 8. Not modelled

Bit timing and CRC of the probes, LCD pulses, HMAC-SHA-256, the CSV dialect, SQL
text, the in-memory database adapter, HTTP validation and the mapping of errors
to status codes, widgets and layout of desktop and browser, chart rows, the
parsing of configuration files, retry counts and back-off as numbers: they keep
no state that the properties tell apart. A device that restarts during a transfer
(the boot identifiers of `history_sync.py`:176, 213) is left out. Mock services
and the repository's verification harness are not part of the product. Components
that are covered in part are marked `partly` in `PROJECT.json`, with what is left
out.
