---------------------------- MODULE Thermometer ----------------------------
(***************************************************************************)
(* firmware/main/src/thermometer.c: the state owner of the device.         *)
(*                                                                         *)
(* Tasks: one acquisition task per sensor sends readings through a bounded *)
(* queue to the state task, which applies them and, once per sample        *)
(* period, appends both sensors to their rings and redraws the LCD.  The   *)
(* button task and the NimBLE host task change display_enabled, freeze the *)
(* rings and redraw as well.  State is guarded by s_state_mutex; the LCD   *)
(* has its own mutex, and a redraw copies the state under the first and    *)
(* draws it under the second, so a redraw is two separate steps.           *)
(*                                                                         *)
(* Time is abstracted to "late", the number of sample deadlines that have  *)
(* passed and have not been served.                                        *)
(***************************************************************************)
EXTENDS Integers, HistoryBuffer

CONSTANTS
  Sensors,              \* sensor indices (two on the product)
  Temperatures,         \* centi-degrees a probe can report
  FailedReadLimit,      \* THERMOMETER_FAILED_READ_LIMIT (1)
  SuccessfulReadLimit,  \* THERMOMETER_SUCCESSFUL_READ_LIMIT (1)
  CounterMax,           \* UINT16_MAX, where the read counters saturate
  SequenceModulus,      \* 2^32: s_latest_sequence is a uint32_t
  QueueCapacity,        \* 2 * THERMOMETER_SENSOR_COUNT
  Users,                \* interactive tasks: a subset of {"button", "ble"}
  HotPlug,              \* bound: sensors whose probe may come and go
  Switchable,           \* bound: sensors whose display users operate
  MaxLate,              \* bound: sample deadlines the state task may owe
  MaxBoots              \* bound: restarts

ASSUME SensorsAssumption == 
  Sensors # {} /\ HotPlug \subseteq Sensors /\ Switchable \subseteq Sensors
ASSUME TemperaturesAssumption == Temperatures \subseteq Int /\ Temperatures # {}
ASSUME LimitsAssumption ==
  /\ FailedReadLimit \in Nat \ {0}
  /\ SuccessfulReadLimit \in Nat \ {0}
  /\ CounterMax \in Nat
  /\ FailedReadLimit <= CounterMax /\ SuccessfulReadLimit <= CounterMax
\* A sequence number names at most one live record of a ring.
ASSUME ModulusAssumption ==
  SequenceModulus \in Nat /\ HistoryCapacity < SequenceModulus
ASSUME BoundsAssumption ==
  /\ QueueCapacity \in Nat \ {0}
  /\ Users \subseteq {"button", "ble"}
  /\ MaxLate \in Nat \ {0} /\ MaxBoots \in Nat

VARIABLES
  latest,           \* s_sensors[i].latest without its sequence, and the counters
  history,          \* s_sensors[i].history
  latest_sequence,  \* s_latest_sequence, also every latest.sequence
  history_snapshot, \* s_history_snapshot
  snapshot_valid,   \* s_history_snapshot_valid
  meta,             \* the last GET_HISTORY_META answer of this boot, or NoMeta
  boot_id,          \* s_boot_id, fresh at each boot
  events,           \* s_sensor_events
  pending,          \* the event an acquisition task is about to send
  attached,         \* environment: the probe answers with a valid CRC
  late,             \* deadlines passed: now - next_snapshot, in periods
  step,             \* where each task is in render_current_display
  held,             \* the picture a task has copied and not yet drawn
  displayed,        \* what the LCD shows
  lcd_ready         \* s_initialized of the LCD driver

vars == <<latest, history, latest_sequence, history_snapshot, snapshot_valid,
          meta, boot_id, events, pending, attached, late, step, held,
          displayed, lcd_ready>>

Tasks == {"state"} \cup Users

\* data_status
Valid == "VALID"
Disconnected == "DISCONNECTED"

Readings ==
  [valid : {TRUE}, temperature : Temperatures] \cup
  [valid : {FALSE}, temperature : {0}]
NoEvent == [valid |-> FALSE, temperature |-> -1]
StoredTemperatures == Temperatures \cup {0}

LatestType ==
  [temperature : StoredTemperatures, data_status : {Valid, Disconnected},
   display_enabled : BOOLEAN,
   failed_reads : 0 .. CounterMax, successful_reads : 0 .. CounterMax]

Records ==
  [sequence : 0 .. (SequenceModulus - 1),
   temperature : StoredTemperatures, data_status : {Valid, Disconnected}]
ZeroRecord == [sequence |-> 0, temperature |-> 0, data_status |-> Valid]

-----------------------------------------------------------------------------
(* Snapshots and pictures.                                                 *)

\* Plausible bug: a stored value counts as available.
AlwaysAvailable(sensor) == TRUE

sensor_is_available(sensor) == sensor.data_status = Valid
sensor_is_visible(sensor) == sensor_is_available(sensor) /\ sensor.display_enabled

thermometer_visible_state(sensor) ==
  CASE ~sensor_is_available(sensor) -> "DISCONNECTED"
    [] sensor_is_visible(sensor)    -> "ON"
    [] OTHER                        -> "OFF"

\* One line of the LCD per sensor: the temperature only while it is ON.
Line(sensor) ==
  [state |-> thermometer_visible_state(sensor),
   temperature |-> IF sensor_is_visible(sensor) THEN sensor.temperature ELSE 0]

\* copy_current_snapshot_locked followed by format_sensor_line.
Picture == [s \in Sensors |-> Line(latest[s])]
\* The start-up text, before the first redraw and while nothing is held.
Blank == [s \in Sensors |-> [state |-> "BLANK", temperature |-> 0]]
Lines == [state : {"DISCONNECTED", "ON", "OFF", "BLANK"},
          temperature : StoredTemperatures]

-----------------------------------------------------------------------------
(* Boot: thermometer_start, after which every task is at the top of its    *)
(* loop.  The LCD is optional.                                             *)

ZeroLatest ==
  [temperature |-> 0, data_status |-> Disconnected, display_enabled |-> FALSE,
   failed_reads |-> 0, successful_reads |-> 0]

NoMeta == [boot_id |-> -1, newest_sequence |-> 0,
           counts |-> [s \in Sensors |-> 0],
           oldest_sequences |-> [s \in Sensors |-> 0]]

EmptyRings == [s \in Sensors |-> history_buffer_init(ZeroRecord)]

Init ==
  /\ latest = [s \in Sensors |-> ZeroLatest]
  /\ history = EmptyRings
  /\ latest_sequence = 0
  /\ history_snapshot = EmptyRings
  /\ snapshot_valid = FALSE
  /\ meta = NoMeta
  /\ boot_id = 0
  /\ events = << >>
  /\ pending = [s \in Sensors |-> NoEvent]
  /\ attached \in [Sensors -> BOOLEAN]
  /\ \A s \in Sensors \ HotPlug : attached[s]
  /\ late = 0
  /\ step = [t \in Tasks |-> "idle"]
  /\ held = [t \in Tasks |-> Blank]
  /\ displayed = Blank
  /\ lcd_ready \in BOOLEAN

\* A power cycle: everything lives in RAM and is initialised again.
Reboot ==
  /\ boot_id < MaxBoots
  /\ latest' = [s \in Sensors |-> ZeroLatest]
  /\ history' = EmptyRings
  /\ latest_sequence' = 0
  /\ history_snapshot' = EmptyRings
  /\ snapshot_valid' = FALSE
  /\ meta' = NoMeta
  /\ boot_id' = boot_id + 1
  /\ events' = << >>
  /\ pending' = [s \in Sensors |-> NoEvent]
  /\ late' = 0
  /\ step' = [t \in Tasks |-> "idle"]
  /\ held' = [t \in Tasks |-> Blank]
  /\ displayed' = Blank
  /\ lcd_ready' \in BOOLEAN
  /\ UNCHANGED attached

-----------------------------------------------------------------------------
(* sensor_acquisition_task                                                 *)

\* temperature_sensor_read waits for a conversion; it is valid exactly when
\* the probe answered.
SensorRead(s) ==
  /\ pending[s] = NoEvent
  /\ \E reading \in Readings :
       /\ reading.valid = attached[s]
       /\ pending' = [pending EXCEPT ![s] = reading]
  /\ UNCHANGED <<latest, history, latest_sequence, history_snapshot,
                 snapshot_valid, meta, boot_id, events, attached, late, step,
                 held, displayed, lcd_ready>>

\* xQueueSend(portMAX_DELAY) blocks while the queue is full.
SensorSend(s) ==
  /\ pending[s] # NoEvent
  /\ Len(events) < QueueCapacity
  /\ events' = Append(events, [sensor_index |-> s, reading |-> pending[s]])
  /\ pending' = [pending EXCEPT ![s] = NoEvent]
  /\ UNCHANGED <<latest, history, latest_sequence, history_snapshot,
                 snapshot_valid, meta, boot_id, attached, late, step, held,
                 displayed, lcd_ready>>

-----------------------------------------------------------------------------
(* thermometer_state_task                                                  *)

\* Plausible bug: the counter is incremented without a limit.
Unsaturated(n) == n + 1

Saturating(n) == IF n < CounterMax THEN n + 1 ELSE n

\* Plausible bug: one failed read too many is tolerated.
ExceedsLimit(failures) == failures > FailedReadLimit

ReachesLimit(failures) == failures >= FailedReadLimit

apply_sensor_reading(sensor, reading) ==
  IF reading.valid
  THEN LET successes == Saturating(sensor.successful_reads)
           accepted  == sensor.data_status = Valid
                          \/ successes >= SuccessfulReadLimit
       IN  [sensor EXCEPT
              !.failed_reads = 0,
              !.successful_reads = successes,
              !.temperature = IF accepted THEN reading.temperature ELSE @,
              !.data_status = IF accepted THEN Valid ELSE @]
  ELSE LET failures == Saturating(sensor.failed_reads)
       IN  [sensor EXCEPT
              !.successful_reads = 0,
              !.failed_reads = failures,
              !.data_status = IF ReachesLimit(failures)
                              THEN Disconnected ELSE @]

\* append_history_record for one sensor.
append_history_record(s, sequence) ==
  history_buffer_append(history[s],
    [sequence    |-> sequence,
     temperature |-> latest[s].temperature,
     data_status |-> latest[s].data_status])

\* The task goes on to render_current_display.
Redraw(t) == [step EXCEPT ![t] = "copy"]

\* Another sample period goes by.
DeadlinePasses ==
  /\ late < MaxLate
  /\ late' = late + 1
  /\ UNCHANGED <<latest, history, latest_sequence, history_snapshot,
                 snapshot_valid, meta, boot_id, events, pending, attached,
                 step, held, displayed, lcd_ready>>

\* The deadline branch: one sample of every sensor, then a redraw.
SampleDeadline ==
  /\ step["state"] = "idle"
  /\ late > 0
  /\ latest_sequence' = (latest_sequence + 1) % SequenceModulus
  /\ history' = [s \in Sensors |-> append_history_record(s, latest_sequence')]
  /\ step' = Redraw("state")
  /\ UNCHANGED <<latest, history_snapshot, snapshot_valid, meta, boot_id,
                 events, pending, attached, late, held, displayed, lcd_ready>>

\* The receive branch is reached only before the next deadline.
ReceiveEvent ==
  /\ step["state"] = "idle"
  /\ late = 0
  /\ events # << >>
  /\ LET event == Head(events)
     IN  latest' = [latest EXCEPT ![event.sensor_index] =
                      apply_sensor_reading(@, event.reading)]
  /\ events' = Tail(events)
  /\ UNCHANGED <<history, latest_sequence, history_snapshot, snapshot_valid,
                 meta, boot_id, pending, attached, late, step, held,
                 displayed, lcd_ready>>

-----------------------------------------------------------------------------
(* render_current_display, run by any task after its state change.         *)

CopyPicture(t) ==
  /\ step[t] = "copy"
  /\ held' = [held EXCEPT ![t] = Picture]
  /\ step' = [step EXCEPT ![t] = "draw"]
  /\ UNCHANGED <<latest, history, latest_sequence, history_snapshot,
                 snapshot_valid, meta, boot_id, events, pending, attached,
                 late, displayed, lcd_ready>>

\* local_display_render does nothing when the LCD failed to initialise.  The
\* state task then advances next_snapshot by one period.
Draw(t) ==
  /\ step[t] = "draw"
  /\ displayed' = IF lcd_ready THEN held[t] ELSE displayed
  /\ held' = [held EXCEPT ![t] = Blank]
  /\ step' = [step EXCEPT ![t] = "idle"]
  /\ late' = IF t = "state" THEN late - 1 ELSE late
  /\ UNCHANGED <<latest, history, latest_sequence, history_snapshot,
                 snapshot_valid, meta, boot_id, events, pending, attached,
                 lcd_ready>>

-----------------------------------------------------------------------------
(* Requests of the button task and of the NimBLE host task.                *)

\* thermometer_set_display: redraws only when the setting changed.
SetDisplay(s, enabled) ==
  /\ "ble" \in Users
  /\ step["ble"] = "idle"
  /\ LET available == sensor_is_available(latest[s])
     IN  /\ latest' = IF available
                      THEN [latest EXCEPT ![s].display_enabled = enabled]
                      ELSE latest
         /\ step' = IF available /\ latest[s].display_enabled # enabled
                    THEN Redraw("ble") ELSE step
  /\ UNCHANGED <<history, latest_sequence, history_snapshot, snapshot_valid,
                 meta, boot_id, events, pending, attached, late, held,
                 displayed, lcd_ready>>

\* thermometer_toggle_display: refused while the sensor is disconnected.
ToggleDisplay(s) ==
  /\ "button" \in Users
  /\ step["button"] = "idle"
  /\ sensor_is_available(latest[s])
  /\ latest' = [latest EXCEPT ![s].display_enabled = ~@]
  /\ step' = Redraw("button")
  /\ UNCHANGED <<history, latest_sequence, history_snapshot, snapshot_valid,
                 meta, boot_id, events, pending, attached, late, held,
                 displayed, lcd_ready>>

\* thermometer_get_history_meta: freezes the rings and describes the copies.
GetHistoryMeta ==
  /\ "ble" \in Users
  /\ step["ble"] = "idle"
  /\ history_snapshot' = history
  /\ snapshot_valid' = TRUE
  /\ meta' = [boot_id |-> boot_id,
              newest_sequence |-> latest_sequence,
              counts |-> [s \in Sensors |-> history_snapshot'[s].count],
              oldest_sequences |->
                [s \in Sensors |->
                   history_buffer_oldest_sequence(history_snapshot'[s])]]
  /\ UNCHANGED <<latest, history, latest_sequence, boot_id, events, pending,
                 attached, late, step, held, displayed, lcd_ready>>

\* Plausible bug: chunks are read from the ring that is being written.
LiveRing(s) == history[s]

ServedRing(s) == IF snapshot_valid THEN history_snapshot[s] ELSE history[s]

\* thermometer_copy_history: changes nothing.
thermometer_copy_history(s, start_sequence, requested_count) ==
  history_buffer_copy(ServedRing(s), start_sequence, requested_count)

-----------------------------------------------------------------------------
(* The environment: a probe is unplugged or plugged in.                    *)

ProbeChanges(s) ==
  /\ s \in HotPlug
  /\ attached' = [attached EXCEPT ![s] = ~@]
  /\ UNCHANGED <<latest, history, latest_sequence, history_snapshot,
                 snapshot_valid, meta, boot_id, events, pending, late, step,
                 held, displayed, lcd_ready>>

Next ==
  \/ Reboot
  \/ \E s \in Sensors : SensorRead(s) \/ SensorSend(s) \/ ProbeChanges(s)
  \/ DeadlinePasses \/ SampleDeadline \/ ReceiveEvent
  \/ \E t \in Tasks : CopyPicture(t) \/ Draw(t)
  \/ \E s \in Switchable : ToggleDisplay(s)
  \/ \E s \in Switchable, enabled \in BOOLEAN : SetDisplay(s, enabled)
  \/ GetHistoryMeta

Spec == Init /\ [][Next]_vars

\* Every task is scheduled again and again.  Blocked senders are served in
\* turn, and the state task keeps finding moments before its next deadline
\* (its one-second work takes far less than a second): strong fairness.
Fairness ==
  /\ \A s \in Sensors : WF_vars(SensorRead(s)) /\ SF_vars(SensorSend(s))
  /\ WF_vars(DeadlinePasses) /\ WF_vars(SampleDeadline) /\ SF_vars(ReceiveEvent)
  /\ \A t \in Tasks : WF_vars(CopyPicture(t)) /\ WF_vars(Draw(t))

FairSpec == Spec /\ Fairness

-----------------------------------------------------------------------------
(* Properties.                                                             *)

\* Every variable stays in its type: rings keep their indices in range, the
\* queue its capacity, and no task draws a picture it has not copied.
TypeOK ==
  /\ latest \in [Sensors -> LatestType]
  /\ history \in [Sensors -> Buffers(Records)]
  /\ latest_sequence \in 0 .. (SequenceModulus - 1)
  /\ history_snapshot \in [Sensors -> Buffers(Records)]
  /\ snapshot_valid \in BOOLEAN
  /\ boot_id \in 0 .. MaxBoots
  /\ events \in Seq([sensor_index : Sensors, reading : Readings])
  /\ Len(events) <= QueueCapacity
  /\ pending \in [Sensors -> Readings \cup {NoEvent}]
  /\ attached \in [Sensors -> BOOLEAN]
  /\ late \in 0 .. MaxLate
  /\ step \in [Tasks -> {"idle", "copy", "draw"}]
  /\ held \in [Tasks -> [Sensors -> Lines]]
  /\ displayed \in [Sensors -> Lines]
  /\ lcd_ready \in BOOLEAN
  /\ step["state"] # "idle" => late > 0

\* The k-th most recent record of a ring, k = 1 being the newest.
Recent(buffer, k) ==
  buffer.records[(buffer.next_index + HistoryCapacity - k) % HistoryCapacity]

\* A ring whose newest record has sequence number "newest" holds the samples
\* directly before it, with no gap and no repetition.
EndsAt(buffer, newest) ==
  \A k \in 1 .. buffer.count :
    Recent(buffer, k).sequence =
      (newest + SequenceModulus - (k - 1)) % SequenceModulus

\* README "Firmware behavior": history is addressed by sequence number.  The
\* live records of every ring are consecutive and end at s_latest_sequence,
\* for all sensors alike and across every wrap of the ring and the counter.
HistoryContiguous ==
  \A s \in Sensors :
    /\ EndsAt(history[s], latest_sequence)
    /\ \A r \in Sensors : history[r].count = history[s].count

\* thermometer.c 30: "Frozen by GET_HISTORY_META so sampling cannot overwrite
\* the backlog while the BLE central reads it".  Until the next request for
\* metadata, a client that walks the range it was told (oldest_sequence,
\* count, newest_sequence) gets every record of it, in order, from any start.
AnnouncedRangeServed ==
  meta # NoMeta =>
    \A s \in Sensors : \A k \in 1 .. meta.counts[s] :
      LET start == (meta.oldest_sequences[s] + k - 1) % SequenceModulus
          chunk == thermometer_copy_history(s, start, HistoryCapacity)
      IN  /\ Len(chunk) = meta.counts[s] - k + 1
          /\ \A i \in 1 .. Len(chunk) :
               chunk[i].sequence = (start + i - 1) % SequenceModulus
          /\ chunk[Len(chunk)].sequence = meta.newest_sequence

\* What a client reading from the oldest record on would be served.
Served(s) ==
  thermometer_copy_history(s, history_buffer_oldest_sequence(ServedRing(s)),
                           HistoryCapacity)

Log == INSTANCE HistoryLog WITH
         Samples <- Records,
         log     <- [s \in Sensors |->
                       history_buffer_copy(history[s],
                         history_buffer_oldest_sequence(history[s]),
                         HistoryCapacity)],
         served  <- [s \in Sensors |-> Served(s)],
         frozen  <- snapshot_valid

\* The rings, the frozen copies and the search by sequence number implement
\* the bounded log of HistoryLog.
ImplementsHistoryLog == Log!Spec

\* SWE-EMB-LLR-311: "display_enabled deliberately survives a fault".  While a
\* sensor is disconnected, and in the steps that disconnect or recover it,
\* nobody changes its display setting.
FaultPreservesDisplay ==
  [][boot_id' = boot_id =>
       \A s \in Sensors :
         (Disconnected \in {latest[s].data_status, latest'[s].data_status}) =>
            latest'[s].display_enabled = latest[s].display_enabled]_vars

\* A probe that stays plugged in is reported valid, one that stays away is
\* reported disconnected, from some moment on, whatever is still queued.
SensorStateConverges ==
  \A s \in HotPlug :
    /\ <>[]attached[s] => <>[](latest[s].data_status = Valid)
    /\ <>[]~attached[s] => <>[](latest[s].data_status = Disconnected)

\* Redraws of different tasks can overtake one another and leave an older
\* picture on the LCD; once what should be shown stops changing, the LCD
\* shows it for good.
DisplayConverges ==
  \A picture \in [Sensors -> {Line(l) : l \in LatestType}] :
    <>[](lcd_ready /\ Picture = picture) => <>[](displayed = picture)

\* README "Firmware behavior": "On recovery, it becomes valid again with its
\* display disabled."
RecoversWithDisplayDisabled ==
  [][\A s \in Sensors :
       (latest[s].data_status = Disconnected /\ latest'[s].data_status = Valid)
         => ~latest'[s].display_enabled]_vars
=============================================================================
