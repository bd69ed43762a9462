------------------------- MODULE ThermometerProofs -------------------------
(***************************************************************************)
(* Proofs about Thermometer for every number of sensors, every capacity,   *)
(* every counter width and every bound: its types, its rings and displays, *)
(* what a client reads of the history, and that the rings implement the    *)
(* bounded log of HistoryLog.                                              *)
(***************************************************************************)
EXTENDS Thermometer, SequenceTheorems, TLAPS

-----------------------------------------------------------------------------
(* Arithmetic modulo n, as the ring index and the sequence counter use it. *)

\* A remainder is an index.
LEMMA ModRange ==
  ASSUME NEW n \in Nat \ {0}, NEW a \in Int
  PROVE  a % n \in 0 .. (n - 1)
  OBVIOUS

\* An index is its own remainder.
LEMMA ModBelow ==
  ASSUME NEW n \in Nat \ {0}, NEW a \in 0 .. (n - 1)
  PROVE  a % n = a
  OBVIOUS

\* One turn around the ring is subtracted.
LEMMA ModOnce ==
  ASSUME NEW n \in Nat \ {0}, NEW a \in n .. (2 * n - 1)
  PROVE  a % n = a - n
  OBVIOUS

\* A full turn changes nothing.
LEMMA ModTurn ==
  ASSUME NEW n \in Nat \ {0}, NEW a \in 0 .. (n - 1)
  PROVE  (a + n) % n = a
  BY ModOnce

\* Going one step forward and k + 1 back is going k back.
LEMMA ModShift ==
  ASSUME NEW n \in Nat \ {0}, NEW i \in 0 .. (n - 1), NEW k \in 1 .. n
  PROVE  (((i + 1) % n) + n - k) % n = (i + n - (k - 1)) % n
<1>1. CASE i + 1 < n
  <2>1. (i + 1) % n = i + 1
    BY <1>1, ModBelow
  <2>. QED
    BY <2>1
<1>2. CASE i + 1 = n
  <2>1. (i + 1) % n = 0
    BY <1>2, ModOnce
  <2>2. CASE k = 1
    <3>1. (i + n - (k - 1)) % n = n - 1
      BY <1>2, <2>2, ModOnce
    <3>2. (0 + n - k) % n = n - 1
      BY <2>2, ModBelow
    <3>. QED
      BY <2>1, <3>1, <3>2
  <2>3. CASE k # 1
    <3>1. (i + n - (k - 1)) % n = n - k
      BY <1>2, <2>3, ModOnce
    <3>2. (0 + n - k) % n = n - k
      BY <2>3, ModBelow
    <3>. QED
      BY <2>1, <3>1, <3>2
  <2>. QED
    BY <2>2, <2>3
<1>. QED
  BY <1>1, <1>2

\* Going one to n - 1 steps back never returns to the same slot.
LEMMA ModDistinct ==
  ASSUME NEW n \in Nat \ {0}, NEW i \in 0 .. (n - 1), NEW k \in 1 .. (n - 1)
  PROVE  (i + n - k) % n # i
<1>1. CASE i + n - k < n
  BY <1>1, ModBelow
<1>2. CASE i + n - k >= n
  BY <1>2, ModOnce
<1>. QED
  BY <1>1, <1>2

\* Going c steps back and o forward is going c - o back.
LEMMA ModBackForth ==
  ASSUME NEW n \in Nat \ {0}, NEW i \in 0 .. (n - 1),
         NEW c \in 0 .. n, NEW o \in 0 .. c
  PROVE  (((i + n - c) % n) + o) % n = (i + n - (c - o)) % n
<1>1. CASE i + n - c < n
  <2>1. (i + n - c) % n = i + n - c
    BY <1>1, ModBelow
  <2>. QED
    BY <2>1
<1>2. CASE i + n - c >= n
  <2>1. (i + n - c) % n = i - c
    BY <1>2, ModOnce
  <2>2. (i - c + o) % n = i - c + o
    BY <1>2, ModBelow
  <2>3. (i + n - (c - o)) % n = i - (c - o)
    BY <1>2, ModOnce
  <2>. QED
    BY <2>1, <2>2, <2>3
<1>. QED
  BY <1>1, <1>2

\* Fewer than n steps back from one place end at different places.
LEMMA ModInjective ==
  ASSUME NEW n \in Nat \ {0}, NEW i \in 0 .. (n - 1),
         NEW a \in 0 .. (n - 1), NEW b \in 0 .. (n - 1),
         (i + n - a) % n = (i + n - b) % n
  PROVE  a = b
<1>1. \A c \in 0 .. (n - 1) :
        (i + n - c) % n = IF c <= i THEN i - c ELSE i + n - c
  <2> SUFFICES ASSUME NEW c \in 0 .. (n - 1)
               PROVE  (i + n - c) % n = IF c <= i THEN i - c ELSE i + n - c
    OBVIOUS
  <2>1. CASE c <= i
    BY <2>1, ModOnce
  <2>2. CASE c > i
    BY <2>2, ModBelow
  <2>. QED
    BY <2>1, <2>2
<1>2. /\ (i + n - a) % n = IF a <= i THEN i - a ELSE i + n - a
      /\ (i + n - b) % n = IF b <= i THEN i - b ELSE i + n - b
  BY <1>1
<1>3. (IF a <= i THEN i - a ELSE i + n - a) = (IF b <= i THEN i - b ELSE i + n - b)
  BY <1>2, Zenon
<1>. QED
  BY <1>3

-----------------------------------------------------------------------------
(* What the helpers return.                                                *)

\* history_buffer_append keeps the indices and the count of a ring in range.
LEMMA AppendType ==
  ASSUME NEW buffer \in Buffers(Records), NEW record \in Records
  PROVE  history_buffer_append(buffer, record) \in Buffers(Records)
<1>0. buffer.next_index \in 0 .. (HistoryCapacity - 1)
  BY DEF Slots, Buffers
<1>1. NextIndex(buffer.next_index) \in Slots
  <2>1. buffer.next_index + 1 \in Int /\ HistoryCapacity \in Nat \ {0}
    BY <1>0, CapacityAssumption
  <2>2. (buffer.next_index + 1) % HistoryCapacity \in 0 .. (HistoryCapacity - 1)
    BY <2>1, ModRange
  <2>. QED
    BY <2>2 DEF NextIndex, Slots
<1>2. /\ buffer.records \in [Slots -> Records]
      /\ buffer.next_index \in Slots
      /\ buffer.count \in 0 .. HistoryCapacity
  BY DEF Buffers
<1>3. [buffer.records EXCEPT ![buffer.next_index] = record] \in [Slots -> Records]
  BY <1>2
<1>4. (IF buffer.count < HistoryCapacity THEN buffer.count + 1 ELSE buffer.count)
        \in 0 .. HistoryCapacity
  BY <1>2, CapacityAssumption
<1>. QED
  BY <1>1, <1>3, <1>4 DEF history_buffer_append, Buffers

\* An all-zero ring is a ring.
LEMMA EmptyRingsType == EmptyRings \in [Sensors -> Buffers(Records)]
  BY CapacityAssumption, ModulusAssumption
     DEF EmptyRings, history_buffer_init, Buffers, Slots, Records, ZeroRecord,
         StoredTemperatures

\* The record that is appended becomes the most recent one, and every other one
\* moves one place back, whether or not the oldest is overwritten.
LEMMA AppendRecent ==
  ASSUME NEW buffer \in Buffers(Records), NEW record \in Records,
         NEW k \in 1 .. history_buffer_append(buffer, record).count
  PROVE  Recent(history_buffer_append(buffer, record), k) =
           IF k = 1 THEN record ELSE Recent(buffer, k - 1)
<1> DEFINE n    == HistoryCapacity
           i    == buffer.next_index
           ring == history_buffer_append(buffer, record)
<1>0. n \in Nat \ {0} /\ i \in 0 .. (n - 1)
  BY CapacityAssumption DEF Buffers, Slots
<1>1. /\ ring.records = [buffer.records EXCEPT ![i] = record]
      /\ ring.next_index = (i + 1) % n
      /\ ring.count = IF buffer.count < n THEN buffer.count + 1 ELSE buffer.count
  BY DEF history_buffer_append, NextIndex
<1>2. buffer.records \in [0 .. (n - 1) -> Records] /\ buffer.count \in 0 .. n
  BY DEF Buffers, Slots
<1>3. k \in 1 .. n
  BY <1>0, <1>1, <1>2
<1>4. (ring.next_index + n - k) % n = (i + n - (k - 1)) % n
  BY <1>0, <1>1, <1>3, ModShift
<1>5. CASE k = 1
  <2>1. (i + n - (k - 1)) % n = i
    BY <1>0, <1>5, ModOnce
  <2>2. Recent(ring, k) = ring.records[i]
    BY <1>4, <2>1 DEF Recent
  <2>. QED
    BY <1>5, <2>2, <1>0, <1>1, <1>2
<1>6. CASE k # 1
  <2>1. k - 1 \in 1 .. (n - 1)
    BY <1>0, <1>3, <1>6
  <2>2. /\ (i + n - (k - 1)) % n # i
        /\ (i + n - (k - 1)) % n \in 0 .. (n - 1)
    <3>1. (i + n - (k - 1)) % n # i
      BY <1>0, <2>1, ModDistinct
    <3>2. i + n - (k - 1) \in Int
      BY <1>0, <2>1
    <3>3. (i + n - (k - 1)) % n \in 0 .. (n - 1)
      BY <1>0, <3>2, ModRange
    <3>. QED
      BY <3>1, <3>3
  <2> DEFINE j == (i + n - (k - 1)) % n
  <2>3. Recent(ring, k) = ring.records[j]
    BY <1>4 DEF Recent
  <2>4. Recent(buffer, k - 1) = buffer.records[j]
    BY DEF Recent
  <2>5. ring.records[j] = buffer.records[j]
    <3> HIDE DEF j
    <3>. QED
      BY <1>0, <1>1, <1>2, <2>2 DEF j
  <2>. QED
    BY <1>6, <2>3, <2>4, <2>5
<1>. QED
  BY <1>5, <1>6

\* Appending the successor of the newest sequence number keeps a ring
\* consecutive, whether or not it overwrites its oldest record.
LEMMA AppendEndsAt ==
  ASSUME NEW buffer \in Buffers(Records), NEW record \in Records,
         NEW newest \in 0 .. (SequenceModulus - 1),
         EndsAt(buffer, newest),
         record.sequence = (newest + 1) % SequenceModulus
  PROVE  EndsAt(history_buffer_append(buffer, record), record.sequence)
<1> DEFINE n    == HistoryCapacity
           m    == SequenceModulus
           ring == history_buffer_append(buffer, record)
<1>0. n \in Nat \ {0} /\ m \in Nat \ {0} /\ n < m
  BY CapacityAssumption, ModulusAssumption
<1>1. ring.count = IF buffer.count < n THEN buffer.count + 1 ELSE buffer.count
  BY DEF history_buffer_append
<1>2. buffer.count \in 0 .. n
  BY DEF Buffers
<1> SUFFICES ASSUME NEW k \in 1 .. ring.count
             PROVE  Recent(ring, k).sequence =
                      (record.sequence + m - (k - 1)) % m
  BY DEF EndsAt
<1>3. Recent(ring, k) = IF k = 1 THEN record ELSE Recent(buffer, k - 1)
  BY AppendRecent
<1>4. CASE k = 1
  <2>1. record.sequence \in 0 .. (m - 1)
    BY DEF Records
  <2>2. record.sequence + m - (k - 1) = record.sequence + m
    BY <1>0, <1>4, <2>1
  <2>3. (record.sequence + m) % m = record.sequence
    BY <1>0, <2>1, ModTurn
  <2>. QED
    BY <1>3, <1>4, <2>2, <2>3
<1>5. CASE k # 1
  <2>1. k - 1 \in 1 .. n /\ k - 1 \in 1 .. buffer.count
    BY <1>0, <1>1, <1>2, <1>5
  <2>2. Recent(buffer, k - 1).sequence = (newest + m - ((k - 1) - 1)) % m
    BY <2>1 DEF EndsAt
  <2>3. (((newest + 1) % m) + m - (k - 1)) % m = (newest + m - ((k - 1) - 1)) % m
    BY <1>0, <2>1, ModShift
  <2>. QED
    BY <1>3, <1>5, <2>2, <2>3
<1>. QED
  BY <1>4, <1>5

-----------------------------------------------------------------------------
(* Type correctness.                                                       *)

\* A picture of well-typed sensors is drawable.
LEMMA PictureType ==
  ASSUME latest \in [Sensors -> LatestType]
  PROVE  Picture \in [Sensors -> Lines]
  BY DEF Picture, Line, Lines, LatestType, thermometer_visible_state,
         sensor_is_visible, sensor_is_available, StoredTemperatures

\* The start-up text is a picture as well.
LEMMA BlankType == Blank \in [Sensors -> Lines]
  BY DEF Blank, Lines, StoredTemperatures

\* apply_sensor_reading keeps counters saturated and values in range.
LEMMA ApplyType ==
  ASSUME NEW sensor \in LatestType, NEW reading \in Readings
  PROVE  apply_sensor_reading(sensor, reading) \in LatestType
<1>1. /\ Saturating(sensor.successful_reads) \in 0 .. CounterMax
      /\ Saturating(sensor.failed_reads) \in 0 .. CounterMax
      /\ 0 \in 0 .. CounterMax
  BY LimitsAssumption DEF Saturating, LatestType
<1>2. reading.temperature \in StoredTemperatures
  BY DEF Readings, StoredTemperatures
<1>. QED
  BY <1>1, <1>2 DEF apply_sensor_reading, LatestType, Valid, Disconnected

\* The state task is one of the tasks, and only "ble" and "button" join it.
LEMMA TasksFacts == "state" \in Tasks /\ Users \subseteq Tasks
  BY DEF Tasks

\* Changing the display setting of a sensor changes nothing else of it.
LEMMA DisplayType ==
  ASSUME NEW s \in Sensors, NEW enabled \in BOOLEAN, latest \in [Sensors -> LatestType]
  PROVE  [latest EXCEPT ![s].display_enabled = enabled] \in [Sensors -> LatestType]
<1> DEFINE changed == [latest[s] EXCEPT !.display_enabled = enabled]
<1>1. changed \in LatestType
  <2>1. latest[s] \in LatestType
    OBVIOUS
  <2>2. changed = [temperature |-> latest[s].temperature,
                   data_status |-> latest[s].data_status,
                   display_enabled |-> enabled,
                   failed_reads |-> latest[s].failed_reads,
                   successful_reads |-> latest[s].successful_reads]
    BY <2>1 DEF LatestType
  <2>. QED
    BY <2>1, <2>2 DEF LatestType
<1>2. [latest EXCEPT ![s].display_enabled = enabled] = [latest EXCEPT ![s] = changed]
  OBVIOUS
<1>. HIDE DEF changed
<1>. QED
  BY <1>1, <1>2

\* Every reachable state of the firmware is well typed: ring indices and
\* counts stay in range, the queue within its capacity and the counters
\* saturated, for every value of the constants.
THEOREM TypeCorrect == Spec => []TypeOK
<1>1. Init => TypeOK
  <2> SUFFICES ASSUME Init PROVE TypeOK
    OBVIOUS
  <2>1. latest \in [Sensors -> LatestType]
    BY LimitsAssumption
       DEF Init, ZeroLatest, LatestType, StoredTemperatures, Valid, Disconnected
  <2>2. /\ history \in [Sensors -> Buffers(Records)]
        /\ history_snapshot \in [Sensors -> Buffers(Records)]
    BY EmptyRingsType DEF Init
  <2>3. /\ latest_sequence \in 0 .. (SequenceModulus - 1)
        /\ boot_id \in 0 .. MaxBoots
        /\ late \in 0 .. MaxLate
    BY CapacityAssumption, ModulusAssumption, BoundsAssumption DEF Init
  <2>4. /\ events \in Seq([sensor_index : Sensors, reading : Readings])
        /\ Len(events) <= QueueCapacity
    BY BoundsAssumption DEF Init
  <2>5. /\ held \in [Tasks -> [Sensors -> Lines]]
        /\ displayed \in [Sensors -> Lines]
    BY BlankType DEF Init
  <2>6. /\ snapshot_valid \in BOOLEAN /\ lcd_ready \in BOOLEAN
        /\ pending \in [Sensors -> Readings \cup {NoEvent}]
        /\ attached \in [Sensors -> BOOLEAN]
        /\ step \in [Tasks -> {"idle", "copy", "draw"}]
        /\ step["state"] = "idle"
    BY TasksFacts DEF Init
  <2>. QED
    BY <2>1, <2>2, <2>3, <2>4, <2>5, <2>6 DEF TypeOK
<1>2. TypeOK /\ [Next]_vars => TypeOK'
  <2> SUFFICES ASSUME TypeOK, [Next]_vars PROVE TypeOK'
    OBVIOUS
  <2>1. CASE Reboot
    <3>1. latest' \in [Sensors -> LatestType]
      BY <2>1, LimitsAssumption
         DEF Reboot, ZeroLatest, LatestType, StoredTemperatures, Valid,
             Disconnected
    <3>2. /\ history' \in [Sensors -> Buffers(Records)]
          /\ history_snapshot' \in [Sensors -> Buffers(Records)]
      BY <2>1, EmptyRingsType DEF Reboot
    <3>3. /\ latest_sequence' \in 0 .. (SequenceModulus - 1)
          /\ boot_id' \in 0 .. MaxBoots
          /\ late' \in 0 .. MaxLate
      BY <2>1, CapacityAssumption, ModulusAssumption, BoundsAssumption
         DEF Reboot, TypeOK
    <3>4. /\ events' \in Seq([sensor_index : Sensors, reading : Readings])
          /\ Len(events') <= QueueCapacity
      BY <2>1, BoundsAssumption DEF Reboot
    <3>5. /\ held' \in [Tasks -> [Sensors -> Lines]]
          /\ displayed' \in [Sensors -> Lines]
      BY <2>1, BlankType DEF Reboot
    <3>6. /\ snapshot_valid' \in BOOLEAN /\ lcd_ready' \in BOOLEAN
          /\ pending' \in [Sensors -> Readings \cup {NoEvent}]
          /\ attached' \in [Sensors -> BOOLEAN]
          /\ step' \in [Tasks -> {"idle", "copy", "draw"}]
          /\ step'["state"] = "idle"
      BY <2>1, TasksFacts DEF Reboot, TypeOK
    <3>. QED
      BY <3>1, <3>2, <3>3, <3>4, <3>5, <3>6 DEF TypeOK
  <2>2. ASSUME NEW s \in Sensors, SensorRead(s) PROVE TypeOK'
    BY <2>2 DEF SensorRead, TypeOK
  <2>3. ASSUME NEW s \in Sensors, SensorSend(s) PROVE TypeOK'
    <3>1. pending[s] \in Readings
      BY <2>3 DEF SensorSend, TypeOK
    <3>2. /\ events' \in Seq([sensor_index : Sensors, reading : Readings])
          /\ Len(events') <= QueueCapacity
      BY <2>3, <3>1, BoundsAssumption DEF SensorSend, TypeOK
    <3>3. pending' \in [Sensors -> Readings \cup {NoEvent}]
      BY <2>3 DEF SensorSend, TypeOK
    <3>. QED
      BY <2>3, <3>2, <3>3 DEF SensorSend, TypeOK
  <2>4. ASSUME NEW s \in Sensors, ProbeChanges(s) PROVE TypeOK'
    BY <2>4 DEF ProbeChanges, TypeOK
  <2>5. CASE DeadlinePasses
    BY <2>5, BoundsAssumption DEF DeadlinePasses, TypeOK
  <2>6. CASE SampleDeadline
    <3>1. latest_sequence' \in 0 .. (SequenceModulus - 1)
      <4>1. latest_sequence + 1 \in Int /\ SequenceModulus \in Nat \ {0}
        BY CapacityAssumption, ModulusAssumption DEF TypeOK
      <4>. QED
        BY <2>6, <4>1, ModRange DEF SampleDeadline
    <3>2. ASSUME NEW s \in Sensors
          PROVE  append_history_record(s, latest_sequence') \in Buffers(Records)
      <4>1. [sequence |-> latest_sequence', temperature |-> latest[s].temperature,
             data_status |-> latest[s].data_status] \in Records
        BY <3>1 DEF Records, TypeOK, LatestType
      <4>2. history[s] \in Buffers(Records)
        BY DEF TypeOK
      <4>. QED
        BY <4>1, <4>2, AppendType DEF append_history_record
    <3>3. history' \in [Sensors -> Buffers(Records)]
      BY <2>6, <3>2 DEF SampleDeadline
    <3>4. /\ step' \in [Tasks -> {"idle", "copy", "draw"}]
          /\ late' > 0
      BY <2>6 DEF SampleDeadline, Redraw, TypeOK
    <3>. QED
      BY <2>6, <3>1, <3>3, <3>4 DEF SampleDeadline, TypeOK
  <2>7. CASE ReceiveEvent
    <3>1. /\ Head(events) \in [sensor_index : Sensors, reading : Readings]
          /\ Tail(events) \in Seq([sensor_index : Sensors, reading : Readings])
          /\ Len(Tail(events)) <= QueueCapacity
      <4>1. /\ events \in Seq([sensor_index : Sensors, reading : Readings])
            /\ events # << >> /\ Len(events) <= QueueCapacity
        BY <2>7 DEF ReceiveEvent, TypeOK
      <4>2. /\ Head(events) \in [sensor_index : Sensors, reading : Readings]
            /\ Tail(events) \in Seq([sensor_index : Sensors, reading : Readings])
            /\ Len(Tail(events)) = Len(events) - 1
        BY <4>1, HeadTailProperties
      <4>3. Len(events) \in Nat
        BY <4>1, LenProperties
      <4>. QED
        BY <4>1, <4>2, <4>3, BoundsAssumption
    <3>2. apply_sensor_reading(latest[Head(events).sensor_index],
                               Head(events).reading) \in LatestType
      BY <3>1, ApplyType DEF TypeOK
    <3>3. latest' \in [Sensors -> LatestType]
      BY <2>7, <3>1, <3>2 DEF ReceiveEvent, TypeOK
    <3>. QED
      BY <2>7, <3>1, <3>3 DEF ReceiveEvent, TypeOK
  <2>8. ASSUME NEW t \in Tasks, CopyPicture(t) PROVE TypeOK'
    <3>1. Picture \in [Sensors -> Lines]
      BY PictureType DEF TypeOK
    <3>2. held' \in [Tasks -> [Sensors -> Lines]]
      BY <2>8, <3>1 DEF CopyPicture, TypeOK
    <3>3. /\ step' \in [Tasks -> {"idle", "copy", "draw"}]
          /\ step'["state"] # "idle" => step["state"] # "idle"
      BY <2>8, TasksFacts DEF CopyPicture, TypeOK
    <3>. QED
      BY <2>8, <3>2, <3>3 DEF CopyPicture, TypeOK
  <2>9. ASSUME NEW t \in Tasks, Draw(t) PROVE TypeOK'
    <3>0. held[t] \in [Sensors -> Lines]
      BY DEF TypeOK
    <3>1. /\ held' \in [Tasks -> [Sensors -> Lines]]
          /\ displayed' \in [Sensors -> Lines]
      <4>1. held' \in [Tasks -> [Sensors -> Lines]]
        BY <2>9, BlankType DEF Draw, TypeOK
      <4>2. displayed' \in [Sensors -> Lines]
        BY <2>9, <3>0 DEF Draw, TypeOK
      <4>. QED
        BY <4>1, <4>2
    <3>2. step' \in [Tasks -> {"idle", "copy", "draw"}]
      BY <2>9 DEF Draw, TypeOK
    <3>3. CASE t = "state"
      <4>1. late > 0 /\ late' = late - 1 /\ step'["state"] = "idle"
        BY <2>9, <3>3, TasksFacts DEF Draw, TypeOK
      <4>2. late' \in 0 .. MaxLate
        BY <4>1, BoundsAssumption DEF TypeOK
      <4>. QED
        BY <2>9, <3>1, <3>2, <4>1, <4>2 DEF Draw, TypeOK
    <3>4. CASE t # "state"
      <4>1. late' = late /\ step'["state"] = step["state"]
        BY <2>9, <3>4, TasksFacts DEF Draw, TypeOK
      <4>. QED
        BY <2>9, <3>1, <3>2, <4>1 DEF Draw, TypeOK
    <3>. QED
      BY <3>3, <3>4
  <2>10. ASSUME NEW s \in Switchable, ToggleDisplay(s) PROVE TypeOK'
    <3>1. s \in Sensors
      BY SensorsAssumption
    <3>2. latest' \in [Sensors -> LatestType]
      <4>1. latest \in [Sensors -> LatestType]
        BY DEF TypeOK
      <4>2. (~latest[s].display_enabled) \in BOOLEAN
        BY Zenon
      <4>3. latest' = [latest EXCEPT ![s].display_enabled = ~latest[s].display_enabled]
        BY <2>10 DEF ToggleDisplay
      <4>. QED
        BY <3>1, <4>1, <4>2, <4>3, DisplayType
    <3>3. /\ step' \in [Tasks -> {"idle", "copy", "draw"}]
          /\ step'["state"] = step["state"]
      BY <2>10, TasksFacts DEF ToggleDisplay, Redraw, TypeOK
    <3>. QED
      BY <2>10, <3>2, <3>3 DEF ToggleDisplay, TypeOK
  <2>11. ASSUME NEW s \in Switchable, NEW enabled \in BOOLEAN,
                SetDisplay(s, enabled)
         PROVE  TypeOK'
    <3>1. s \in Sensors
      BY SensorsAssumption
    <3>2. latest' \in [Sensors -> LatestType]
      <4>1. latest \in [Sensors -> LatestType]
        BY DEF TypeOK
      <4>2. \/ latest' = latest
            \/ latest' = [latest EXCEPT ![s].display_enabled = enabled]
        BY <2>11 DEF SetDisplay
      <4>. QED
        BY <3>1, <4>1, <4>2, DisplayType
    <3>3. /\ step' \in [Tasks -> {"idle", "copy", "draw"}]
          /\ step'["state"] = step["state"]
      BY <2>11, TasksFacts DEF SetDisplay, Redraw, TypeOK
    <3>. QED
      BY <2>11, <3>2, <3>3 DEF SetDisplay, TypeOK
  <2>12. CASE GetHistoryMeta
    BY <2>12 DEF GetHistoryMeta, TypeOK
  <2>13. CASE UNCHANGED vars
    BY <2>13 DEF vars, TypeOK
  <2>. QED
    BY <2>1, <2>2, <2>3, <2>4, <2>5, <2>6, <2>7, <2>8, <2>9, <2>10, <2>11,
       <2>12, <2>13 DEF Next
<1>. QED
  BY <1>1, <1>2, PTL DEF Spec

-----------------------------------------------------------------------------
(* History.                                                                *)

\* The rings stay consecutive and aligned.  HistoryContiguous is inductive
\* once TypeOK bounds the indices: only SampleDeadline and Reboot touch the
\* rings or the counter, and an append moves both by one.
THEOREM HistoryIsContiguous == Spec => []HistoryContiguous
<1>1. Init => HistoryContiguous
  <2> SUFFICES ASSUME Init, NEW s \in Sensors, NEW r \in Sensors
               PROVE  /\ EndsAt(history[s], latest_sequence)
                      /\ history[r].count = history[s].count
    BY DEF HistoryContiguous
  <2>1. history[s].count = 0 /\ history[r].count = 0
    BY DEF Init, EmptyRings, history_buffer_init
  <2>. QED
    BY <2>1 DEF EndsAt
<1>2. TypeOK /\ HistoryContiguous /\ [Next]_vars => HistoryContiguous'
  <2> SUFFICES ASSUME TypeOK, HistoryContiguous, [Next]_vars,
                      NEW s \in Sensors, NEW r \in Sensors
               PROVE  /\ EndsAt(history'[s], latest_sequence')
                      /\ history'[r].count = history'[s].count
    BY DEF HistoryContiguous, EndsAt, Recent
  <2>1. CASE Reboot
    <3>1. history'[s].count = 0 /\ history'[r].count = 0
      BY <2>1 DEF Reboot, EmptyRings, history_buffer_init
    <3>. QED
      BY <3>1 DEF EndsAt
  <2>2. CASE SampleDeadline
    <3> DEFINE record == [sequence |-> latest_sequence',
                          temperature |-> latest[s].temperature,
                          data_status |-> latest[s].data_status]
    <3>1. latest_sequence' = (latest_sequence + 1) % SequenceModulus
      BY <2>2 DEF SampleDeadline
    <3>2. record \in Records
      <4>1. latest_sequence + 1 \in Int /\ SequenceModulus \in Nat \ {0}
        BY CapacityAssumption, ModulusAssumption DEF TypeOK
      <4>2. latest_sequence' \in 0 .. (SequenceModulus - 1)
        BY <3>1, <4>1, ModRange
      <4>. QED
        BY <4>2 DEF Records, TypeOK, LatestType
    <3>3. history'[s] = history_buffer_append(history[s], record)
      BY <2>2 DEF SampleDeadline, append_history_record
    <3>4. history[s] \in Buffers(Records) /\ latest_sequence \in 0 .. (SequenceModulus - 1)
      BY DEF TypeOK
    <3>5. EndsAt(history[s], latest_sequence)
      BY DEF HistoryContiguous
    <3>6. EndsAt(history_buffer_append(history[s], record), record.sequence)
      <4> HIDE DEF record
      <4>1. record.sequence = (latest_sequence + 1) % SequenceModulus
        BY <3>1 DEF record
      <4>. QED
        BY <3>2, <3>4, <3>5, <4>1, AppendEndsAt
    <3>7. history'[r].count = history'[s].count
      <4>1. history[r].count = history[s].count
        BY DEF HistoryContiguous
      <4>. QED
        BY <2>2, <4>1 DEF SampleDeadline, append_history_record,
                          history_buffer_append
    <3>. QED
      BY <3>3, <3>6, <3>7
  <2>3. CASE UNCHANGED <<history, latest_sequence>>
    BY <2>3 DEF HistoryContiguous
  <2>4. CASE ~Reboot /\ ~SampleDeadline
    BY <2>3, <2>4
       DEF Next, vars, SensorRead, SensorSend, ProbeChanges, DeadlinePasses,
           ReceiveEvent, CopyPicture, Draw, ToggleDisplay, SetDisplay,
           GetHistoryMeta
  <2>. QED
    BY <2>1, <2>2, <2>4
<1>. QED
  BY <1>1, <1>2, TypeCorrect, PTL DEF Spec

-----------------------------------------------------------------------------
(* Display settings.                                                       *)

\* apply_sensor_reading never touches display_enabled.
LEMMA ApplyKeepsDisplay ==
  ASSUME NEW sensor \in LatestType, NEW reading \in Readings
  PROVE  apply_sensor_reading(sensor, reading).display_enabled =
           sensor.display_enabled
  BY DEF apply_sensor_reading, LatestType

\* No step of any task changes the display setting of a sensor that is
\* disconnected before or after it, except a restart.
THEOREM FaultKeepsDisplay == Spec => FaultPreservesDisplay
<1>1. TypeOK /\ [Next]_vars =>
        [boot_id' = boot_id =>
           \A s \in Sensors :
             (Disconnected \in {latest[s].data_status, latest'[s].data_status}) =>
               latest'[s].display_enabled = latest[s].display_enabled]_vars
  <2> SUFFICES ASSUME TypeOK, Next, boot_id' = boot_id, NEW s \in Sensors,
                      Disconnected \in {latest[s].data_status,
                                        latest'[s].data_status}
               PROVE  latest'[s].display_enabled = latest[s].display_enabled
    OBVIOUS
  <2>1. CASE Reboot
    BY <2>1 DEF Reboot, TypeOK
  <2>2. CASE ReceiveEvent
    <3>1. Head(events) \in [sensor_index : Sensors, reading : Readings]
      BY <2>2, HeadTailProperties DEF ReceiveEvent, TypeOK
    <3>2. CASE s = Head(events).sensor_index
      <4>1. latest'[s] = apply_sensor_reading(latest[s], Head(events).reading)
        BY <2>2, <3>1, <3>2 DEF ReceiveEvent, TypeOK
      <4>. QED
        BY <3>1, <4>1, ApplyKeepsDisplay DEF TypeOK
    <3>3. CASE s # Head(events).sensor_index
      BY <2>2, <3>1, <3>3 DEF ReceiveEvent, TypeOK
    <3>. QED
      BY <3>2, <3>3
  <2>3. ASSUME NEW r \in Switchable, ToggleDisplay(r)
        PROVE  latest'[s].display_enabled = latest[s].display_enabled
    <3>1. r \in Sensors /\ latest[r].data_status = Valid
      BY <2>3, SensorsAssumption DEF ToggleDisplay, sensor_is_available
    <3>2. latest'[r].data_status = Valid
      BY <2>3, <3>1 DEF ToggleDisplay, TypeOK, LatestType
    <3>3. s # r
      BY <3>1, <3>2 DEF Valid, Disconnected
    <3>. QED
      BY <2>3, <3>1, <3>3 DEF ToggleDisplay, TypeOK
  <2>4. ASSUME NEW r \in Switchable, NEW enabled \in BOOLEAN,
               SetDisplay(r, enabled)
        PROVE  latest'[s].display_enabled = latest[s].display_enabled
    <3>1. CASE ~sensor_is_available(latest[r])
      BY <2>4, <3>1 DEF SetDisplay
    <3>2. CASE sensor_is_available(latest[r])
      <4>1. r \in Sensors /\ latest[r].data_status = Valid
        BY <3>2, SensorsAssumption DEF sensor_is_available
      <4>2. latest' = [latest EXCEPT ![r].display_enabled = enabled]
        BY <2>4, <3>2 DEF SetDisplay
      <4>3. latest'[r].data_status = Valid
        BY <4>1, <4>2 DEF TypeOK, LatestType
      <4>4. s # r
        BY <4>1, <4>3 DEF Valid, Disconnected
      <4>. QED
        BY <4>1, <4>2, <4>4 DEF TypeOK
    <3>. QED
      BY <3>1, <3>2
  <2>5. CASE UNCHANGED latest
    BY <2>5
  <2>. QED
    BY <2>1, <2>2, <2>3, <2>4, <2>5
       DEF Next, SensorRead, SensorSend, ProbeChanges, DeadlinePasses,
           SampleDeadline, CopyPicture, Draw, GetHistoryMeta
<1>. QED
  BY <1>1, TypeCorrect, PTL DEF Spec, FaultPreservesDisplay

-----------------------------------------------------------------------------
(* history_buffer_copy.                                                    *)

\* Counting from the oldest live record is counting back from the newest.
LEMMA RecordIsRecent ==
  ASSUME NEW buffer \in Buffers(Records), NEW o \in 0 .. (buffer.count - 1)
  PROVE  RecordAt(buffer, o) = Recent(buffer, buffer.count - o)
<1> DEFINE n == HistoryCapacity
           i == buffer.next_index
<1>1. n \in Nat \ {0} /\ i \in 0 .. (n - 1) /\ buffer.count \in 0 .. n
  BY CapacityAssumption DEF Buffers, Slots
<1>2. o \in 0 .. buffer.count
  BY <1>1
<1>3. (((i + n - buffer.count) % n) + o) % n = (i + n - (buffer.count - o)) % n
  BY <1>1, <1>2, ModBackForth
<1>. QED
  BY <1>3 DEF RecordAt, Recent, oldest_index

\* The sequence number of the record "o" places after the oldest one.
LEMMA RecordSequence ==
  ASSUME NEW buffer \in Buffers(Records),
         NEW newest \in 0 .. (SequenceModulus - 1), EndsAt(buffer, newest),
         NEW o \in 0 .. (buffer.count - 1)
  PROVE  RecordAt(buffer, o).sequence =
           (newest + SequenceModulus - (buffer.count - 1 - o)) % SequenceModulus
<1>1. buffer.count \in Nat /\ SequenceModulus \in Nat
  BY CapacityAssumption, ModulusAssumption DEF Buffers
<1>2. buffer.count - o \in 1 .. buffer.count
  BY <1>1
<1>3. Recent(buffer, buffer.count - o).sequence =
        (newest + SequenceModulus - ((buffer.count - o) - 1)) % SequenceModulus
  BY <1>2 DEF EndsAt
<1>4. (buffer.count - o) - 1 = buffer.count - 1 - o
  BY <1>1
<1>. QED
  BY <1>3, <1>4, RecordIsRecent

\* The linear search stops at one place: the record that is asked for.
LEMMA MatchIsUnique ==
  ASSUME NEW buffer \in Buffers(Records),
         NEW newest \in 0 .. (SequenceModulus - 1), EndsAt(buffer, newest),
         NEW o \in 0 .. (buffer.count - 1)
  PROVE  MatchingOffsets(buffer, RecordAt(buffer, o).sequence) = {o}
<1> DEFINE m == SequenceModulus
           c == buffer.count
<1>1. c \in Nat /\ m \in Nat \ {0} /\ c < m
  BY CapacityAssumption, ModulusAssumption DEF Buffers
<1> SUFFICES ASSUME NEW p \in 0 .. (c - 1),
                    RecordAt(buffer, p).sequence = RecordAt(buffer, o).sequence
             PROVE  p = o
  BY DEF MatchingOffsets
<1>2. (newest + m - (c - 1 - p)) % m = (newest + m - (c - 1 - o)) % m
  BY RecordSequence
<1>3. c - 1 - p \in 0 .. (m - 1) /\ c - 1 - o \in 0 .. (m - 1)
  BY <1>1
<1>4. c - 1 - p = c - 1 - o
  BY <1>1, <1>2, <1>3, ModInjective
<1>. QED
  BY <1>1, <1>4

\* history_buffer_copy from a live record on, with room for all, returns that
\* record and all later ones.
LEMMA CopyFrom ==
  ASSUME NEW buffer \in Buffers(Records),
         NEW newest \in 0 .. (SequenceModulus - 1), EndsAt(buffer, newest),
         NEW o \in 0 .. (buffer.count - 1)
  PROVE  history_buffer_copy(buffer, RecordAt(buffer, o).sequence, HistoryCapacity) =
           [k \in 1 .. (buffer.count - o) |-> RecordAt(buffer, o + k - 1)]
<1> DEFINE start   == RecordAt(buffer, o).sequence
           matches == MatchingOffsets(buffer, start)
           first   == CHOOSE q \in matches : \A p \in matches : q <= p
<1>1. buffer.count \in 0 .. HistoryCapacity /\ HistoryCapacity \in Nat
  BY CapacityAssumption DEF Buffers
<1>2. matches = {o}
  BY MatchIsUnique
<1>3. first = o
  <2>1. o <= o
    BY <1>1
  <2>. HIDE DEF matches
  <2>. QED
    BY <1>2, <2>1
<1>4. (IF HistoryCapacity < buffer.count - o
       THEN HistoryCapacity ELSE buffer.count - o) = buffer.count - o
  BY <1>1
<1>5. history_buffer_copy(buffer, start, HistoryCapacity) =
        [k \in 1 .. (IF HistoryCapacity < buffer.count - first
                     THEN HistoryCapacity ELSE buffer.count - first)
             |-> RecordAt(buffer, first + k - 1)]
  <2>1. matches # {}
    BY <1>2
  <2>. HIDE DEF start
  <2>. QED
    BY <2>1 DEF history_buffer_copy
<1>. HIDE DEF first, start
<1>. QED
  BY <1>3, <1>4, <1>5 DEF start

-----------------------------------------------------------------------------
(* The announced range.                                                    *)

\* What GET_HISTORY_META leaves behind until the next request: the metadata
\* describe the copies, and the copies end where the metadata say.
MetaDescribesCopies ==
  meta # NoMeta =>
    /\ snapshot_valid
    /\ meta.newest_sequence \in 0 .. (SequenceModulus - 1)
    /\ \A s \in Sensors :
         /\ EndsAt(history_snapshot[s], meta.newest_sequence)
         /\ meta.counts[s] = history_snapshot[s].count
         /\ meta.oldest_sequences[s] =
              history_buffer_oldest_sequence(history_snapshot[s])

\* Sampling never touches the copies, and a new request replaces the metadata
\* together with them.
LEMMA CopiesDescribed == Spec => []MetaDescribesCopies
<1>1. Init => MetaDescribesCopies
  BY DEF Init, MetaDescribesCopies
<1>2. TypeOK /\ HistoryContiguous /\ MetaDescribesCopies /\ [Next]_vars
        => MetaDescribesCopies'
  <2> SUFFICES ASSUME TypeOK, HistoryContiguous, MetaDescribesCopies, [Next]_vars
               PROVE  MetaDescribesCopies'
    OBVIOUS
  <2>1. CASE Reboot
    BY <2>1 DEF Reboot, MetaDescribesCopies
  <2>2. CASE GetHistoryMeta
    <3>1. /\ history_snapshot' = history
          /\ snapshot_valid' = TRUE
          /\ meta'.newest_sequence = latest_sequence
          /\ \A s \in Sensors :
               /\ meta'.counts[s] = history[s].count
               /\ meta'.oldest_sequences[s] =
                    history_buffer_oldest_sequence(history[s])
      BY <2>2 DEF GetHistoryMeta
    <3>2. latest_sequence \in 0 .. (SequenceModulus - 1)
      BY DEF TypeOK
    <3>3. \A s \in Sensors : EndsAt(history[s], latest_sequence)
      BY DEF HistoryContiguous
    <3>. QED
      BY <3>1, <3>2, <3>3 DEF MetaDescribesCopies, EndsAt, Recent
  <2>3. CASE UNCHANGED <<history_snapshot, snapshot_valid, meta>>
    BY <2>3 DEF MetaDescribesCopies
  <2>4. CASE ~Reboot /\ ~GetHistoryMeta
    BY <2>3, <2>4
       DEF Next, vars, SensorRead, SensorSend, ProbeChanges, DeadlinePasses,
           SampleDeadline, ReceiveEvent, CopyPicture, Draw, ToggleDisplay,
           SetDisplay
  <2>. QED
    BY <2>1, <2>2, <2>4
<1>. QED
  BY <1>1, <1>2, TypeCorrect, HistoryIsContiguous, PTL DEF Spec

\* A copy that ends at "newest" answers a request for its k-th record with all
\* records from there on, numbered one after the other.
LEMMA RangeOfRing ==
  ASSUME NEW buffer \in Buffers(Records),
         NEW newest \in 0 .. (SequenceModulus - 1), EndsAt(buffer, newest),
         NEW k \in 1 .. buffer.count
  PROVE  LET start == (history_buffer_oldest_sequence(buffer) + k - 1)
                        % SequenceModulus
             chunk == history_buffer_copy(buffer, start, HistoryCapacity)
         IN  /\ Len(chunk) = buffer.count - k + 1
             /\ \A i \in 1 .. Len(chunk) :
                  chunk[i].sequence = (start + i - 1) % SequenceModulus
             /\ chunk[Len(chunk)].sequence = newest
<1> DEFINE m      == SequenceModulus
           c      == buffer.count
           oldest == history_buffer_oldest_sequence(buffer)
           start  == (oldest + k - 1) % m
           chunk  == history_buffer_copy(buffer, start, HistoryCapacity)
<1>1. c \in Nat /\ m \in Nat \ {0} /\ c < m
  BY CapacityAssumption, ModulusAssumption DEF Buffers
<1>2. \A o \in 0 .. (c - 1) :
        RecordAt(buffer, o).sequence = (newest + m - (c - 1 - o)) % m
  BY RecordSequence
\* The record "o" places after the oldest one has the o-th number after its.
<1>3. \A j \in 0 .. (c - 1) : \A o \in 0 .. (c - 1) :
        j + o <= c - 1 =>
          RecordAt(buffer, j + o).sequence = (RecordAt(buffer, j).sequence + o) % m
  <2> SUFFICES ASSUME NEW j \in 0 .. (c - 1), NEW o \in 0 .. (c - 1), j + o <= c - 1
               PROVE  RecordAt(buffer, j + o).sequence =
                        (RecordAt(buffer, j).sequence + o) % m
    OBVIOUS
  <2>1. (c - 1 - j) \in 0 .. m /\ o \in 0 .. (c - 1 - j) /\ j + o \in 0 .. (c - 1)
    BY <1>1
  <2>2. (((newest + m - (c - 1 - j)) % m) + o) % m
          = (newest + m - ((c - 1 - j) - o)) % m
    BY <1>1, <2>1, ModBackForth
  <2>3. (c - 1 - j) - o = c - 1 - (j + o)
    BY <1>1
  <2>. QED
    BY <1>2, <2>1, <2>2, <2>3
<1>4. k - 1 \in 0 .. (c - 1) /\ 0 \in 0 .. (c - 1)
  BY <1>1
<1>5. start = RecordAt(buffer, k - 1).sequence
  <2>1. oldest = RecordAt(buffer, 0).sequence
    BY <1>1 DEF history_buffer_oldest_sequence
  <2>2. oldest \in 0 .. (m - 1)
    <3>1. newest + m - (c - 1 - 0) \in Int
      BY <1>1
    <3>2. (newest + m - (c - 1 - 0)) % m \in 0 .. (m - 1)
      BY <1>1, <3>1, ModRange
    <3>. QED
      BY <1>2, <1>4, <2>1, <3>2
  <2>3. RecordAt(buffer, 0 + (k - 1)).sequence = (oldest + (k - 1)) % m
    BY <1>1, <1>3, <1>4, <2>1
  <2>4. 0 + (k - 1) = k - 1 /\ oldest + (k - 1) = oldest + k - 1
    BY <1>1, <2>2
  <2>. QED
    BY <2>3, <2>4
<1>6. chunk = [j \in 1 .. (c - (k - 1)) |-> RecordAt(buffer, (k - 1) + j - 1)]
  <2>1. history_buffer_copy(buffer, RecordAt(buffer, k - 1).sequence, HistoryCapacity)
          = [j \in 1 .. (c - (k - 1)) |-> RecordAt(buffer, (k - 1) + j - 1)]
    BY <1>4, CopyFrom
  <2>. HIDE DEF start
  <2>. QED
    BY <1>5, <2>1
<1>7. Len(chunk) = c - k + 1
  <2>1. c - (k - 1) \in Nat /\ c - (k - 1) = c - k + 1
    BY <1>1
  <2>. HIDE DEF chunk, c
  <2>. QED
    BY <1>6, <2>1
<1>8. ASSUME NEW i \in 1 .. Len(chunk)
      PROVE  chunk[i].sequence = (start + i - 1) % m
  <2>1. i \in 1 .. (c - (k - 1)) /\ i - 1 \in 0 .. (c - 1) /\ (k - 1) + (i - 1) <= c - 1
    BY <1>1, <1>7
  <2>2. chunk[i] = RecordAt(buffer, (k - 1) + i - 1)
    <3>. HIDE DEF chunk, c
    <3>. QED
      BY <1>6, <2>1
  <2>3. RecordAt(buffer, (k - 1) + (i - 1)).sequence = (start + (i - 1)) % m
    <3>. HIDE DEF start, c, m
    <3>. QED
      BY <1>3, <1>4, <1>5, <2>1
  <2>4. start \in 0 .. (m - 1)
    <3>1. newest + m - (c - 1 - (k - 1)) \in Int
      BY <1>1
    <3>2. (newest + m - (c - 1 - (k - 1))) % m \in 0 .. (m - 1)
      BY <1>1, <3>1, ModRange
    <3>. QED
      BY <1>2, <1>4, <1>5, <3>2
  <2>5. (k - 1) + i - 1 = (k - 1) + (i - 1) /\ start + i - 1 = start + (i - 1)
    BY <2>4
  <2>. QED
    BY <2>2, <2>3, <2>5
<1>9. chunk[Len(chunk)].sequence = newest
  <2>1. Len(chunk) \in 1 .. (c - (k - 1)) /\ (k - 1) + Len(chunk) - 1 = c - 1
    BY <1>1, <1>7
  <2>2. chunk[Len(chunk)] = RecordAt(buffer, c - 1)
    <3> DEFINE l == Len(chunk)
    <3>1. chunk[l] = RecordAt(buffer, (k - 1) + l - 1)
      <4>. HIDE DEF chunk, l, c
      <4>. QED
        BY <1>6, <2>1 DEF l
    <3>. QED
      BY <2>1, <3>1
  <2>3. RecordAt(buffer, c - 1).sequence = (newest + m - (c - 1 - (c - 1))) % m
    BY <1>1, <1>2
  <2>4. newest + m - (c - 1 - (c - 1)) = newest + m
    BY <1>1
  <2>5. (newest + m) % m = newest
    BY <1>1, ModTurn
  <2>. QED
    BY <2>2, <2>3, <2>4, <2>5
<1>. QED
  BY <1>7, <1>8, <1>9

\* thermometer.c 30: the backlog a central was told of is served in full and in
\* order from any start, whatever is sampled meanwhile, until it asks again.
THEOREM AnnouncedIsServed == Spec => []AnnouncedRangeServed
<1>1. TypeOK /\ MetaDescribesCopies => AnnouncedRangeServed
  <2> SUFFICES ASSUME TypeOK, MetaDescribesCopies, meta # NoMeta,
                      NEW s \in Sensors, NEW k \in 1 .. meta.counts[s]
               PROVE  LET start == (meta.oldest_sequences[s] + k - 1) % SequenceModulus
                          chunk == thermometer_copy_history(s, start, HistoryCapacity)
                      IN  /\ Len(chunk) = meta.counts[s] - k + 1
                          /\ \A i \in 1 .. Len(chunk) :
                               chunk[i].sequence = (start + i - 1) % SequenceModulus
                          /\ chunk[Len(chunk)].sequence = meta.newest_sequence
    BY DEF AnnouncedRangeServed
  <2> DEFINE ring == history_snapshot[s]
  <2>1. /\ ring \in Buffers(Records)
        /\ meta.newest_sequence \in 0 .. (SequenceModulus - 1)
        /\ EndsAt(ring, meta.newest_sequence)
        /\ meta.counts[s] = ring.count
        /\ meta.oldest_sequences[s] = history_buffer_oldest_sequence(ring)
    BY DEF TypeOK, MetaDescribesCopies
  <2>2. ServedRing(s) = ring
    BY DEF MetaDescribesCopies, ServedRing
  <2>3. k \in 1 .. ring.count
    BY <2>1
  <2>. HIDE DEF ring
  <2>. QED
    BY <2>1, <2>2, <2>3, RangeOfRing DEF thermometer_copy_history
<1>. QED
  BY <1>1, TypeCorrect, CopiesDescribed, PTL

-----------------------------------------------------------------------------
(* The rings implement the log.                                            *)

\* A ring as the log it stands for: the refinement mapping of Thermometer's Log.
Contents(buffer) ==
  history_buffer_copy(buffer, history_buffer_oldest_sequence(buffer), HistoryCapacity)

\* The log of a ring: its live records, the most recent one last.
LEMMA ContentsRecent ==
  ASSUME NEW buffer \in Buffers(Records),
         NEW newest \in 0 .. (SequenceModulus - 1), EndsAt(buffer, newest)
  PROVE  Contents(buffer) =
           [k \in 1 .. buffer.count |-> Recent(buffer, buffer.count + 1 - k)]
<1>1. buffer.count \in Nat
  BY CapacityAssumption DEF Buffers
<1>2. CASE buffer.count = 0
  <2>1. \A start : MatchingOffsets(buffer, start) = {}
    BY <1>2 DEF MatchingOffsets
  <2>2. Contents(buffer) = << >>
    BY <2>1 DEF Contents, history_buffer_copy
  <2>3. [k \in 1 .. buffer.count |-> Recent(buffer, buffer.count + 1 - k)] = << >>
    BY <1>2
  <2>. QED
    BY <2>2, <2>3
<1>3. CASE buffer.count # 0
  <2>1. 0 \in 0 .. (buffer.count - 1) /\ buffer.count - 0 = buffer.count
    BY <1>1, <1>3
  <2>2. history_buffer_oldest_sequence(buffer) = RecordAt(buffer, 0).sequence
    BY <1>3 DEF history_buffer_oldest_sequence
  <2>3. Contents(buffer) =
          [k \in 1 .. (buffer.count - 0) |-> RecordAt(buffer, 0 + k - 1)]
    BY <2>1, <2>2, CopyFrom DEF Contents
  <2>4. ASSUME NEW k \in 1 .. buffer.count
        PROVE  RecordAt(buffer, 0 + k - 1) = Recent(buffer, buffer.count + 1 - k)
    <3>1. 0 + k - 1 \in 0 .. (buffer.count - 1)
      BY <1>1
    <3>2. buffer.count - (0 + k - 1) = buffer.count + 1 - k
      BY <1>1
    <3>. QED
      BY <3>1, <3>2, RecordIsRecent
  <2>. QED
    BY <2>1, <2>3, <2>4
<1>. QED
  BY <1>2, <1>3

\* A log that is too long loses its oldest sample.
LEMMA NewestOfLonger ==
  ASSUME NEW s, Len(s) > HistoryCapacity
  PROVE  Log!Newest(s) = Tail(s)
  BY DEF Log!Newest

\* Appending to a ring appends to its log, which forgets its first element when
\* it would grow past the capacity.
LEMMA ContentsAppend ==
  ASSUME NEW buffer \in Buffers(Records), NEW record \in Records,
         NEW newest \in 0 .. (SequenceModulus - 1), EndsAt(buffer, newest),
         record.sequence = (newest + 1) % SequenceModulus
  PROVE  LET after == Contents(history_buffer_append(buffer, record))
         IN  /\ after # << >>
             /\ after[Len(after)] = record
             /\ after = Log!Newest(Append(Contents(buffer), record))
<1> DEFINE n     == HistoryCapacity
           c     == buffer.count
           ring  == history_buffer_append(buffer, record)
           old   == Contents(buffer)
           after == Contents(ring)
<1>1. n \in Nat \ {0} /\ c \in 0 .. n
  BY CapacityAssumption DEF Buffers
<1>2. ring.count = IF c < n THEN c + 1 ELSE c
  BY DEF history_buffer_append
<1>3. ring.count \in 1 .. n
  BY <1>1, <1>2
<1>4. old = [k \in 1 .. c |-> Recent(buffer, c + 1 - k)]
  BY ContentsRecent
<1>5. after = [k \in 1 .. ring.count |-> Recent(ring, ring.count + 1 - k)]
  <2>1. ring \in Buffers(Records) /\ EndsAt(ring, record.sequence)
    BY AppendType, AppendEndsAt
  <2>2. record.sequence \in 0 .. (SequenceModulus - 1)
    BY DEF Records
  <2>. HIDE DEF ring
  <2>. QED
    BY <2>1, <2>2, ContentsRecent
<1>6. \A k \in 1 .. ring.count :
        Recent(ring, k) = IF k = 1 THEN record ELSE Recent(buffer, k - 1)
  BY AppendRecent
<1>. HIDE DEF ring, old, after
<1>7. Len(after) = ring.count /\ after # << >>
  BY <1>3, <1>5
<1>8. after[ring.count] = record
  <2>1. ring.count + 1 - ring.count = 1 /\ ring.count \in 1 .. ring.count
        /\ 1 \in 1 .. ring.count
    BY <1>3
  <2>. QED
    BY <2>1, <1>5, <1>6
<1>9. \A k \in 1 .. (ring.count - 1) : after[k] = Recent(buffer, ring.count - k)
  <2> SUFFICES ASSUME NEW k \in 1 .. (ring.count - 1)
               PROVE  after[k] = Recent(buffer, ring.count - k)
    OBVIOUS
  <2>1. /\ k \in 1 .. ring.count /\ ring.count + 1 - k \in 1 .. ring.count
        /\ ring.count + 1 - k # 1 /\ (ring.count + 1 - k) - 1 = ring.count - k
    BY <1>3
  <2>. QED
    BY <2>1, <1>5, <1>6
<1> DEFINE longer == Append(old, record)
<1>10. /\ Len(old) = c
       /\ longer = [k \in 1 .. (c + 1) |-> IF k = c + 1 THEN record ELSE old[k]]
       /\ Len(longer) = c + 1
  BY <1>1, <1>4
<1>11. CASE c < n
  <2>1. Log!Newest(longer) = longer
    <3>. HIDE DEF longer
    <3>. QED
      BY <1>1, <1>10, <1>11 DEF Log!Newest
  <2>2. ring.count = c + 1
    BY <1>2, <1>11
  <2>3. \A k \in 1 .. (c + 1) :
          after[k] = IF k = c + 1 THEN record ELSE old[k]
    BY <1>1, <1>4, <1>8, <1>9, <2>2
  <2>4. after = longer
    <3>. HIDE DEF longer
    <3>. QED
      BY <1>5, <1>10, <2>2, <2>3
  <2>. QED
    BY <1>7, <1>8, <2>1, <2>4 DEF ring, old, after
<1>12. CASE c = n
  <2>1. Log!Newest(longer) = Tail(longer)
    <3>1. Len(longer) > HistoryCapacity
      BY <1>1, <1>10, <1>12
    <3>. HIDE DEF longer
    <3>. QED
      BY <3>1, NewestOfLonger
  <2>2. ring.count = c
    BY <1>1, <1>2, <1>12
  <2>3. Tail(longer) = [k \in 1 .. c |-> longer[k + 1]]
    <3> DEFINE S == {longer[k] : k \in 1 .. (c + 1)}
    <3>. HIDE DEF longer
    <3>1. longer \in [1 .. (c + 1) -> S] /\ c + 1 \in Nat
      BY <1>1, <1>10
    <3>2. longer \in Seq(S) /\ longer # << >>
      <4>. HIDE DEF S
      <4>1. longer \in Seq(S)
        BY <3>1, SeqDef
      <4>2. longer # << >>
        <5>1. Len(longer) # 0
          BY <1>1, <1>10
        <5>. QED
          BY <5>1, EmptySeq
      <4>. QED
        BY <4>1, <4>2
    <3>3. /\ Tail(longer) \in Seq(S) /\ Len(Tail(longer)) = c
          /\ \A k \in 1 .. Len(Tail(longer)) : Tail(longer)[k] = longer[k + 1]
      <4>. HIDE DEF S
      <4>1. /\ Tail(longer) \in Seq(S) /\ Len(Tail(longer)) = Len(longer) - 1
            /\ \A k \in 1 .. Len(Tail(longer)) : Tail(longer)[k] = longer[k + 1]
        BY <3>2, HeadTailProperties
      <4>. QED
        BY <1>1, <1>10, <4>1
    <3> DEFINE tail == Tail(longer)
    <3>4. tail = [k \in 1 .. c |-> tail[k]]
      <4>1. tail \in Seq(S) /\ Len(tail) = c
        BY <3>3
      <4>2. tail \in [1 .. c -> S]
        <5>. HIDE DEF S, tail
        <5>. QED
          BY <4>1, LenProperties
      <4>. HIDE DEF S, tail
      <4>. QED
        BY <4>2
    <3>. HIDE DEF S
    <3>. QED
      BY <3>3, <3>4
  <2>4. \A k \in 1 .. c : after[k] = longer[k + 1]
    <3> SUFFICES ASSUME NEW k \in 1 .. c PROVE after[k] = longer[k + 1]
      OBVIOUS
    <3>1. CASE k = c
      <4>. HIDE DEF longer
      <4>. QED
        BY <1>1, <1>8, <1>10, <2>2, <3>1
    <3>2. CASE k # c
      <4>1. k \in 1 .. (ring.count - 1) /\ k + 1 \in 1 .. c /\ k + 1 # c + 1
            /\ c + 1 - (k + 1) = ring.count - k /\ k + 1 \in 1 .. (c + 1)
        BY <1>1, <2>2, <3>2
      <4>2. longer[k + 1] = old[k + 1]
        <5>. HIDE DEF longer
        <5>. QED
          BY <1>10, <4>1
      <4>3. old[k + 1] = Recent(buffer, ring.count - k)
        BY <1>4, <4>1
      <4>. QED
        BY <1>9, <4>1, <4>2, <4>3
    <3>. QED
      BY <3>1, <3>2
  <2>5. after = Tail(longer)
    <3>. HIDE DEF longer
    <3>. QED
      BY <1>5, <2>2, <2>3, <2>4
  <2>. QED
    BY <1>7, <1>8, <2>1, <2>5 DEF ring, old, after
<1>. QED
  BY <1>1, <1>11, <1>12

\* Only Reboot, SampleDeadline and GetHistoryMeta change what a client can read;
\* they are the Restart, the Sample and the Freeze of HistoryLog.
LEMMA StepRefinesLog ==
  ASSUME TypeOK, HistoryContiguous, [Next]_vars
  PROVE  [Log!Next]_(Log!logVars)
<1>1. CASE Reboot
  <2>1. \A s \in Sensors : history'[s].count = 0
    BY <1>1 DEF Reboot, EmptyRings, history_buffer_init
  <2>2. \A s \in Sensors : Contents(history'[s]) = << >>
    BY <2>1 DEF Contents, history_buffer_copy, MatchingOffsets
  <2>3. snapshot_valid' = FALSE
    BY <1>1 DEF Reboot
  <2>. QED
    BY <2>2, <2>3 DEF Log!Next, Log!Restart, Contents, Served, ServedRing,
                      thermometer_copy_history
<1>2. CASE GetHistoryMeta
  <2>1. history_snapshot' = history /\ snapshot_valid' = TRUE /\ history' = history
    BY <1>2 DEF GetHistoryMeta
  <2>. QED
    BY <2>1 DEF Log!Next, Log!Freeze, Served, ServedRing, thermometer_copy_history
<1>3. CASE SampleDeadline
  <2>1. UNCHANGED <<history_snapshot, snapshot_valid>>
    BY <1>3 DEF SampleDeadline
  <2>2. ASSUME NEW s \in Sensors
        PROVE  /\ Contents(history'[s]) # << >>
               /\ Contents(history'[s])[Len(Contents(history'[s]))] \in Records
               /\ Contents(history'[s]) =
                    Log!Newest(Append(Contents(history[s]),
                      Contents(history'[s])[Len(Contents(history'[s]))]))
    <3> DEFINE record == [sequence |-> latest_sequence',
                          temperature |-> latest[s].temperature,
                          data_status |-> latest[s].data_status]
    <3>1. latest_sequence' = (latest_sequence + 1) % SequenceModulus
      BY <1>3 DEF SampleDeadline
    <3>2. record \in Records
      <4>1. latest_sequence + 1 \in Int /\ SequenceModulus \in Nat \ {0}
        BY CapacityAssumption, ModulusAssumption DEF TypeOK
      <4>2. latest_sequence' \in 0 .. (SequenceModulus - 1)
        BY <3>1, <4>1, ModRange
      <4>. QED
        BY <4>2 DEF Records, TypeOK, LatestType
    <3>3. history'[s] = history_buffer_append(history[s], record)
      BY <1>3 DEF SampleDeadline, append_history_record
    <3>4. /\ history[s] \in Buffers(Records)
          /\ latest_sequence \in 0 .. (SequenceModulus - 1)
          /\ EndsAt(history[s], latest_sequence)
      BY DEF TypeOK, HistoryContiguous
    <3>5. record.sequence = (latest_sequence + 1) % SequenceModulus
      BY <3>1
    <3> DEFINE after == Contents(history_buffer_append(history[s], record))
    <3>6. /\ after # << >>
          /\ after[Len(after)] = record
          /\ after = Log!Newest(Append(Contents(history[s]), record))
      <4>. HIDE DEF record
      <4>. QED
        BY <3>2, <3>4, <3>5, ContentsAppend
    <3>. HIDE DEF record
    <3>. QED
      BY <3>2, <3>3, <3>6
  <2> DEFINE log    == [s \in Sensors |-> Contents(history[s])]
             served == [s \in Sensors |-> Served(s)]
  <2>3. /\ \A s \in Sensors :
             /\ log'[s] # << >> /\ Log!Last(log'[s]) \in Records
             /\ log'[s] = Log!Newest(Append(log[s], Log!Last(log'[s])))
        /\ served' = IF snapshot_valid THEN served ELSE log'
    <3>1. served' = IF snapshot_valid THEN served ELSE log'
      BY <2>1 DEF Served, ServedRing, thermometer_copy_history, Contents
    <3>. QED
      BY <2>2, <3>1 DEF Log!Last
  <2>. QED
    BY <2>1, <2>3 DEF Log!Next, Log!Sample, Contents
<1>4. CASE UNCHANGED <<history, history_snapshot, snapshot_valid>>
  BY <1>4 DEF Log!logVars, Served, ServedRing, thermometer_copy_history
<1>5. CASE ~Reboot /\ ~GetHistoryMeta /\ ~SampleDeadline
  BY <1>4, <1>5
     DEF Next, vars, SensorRead, SensorSend, ProbeChanges, DeadlinePasses,
         ReceiveEvent, CopyPicture, Draw, ToggleDisplay, SetDisplay
<1>. QED
  BY <1>1, <1>2, <1>3, <1>5

\* The rings, the frozen copies and the search by sequence number implement a
\* bounded log whose reads are frozen by the request for metadata.
THEOREM RingsImplementLog == Spec => ImplementsHistoryLog
<1>1. Init => Log!Init
  <2> SUFFICES ASSUME Init PROVE Log!Init
    OBVIOUS
  <2>1. /\ \A s \in Sensors : history[s].count = 0
        /\ snapshot_valid = FALSE
    BY DEF Init, EmptyRings, history_buffer_init
  <2>2. \A s \in Sensors : Contents(history[s]) = << >>
    BY <2>1 DEF Contents, history_buffer_copy, MatchingOffsets
  <2>. QED
    BY <2>1, <2>2 DEF Log!Init, Contents, Served, ServedRing, thermometer_copy_history
<1>2. TypeOK /\ HistoryContiguous /\ [Next]_vars => [Log!Next]_(Log!logVars)
  BY StepRefinesLog
<1>. QED
  BY <1>1, <1>2, TypeCorrect, HistoryIsContiguous, PTL
     DEF Spec, ImplementsHistoryLog, Log!Spec
=============================================================================
