--------------------------- MODULE HistoryBuffer ---------------------------
(***************************************************************************)
(* firmware/main/src/history_buffer.c: the fixed circular buffer that      *)
(* keeps one sensor's most recent samples, as operators on a record        *)
(*     [records, next_index, count].                                       *)
(* A record is a C struct with at least a "sequence" field.  The buffer is *)
(* only ever touched while the caller holds s_state_mutex, so every        *)
(* function is one atomic expression.                                      *)
(***************************************************************************)
EXTENDS Naturals, Sequences

CONSTANT HistoryCapacity    \* THERMOMETER_HISTORY_CAPACITY (300)

ASSUME CapacityAssumption == HistoryCapacity \in Nat \ {0}

Slots == 0 .. (HistoryCapacity - 1)

Buffers(Records) ==
  [records : [Slots -> Records], next_index : Slots, count : 0 .. HistoryCapacity]

-----------------------------------------------------------------------------
oldest_index(buffer) ==
  (buffer.next_index + HistoryCapacity - buffer.count) % HistoryCapacity

\* memset: every slot holds the all-zero record and none is live.
history_buffer_init(zero) ==
  [records |-> [i \in Slots |-> zero], next_index |-> 0, count |-> 0]

\* Plausible bug: the write position wraps one slot early.
WrapsEarly(index) ==
  IF index + 2 >= HistoryCapacity THEN 0 ELSE index + 1

NextIndex(index) == (index + 1) % HistoryCapacity

history_buffer_append(buffer, record) ==
  [records    |-> [buffer.records EXCEPT ![buffer.next_index] = record],
   next_index |-> NextIndex(buffer.next_index),
   count      |-> IF buffer.count < HistoryCapacity
                  THEN buffer.count + 1 ELSE buffer.count]

\* Plausible bug: the offset is used as a slot number.
RecordInSlot(buffer, offset) == buffer.records[offset % HistoryCapacity]

\* The record "offset" places after the oldest live one.
RecordAt(buffer, offset) ==
  buffer.records[(oldest_index(buffer) + offset) % HistoryCapacity]

history_buffer_oldest_sequence(buffer) ==
  IF buffer.count = 0 THEN 0 ELSE RecordAt(buffer, 0).sequence

\* The offsets at which the linear search of history_buffer_copy would stop.
MatchingOffsets(buffer, start_sequence) ==
  {offset \in 0 .. (buffer.count - 1) :
      RecordAt(buffer, offset).sequence = start_sequence}

\* The records copied out; the empty sequence stands for "return false".
history_buffer_copy(buffer, start_sequence, requested_count) ==
  LET matches == MatchingOffsets(buffer, start_sequence)
  IN  IF matches = {} THEN << >>
      ELSE LET start_offset == CHOOSE o \in matches : \A p \in matches : o <= p
               available    == buffer.count - start_offset
               count        == IF requested_count < available
                               THEN requested_count ELSE available
           IN  [k \in 1 .. count |-> RecordAt(buffer, start_offset + k - 1)]
=============================================================================
