------------------------------- MODULE Packets -------------------------------
(* The layouts of thermometer_protocol.json and the two codecs that use them:   *)
(* protocol.py packs and unpacks whole layouts, protocol.c writes the fields of *)
(* a zeroed buffer at the generated offsets.  A byte is a digit of base Base,   *)
(* so that a few digits show every carry, sign and wrap.                        *)
EXTENDS Integers, Sequences, SequencesExt

CONSTANTS Base, MaxRecords, MaxCompactRecords, PreferredMtu

TYPE_SIZES == [u8 |-> 1, u16 |-> 2, i16 |-> 2, u32 |-> 4,
               bytes6 |-> 6, bytes16 |-> 16, bytes32 |-> 32]
IsBytes(type) == type \in {"bytes6", "bytes16", "bytes32"}

Layouts ==
  [header |->
     << <<"version", "u8">>, <<"opcode", "u8">>, <<"request_id", "u16">>,
        <<"payload_length", "u16">>, <<"status", "u8">>, <<"flags", "u8">> >>,
   current_response |->
     << <<"boot_id", "u32">>, <<"newest_sequence", "u32">>,
        <<"sensor_1_temperature", "i16">>, <<"sensor_1_visible_state", "u8">>,
        <<"sensor_1_display_enabled", "u8">>,
        <<"sensor_2_temperature", "i16">>, <<"sensor_2_visible_state", "u8">>,
        <<"sensor_2_display_enabled", "u8">>,
        <<"average_temperature", "i16">>, <<"average_valid", "u8">>, <<"reserved", "u8">> >>,
   set_display_request |-> << <<"sensor_id", "u8">>, <<"enabled", "u8">> >>,
   set_display_response |->
     << <<"sensor_id", "u8">>, <<"visible_state", "u8">>, <<"enabled", "u8">> >>,
   history_meta_response |->
     << <<"boot_id", "u32">>, <<"newest_sequence", "u32">>,
        <<"sensor_1_count", "u16">>, <<"sensor_2_count", "u16">>,
        <<"sensor_1_oldest_sequence", "u32">>, <<"sensor_2_oldest_sequence", "u32">> >>,
   history_chunk_request |->
     << <<"sensor_id", "u8">>, <<"start_sequence", "u32">>, <<"record_count", "u8">> >>,
   history_chunk_prefix |->
     << <<"sensor_id", "u8">>, <<"start_sequence", "u32">>,
        <<"record_count", "u8">>, <<"record_size", "u8">> >>,
   history_record |->
     << <<"sequence", "u32">>, <<"temperature", "i16">>, <<"data_status", "u8">> >>,
   compact_history_record |-> << <<"temperature", "i16">>, <<"data_status", "u8">> >>,
   auth_begin_response |->
     << <<"device_id", "bytes6">>, <<"boot_id", "u32">>, <<"nonce", "bytes16">> >>,
   auth_prove_request |-> << <<"proof", "bytes32">> >>]

FieldSize(field) == TYPE_SIZES[field[2]]
Width(fields) == FoldLeft(LAMBDA total, field : total + FieldSize(field), 0, fields)
SizeOf(layout) == Width(Layouts[layout])
OffsetOf(layout, i) == Width(SubSeq(Layouts[layout], 1, i - 1))
FieldNames(layout) == {Layouts[layout][i][1] : i \in DOMAIN Layouts[layout]}

HeaderSize == SizeOf("header")
PrefixSize == SizeOf("history_chunk_prefix")
RecordLayout(compact) == IF compact THEN "compact_history_record" ELSE "history_record"
RecordLimit(compact) == IF compact THEN MaxCompactRecords ELSE MaxRecords
ChunkPacket(compact) ==
  HeaderSize + PrefixSize + RecordLimit(compact) * SizeOf(RecordLayout(compact))

\* generate_firmware_config computes the size of both GATT buffers from the
\* history chunks alone.
MaxPacketSize ==
  IF ChunkPacket(TRUE) > ChunkPacket(FALSE) THEN ChunkPacket(TRUE) ELSE ChunkPacket(FALSE)

\* What load_and_validate accepts of the numbers used here.
ConfigurationValid ==
  /\ Base \in Nat \ {0} /\ PreferredMtu \in Nat
  /\ \A compact \in BOOLEAN :
        /\ RecordLimit(compact) \in 1..(Base - 1)
        /\ ChunkPacket(compact) <= PreferredMtu - 1

-------------------------------------------------------------------------------
Modulus(bytes) == Base ^ bytes
Digits(n, size) == [i \in 1..size |-> (n \div Modulus(i - 1)) % Base]
Unsigned(digits) == FoldRight(LAMBDA d, total : d + Base * total, digits, 0)
Signed(digits) ==
  LET n == Unsigned(digits)
  IN  IF n < Modulus(Len(digits)) \div 2 THEN n ELSE n - Modulus(Len(digits))

\* Both codecs cast a number to the width of its field; bytesN is copied.
EncodeField(type, value) ==
  IF IsBytes(type) THEN value
  ELSE Digits(value % Modulus(TYPE_SIZES[type]), TYPE_SIZES[type])
DecodeField(type, digits) ==
  CASE IsBytes(type) -> digits [] type = "i16" -> Signed(digits) [] OTHER -> Unsigned(digits)

\* _pack_layout: the fields one after the other, in the order of the layout.
Pack(layout, values) ==
  FoldLeft(LAMBDA packet, field : packet \o EncodeField(field[2], values[field[1]]),
           <<>>, Layouts[layout])

\* The firmware clears the buffer and writes each field at its offset.
WriteFields(layout, values) ==
  LET fields == Layouts[layout]
      Holding(b) == CHOOSE i \in DOMAIN fields :
                      b \in OffsetOf(layout, i) + 1 .. OffsetOf(layout, i) + FieldSize(fields[i])
  IN  [b \in 1..SizeOf(layout) |->
         LET i == Holding(b)
         IN  EncodeField(fields[i][2], values[fields[i][1]])[b - OffsetOf(layout, i)]]

FieldAt(layout, i, packet) ==
  DecodeField(Layouts[layout][i][2],
              SubSeq(packet, OffsetOf(layout, i) + 1,
                             OffsetOf(layout, i) + FieldSize(Layouts[layout][i])))
\* _unpack_layout, for data of the right length.
Unpack(layout, packet) ==
  [name \in FieldNames(layout) |->
     FieldAt(layout, CHOOSE i \in DOMAIN Layouts[layout] : Layouts[layout][i][1] = name, packet)]

Header(packet) == Unpack("header", SubSeq(packet, 1, HeaderSize))
PayloadOf(packet) == SubSeq(packet, HeaderSize + 1, Len(packet))
=============================================================================
