------------------------------- MODULE Protocol -------------------------------
(* One exchange at a time between the Python client (protocol.py and the calls  *)
(* of thermometer_client.py that use it) and protocol_process_request of the    *)
(* firmware, byte by byte: the client builds a packet, the device answers into  *)
(* its buffer, the client reads the buffer, parses and decodes it.  Time limits *)
(* and lockouts are in DeviceSession, locks and cancellation in DeviceExchange. *)
EXTENDS Packets, FiniteSets

CONSTANTS Devices,      \* states of the thermometer when the client connects
          RequestIds, Nonces, Mtus, Passkeys, DevicePasskey,
          Starts, Counts,
          None          \* Python's None

Sensors == 1..2
Version == 2
ResponseFlag == 1
Opcodes == [get_current |-> 1, set_display |-> 2, get_history_meta |-> 3,
            get_history_chunk |-> 4, auth_begin |-> 5, auth_prove |-> 6,
            reset_bond |-> 7, get_history_chunk_compact |-> 8]
Statuses == [success |-> 0, invalid_command |-> 1, invalid_sensor |-> 2,
             invalid_value |-> 3, not_available |-> 4, internal_error |-> 5,
             unsupported_version |-> 6, authentication_required |-> 7,
             authentication_failed |-> 8, authentication_locked |-> 9]
Off == 0
On == 1
Disconnected == 2
ValuesOf(enum) == {enum[name] : name \in DOMAIN enum}

NoChallenge == [device_id |-> <<>>, boot_id |-> 0, nonce |-> <<>>]

\* HMAC-SHA-256 as a mixing function that keeps apart the messages used here.
Hmac(key, message) ==
  [i \in 1..TYPE_SIZES.bytes32 |->
     (key + i + FoldLeftDomain(LAMBDA total, j : total + j * message[j], 0, message)) % Base]
ProofMessage(device_id, boot_id, nonce) ==
  <<Version>> \o device_id \o Digits(boot_id, TYPE_SIZES.u32) \o nonce

VARIABLES device,         \* rings, latest samples, display settings, boot
          authenticated, nonce,         \* the device's session; <<>>: no challenge
          mtu, challenge,               \* the client's: negotiated size, decoded challenge
          call, request, response, disturbed, result, phase
vars == <<device, authenticated, nonce, mtu, challenge,
          call, request, response, disturbed, result, phase>>

Idle == [op |-> "none"]
Failed(reason) == [ok |-> FALSE, reason |-> reason]
Returned(value) == [ok |-> TRUE, value |-> value]

Init == /\ device \in Devices /\ mtu \in Mtus
        /\ authenticated = FALSE /\ nonce = <<>> /\ challenge = NoChallenge
        /\ call = Idle /\ request = <<>> /\ response = <<>> /\ disturbed = FALSE
        /\ result = Failed("none") /\ phase = "idle"

-------------------------------------------------------------------------------
(* The client's side of a request. *)

IsChunk(op) == op \in {"get_history_chunk", "get_history_chunk_compact"}
Compact(op) == op = "get_history_chunk_compact"

ClientCalls ==
  [op : {"get_current", "get_history_meta", "auth_begin", "reset_bond"}]
    \cup [op : {"auth_prove"}, passkey : Passkeys]
    \cup [op : {"set_display"}, sensor : 0..3, enabled : BOOLEAN]
    \cup [op : {"get_history_chunk", "get_history_chunk_compact"},
          sensor : Sensors, start : Starts, count : Counts]

validate_sensor_id(s) == s >= 1 /\ s <= 2

\* An ATT Read Response spends one byte on its own opcode.
ValueCapacity == mtu - 1
records_per_chunk(compact) ==
  LET fit == (ValueCapacity - HeaderSize - PrefixSize) \div SizeOf(RecordLayout(compact))
      most == IF fit < RecordLimit(compact) THEN fit ELSE RecordLimit(compact)
  IN  IF most < 1 THEN 1 ELSE most
Requested(c) ==
  LET fit == records_per_chunk(Compact(c.op)) IN IF c.count < fit THEN c.count ELSE fit

ClientAccepts(c) ==
  /\ c.op = "set_display" => validate_sensor_id(c.sensor)
  /\ IsChunk(c.op) => /\ validate_sensor_id(c.sensor)
                      /\ c.start \in 0..(Modulus(TYPE_SIZES.u32) - 1)
                      /\ Requested(c) \in 1..RecordLimit(Compact(c.op))

compute_authentication_proof(passkey) ==
  Hmac(passkey, ProofMessage(challenge.device_id, challenge.boot_id, challenge.nonce))

RequestPayload(c) ==
  CASE c.op = "set_display" ->
         Pack("set_display_request",
              [sensor_id |-> c.sensor, enabled |-> IF c.enabled THEN 1 ELSE 0])
    [] c.op = "auth_prove" ->
         Pack("auth_prove_request", [proof |-> compute_authentication_proof(c.passkey)])
    [] IsChunk(c.op) ->
         Pack("history_chunk_request", [sensor_id |-> c.sensor, start_sequence |-> c.start,
                                        record_count |-> Requested(c)])
    [] OTHER -> <<>>

build_request(opcode, id, payload) ==
  Pack("header", [version |-> Version, opcode |-> opcode, request_id |-> id,
                  payload_length |-> Len(payload), status |-> 0, flags |-> 0]) \o payload

\* authenticate computes its proof from the challenge it has just decoded.
Request(c, id) ==
  /\ c.op = "auth_prove" => challenge # NoChallenge
  /\ call' = c /\ response' = <<>> /\ disturbed' = FALSE
  /\ IF ClientAccepts(c)
       THEN /\ request' = build_request(Opcodes[c.op], id, RequestPayload(c))
            /\ result' = Failed("none") /\ phase' = "written"
       ELSE request' = <<>> /\ result' = Failed("ValueError") /\ phase' = "done"
  /\ challenge' = IF c.op = "auth_prove" THEN challenge ELSE NoChallenge
  /\ UNCHANGED <<device, authenticated, nonce, mtu>>

-------------------------------------------------------------------------------
(* protocol_process_request *)

finish_response(status, payload) ==
  LET header == Header(request)
  IN  WriteFields("header", [version |-> Version, opcode |-> header.opcode,
                             request_id |-> header.request_id,
                             payload_length |-> Len(payload),
                             status |-> Statuses[status], flags |-> ResponseFlag]) \o payload

VisibleState(s) ==
  CASE ~s.valid -> Disconnected [] s.display -> On [] OTHER -> Off
BothVisible == \A i \in Sensors : device.sensors[i].valid /\ device.sensors[i].display
\* C's integer division truncates toward zero.
Half(n) == IF n >= 0 THEN n \div 2 ELSE -((-n) \div 2)
Average == Half(device.sensors[1].temperature + device.sensors[2].temperature)
Flag(b) == IF b THEN 1 ELSE 0

CurrentPayload ==
  LET one == device.sensors[1] two == device.sensors[2]
  IN  WriteFields("current_response",
        [boot_id |-> device.boot, newest_sequence |-> device.newest,
         sensor_1_temperature |-> one.temperature, sensor_1_visible_state |-> VisibleState(one),
         sensor_1_display_enabled |-> Flag(one.display),
         sensor_2_temperature |-> two.temperature, sensor_2_visible_state |-> VisibleState(two),
         sensor_2_display_enabled |-> Flag(two.display),
         average_temperature |-> IF BothVisible THEN Average ELSE 0,
         average_valid |-> Flag(BothVisible), reserved |-> 0])

OldestOf(i) == IF device.ring[i] = <<>> THEN 0 ELSE device.ring[i][1].sequence
MetaPayload ==
  WriteFields("history_meta_response",
    [boot_id |-> device.boot, newest_sequence |-> device.newest,
     sensor_1_count |-> Len(device.ring[1]), sensor_2_count |-> Len(device.ring[2]),
     sensor_1_oldest_sequence |-> OldestOf(1), sensor_2_oldest_sequence |-> OldestOf(2)])

EncodedRecord(compact, record) == WriteFields(RecordLayout(compact), record)
PrefixLength(n, most) == IF n < most THEN n ELSE most
\* history_buffer_copy: the records from start on, at most count of them.
Copied(sensor, start, count) ==
  LET ring == device.ring[sensor]
      at == {i \in DOMAIN ring : ring[i].sequence = start}
  IN  IF at = {} THEN <<>>
      ELSE LET first == CHOOSE i \in at : TRUE
           IN  SubSeq(ring, first, first + PrefixLength(Len(ring) - first + 1, count) - 1)

ChunkAnswer(compact, asked) ==
  LET size == SizeOf(RecordLayout(compact))
      room == (MaxPacketSize - HeaderSize - PrefixSize) \div size
      count == PrefixLength(PrefixLength(asked.record_count, RecordLimit(compact)), room)
      records == Copied(asked.sensor_id, asked.start_sequence, count)
  IN  CASE asked.sensor_id \notin Sensors -> finish_response("invalid_sensor", <<>>)
        [] asked.record_count = 0 -> finish_response("invalid_value", <<>>)
        [] count = 0 -> finish_response("internal_error", <<>>)
        [] records = <<>> -> finish_response("not_available", <<>>)
        [] OTHER ->
             finish_response("success",
               WriteFields("history_chunk_prefix",
                 [sensor_id |-> asked.sensor_id, start_sequence |-> asked.start_sequence,
                  record_count |-> Len(records), record_size |-> size])
               \o FoldLeft(LAMBDA bytes, record : bytes \o EncodedRecord(compact, record),
                           <<>>, records))

GetHistoryChunk(payload, compact) ==
  IF Len(payload) # SizeOf("history_chunk_request") THEN finish_response("invalid_value", <<>>)
  ELSE ChunkAnswer(compact, Unpack("history_chunk_request", payload))

Answers(answer) ==
  response' = answer /\ UNCHANGED <<device, authenticated, nonce>>

handle_set_display(payload) ==
  LET asked == Unpack("set_display_request", payload)
      sensor == device.sensors[asked.sensor_id]
      shown == [sensor EXCEPT !.display = IF sensor.valid THEN asked.enabled = 1 ELSE @]
  IN  IF Len(payload) # SizeOf("set_display_request") THEN Answers(finish_response("invalid_value", <<>>))
      ELSE IF asked.sensor_id \notin Sensors THEN Answers(finish_response("invalid_sensor", <<>>))
      ELSE IF asked.enabled > 1 THEN Answers(finish_response("invalid_value", <<>>))
      ELSE /\ device' = [device EXCEPT !.sensors[asked.sensor_id] = shown]
           /\ response' =
                finish_response(IF sensor.valid THEN "success" ELSE "not_available",
                  WriteFields("set_display_response",
                    [sensor_id |-> asked.sensor_id, visible_state |-> VisibleState(shown),
                     enabled |-> Flag(shown.display)]))
           /\ UNCHANGED <<authenticated, nonce>>

handle_auth_begin(payload) ==
  IF payload # <<>> THEN Answers(finish_response("invalid_value", <<>>))
  ELSE \E n \in Nonces :
         /\ nonce' = n /\ authenticated' = FALSE
         /\ response' = finish_response("success",
                          WriteFields("auth_begin_response",
                            [device_id |-> device.id, boot_id |-> device.boot, nonce |-> n]))
         /\ UNCHANGED device

handle_auth_prove(payload) ==
  IF Len(payload) # SizeOf("auth_prove_request") \/ nonce = <<>>
    THEN Answers(finish_response("authentication_required", <<>>))
    ELSE LET right == payload = Hmac(DevicePasskey, ProofMessage(device.id, device.boot, nonce))
         IN  /\ nonce' = <<>> /\ authenticated' = right
             /\ response' = finish_response(IF right THEN "success" ELSE "authentication_failed", <<>>)
             /\ UNCHANGED device

Answer(opcode, payload) ==
  CASE opcode = Opcodes.auth_begin -> handle_auth_begin(payload)
    [] opcode = Opcodes.auth_prove -> handle_auth_prove(payload)
    [] opcode \notin {Opcodes.auth_begin, Opcodes.auth_prove} /\ ~authenticated ->
         Answers(finish_response("authentication_required", <<>>))
    [] OTHER ->
         CASE opcode = Opcodes.set_display -> handle_set_display(payload)
           [] opcode = Opcodes.get_history_chunk -> Answers(GetHistoryChunk(payload, FALSE))
           [] opcode = Opcodes.get_history_chunk_compact -> Answers(GetHistoryChunk(payload, TRUE))
           [] opcode \notin ValuesOf(Opcodes) -> Answers(finish_response("invalid_command", <<>>))
           [] OTHER ->
                IF payload # <<>> THEN Answers(finish_response("invalid_value", <<>>))
                ELSE CASE opcode = Opcodes.get_current -> Answers(finish_response("success", CurrentPayload))
                       [] opcode = Opcodes.get_history_meta -> Answers(finish_response("success", MetaPayload))
                       [] opcode = Opcodes.reset_bond -> Answers(finish_response("success", <<>>))

\* The GATT server refuses a value outside its buffer, as an ATT error of the write.
AcceptedLength(n) == n >= HeaderSize /\ n <= MaxPacketSize

Process ==
  /\ phase = "written"
  /\ UNCHANGED <<mtu, challenge, call, request, disturbed>>
  /\ IF ~AcceptedLength(Len(request))
       THEN /\ result' = Failed("BleakError") /\ phase' = "done"
            /\ UNCHANGED <<device, authenticated, nonce, response>>
       ELSE /\ phase' = "answered" /\ UNCHANGED result
            /\ LET header == Header(request) payload == PayloadOf(request)
               IN  CASE header.version # Version -> Answers(finish_response("unsupported_version", <<>>))
                     [] header.version = Version /\ (\/ header.status # 0 \/ header.flags # 0
                                                     \/ header.payload_length # Len(payload)) ->
                          Answers(finish_response("invalid_value", <<>>))
                     [] OTHER -> Answer(header.opcode, payload)

-------------------------------------------------------------------------------
(* What else the client may find in the response characteristic: the answer of  *)
(* other firmware, an answer to somebody else's request, a value cut short.     *)

HeaderByte(name) == CHOOSE b \in 1..HeaderSize :
                      \E i \in DOMAIN Layouts.header :
                        Layouts.header[i][1] = name /\ b = OffsetOf("header", i) + 1
With(name, values) == {ReplaceAt(response, HeaderByte(name), v) : v \in values}
\* Payload bytes with few legal values, by the layout of a successful answer.
Enumerated(layout, names, base) ==
  {base + OffsetOf(layout, i) + 1 :
     i \in {j \in DOMAIN Layouts[layout] : Layouts[layout][j][1] \in names}}
EnumeratedBytes(op) ==
  CASE op = "get_current" ->
         Enumerated("current_response",
           {"sensor_1_visible_state", "sensor_1_display_enabled", "sensor_2_visible_state",
            "sensor_2_display_enabled", "average_valid", "reserved"}, HeaderSize)
    [] op = "set_display" ->
         Enumerated("set_display_response", {"sensor_id", "visible_state", "enabled"}, HeaderSize)
    [] IsChunk(op) ->
         Enumerated("history_chunk_prefix", {"sensor_id", "record_count", "record_size"}, HeaderSize)
           \cup Enumerated(RecordLayout(Compact(op)), {"data_status"}, HeaderSize + PrefixSize)
    [] OTHER -> {}

Foreign ==
  LET header == Header(response)
      digit == response[HeaderByte("request_id")]
  IN  {SubSeq(response, 1, n) : n \in 0..(Len(response) - 1)}
        \cup {Append(response, 0)}
        \cup With("version", {Version - 1, Version + 1})
        \cup With("opcode", {(header.opcode + 1) % Base})
        \cup With("request_id", {(digit + 1) % Base})
        \cup With("status", (0..Base - 1) \ {header.status, Statuses.success})
        \cup With("flags", {0, ResponseFlag + 1})
        \cup {ReplaceAt(response, b, Base - 1) :
                b \in {e \in EnumeratedBytes(call.op) : e <= Len(response)}}

Disturb == /\ phase = "answered" /\ ~disturbed /\ disturbed' = TRUE
           /\ response' \in Foreign
           /\ UNCHANGED <<device, authenticated, nonce, mtu, challenge, call, request, result, phase>>

-------------------------------------------------------------------------------
(* parse_response and the decoders. *)

ProtocolError == Failed("ProtocolError")
Rejected(status) ==
  Failed(CHOOSE name \in DOMAIN Statuses : Statuses[name] = status)

\* An answer is looked at only if it is this request's.
AnswersRequest(header, sent) ==
  /\ header.version = Version /\ header.opcode = sent.opcode
  /\ header.request_id = sent.request_id
parse_response(packet, sent) ==
  IF Len(packet) < HeaderSize THEN ProtocolError
  ELSE LET header == Header(packet)
       IN  IF \/ Len(PayloadOf(packet)) # header.payload_length
              \/ header.flags % 2 # ResponseFlag
              \/ header.opcode \notin ValuesOf(Opcodes)
              \/ header.status \notin ValuesOf(Statuses)
              \/ ~AnswersRequest(header, sent)
           THEN ProtocolError
           ELSE IF header.status # Statuses.success THEN Rejected(header.status)
           ELSE Returned(PayloadOf(packet))

decode_current(payload) ==
  LET v == Unpack("current_response", payload)
      state == <<v.sensor_1_visible_state, v.sensor_2_visible_state>>
      display == <<v.sensor_1_display_enabled, v.sensor_2_display_enabled>>
      temperature == <<v.sensor_1_temperature, v.sensor_2_temperature>>
  IN  IF \/ Len(payload) # SizeOf("current_response")
         \/ \E i \in Sensors : state[i] > Disconnected \/ display[i] > 1
         \/ v.average_valid > 1 \/ v.reserved # 0
      THEN ProtocolError
      ELSE Returned([boot |-> v.boot_id, newest |-> v.newest_sequence,
                     sensors |-> [i \in Sensors |->
                        [state |-> state[i], display |-> display[i] = 1,
                         temperature |-> IF state[i] = Disconnected THEN None ELSE temperature[i]]],
                     average |-> IF v.average_valid = 1 THEN v.average_temperature ELSE None])

decode_display_result(payload) ==
  LET v == Unpack("set_display_response", payload)
  IN  CASE Len(payload) # SizeOf("set_display_response") -> ProtocolError
        [] Len(payload) = SizeOf("set_display_response") /\ ~validate_sensor_id(v.sensor_id) ->
             Failed("ValueError")
        [] OTHER ->
             IF v.enabled > 1 \/ v.visible_state > Disconnected THEN ProtocolError
             ELSE Returned([sensor |-> v.sensor_id, state |-> v.visible_state,
                            display |-> v.enabled = 1])

decode_authentication_challenge(payload) ==
  IF Len(payload) # SizeOf("auth_begin_response") THEN ProtocolError
  ELSE Returned(Unpack("auth_begin_response", payload))

decode_history_meta(payload) ==
  LET v == Unpack("history_meta_response", payload)
  IN  IF Len(payload) # SizeOf("history_meta_response") THEN ProtocolError
      ELSE Returned([boot |-> v.boot_id, newest |-> v.newest_sequence,
                     counts |-> <<v.sensor_1_count, v.sensor_2_count>>,
                     oldest |-> <<v.sensor_1_oldest_sequence, v.sensor_2_oldest_sequence>>])

\* Plausible bug: the sequence number does not wrap.
SequenceUnwrapped(start, i) == start + i - 1
\* The compact record leaves out the sequence number, which wraps like the device's.
CompactSequence(start, i) == (start + i - 1) % Modulus(TYPE_SIZES.u32)

DecodedRecord(compact, prefix, payload, i) ==
  LET size == SizeOf(RecordLayout(compact))
      first == PrefixSize + (i - 1) * size
      v == Unpack(RecordLayout(compact), SubSeq(payload, first + 1, first + size))
  IN  [sequence |-> IF compact THEN CompactSequence(prefix.start_sequence, i)
                    ELSE v.sequence,
       status |-> v.data_status,
       temperature |-> IF v.data_status = 0 THEN v.temperature ELSE None]

decode_history_chunk(payload, compact) ==
  IF Len(payload) < PrefixSize THEN ProtocolError
  ELSE LET prefix == Unpack("history_chunk_prefix", SubSeq(payload, 1, PrefixSize))
           size == SizeOf(RecordLayout(compact))
           records == [i \in 1..prefix.record_count |-> DecodedRecord(compact, prefix, payload, i)]
       IN  IF \/ ~validate_sensor_id(prefix.sensor_id)
              \/ prefix.record_size # size
              \/ Len(payload) # PrefixSize + prefix.record_count * size
           THEN ProtocolError
           ELSE IF \E i \in DOMAIN records : records[i].status > 1 THEN ProtocolError
           ELSE Returned([sensor |-> prefix.sensor_id, start |-> prefix.start_sequence,
                          records |-> records])

Decode(op, payload) ==
  CASE op = "get_current" -> decode_current(payload)
    [] op = "set_display" -> decode_display_result(payload)
    [] op = "auth_begin" -> decode_authentication_challenge(payload)
    [] op = "get_history_meta" -> decode_history_meta(payload)
    [] IsChunk(op) -> decode_history_chunk(payload, Compact(op))
    \* authenticate and request_bond_reset look at the status only.
    [] OTHER -> Returned(None)

Read ==
  /\ phase = "answered"
  /\ LET parsed == parse_response(response, Header(request))
         decoded == IF parsed.ok THEN Decode(call.op, parsed.value) ELSE parsed
     IN  /\ result' = decoded
         /\ challenge' = IF call.op = "auth_begin" /\ decoded.ok THEN decoded.value
                         ELSE IF call.op = "auth_prove" THEN NoChallenge ELSE challenge
  /\ phase' = "done"
  /\ UNCHANGED <<device, authenticated, nonce, mtu, call, request, response, disturbed>>

\* The caller has its answer; the next call starts.
Return == /\ phase = "done" /\ phase' = "idle"
          /\ call' = Idle /\ request' = <<>> /\ response' = <<>>
          /\ disturbed' = FALSE /\ result' = Failed("none")
          /\ UNCHANGED <<device, authenticated, nonce, mtu, challenge>>

Next == \/ phase = "idle" /\ \E c \in ClientCalls, id \in RequestIds : Request(c, id)
        \/ Process \/ Disturb \/ Read \/ Return
Spec == Init /\ [][Next]_vars

-------------------------------------------------------------------------------
Bytes(packet) == \A b \in DOMAIN packet : packet[b] \in 0..(Base - 1)
\* Every number on the wire is made of bytes, and the phases follow one another.
TypeOK ==
  /\ device.boot \in 0..(Modulus(4) - 1) /\ \A i \in Sensors : device.sensors[i].display \in BOOLEAN
  /\ authenticated \in BOOLEAN /\ nonce \in Nonces \cup {<<>>} /\ mtu \in Mtus
  /\ call \in ClientCalls \cup {Idle} /\ phase \in {"idle", "written", "answered", "done"}
  /\ Bytes(request) /\ Bytes(response) /\ disturbed \in BOOLEAN /\ result.ok \in BOOLEAN

\* What the caller is to be told, from the device's state alone.
TrueSensor(s) ==
  [state |-> IF s.valid THEN (IF s.display THEN On ELSE Off) ELSE Disconnected,
   display |-> s.display, temperature |-> IF s.valid THEN s.temperature ELSE None]
TrueRecord(r) ==
  [sequence |-> r.sequence, status |-> r.data_status,
   temperature |-> IF r.data_status = 0 THEN r.temperature ELSE None]
TrueRecords(ring, start, most) ==
  LET following == SelectSeq(ring, LAMBDA r : (r.sequence - start) % Modulus(4) < Len(ring))
  IN  [i \in 1..PrefixLength(Len(following), most) |-> TrueRecord(following[i])]
Stored(ring, start) == \E i \in DOMAIN ring : ring[i].sequence = start
Promised(c) ==
  CASE "sensor" \in DOMAIN c /\ c.sensor \notin Sensors -> Failed("ValueError")
    [] c.op = "auth_begin" ->
         Returned([device_id |-> device.id, boot_id |-> device.boot, nonce |-> nonce])
    [] c.op = "auth_prove" ->
         IF c.passkey = DevicePasskey /\ authenticated THEN Returned(None)
         ELSE Failed("authentication_failed")
    [] OTHER ->
         CASE ~authenticated -> Failed("authentication_required")
           [] authenticated /\ c.op = "get_current" ->
                Returned([boot |-> device.boot, newest |-> device.newest,
                          sensors |-> [i \in Sensors |-> TrueSensor(device.sensors[i])],
                          average |-> IF BothVisible THEN Average ELSE None])
           [] authenticated /\ c.op = "get_history_meta" ->
                Returned([boot |-> device.boot, newest |-> device.newest,
                          counts |-> [i \in Sensors |-> Len(device.ring[i])],
                          oldest |-> [i \in Sensors |-> OldestOf(i)]])
           [] authenticated /\ c.op = "set_display" ->
                IF device.sensors[c.sensor].valid
                THEN Returned([sensor |-> c.sensor, state |-> IF c.enabled THEN On ELSE Off,
                               display |-> c.enabled])
                ELSE Failed("not_available")
           [] authenticated /\ IsChunk(c.op) ->
                IF Stored(device.ring[c.sensor], c.start)
                THEN Returned([sensor |-> c.sensor, start |-> c.start,
                               records |-> TrueRecords(device.ring[c.sensor], c.start, Requested(c))])
                ELSE Failed("not_available")
           [] authenticated /\ c.op = "reset_bond" -> Returned(None)

\* Every call tells its caller what the device's state means, and nothing else:
\* signs, byte order, offsets, wrapped sequence numbers, missing values, both
\* record formats and the proof go through both codecs (protocol.py, protocol.c).
ResultIsMeant == phase = "done" /\ ~disturbed => result = Promised(call)

\* A response that was cut, belongs to another request, firmware or command, or
\* holds a value outside its enumeration never reaches a caller as a result
\* (parse_response and the decoders).
DisturbedRefused == phase = "done" /\ disturbed => ~result.ok

\* The two sides agree on what a request is: the GATT server takes every packet
\* the client builds, and the firmware never finds it malformed or too large to
\* answer (build_request against protocol_process_request).
Misunderstood == {"invalid_command", "invalid_sensor", "invalid_value",
                  "internal_error", "unsupported_version"}
RequestUnderstood ==
  ~disturbed => /\ result # Failed("BleakError")
                /\ result \notin {Failed(name) : name \in Misunderstood}

\* A history chunk is one ATT Read Response at every negotiated MTU
\* (records_per_chunk against handle_get_history_chunk).
ChunkFitsRead ==
  phase = "answered" /\ ~disturbed /\ IsChunk(call.op) => Len(response) <= mtu - 1
=============================================================================
