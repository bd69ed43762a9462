-------------------------- MODULE HistoryTransfer --------------------------
(***************************************************************************)
(* One history transfer of backend/pc_client/history_sync.py against the   *)
(* device's rings: metadata, a time anchor, then chunks of both sensors in *)
(* turn, with retries, refreshed metadata and a time budget, while the     *)
(* device goes on sampling and the link may fail.                          *)
(*                                                                         *)
(* The k-th record since boot has sequence number Seqn(k); the records of  *)
(* both sensors are written together, one a second.  The connector only    *)
(* ever handles sequence numbers, k is the truth they stand for.           *)
(***************************************************************************)
EXTENDS Integers, Sequences, FiniteSets

CONSTANTS Sensors,      \* 1..sensor_count
          Capacity,     \* records in a ring
          SeqSpace,       \* sequence numbers wrap at SeqSpace (2^32)
          FirstSeq,     \* the sequence number of record 1
          InitialCount, \* records written when the transfer starts
          ChunkSize,    \* records_per_chunk
          Retries,      \* history_chunk_retry_count
          Freezes,      \* the firmware freezes the rings on GET_HISTORY_META
          MaxCount,     \* bound: records written
          MaxFaults     \* bound: failed calls

SizeAssumption ==
    /\ IsFiniteSet(Sensors) /\ Sensors = 1..Cardinality(Sensors)
    /\ {Capacity, ChunkSize, SeqSpace} \subseteq Nat \ {0}
    /\ {FirstSeq, Retries, MaxCount, MaxFaults} \subseteq Nat
    /\ InitialCount \in 1..MaxCount /\ 2 * MaxCount < SeqSpace
    /\ Freezes \in BOOLEAN

VARIABLES
    count,      \* device: records written
    frozen,     \* device: count when the rings were frozen, 0 if they are not
    linkUp,     \* the connection the transfer uses
    expired,    \* transfer_deadline has passed
    pc,         \* "metadata", "anchor", "chunk", "refresh", "done", "raised"
    anchor,     \* [seq, time]: newest sequence number and when it was read
    expected,   \* meta.counts
    pending,    \* sensors still to be read, in turn
    remaining, next,    \* per sensor: records to go, next sequence number
    retrieved,  \* per sensor: records received
    records,    \* the dictionary: set of [sensor, seq]
    attempt,    \* failed attempts of the current chunk
    failures,   \* kinds of failure reported
    faults, first   \* faults so far; the first chunk asked of each sensor

device == <<count, frozen, linkUp, expired>>
transfer == <<anchor, expected, pending, remaining, next, retrieved, records, first>>
vars == <<device, transfer, pc, attempt, failures, faults>>

Seqn(k) == (FirstSeq + k - 1) % SeqSpace
Seqs == 0..SeqSpace - 1
Lesser(a, b) == IF a < b THEN a ELSE b

\* What the rings hold when count records are written: the newest ones.
RingCount(n) == Lesser(n, Capacity)
RingOldest(n) == n - RingCount(n) + 1

TypeOK ==
    /\ count \in 0..MaxCount /\ frozen \in 0..MaxCount
    /\ linkUp \in BOOLEAN /\ expired \in BOOLEAN
    /\ pc \in {"metadata", "anchor", "chunk", "refresh", "done", "raised"}
    /\ anchor \in [seq : Seqs, time : Nat]
    /\ expected \in [Sensors -> 0..Capacity]
    /\ pending \in Seq(Sensors) /\ \A i, j \in DOMAIN pending : pending[i] = pending[j] => i = j
    /\ remaining \in [Sensors -> 0..Capacity] /\ next \in [Sensors -> Seqs]
    /\ retrieved \in [Sensors -> 0..Capacity]
    /\ records \subseteq [sensor : Sensors, seq : Seqs]
    /\ attempt \in 0..Retries
    /\ failures \subseteq {"overwritten", "error", "refresh", "budget"}
    /\ faults \in 0..MaxFaults

Nothing == [s \in Sensors |-> 0]

\* The service knows a current snapshot of this boot, perhaps not the newest;
\* or none, and reads one below.
Init ==
    /\ \E k \in 1..InitialCount : anchor = [seq |-> Seqn(k), time |-> k]
    /\ count = InitialCount /\ frozen = 0 /\ linkUp = TRUE /\ expired = FALSE
    /\ pc = "metadata"
    /\ expected = Nothing /\ pending = <<>> /\ remaining = Nothing
    /\ next = Nothing /\ retrieved = Nothing /\ records = {} /\ attempt = 0
    /\ failures = {} /\ faults = 0 /\ first = <<>>

-----------------------------------------------------------------------------
(* The device and the link *)

Sample ==
    /\ count < MaxCount /\ count' = count + 1
    /\ UNCHANGED <<frozen, linkUp, expired, transfer, pc, attempt, failures, faults>>

LinkLost ==
    /\ linkUp /\ linkUp' = FALSE
    /\ UNCHANGED <<count, frozen, expired, transfer, pc, attempt, failures, faults>>

Expire ==
    /\ ~expired /\ expired' = TRUE
    /\ UNCHANGED <<count, frozen, linkUp, transfer, pc, attempt, failures, faults>>

\* GET_HISTORY_META freezes the rings it describes (old firmware does not).
Freeze == frozen' = IF Freezes THEN count ELSE 0

\* The rings GET_HISTORY_CHUNK reads.
Served == IF frozen # 0 THEN frozen ELSE count

\* The record with sequence number q in them, 0 if there is none.
Find(q) ==
    LET held == {k \in RingOldest(Served)..Served : Seqn(k) = q}
    IN  IF held = {} THEN 0 ELSE CHOOSE k \in held : \A j \in held : j <= k

-----------------------------------------------------------------------------
(* The calls: _call raises TimeoutError at the deadline *)

Answers == linkUp /\ ~expired
Raises == ~expired /\ (~linkUp \/ faults < MaxFaults)
CountFault == faults' = IF linkUp THEN faults + 1 ELSE faults

\* Any error before the transfer ends it; nothing was retrieved yet.
EndsEarly ==
    /\ pc \in {"metadata", "anchor"}
    /\ expired \/ (Raises /\ CountFault)
    /\ expired => UNCHANGED faults
    /\ pc' = "raised"
    /\ UNCHANGED <<device, transfer, attempt, failures>>

\* get_history_meta, with a usable anchor or without one.
Metadata ==
    /\ pc = "metadata" /\ Answers
    /\ Freeze
    /\ LET oldest == Seqn(RingOldest(count))
           n == RingCount(count)
       IN  /\ expected' = [s \in Sensors |-> n]
           /\ pending' = IF n > 0 THEN [s \in Sensors |-> s] ELSE <<>>
           /\ remaining' = [s \in Sensors |-> n]
           /\ next' = [s \in Sensors |-> oldest]
    /\ pc' \in {"anchor", "chunk"}
    /\ UNCHANGED <<count, linkUp, expired, anchor, retrieved, records, first,
                   attempt, failures, faults>>

\* get_current for the time anchor.
Anchor ==
    /\ pc = "anchor" /\ Answers
    /\ anchor' = [seq |-> Seqn(count), time |-> count]
    /\ pc' = "chunk"
    /\ UNCHANGED <<device, expected, pending, remaining, next, retrieved,
                   records, first, attempt, failures, faults>>

Reading == pc = "chunk" /\ pending # <<>>
Sensor == Head(pending)
Turn(s) == IF remaining'[s] > 0 THEN Append(Tail(pending), s) ELSE Tail(pending)
Drop == pending' = Tail(pending)

Advance(q, n) == (q + n) % SeqSpace

\* A chunk that passes validate_chunk: at most what was asked for.
Accepted(n) == Lesser(ChunkSize, n)

\* Plausible bug: only the newest chunk of each sensor is kept.
KeepNewest(s, got) == {r \in records : r.sensor # s} \cup got

Keep(s, got) == records \cup got

\* get_history_chunk answered with the records from next[Sensor] on.
Chunk ==
    /\ Reading /\ Answers
    /\ LET s == Sensor
           k == Find(next[s])
           n == Lesser(Accepted(remaining[s]), Served - k + 1)
       IN  /\ k # 0
           /\ records' = Keep(s, {[sensor |-> s, seq |-> Seqn(i)] : i \in k..k + n - 1})
           /\ retrieved' = [retrieved EXCEPT ![s] = @ + n]
           /\ remaining' = [remaining EXCEPT ![s] = @ - n]
           /\ next' = [next EXCEPT ![s] = Advance(@, n)]
           /\ pending' = Turn(s)
           /\ first' = IF Len(first) < Cardinality(Sensors) THEN Append(first, k) ELSE first
    /\ attempt' = 0
    /\ UNCHANGED <<device, anchor, expected, pc, failures, faults>>

\* The call or the validation raised: the chunk is tried again, then given up
\* with its sensor.
ChunkRaises ==
    /\ Reading /\ Raises /\ CountFault
    /\ IF attempt < Retries
       THEN attempt' = attempt + 1 /\ UNCHANGED <<pending, failures>>
       ELSE attempt' = 0 /\ Drop /\ failures' = failures \cup {"error"}
    /\ UNCHANGED <<device, anchor, expected, remaining, next, retrieved,
                   records, first, pc>>

\* NOT_AVAILABLE is not retried: the metadata is read again.
ChunkNotAvailable ==
    /\ Reading /\ Answers /\ Find(next[Sensor]) = 0
    /\ attempt' = 0
    /\ pc' = "refresh"
    /\ UNCHANGED <<device, transfer, failures, faults>>

\* Records between the asked and the oldest sequence number.
Lost(q) == (Seqn(RingOldest(count)) - q) % SeqSpace

Skip == failures \cup {"overwritten"}

\* The surviving suffix is read from its first record, if there is one.
Refresh ==
    /\ pc = "refresh" /\ Answers
    /\ Freeze
    /\ pc' = "chunk"
    /\ LET s == Sensor
           lost == Lost(next[s])
       IN  IF 0 < lost /\ lost < remaining[s]
           THEN /\ remaining' = [remaining EXCEPT ![s] = @ - lost]
                /\ next' = [next EXCEPT ![s] = Seqn(RingOldest(count))]
                /\ pending' = Append(Tail(pending), s)
                /\ failures' = Skip
           ELSE /\ Drop /\ failures' = failures \cup {"error"}
                /\ UNCHANGED <<remaining, next>>
    /\ UNCHANGED <<count, linkUp, expired, anchor, expected, retrieved, records,
                   first, attempt, faults>>

RefreshRaises ==
    /\ pc = "refresh" /\ (expired \/ Raises)
    /\ IF expired THEN UNCHANGED faults ELSE CountFault
    /\ pc' = "chunk"
    /\ Drop /\ failures' = failures \cup {"refresh", "error"}
    /\ UNCHANGED <<device, anchor, expected, remaining, next, retrieved,
                   records, first, attempt>>

\* The loop ends: everything read or given up, or the budget is used up.
Finish ==
    /\ pc = "chunk" /\ (pending = <<>> \/ expired)
    /\ pc' = "done"
    /\ failures' = IF pending # <<>> THEN failures \cup {"budget"} ELSE failures
    /\ UNCHANGED <<device, transfer, attempt, faults>>

Next ==
    \/ Sample \/ LinkLost \/ Expire
    \/ EndsEarly \/ Metadata \/ Anchor
    \/ Chunk \/ ChunkRaises \/ ChunkNotAvailable \/ Refresh \/ RefreshRaises
    \/ Finish

Spec == Init /\ [][Next]_vars

\* The deadline passes, and asyncio resumes what is due.  The device and the
\* link owe nothing.
FairSpec ==
    Spec /\ WF_vars(Expire) /\ WF_vars(EndsEarly) /\ WF_vars(RefreshRaises)
         /\ WF_vars(Finish)

-----------------------------------------------------------------------------
(* Results and properties *)

\* HistorySync.complete
Complete == retrieved = expected /\ failures = {}

Backward(q) == (anchor.seq - q) % SeqSpace

\* timestamp: backward from the anchor, or forward when that is nearer.
Timestamp(q) ==
    IF Backward(q) <= (SeqSpace - 1) \div 2
    THEN anchor.time - Backward(q)
    ELSE anchor.time + ((q - anchor.seq) % SeqSpace)

\* A transfer that reports itself complete has every record the metadata
\* announced, each once, although the ring moved on, chunks were retried and
\* sequence numbers wrapped; and a record that is missing is reported
\* (synchronize).
NoSilentLoss ==
    pc = "done" =>
        /\ Complete <=> \A s \in Sensors :
                          Cardinality({r \in records : r.sensor = s}) = expected[s]
        /\ ~Complete => failures # {}

\* Every record is dated by the second it was sampled in, before and after
\* the anchor and across the wrap (timestamp).
DatesTrue ==
    \A r \in records : \E k \in 1..count : Seqn(k) = r.seq /\ Timestamp(r.seq) = k

\* The frozen rings keep what they announced: with this firmware no record of
\* a transfer is overwritten, however long it takes (GET_HISTORY_META).
NothingOverwritten == Freezes => "overwritten" \notin failures

\* The transfer ends, whatever the device and the link do: every call is
\* bounded by the transfer deadline (_call).
TransferEnds == <>(pc \in {"done", "raised"})

\* README.md:920: "History is requested metadata-first, recent-first, and
\* round-robin between sensors": the first chunk asked of a sensor holds the
\* newest record announced.
RecentFirst ==
    \A i \in DOMAIN first : first[i] + ChunkSize > frozen
=============================================================================
