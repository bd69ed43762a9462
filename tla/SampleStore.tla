---------------------------- MODULE SampleStore ----------------------------
(***************************************************************************)
(* What the MySQL adapter (backend/pc_client/mysql_adapter.py) makes of    *)
(* the records the connector offers it: live samples, placeholders for     *)
(* missed seconds, history batches and the removal of the placeholders     *)
(* those batches supersede.  The persistence worker applies the records in *)
(* the order they were offered; each database call may fail.               *)
(*                                                                         *)
(* Second n is polled at n*Second + PollPhase, and the device's sample n   *)
(* is dated n*Second + HistoryPhase by the history transfer.  Temperatures *)
(* are left out: a reading is known by its status.                         *)
(***************************************************************************)
EXTENDS Integers, Sequences, FiniteSets

CONSTANTS Second,        \* time units in a second
          PollPhase, HistoryPhase,
          BatchSize,     \* _HISTORY_BATCH_SIZE
          MaxSecond,     \* bound: seconds polled
          MaxSyncs,      \* bound: history transfers
          MaxFailures    \* bound: failed database calls

TimeAssumption ==
    /\ Second \in Nat \ {0}
    /\ PollPhase \in 0..Second - 1 /\ HistoryPhase \in 0..Second - 1
    /\ {BatchSize, MaxSecond, MaxSyncs, MaxFailures} \subseteq Nat

Probes == {1, 2}
Valid == "VALID"
NotRetrieved == "NOT_RETRIEVED"
Missing == "MISSING"

VARIABLES
    second,    \* seconds polled so far; the device holds samples 1..second
    truth,     \* [seconds -> [Probes -> VALID | DISCONNECTED]]: the device's records
    work,      \* the persistence queue
    table,     \* temperature_samples: a set of rows
    syncs, failures

vars == <<second, truth, work, table, syncs, failures>>

PollTime(n) == n * Second + PollPhase
SampleTime(n) == n * Second + HistoryPhase

\* A DATETIME column keeps whole seconds: the server rounds to the nearest.
Stored(t) == ((2 * t + Second) \div (2 * Second)) * Second

BothValid(r) == \A s \in Probes : r[s] = Valid

\* A row; seq = 0 stands for the NULL key of a placeholder, whose second is n.
Row(seq, n, source, r, at) ==
    [seq |-> seq, n |-> n, source |-> source, r |-> r,
     average |-> BothValid(r), at |-> Stored(at)]

Statuses == {Valid, "DISCONNECTED", NotRetrieved, Missing}
Rows == [seq : 0..MaxSecond, n : 1..MaxSecond, r : [Probes -> Statuses],
         source : {"LIVE", "HISTORY", "PROVISIONAL"},
         average : BOOLEAN, at : Int]
Samples == [seq : 1..MaxSecond, r : [Probes -> Statuses]]
Kinds == {"current", "missing", "upsert", "reconcile"}

TypeOK ==
    /\ second \in 0..MaxSecond
    /\ truth \in [1..MaxSecond -> [Probes -> {Valid, "DISCONNECTED"}]]
    /\ \A i \in DOMAIN work :
         work[i].kind \in Kinds /\ work[i].samples \subseteq Samples
    /\ table \subseteq Rows
    /\ syncs \in 0..MaxSyncs /\ failures \in 0..MaxFailures

Init ==
    /\ second = 0
    /\ truth \in [1..MaxSecond -> {[s \in Probes |-> Valid],
                                   [s \in Probes |-> IF s = 2 THEN "DISCONNECTED" ELSE Valid]}]
    /\ work = <<>> /\ table = {} /\ syncs = 0 /\ failures = 0

-----------------------------------------------------------------------------
(* The records offered *)

Whole(n) == [seq |-> n, r |-> truth[n]]
Placeholder(n) == [seq |-> n, r |-> [s \in Probes |-> Missing]]
Offer(jobs) == work' = work \o jobs

\* One second passes: the poll publishes the sample or a missing interval.
Poll ==
    /\ second < MaxSecond
    /\ second' = second + 1
    /\ \/ Offer(<<[kind |-> "current", samples |-> {Whole(second + 1)}]>>)
       \/ Offer(<<[kind |-> "missing", samples |-> {Placeholder(second + 1)}]>>)
    /\ UNCHANGED <<truth, table, syncs, failures>>

\* _build_history_batch: one sample per retrieved sequence number, the readings
\* that were not retrieved marked as such.
Batch(got) ==
    {[seq |-> n, r |-> [s \in Probes |-> IF n \in got[s] THEN truth[n][s]
                                          ELSE NotRetrieved]] :
       n \in UNION {got[s] : s \in Probes}}

\* _synchronize_history offers the upsert and the reconciliation together.
Synchronize ==
    /\ syncs < MaxSyncs
    /\ syncs' = syncs + 1
    /\ \E got \in [Probes -> SUBSET (1..second)] :
         Offer(<<[kind |-> "upsert", samples |-> Batch(got)],
                 [kind |-> "reconcile", samples |-> Batch(got)]>>)
    /\ UNCHANGED <<second, truth, table, failures>>

-----------------------------------------------------------------------------
(* The adapter *)

Keyed(rows, seq) == {row \in rows : row.seq = seq}

\* _publish_one: a duplicate key is rejected.
Insert(rows, seq, n, source, r, at) ==
    IF seq # 0 /\ Keyed(rows, seq) # {} THEN rows
    ELSE rows \cup {Row(seq, n, source, r, at)}

\* Plausible bug: the incoming readings replace the stored ones.
MergeReplaces(row, sample) ==
    [row EXCEPT !.r = sample.r, !.average = @ \/ BothValid(sample.r)]

\* Plausible bug: the average is computed before the readings are merged.
MergeAveragesFirst(row, sample) ==
    LET r == [s \in Probes |->
                IF row.r[s] = NotRetrieved THEN sample.r[s] ELSE row.r[s]]
    IN  IF row.source # "HISTORY" THEN row
        ELSE [row EXCEPT !.r = r, !.average = @ \/ BothValid(row.r)]

\* ON DUPLICATE KEY UPDATE: a HISTORY row gains the readings it lacks.
Merge(row, sample) ==
    LET r == [s \in Probes |->
                IF row.r[s] = NotRetrieved THEN sample.r[s] ELSE row.r[s]]
    IN  IF row.source # "HISTORY" THEN row
        ELSE [row EXCEPT !.r = r, !.average = @ \/ BothValid(r)]

Upsert(rows, samples) ==
    {row \in rows : row.seq \notin {x.seq : x \in samples}}
      \cup (UNION {{Merge(row, x) : x \in {y \in samples : y.seq = row.seq}} : row \in rows})
      \cup {Row(x.seq, x.seq, "HISTORY", x.r, SampleTime(x.seq)) :
              x \in {y \in samples : Keyed(rows, y.seq) = {}}}

\* The statements of an upsert that failed: whole batches, oldest first.
Committed(samples) ==
    {{x \in samples : Cardinality({y \in samples : y.seq < x.seq}) < k * BatchSize} :
       k \in 0..Cardinality(samples)}

\* Half a sample period around a sample of the batch.
Near(t, samples) ==
    \E x \in samples : 2 * (t - SampleTime(x.seq)) \in -Second..Second

Reconcile(rows, samples) ==
    rows \ {row \in rows : row.source = "PROVISIONAL" /\ Near(row.at, samples)}

Applied(job) ==
    LET one == CHOOSE x \in job.samples : TRUE
    IN  CASE job.kind = "current" ->
               Insert(table, one.seq, one.seq, "LIVE", one.r, PollTime(one.seq))
          [] job.kind = "missing" ->
               Insert(table, 0, one.seq, "PROVISIONAL", one.r, PollTime(one.seq))
          [] job.kind = "upsert" -> Upsert(table, job.samples)
          [] job.kind = "reconcile" -> Reconcile(table, job.samples)

\* The worker applies the oldest record ...
Apply ==
    /\ work # <<>>
    /\ table' = Applied(Head(work))
    /\ work' = Tail(work)
    /\ UNCHANGED <<second, truth, syncs, failures>>

\* ... or its database call raises; only an upsert leaves something behind.
ApplyFails ==
    /\ work # <<>> /\ failures < MaxFailures
    /\ failures' = failures + 1
    /\ IF Head(work).kind = "upsert"
       THEN \E part \in Committed(Head(work).samples) : table' = Upsert(table, part)
       ELSE UNCHANGED table
    /\ work' = Tail(work)
    /\ UNCHANGED <<second, truth, syncs>>

Next == Poll \/ Synchronize \/ Apply \/ ApplyFails

Spec == Init /\ [][Next]_vars

-----------------------------------------------------------------------------
(* Properties *)

\* One row per sample, and its readings are the device's own; the average is
\* there exactly when both readings are, whatever order partial batches,
\* retries and live samples arrive in (_publish_one, the upsert's suffix).
RowsTrue ==
    \A row \in table :
        /\ row.seq # 0 => Keyed(table, row.seq) = {row}
        /\ row.average = BothValid(row.r)
        /\ row.source # "PROVISIONAL" =>
             \A s \in Probes : row.r[s] \in {truth[row.seq][s], NotRetrieved}

\* What a stored sample says is never taken back: a row of a sample keeps its
\* place and source, and loses no reading it has (upsert_history).
OnlyGain ==
    \A row \in table : row.seq # 0 =>
      \E new \in table' :
         /\ new.seq = row.seq /\ new.source = row.source
         /\ \A s \in Probes : row.r[s] # NotRetrieved => new.r[s] = row.r[s]
SamplesOnlyGain == [][OnlyGain]_vars

\* While no database call failed, a polled second never disappears without a
\* trace: once the queue is empty it has its own row or that of an adjacent
\* second, however live and history dates differ and a column rounds them
\* (publish_missing_interval, reconcile_provisional_intervals).
NoHole ==
    work = <<>> /\ failures = 0 =>
        \A n \in 1..second : \E row \in table : row.n - n \in -1..1

\* "that HISTORY row (already written by upsert_history, which the persistence
\* worker always runs first)" (mysql_adapter.py:235): a placeholder is removed
\* only when a sample of its neighbourhood is in the table.
RemovedIsSuperseded ==
    [][\A row \in table \ table' : row.source = "PROVISIONAL" =>
         \E new \in table' : new.source # "PROVISIONAL"
                             /\ new.at - row.at \in -Second..Second]_vars

\* "a PROVISIONAL row is stale iff a HISTORY sample from this batch landed
\* within half a sample period of its observed_at_utc" (mysql_adapter.py:233):
\* a reconciliation leaves no placeholder that near.
StaleRemoved ==
    [][work # <<>> /\ work' = Tail(work) /\ failures' = failures
         /\ Head(work).kind = "reconcile" =>
       \A row \in table' : row.source = "PROVISIONAL" =>
         ~Near(PollTime(row.n), Head(work).samples)]_vars
=============================================================================
