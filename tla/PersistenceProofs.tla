------------------------- MODULE PersistenceProofs --------------------------
(***************************************************************************)
(* That every record handed to the persistence worker is answered once,    *)
(* that no state of the controller overwrites a newer one, and that a stop *)
(* without outage or overflow leaves the last one stored: for any records, *)
(* capacity, number of states and number of outages.                       *)
(***************************************************************************)
EXTENDS Persistence, SequenceTheorems, FiniteSetTheorems, TLAPS

StateJob(r) == <<r, "state">>
Revisions == 1..MaxRevision + 1
Queued(j) == \E i \in DOMAIN queue : queue[i] = j

\* A job waits once, in the queue or with the worker, while its future is
\* pending.
Tracked ==
  /\ \A i, k \in DOMAIN queue : queue[i] = queue[k] => i = k
  /\ \A i \in DOMAIN queue : queue[i] # current
  /\ \A j \in Jobs : future[j] = "pending" <=> (j = current \/ Queued(j))

\* The worker holds a job exactly while it executes it or is cancelled there.
WorkerHolds ==
  /\ worker = "busy" => current # NoJob
  /\ current # NoJob => worker \in {"busy", "cancelled"}

\* The publisher ends before the job queue is flushed, the worker after it.
Stages ==
  /\ phase = "started" => revision <= MaxRevision
  /\ publisher = "off" <=> phase \in {"flushJobs", "stopped"}
  /\ worker \in {"cancelled", "off"} => phase \in {"flushJobs", "stopped"}
  /\ phase = "stopped" => worker = "off" /\ queue = <<>>

\* The publisher hands one state over at a time; those that wait are the
\* newest, in order, and at most one of them is a job.
Publication ==
  /\ publisher = "waiting" => stateQueue # <<>>
  /\ Len(stateQueue) <= revision
  /\ \A i \in 1..Len(stateQueue) : stateQueue[i] = revision - Len(stateQueue) + i
  /\ \A r \in Revisions :
       future[StateJob(r)] = "pending" =>
         \/ publisher = "off"
         \/ publisher = "waiting" /\ r = Head(stateQueue)
  /\ \A r, q \in Revisions :
       future[StateJob(r)] = "pending" /\ future[StateJob(q)] = "pending" => r = q

\* A state that is still to be written is newer than the one stored.
Ordered ==
  /\ \A r \in Revisions : future[StateJob(r)] = "pending" => written < r
  /\ publisher = "idle" => written <= revision - Len(stateQueue)
  /\ publisher = "waiting" => written <= Head(stateQueue)

\* What is stored while no write was lost.
Stored ==
  faults = 0 =>
    /\ dbUp
    /\ phase = "flushJobs" /\ worker \in {"cancelled", "off"} =>
         queue = <<>> /\ current = NoJob
    /\ ~dropped =>
         /\ publisher = "idle" => written = revision - Len(stateQueue)
         /\ publisher = "waiting" /\ future[StateJob(Head(stateQueue))] # "pending" =>
              written = Head(stateQueue)
         /\ publisher = "off" =>
              /\ stateQueue = <<>> /\ written = revision
              /\ \A r \in Revisions : future[StateJob(r)] # "pending"

IInv == JobsTyped /\ Tracked /\ WorkerHolds /\ Stages /\ Publication /\ Ordered /\ Stored

-----------------------------------------------------------------------------
(* Jobs and the queue *)

\* A state's job is a job of its own, a sample's is none, and no job is NoJob.
LEMMA JobFacts ==
  /\ NoJob \notin Jobs
  /\ \A r \in Revisions :
       /\ StateJob(r) \in Jobs /\ Method(StateJob(r)) = "state" /\ StateJob(r)[1] = r
       /\ \A s \in Samples : StateJob(r) # <<s, "sample">>
       /\ \A q \in Revisions : StateJob(r) = StateJob(q) => r = q
  /\ \A s \in Samples : <<s, "sample">> \in Jobs
  /\ \A j \in Jobs : Method(j) = "state" => \E r \in Revisions : j = StateJob(r)
BY DEF Jobs, NoJob, None, StateJob, Revisions, Method

\* enqueue: one job more, at the end, with a pending future, or an answer.
LEMMA Enqueued ==
  ASSUME JobsTyped, NEW j \in Jobs, Enqueue(j), CapacityAssumption
  PROVE  /\ queue' \in Seq(Jobs) /\ Len(queue') <= Capacity
         /\ future' \in [Jobs -> {None, "pending", "persisted", "failed"}]
         /\ dropped' \in BOOLEAN /\ (dropped => dropped')
         /\ \A k \in Jobs \ {j} : future'[k] = future[k]
         /\ \/ /\ Len(queue') = Len(queue) + 1
               /\ \A i \in 1..Len(queue) : queue'[i] = queue[i]
               /\ queue'[Len(queue) + 1] = j /\ future'[j] = "pending"
               /\ dropped' = dropped
            \/ queue' = queue /\ future'[j] = "failed" /\ dropped'
<1>1. CASE Len(queue) < Capacity
  <2>1. queue' = Append(queue, j) /\ future' = [future EXCEPT ![j] = "pending"]
        /\ dropped' = dropped
    BY <1>1 DEF Enqueue
  <2>2. queue \in Seq(Jobs)
    BY DEF JobsTyped
  <2>3. /\ queue' \in Seq(Jobs) /\ Len(queue') = Len(queue) + 1
        /\ \A i \in 1..Len(queue) : queue'[i] = queue[i]
        /\ queue'[Len(queue) + 1] = j
    BY <2>1, <2>2, AppendProperties
  <2>4. Len(queue') <= Capacity
    BY <1>1, <2>2, <2>3, LenProperties DEF CapacityAssumption
  <2>. QED
    BY <2>1, <2>3, <2>4 DEF JobsTyped
<1>2. CASE ~(Len(queue) < Capacity)
  BY <1>2 DEF Enqueue, JobsTyped
<1>. QED
  BY <1>1, <1>2

\* ... and a job whose future was not pending is tracked like the others.
LEMMA EnqueuedTracked ==
  ASSUME JobsTyped, Tracked, NEW j \in Jobs, Enqueue(j), CapacityAssumption,
         future[j] # "pending", current' = current
  PROVE  Tracked'
<1>1. DOMAIN queue = 1..Len(queue) /\ DOMAIN queue' = 1..Len(queue')
      /\ Len(queue) \in Nat
  BY Enqueued, LenProperties DEF JobsTyped
<1>2. j # current /\ ~Queued(j)
  BY DEF Tracked
<1>3. CASE /\ Len(queue') = Len(queue) + 1
           /\ \A i \in 1..Len(queue) : queue'[i] = queue[i]
           /\ queue'[Len(queue) + 1] = j /\ future'[j] = "pending"
  <2>1. \A k \in Jobs : Queued(k)' <=> (k = j \/ Queued(k))
    BY <1>1, <1>3 DEF Queued
  <2>2. \A i, k \in DOMAIN queue' : queue'[i] = queue'[k] => i = k
    BY <1>1, <1>2, <1>3 DEF Tracked, Queued
  <2>3. \A i \in DOMAIN queue' : queue'[i] # current'
    BY <1>1, <1>2, <1>3 DEF Tracked
  <2>4. \A k \in Jobs : future'[k] = "pending" <=> (k = current' \/ Queued(k)')
    BY <1>3, <2>1, Enqueued DEF Tracked
  <2>. QED
    BY <2>2, <2>3, <2>4 DEF Tracked
<1>4. CASE queue' = queue /\ future'[j] = "failed"
  BY <1>2, <1>4, Enqueued DEF Tracked, Queued
<1>. QED
  BY <1>3, <1>4, Enqueued

\* Take: the first job leaves the queue for the worker.
LEMMA Taken ==
  ASSUME JobsTyped, Take
  PROVE  /\ queue' \in Seq(Jobs) /\ current' \in Jobs
         /\ Len(queue) \in Nat \ {0} /\ Len(queue') = Len(queue) - 1
         /\ current' = queue[1] /\ \A i \in 1..Len(queue') : queue'[i] = queue[i + 1]
<1>1. queue \in Seq(Jobs) /\ queue # <<>> /\ current' = Head(queue) /\ queue' = Tail(queue)
  BY DEF JobsTyped, Take
<1>2. Head(queue) = queue[1]
  BY <1>1
<1>. QED
  BY <1>1, <1>2, HeadTailProperties, EmptySeq

\* What the worker writes is the revision of a state it holds.
LEMMA Written ==
  ASSUME JobsTyped, current \in Jobs, Write(current)
  PROVE  \/ /\ written' = written /\ \A r \in Revisions : current # StateJob(r)
         \/ \E r \in Revisions : current = StateJob(r) /\ written' = r
BY JobFacts DEF Write

\* The types hold.
LEMMA TypesKept ==
  ASSUME JobsTyped, Tracked, WorkerHolds, Stages, Publication, [Next]_vars,
         CapacityAssumption, BoundsAssumption
  PROVE  JobsTyped'
<1>1. ASSUME NEW s \in Samples, OfferSample(s)
      PROVE  JobsTyped'
  <2>1. <<s, "sample">> \in Jobs /\ Enqueue(<<s, "sample">>)
    BY <1>1, JobFacts DEF OfferSample
  <2>. QED
    BY <1>1, <2>1, Enqueued DEF OfferSample, JobsTyped, dbVars, stateVars
<1>2. ASSUME Take
      PROVE  JobsTyped'
  <2>1. queue' \in Seq(Jobs) /\ current' \in Jobs /\ Len(queue') <= Capacity
    BY <1>2, Taken DEF JobsTyped, CapacityAssumption
  <2>. QED
    BY <1>2, <2>1 DEF Take, JobsTyped, dbVars, stateVars
<1>3. ASSUME ExecuteReturns
      PROVE  JobsTyped'
  <2>1. current \in Jobs
    BY <1>3 DEF ExecuteReturns, JobsTyped, WorkerHolds
  <2>2. written' \in 0..MaxRevision + 1
    BY <1>3, <2>1, Written DEF ExecuteReturns, JobsTyped, Revisions, BoundsAssumption
  <2>. QED
    BY <1>3, <2>1, <2>2 DEF ExecuteReturns, JobsTyped, stateVars
<1>4. ASSUME ExecuteRaises
      PROVE  JobsTyped'
  BY <1>4 DEF ExecuteRaises, JobsTyped, WorkerHolds, stateVars
<1>5. ASSUME Outage
      PROVE  JobsTyped'
  <2>1. /\ faults \in 0..MaxFaults /\ faults < MaxFaults /\ MaxFaults \in Nat
        /\ faults' = faults + 1
    BY <1>5 DEF Outage, JobsTyped, jobVars, BoundsAssumption
  <2>2. faults' \in 0..MaxFaults
    BY <2>1
  <2>3. dbUp' \in BOOLEAN
    BY <1>5 DEF Outage
  <2>. QED
    BY <1>5, <2>2, <2>3 DEF Outage, JobsTyped, jobVars, dbVars, stateVars
<1>6. ASSUME Restored
      PROVE  JobsTyped'
  BY <1>6 DEF Restored, JobsTyped, jobVars, dbVars, stateVars
<1>7. ASSUME ReadLastBootFails
      PROVE  JobsTyped'
  BY <1>7 DEF ReadLastBootFails, JobsTyped, jobVars, dbVars, stateVars
<1>8. ASSUME PublishState
      PROVE  JobsTyped'
  <2>1. revision' = revision + 1 /\ revision' \in Revisions
    BY <1>8 DEF PublishState, JobsTyped, Revisions, BoundsAssumption
  <2>2. stateQueue' \in Seq(Revisions)
    BY <1>8, <2>1, AppendProperties DEF PublishState, JobsTyped, Revisions
  <2>. QED
    BY <1>8, <2>1, <2>2 DEF PublishState, JobsTyped, Revisions, jobVars, dbVars, BoundsAssumption
<1>9. ASSUME SubmitState
      PROVE  JobsTyped'
  <2>1. Head(stateQueue) \in Revisions
    BY <1>9, HeadTailProperties DEF SubmitState, JobsTyped, Revisions
  <2>2. StateJob(Head(stateQueue)) \in Jobs /\ Enqueue(StateJob(Head(stateQueue)))
    BY <1>9, <2>1, JobFacts DEF SubmitState, StateJob
  <2>. QED
    BY <1>9, <2>2, Enqueued DEF SubmitState, JobsTyped, dbVars
<1>10. ASSUME StatePublished
      PROVE  JobsTyped'
  <2>1. stateQueue' \in Seq(Revisions)
    BY <1>10, HeadTailProperties DEF StatePublished, JobsTyped, Publication, Revisions
  <2>. QED
    BY <1>10, <2>1 DEF StatePublished, JobsTyped, Revisions, jobVars, dbVars
<1>11. ASSUME BeginStop
      PROVE  JobsTyped'
  <2>1. revision' = revision + 1 /\ revision' \in Revisions
    BY <1>11 DEF BeginStop, JobsTyped, Stages, Revisions, BoundsAssumption
  <2>2. stateQueue' \in Seq(Revisions)
    BY <1>11, <2>1, AppendProperties DEF BeginStop, JobsTyped, Revisions
  <2>. QED
    BY <1>11, <2>1, <2>2 DEF BeginStop, JobsTyped, Revisions, jobVars, dbVars, BoundsAssumption
<1>12. ASSUME StatesFlushed
      PROVE  JobsTyped'
  BY <1>12 DEF StatesFlushed, JobsTyped, jobVars, dbVars, stateVars
<1>13. ASSUME StatesTimeout
      PROVE  JobsTyped'
  BY <1>13 DEF StatesTimeout, JobsTyped, jobVars, dbVars, stateVars
<1>14. ASSUME CancelWorker
      PROVE  JobsTyped'
  BY <1>14 DEF CancelWorker, JobsTyped, jobVars, dbVars, stateVars
<1>15. ASSUME WorkerEnds
      PROVE  JobsTyped'
  <2>1. written' \in 0..MaxRevision + 1
    BY <1>15, Written DEF WorkerEnds, JobsTyped, Revisions, BoundsAssumption
  <2>2. future' \in [Jobs -> {None, "pending", "persisted", "failed"}]
    BY <1>15 DEF WorkerEnds, JobsTyped
  <2>. QED
    BY <1>15, <2>1, <2>2 DEF WorkerEnds, JobsTyped, stateVars
<1>16. ASSUME FailPending
      PROVE  JobsTyped'
  <2>1. <<>> \in Seq(Jobs) /\ Len(<<>>) = 0
    BY EmptySeq
  <2>2. future' \in [Jobs -> {None, "pending", "persisted", "failed"}]
    BY <1>16 DEF FailPending, JobsTyped
  <2>. QED
    BY <1>16, <2>1, <2>2 DEF FailPending, JobsTyped, dbVars, stateVars, CapacityAssumption
<1>17. CASE UNCHANGED vars
  BY <1>17 DEF vars, JobsTyped, jobVars, dbVars, stateVars
<1>. QED
  BY <1>1, <1>2, <1>3, <1>4, <1>5, <1>6, <1>7, <1>8, <1>9, <1>10, <1>11,
       <1>12, <1>13, <1>14, <1>15, <1>16, <1>17 DEF Next

\* The job the worker holds is answered and let go.
LEMMA Answered ==
  ASSUME JobsTyped, Tracked, current \in Jobs, NEW answer \in {"persisted", "failed"},
         queue' = queue, current' = NoJob, worker' \in {"idle", "off"},
         future' = [future EXCEPT ![current] = answer]
  PROVE  Tracked' /\ WorkerHolds'
<1>1. ~Queued(current)
  BY DEF Tracked, Queued
<1>2. \A i \in DOMAIN queue : queue[i] # NoJob
  BY JobFacts, LenProperties, ElementOfSeq DEF JobsTyped
<1>3. \A j \in Jobs : future'[j] = IF j = current THEN answer ELSE future[j]
  BY DEF JobsTyped
<1>4. \A j \in Jobs : future'[j] = "pending" <=> (j = current' \/ Queued(j)')
  BY <1>1, <1>3, JobFacts DEF Tracked, Queued
<1>. QED
  BY <1>2, <1>4 DEF Tracked, WorkerHolds

\* Every pending future keeps its job.
LEMMA TrackedKept ==
  ASSUME JobsTyped, Tracked, WorkerHolds, Stages, Publication, [Next]_vars,
         CapacityAssumption
  PROVE  Tracked' /\ WorkerHolds'
<1>1. ASSUME NEW s \in Samples, OfferSample(s)
      PROVE  Tracked' /\ WorkerHolds'
  <2>1. /\ <<s, "sample">> \in Jobs /\ Enqueue(<<s, "sample">>)
        /\ future[<<s, "sample">>] # "pending"
        /\ current' = current /\ worker' = worker
    BY <1>1, JobFacts DEF OfferSample
  <2>. QED
    BY <2>1, EnqueuedTracked DEF WorkerHolds
<1>2. ASSUME Take
      PROVE  Tracked' /\ WorkerHolds'
  <2>1. /\ DOMAIN queue = 1..Len(queue) /\ DOMAIN queue' = 1..Len(queue')
        /\ Len(queue) \in Nat \ {0} /\ Len(queue') = Len(queue) - 1
        /\ current' = queue[1] /\ current' \in Jobs
        /\ \A i \in 1..Len(queue') : queue'[i] = queue[i + 1]
    BY <1>2, Taken, LenProperties DEF JobsTyped
  <2>2. current = NoJob /\ worker' = "busy" /\ future' = future
    BY <1>2 DEF Take, WorkerHolds
  <2>3. ASSUME NEW i \in DOMAIN queue', NEW k \in DOMAIN queue', queue'[i] = queue'[k]
        PROVE  i = k
    <3>1. /\ i \in Int /\ k \in Int
          /\ i + 1 \in DOMAIN queue /\ k + 1 \in DOMAIN queue
          /\ queue[i + 1] = queue[k + 1]
      BY <2>1, <2>3
    <3>2. i + 1 = k + 1
      BY <3>1 DEF Tracked
    <3>. QED
      BY <3>1, <3>2
  <2>4. ASSUME NEW i \in DOMAIN queue'
        PROVE  queue'[i] # current'
    <3>1. i \in Int /\ i + 1 \in DOMAIN queue /\ 1 \in DOMAIN queue /\ i + 1 # 1
          /\ queue'[i] = queue[i + 1]
      BY <2>1
    <3>. QED
      BY <2>1, <3>1 DEF Tracked
  <2>5. ASSUME NEW j \in Jobs
        PROVE  Queued(j) <=> (j = current' \/ Queued(j)')
    <3>1. ASSUME Queued(j), j # current'
          PROVE  Queued(j)'
      <4>1. PICK i \in 1..Len(queue) : queue[i] = j
        BY <3>1, <2>1 DEF Queued
      <4>2. i - 1 \in 1..Len(queue') /\ queue'[i - 1] = j
        BY <3>1, <4>1, <2>1
      <4>. QED
        BY <4>2, <2>1 DEF Queued
    <3>2. ASSUME Queued(j)'
          PROVE  Queued(j)
      <4>1. PICK i \in 1..Len(queue') : queue'[i] = j
        BY <3>2, <2>1 DEF Queued
      <4>2. i + 1 \in 1..Len(queue) /\ queue[i + 1] = j
        BY <4>1, <2>1
      <4>. QED
        BY <4>2, <2>1 DEF Queued
    <3>3. ASSUME j = current'
          PROVE  Queued(j)
      BY <3>3, <2>1 DEF Queued
    <3>. QED
      BY <3>1, <3>2, <3>3
  <2>6. \A j \in Jobs : future'[j] = "pending" <=> (j = current' \/ Queued(j)')
    BY <2>2, <2>5, JobFacts DEF Tracked
  <2>7. current' # NoJob
    BY <2>1, JobFacts
  <2>. QED
    BY <2>2, <2>3, <2>4, <2>6, <2>7 DEF Tracked, WorkerHolds
<1>3. ASSUME ExecuteReturns
      PROVE  Tracked' /\ WorkerHolds'
  <2>1. /\ current \in Jobs /\ queue' = queue /\ current' = NoJob /\ worker' = "idle"
        /\ future' = [future EXCEPT ![current] = "persisted"]
    BY <1>3 DEF ExecuteReturns, JobsTyped, WorkerHolds
  <2>. QED
    BY <2>1, Answered
<1>4. ASSUME ExecuteRaises
      PROVE  Tracked' /\ WorkerHolds'
  <2>1. /\ current \in Jobs /\ queue' = queue /\ current' = NoJob /\ worker' = "idle"
        /\ future' = [future EXCEPT ![current] = "failed"]
    BY <1>4 DEF ExecuteRaises, JobsTyped, WorkerHolds
  <2>. QED
    BY <2>1, Answered
<1>5. ASSUME Outage
      PROVE  Tracked' /\ WorkerHolds'
  BY <1>5 DEF Outage, Tracked, WorkerHolds, Queued, jobVars
<1>6. ASSUME Restored
      PROVE  Tracked' /\ WorkerHolds'
  BY <1>6 DEF Restored, Tracked, WorkerHolds, Queued, jobVars
<1>7. ASSUME ReadLastBootFails
      PROVE  Tracked' /\ WorkerHolds'
  BY <1>7 DEF ReadLastBootFails, Tracked, WorkerHolds, Queued, jobVars
<1>8. ASSUME PublishState
      PROVE  Tracked' /\ WorkerHolds'
  BY <1>8 DEF PublishState, Tracked, WorkerHolds, Queued, jobVars
<1>9. ASSUME SubmitState
      PROVE  Tracked' /\ WorkerHolds'
  <2>1. Head(stateQueue) \in Revisions
    BY <1>9, HeadTailProperties DEF SubmitState, JobsTyped, Revisions
  <2>2. /\ StateJob(Head(stateQueue)) \in Jobs /\ Enqueue(StateJob(Head(stateQueue)))
        /\ current' = current /\ worker' = worker
    BY <1>9, <2>1, JobFacts DEF SubmitState, StateJob
  <2>3. future[StateJob(Head(stateQueue))] # "pending"
    BY <1>9, <2>1 DEF SubmitState, Publication
  <2>. QED
    BY <2>2, <2>3, EnqueuedTracked DEF WorkerHolds
<1>10. ASSUME StatePublished
      PROVE  Tracked' /\ WorkerHolds'
  BY <1>10 DEF StatePublished, Tracked, WorkerHolds, Queued, jobVars
<1>11. ASSUME BeginStop
      PROVE  Tracked' /\ WorkerHolds'
  BY <1>11 DEF BeginStop, Tracked, WorkerHolds, Queued, jobVars
<1>12. ASSUME StatesFlushed
      PROVE  Tracked' /\ WorkerHolds'
  BY <1>12 DEF StatesFlushed, Tracked, WorkerHolds, Queued, jobVars
<1>13. ASSUME StatesTimeout
      PROVE  Tracked' /\ WorkerHolds'
  BY <1>13 DEF StatesTimeout, Tracked, WorkerHolds, Queued, jobVars
<1>14. ASSUME CancelWorker
      PROVE  Tracked' /\ WorkerHolds'
  BY <1>14 DEF CancelWorker, Tracked, WorkerHolds, Queued
<1>15. ASSUME WorkerEnds
      PROVE  Tracked' /\ WorkerHolds'
  <2>1. CASE current = NoJob
    BY <1>15, <2>1 DEF WorkerEnds, Tracked, WorkerHolds, Queued
  <2>2. CASE current # NoJob
    <3>1. /\ current \in Jobs /\ queue' = queue /\ current' = NoJob /\ worker' = "off"
          /\ future' = [future EXCEPT ![current] = "failed"]
      BY <1>15, <2>2 DEF WorkerEnds, JobsTyped
    <3>. QED
      BY <3>1, Answered
  <2>. QED
    BY <2>1, <2>2
<1>16. ASSUME FailPending
      PROVE  Tracked' /\ WorkerHolds'
  <2>1. /\ queue' = <<>> /\ current' = current /\ current = NoJob /\ worker' = "off"
        /\ \A j \in Jobs : future'[j] = IF j \in ToSet(queue) THEN "failed" ELSE future[j]
    BY <1>16 DEF FailPending, WorkerHolds
  <2>2. \A j \in Jobs : j \in ToSet(queue) <=> Queued(j)
    BY DEF ToSet, Queued
  <2>3. DOMAIN queue' = {}
    BY <2>1
  <2>. QED
    BY <2>1, <2>2, <2>3, JobFacts DEF Tracked, WorkerHolds, Queued
<1>17. CASE UNCHANGED vars
  BY <1>17 DEF vars, Tracked, WorkerHolds, Queued, jobVars
<1>. QED
  BY <1>1, <1>2, <1>3, <1>4, <1>5, <1>6, <1>7, <1>8, <1>9, <1>10, <1>11,
       <1>12, <1>13, <1>14, <1>15, <1>16, <1>17 DEF Next

\* The stages of a stop follow one another.
LEMMA StagesKept ==
  ASSUME JobsTyped, Stages, [Next]_vars, BoundsAssumption
  PROVE  Stages'
<1>1. ASSUME NEW s \in Samples, OfferSample(s)
      PROVE  Stages'
  BY <1>1 DEF OfferSample, Stages, stateVars
<1>2. ASSUME Take
      PROVE  Stages'
  BY <1>2 DEF Take, Stages, stateVars
<1>3. ASSUME ExecuteReturns
      PROVE  Stages'
  BY <1>3 DEF ExecuteReturns, Stages, stateVars
<1>4. ASSUME ExecuteRaises
      PROVE  Stages'
  BY <1>4 DEF ExecuteRaises, Stages, stateVars
<1>5. ASSUME Outage
      PROVE  Stages'
  BY <1>5 DEF Outage, Stages, jobVars, stateVars
<1>6. ASSUME Restored
      PROVE  Stages'
  BY <1>6 DEF Restored, Stages, jobVars, stateVars
<1>7. ASSUME ReadLastBootFails
      PROVE  Stages'
  BY <1>7 DEF ReadLastBootFails, Stages, jobVars, stateVars
<1>8. ASSUME PublishState
      PROVE  Stages'
  BY <1>8 DEF PublishState, Stages, JobsTyped, jobVars, BoundsAssumption
<1>9. ASSUME SubmitState
      PROVE  Stages'
  BY <1>9 DEF SubmitState, Stages
<1>10. ASSUME StatePublished
      PROVE  Stages'
  BY <1>10 DEF StatePublished, Stages, jobVars, stateVars
<1>11. ASSUME BeginStop
      PROVE  Stages'
  BY <1>11 DEF BeginStop, Stages, jobVars, stateVars
<1>12. ASSUME StatesFlushed
      PROVE  Stages'
  BY <1>12 DEF StatesFlushed, Stages, jobVars, stateVars
<1>13. ASSUME StatesTimeout
      PROVE  Stages'
  BY <1>13 DEF StatesTimeout, Stages, jobVars, stateVars
<1>14. ASSUME CancelWorker
      PROVE  Stages'
  BY <1>14 DEF CancelWorker, Stages, stateVars
<1>15. ASSUME WorkerEnds
      PROVE  Stages'
  BY <1>15 DEF WorkerEnds, Stages, stateVars
<1>16. ASSUME FailPending
      PROVE  Stages'
  BY <1>16 DEF FailPending, Stages, jobVars, stateVars
<1>17. CASE UNCHANGED vars
  BY <1>17 DEF vars, Stages, jobVars, stateVars
<1>. QED
  BY <1>1, <1>2, <1>3, <1>4, <1>5, <1>6, <1>7, <1>8, <1>9, <1>10, <1>11,
       <1>12, <1>13, <1>14, <1>15, <1>16, <1>17 DEF Next

-----------------------------------------------------------------------------
(* The controller states *)

\* Only the publisher makes a state's future pending.
LEMMA StatesAnswered ==
  ASSUME JobsTyped, [Next]_vars, ~SubmitState, CapacityAssumption,
         NEW r \in Revisions, future'[StateJob(r)] = "pending"
  PROVE  future[StateJob(r)] = "pending"
<1>0. StateJob(r) \in Jobs
  BY JobFacts
<1>1. ASSUME NEW s \in Samples, OfferSample(s)
      PROVE  future'[StateJob(r)] = future[StateJob(r)]
  <2>1. <<s, "sample">> \in Jobs /\ Enqueue(<<s, "sample">>) /\ StateJob(r) # <<s, "sample">>
    BY <1>1, JobFacts DEF OfferSample
  <2>. QED
    BY <2>1, <1>0, Enqueued
<1>2. CASE future' = future
  BY <1>2
<1>3. CASE \E answer \in {"persisted", "failed"} : future' = [future EXCEPT ![current] = answer]
  BY <1>0, <1>3 DEF JobsTyped
<1>4. CASE FailPending
  BY <1>0, <1>4 DEF FailPending
<1>5. (\E s \in Samples : OfferSample(s)) \/ FailPending \/ future' = future
      \/ future' = [future EXCEPT ![current] = "persisted"]
      \/ future' = [future EXCEPT ![current] = "failed"]
  BY DEF Next, vars, jobVars, Take, ExecuteReturns, ExecuteRaises, Outage, Restored,
         ReadLastBootFails, PublishState, StatePublished, BeginStop, StatesFlushed,
         StatesTimeout, CancelWorker, WorkerEnds
<1>. QED
  BY <1>1, <1>2, <1>3, <1>4, <1>5

\* What is written is a state whose future is pending, and answers it.
LEMMA WrittenOnce ==
  ASSUME JobsTyped, Tracked, WorkerHolds, [Next]_vars
  PROVE  \/ written' = written
         \/ \E r \in Revisions :
              /\ written' = r /\ current = StateJob(r)
              /\ future[StateJob(r)] = "pending" /\ future'[StateJob(r)] # "pending"
              /\ UNCHANGED stateVars /\ ~SubmitState
<1>1. ASSUME NEW answer \in {"persisted", "failed"}, current \in Jobs, Write(current),
             future' = [future EXCEPT ![current] = answer],
             UNCHANGED stateVars, ~SubmitState
      PROVE  \/ written' = written
             \/ \E r \in Revisions :
                  /\ written' = r /\ current = StateJob(r)
                  /\ future[StateJob(r)] = "pending" /\ future'[StateJob(r)] # "pending"
                  /\ UNCHANGED stateVars /\ ~SubmitState
  <2>1. future[current] = "pending" /\ future'[current] # "pending"
    BY <1>1 DEF Tracked, JobsTyped
  <2>. QED
    BY <1>1, <2>1, Written
<1>2. CASE ExecuteReturns
  <2>1. /\ current \in Jobs /\ Write(current) /\ UNCHANGED stateVars
        /\ future' = [future EXCEPT ![current] = "persisted"]
    BY <1>2 DEF ExecuteReturns, WorkerHolds, JobsTyped
  <2>2. ~SubmitState
    BY <1>2 DEF ExecuteReturns, SubmitState, stateVars
  <2>. QED
    BY <1>1, <2>1, <2>2
<1>3. CASE WorkerEnds
  <2>1. CASE written' # written
    <3>1. /\ current \in Jobs /\ Write(current) /\ UNCHANGED stateVars
          /\ future' = [future EXCEPT ![current] = "failed"]
      BY <1>3, <2>1 DEF WorkerEnds, WorkerHolds, JobsTyped
    <3>2. ~SubmitState
      BY <1>3 DEF WorkerEnds, SubmitState, stateVars
    <3>. QED
      BY <1>1, <3>1, <3>2
  <2>. QED
    BY <2>1
<1>4. CASE ~ExecuteReturns /\ ~WorkerEnds
  BY <1>4 DEF Next, vars, dbVars, OfferSample, Take, ExecuteRaises, Outage, Restored,
         ReadLastBootFails, PublishState, SubmitState, StatePublished, BeginStop,
         StatesFlushed, StatesTimeout, CancelWorker, FailPending
<1>. QED
  BY <1>2, <1>3, <1>4

\* The head of the state queue is the oldest revision not yet published.
LEMMA HeadOfStates ==
  ASSUME JobsTyped, Publication, stateQueue # <<>>
  PROVE  /\ Head(stateQueue) \in Revisions
         /\ Head(stateQueue) = revision - Len(stateQueue) + 1
         /\ Len(stateQueue) \in Nat \ {0} /\ revision \in Nat /\ written \in Nat
<1>1. stateQueue \in Seq(Revisions)
  BY DEF JobsTyped, Revisions
<1>2. Head(stateQueue) = stateQueue[1] /\ Head(stateQueue) \in Revisions
      /\ Len(stateQueue) \in Nat \ {0}
  BY <1>1, HeadTailProperties, EmptySeq
<1>3. revision \in Nat /\ written \in Nat
  BY DEF JobsTyped
<1>4. stateQueue[1] = revision - Len(stateQueue) + 1
  BY <1>2 DEF Publication
<1>. QED
  BY <1>2, <1>3, <1>4

\* A state appended waits behind the others.
LEMMA StateAppended ==
  ASSUME JobsTyped, Publication, revision' = revision + 1,
         stateQueue' = Append(stateQueue, revision + 1), revision + 1 \in Revisions
  PROVE  /\ Len(stateQueue') = Len(stateQueue) + 1 /\ Len(stateQueue) \in Nat
         /\ revision \in Nat
         /\ stateQueue' # <<>>
         /\ \A i \in 1..Len(stateQueue') : stateQueue'[i] = revision' - Len(stateQueue') + i
         /\ stateQueue # <<>> => Head(stateQueue') = Head(stateQueue)
<1>1. stateQueue \in Seq(Revisions) /\ revision \in Nat
  BY DEF JobsTyped, Revisions
<1>2. /\ Len(stateQueue') = Len(stateQueue) + 1 /\ Len(stateQueue) \in Nat
      /\ \A i \in 1..Len(stateQueue) : stateQueue'[i] = stateQueue[i]
      /\ stateQueue'[Len(stateQueue) + 1] = revision + 1
      /\ stateQueue' \in Seq(Revisions)
  BY <1>1, AppendProperties, LenProperties
<1>3. ASSUME NEW i \in 1..Len(stateQueue')
      PROVE  stateQueue'[i] = revision' - Len(stateQueue') + i
  <2>1. CASE i \in 1..Len(stateQueue)
    <3>1. stateQueue'[i] = revision - Len(stateQueue) + i
      BY <1>2, <2>1 DEF Publication
    <3>. QED
      BY <1>1, <1>2, <3>1
  <2>2. CASE i = Len(stateQueue) + 1
    BY <1>1, <1>2, <2>2
  <2>. QED
    BY <1>2, <2>1, <2>2
<1>4. stateQueue' # <<>>
  BY <1>1, <1>2, EmptySeq
<1>5. ASSUME stateQueue # <<>>
      PROVE  Head(stateQueue') = Head(stateQueue)
  <2>1. Head(stateQueue) = stateQueue[1] /\ Head(stateQueue') = stateQueue'[1]
    BY <1>1, <1>2, <1>4, <1>5, HeadTailProperties
  <2>2. 1 \in 1..Len(stateQueue)
    BY <1>1, <1>5, EmptySeq, <1>2
  <2>. QED
    BY <1>2, <2>1, <2>2
<1>. QED
  BY <1>1, <1>2, <1>3, <1>4, <1>5

\* Only the publication, the publisher and the stop touch the published states.
LEMMA PublisherSteps ==
  ASSUME [Next]_vars
  PROVE  \/ UNCHANGED stateVars /\ ~SubmitState
         \/ PublishState \/ BeginStop \/ SubmitState \/ StatePublished
         \/ StatesFlushed \/ StatesTimeout
BY DEF Next, vars, stateVars, OfferSample, Take, ExecuteReturns, ExecuteRaises, Outage,
       Restored, ReadLastBootFails, CancelWorker, WorkerEnds, FailPending, SubmitState

\* The states wait in order and the publisher awaits one of them.
LEMMA PublicationKept ==
  ASSUME JobsTyped, Stages, Publication, [Next]_vars, CapacityAssumption, BoundsAssumption
  PROVE  Publication'
<1>1. ASSUME ~SubmitState, stateQueue' = stateQueue, revision' = revision,
             publisher' = publisher \/ publisher' = "off"
      PROVE  Publication'
  <2>1. \A r \in Revisions :
          future'[StateJob(r)] = "pending" => future[StateJob(r)] = "pending"
    BY <1>1, StatesAnswered
  <2>2. /\ publisher' = "waiting" => stateQueue' # <<>>
        /\ Len(stateQueue') <= revision'
        /\ \A i \in 1..Len(stateQueue') : stateQueue'[i] = revision' - Len(stateQueue') + i
    BY <1>1 DEF Publication
  <2>3. \A r \in Revisions :
          future'[StateJob(r)] = "pending" =>
            \/ publisher' = "off"
            \/ publisher' = "waiting" /\ r = Head(stateQueue')
    BY <1>1, <2>1 DEF Publication
  <2>4. \A r, q \in Revisions :
          future'[StateJob(r)] = "pending" /\ future'[StateJob(q)] = "pending" => r = q
    BY <2>1 DEF Publication
  <2>. QED
    BY <2>2, <2>3, <2>4 DEF Publication
<1>2. ASSUME PublishState \/ BeginStop
      PROVE  Publication'
  <2>1. /\ revision' = revision + 1 /\ stateQueue' = Append(stateQueue, revision + 1)
        /\ publisher' = publisher /\ future' = future /\ revision + 1 \in Revisions
    BY <1>2 DEF PublishState, BeginStop, jobVars, JobsTyped, Stages, Revisions, BoundsAssumption
  <2>2. Len(stateQueue') <= revision'
    BY <2>1, StateAppended DEF Publication
  <2>3. \A r \in Revisions :
          future'[StateJob(r)] = "pending" =>
            \/ publisher' = "off"
            \/ publisher' = "waiting" /\ r = Head(stateQueue')
    BY <2>1, StateAppended DEF Publication
  <2>4. \A r, q \in Revisions :
          future'[StateJob(r)] = "pending" /\ future'[StateJob(q)] = "pending" => r = q
    BY <2>1 DEF Publication
  <2>. QED
    BY <2>1, <2>2, <2>3, <2>4, StateAppended DEF Publication
<1>3. ASSUME SubmitState
      PROVE  Publication'
  <2>1. /\ stateQueue # <<>> /\ publisher = "idle" /\ publisher' = "waiting"
        /\ stateQueue' = stateQueue /\ revision' = revision
        /\ Head(stateQueue) \in Revisions
    BY <1>3, HeadOfStates DEF SubmitState
  <2>2. StateJob(Head(stateQueue)) \in Jobs /\ Enqueue(StateJob(Head(stateQueue)))
    BY <1>3, <2>1, JobFacts DEF SubmitState, StateJob
  <2>3. \A r \in Revisions : future[StateJob(r)] # "pending"
    BY <2>1 DEF Publication
  <2>4. \A r \in Revisions : future'[StateJob(r)] = "pending" => r = Head(stateQueue)
    <3>1. ASSUME NEW r \in Revisions, r # Head(stateQueue)
          PROVE  future'[StateJob(r)] = future[StateJob(r)]
      <4>1. StateJob(r) \in Jobs \ {StateJob(Head(stateQueue))}
        BY <2>1, <3>1, JobFacts
      <4>. QED
        BY <2>2, <4>1, Enqueued
    <3>. QED
      BY <2>3, <3>1
  <2>. QED
    BY <2>1, <2>4 DEF Publication
<1>4. ASSUME StatePublished
      PROVE  Publication'
  <2>1. /\ publisher = "waiting" /\ publisher' = "idle" /\ stateQueue # <<>>
        /\ future[StateJob(Head(stateQueue))] # "pending"
        /\ stateQueue' = Tail(stateQueue) /\ revision' = revision /\ future' = future
        /\ stateQueue \in Seq(Revisions) /\ revision \in Nat
    BY <1>4 DEF StatePublished, Publication, JobsTyped, jobVars, StateJob, Revisions
  <2>2. /\ Len(stateQueue) \in Nat \ {0} /\ Len(stateQueue') = Len(stateQueue) - 1
        /\ \A i \in 1..Len(stateQueue') : stateQueue'[i] = stateQueue[i + 1]
    BY <2>1, HeadTailProperties, EmptySeq
  <2>3. Len(stateQueue') <= revision'
    BY <2>1, <2>2 DEF Publication
  <2>4. ASSUME NEW i \in 1..Len(stateQueue')
        PROVE  stateQueue'[i] = revision' - Len(stateQueue') + i
    <3>1. i + 1 \in 1..Len(stateQueue) /\ i \in Int
      BY <2>2
    <3>2. stateQueue[i + 1] = revision - Len(stateQueue) + (i + 1)
      BY <3>1 DEF Publication
    <3>. QED
      BY <2>1, <2>2, <3>1, <3>2
  <2>5. \A r \in Revisions : future'[StateJob(r)] # "pending"
    BY <2>1 DEF Publication
  <2>. QED
    BY <2>1, <2>3, <2>4, <2>5 DEF Publication
<1>5. ASSUME StatesFlushed \/ StatesTimeout
      PROVE  Publication'
  <2>1. /\ ~SubmitState /\ stateQueue' = stateQueue /\ revision' = revision
        /\ publisher' = "off"
    BY <1>5 DEF StatesFlushed, StatesTimeout, SubmitState
  <2>. QED
    BY <1>1, <2>1
<1>. QED
  BY <1>1, <1>2, <1>3, <1>4, <1>5, PublisherSteps DEF stateVars

\* A published revision is counted and the others keep their place.
LEMMA Published ==
  ASSUME JobsTyped, Stages, Publication, PublishState \/ BeginStop, BoundsAssumption
  PROVE  /\ revision' - Len(stateQueue') = revision - Len(stateQueue)
         /\ publisher = "waiting" => Head(stateQueue') = Head(stateQueue)
         /\ publisher' = publisher /\ publisher # "off" /\ future' = future
         /\ written' = written /\ faults' = faults /\ dbUp' = dbUp /\ dropped' = dropped
         /\ queue' = queue /\ current' = current /\ worker' = worker
         /\ phase # "flushJobs" /\ phase' # "flushJobs"
<1>1. /\ revision' = revision + 1 /\ stateQueue' = Append(stateQueue, revision + 1)
      /\ publisher' = publisher /\ publisher # "off" /\ future' = future
      /\ written' = written /\ faults' = faults /\ dbUp' = dbUp /\ dropped' = dropped
      /\ queue' = queue /\ current' = current /\ worker' = worker
      /\ phase # "flushJobs" /\ phase' # "flushJobs"
  BY DEF PublishState, BeginStop, jobVars, dbVars, Stages
<1>2. revision + 1 \in Revisions
  BY DEF PublishState, BeginStop, JobsTyped, Stages, Revisions, BoundsAssumption
<1>3. /\ Len(stateQueue') = Len(stateQueue) + 1 /\ Len(stateQueue) \in Nat
      /\ revision \in Nat
      /\ stateQueue # <<>> => Head(stateQueue') = Head(stateQueue)
  BY <1>1, <1>2, StateAppended
<1>4. revision' - Len(stateQueue') = revision - Len(stateQueue)
  BY <1>1, <1>3
<1>. QED
  BY <1>1, <1>3, <1>4 DEF Publication

\* submit: the oldest published state is offered and awaited.
LEMMA Submitted ==
  ASSUME JobsTyped, Publication, SubmitState, CapacityAssumption
  PROVE  /\ publisher = "idle" /\ publisher' = "waiting"
         /\ stateQueue # <<>> /\ stateQueue' = stateQueue /\ revision' = revision
         /\ Head(stateQueue) \in Revisions
         /\ \A r \in Revisions : future'[StateJob(r)] = "pending" => r = Head(stateQueue)
         /\ dropped' \/ (dropped' = dropped /\ future'[StateJob(Head(stateQueue))] = "pending")
         /\ UNCHANGED <<worker, current, dbVars, dbUp, faults, phase>>
<1>1. /\ publisher = "idle" /\ publisher' = "waiting"
      /\ stateQueue # <<>> /\ stateQueue' = stateQueue /\ revision' = revision
      /\ Head(stateQueue) \in Revisions
      /\ UNCHANGED <<worker, current, dbVars, dbUp, faults, phase>>
  BY HeadOfStates DEF SubmitState
<1>2. StateJob(Head(stateQueue)) \in Jobs /\ Enqueue(StateJob(Head(stateQueue)))
  BY <1>1, JobFacts DEF SubmitState, StateJob
<1>3. \A r \in Revisions : future'[StateJob(r)] = "pending" => r = Head(stateQueue)
  <2>1. ASSUME NEW r \in Revisions, r # Head(stateQueue)
        PROVE  future'[StateJob(r)] = future[StateJob(r)]
    <3>1. StateJob(r) \in Jobs \ {StateJob(Head(stateQueue))}
      BY <1>1, <2>1, JobFacts
    <3>. QED
      BY <1>2, <3>1, Enqueued
  <2>. QED
    BY <1>1, <2>1 DEF Publication
<1>4. dropped' \/ (dropped' = dropped /\ future'[StateJob(Head(stateQueue))] = "pending")
  BY <1>2, Enqueued
<1>. QED
  BY <1>1, <1>3, <1>4

\* The publisher goes on to the next state.
LEMMA PublishedOne ==
  ASSUME JobsTyped, Publication, StatePublished
  PROVE  /\ publisher = "waiting" /\ publisher' = "idle"
         /\ future[StateJob(Head(stateQueue))] # "pending"
         /\ revision' - Len(stateQueue') = Head(stateQueue)
         /\ UNCHANGED <<jobVars, dbVars, dbUp, faults, phase>>
         /\ \A r \in Revisions : future[StateJob(r)] # "pending"
<1>1. /\ publisher = "waiting" /\ publisher' = "idle" /\ stateQueue # <<>>
      /\ future[StateJob(Head(stateQueue))] # "pending"
      /\ stateQueue' = Tail(stateQueue) /\ revision' = revision
      /\ UNCHANGED <<jobVars, dbVars, dbUp, faults, phase>>
  BY DEF StatePublished, Publication, StateJob
<1>2. stateQueue \in Seq(Revisions)
  BY DEF JobsTyped, Revisions
<1>3. Len(stateQueue') = Len(stateQueue) - 1
  BY <1>1, <1>2, HeadTailProperties
<1>4. revision' - Len(stateQueue') = Head(stateQueue)
  BY <1>1, <1>3, HeadOfStates
<1>. QED
  BY <1>1, <1>4 DEF Publication

\* No state that waits is older than the one stored.
LEMMA OrderedKept ==
  ASSUME JobsTyped, Tracked, WorkerHolds, Stages, Publication, Ordered, [Next]_vars,
         CapacityAssumption, BoundsAssumption
  PROVE  Ordered'
<1>1. ASSUME UNCHANGED stateVars, ~SubmitState
      PROVE  Ordered'
  <2>1. \A q \in Revisions :
          future'[StateJob(q)] = "pending" => future[StateJob(q)] = "pending"
    BY <1>1, StatesAnswered
  <2>2. CASE written' = written
    BY <1>1, <2>1, <2>2 DEF Ordered, stateVars
  <2>3. ASSUME NEW r \in Revisions, written' = r, future[StateJob(r)] = "pending",
               future'[StateJob(r)] # "pending"
        PROVE  Ordered'
    <3>1. \A q \in Revisions : future'[StateJob(q)] # "pending"
      BY <2>1, <2>3 DEF Publication
    <3>2. publisher = "off" \/ (publisher = "waiting" /\ r = Head(stateQueue))
      BY <2>3 DEF Publication
    <3>3. r <= r
      BY DEF Revisions, BoundsAssumption
    <3>. QED
      BY <1>1, <2>3, <3>1, <3>2, <3>3 DEF Ordered, stateVars
  <2>. QED
    BY <2>2, <2>3, WrittenOnce
<1>2. ASSUME PublishState \/ BeginStop
      PROVE  Ordered'
  BY <1>2, Published DEF Ordered
<1>3. ASSUME SubmitState
      PROVE  Ordered'
  <2>1. written < Head(stateQueue)
    <3>1. written <= revision - Len(stateQueue)
      BY <1>3 DEF SubmitState, Ordered
    <3>. QED
      BY <1>3, <3>1, HeadOfStates, Submitted
  <2>2. written <= Head(stateQueue)
    BY <1>3, <2>1, HeadOfStates, Submitted
  <2>3. /\ publisher' = "waiting" /\ stateQueue' = stateQueue /\ written' = written
        /\ \A r \in Revisions : future'[StateJob(r)] = "pending" => r = Head(stateQueue)
    BY <1>3, Submitted DEF dbVars
  <2>. QED
    BY <2>1, <2>2, <2>3 DEF Ordered
<1>4. ASSUME StatePublished
      PROVE  Ordered'
  <2>1. /\ publisher = "waiting" /\ publisher' = "idle" /\ written' = written
        /\ future' = future /\ revision' - Len(stateQueue') = Head(stateQueue)
    BY <1>4, PublishedOne DEF jobVars, dbVars
  <2>. QED
    BY <2>1 DEF Ordered
<1>5. ASSUME StatesFlushed \/ StatesTimeout
      PROVE  Ordered'
  <2>1. publisher' = "off" /\ written' = written /\ future' = future
    BY <1>5 DEF StatesFlushed, StatesTimeout, jobVars, dbVars
  <2>. QED
    BY <2>1 DEF Ordered
<1>. QED
  BY <1>1, <1>2, <1>3, <1>4, <1>5, PublisherSteps

\* The part of Stored that an action leaving the publisher alone can disturb.
LEMMA StoredWhileAnswering ==
  ASSUME JobsTyped, Publication, Stored, [Next]_vars, CapacityAssumption,
         UNCHANGED stateVars, ~SubmitState, faults' = faults, dbUp' = dbUp,
         dropped => dropped', written' = written,
         \A r \in Revisions : future'[StateJob(r)] # "pending" => future[StateJob(r)] # "pending",
         phase' = "flushJobs" /\ worker' \in {"cancelled", "off"} /\ faults = 0 =>
           queue' = <<>> /\ current' = NoJob
  PROVE  Stored'
<1>1. \A r \in Revisions : future'[StateJob(r)] = "pending" => future[StateJob(r)] = "pending"
  BY StatesAnswered
<1>2. publisher = "waiting" => Head(stateQueue) \in Revisions
  BY HeadOfStates DEF Publication
<1>. QED
  BY <1>1, <1>2 DEF Stored, stateVars

\* An undisturbed worker and publisher lose nothing.
LEMMA StoredKept ==
  ASSUME JobsTyped, Tracked, WorkerHolds, Stages, Publication, Ordered, Stored, [Next]_vars,
         CapacityAssumption, BoundsAssumption
  PROVE  Stored'
<1>. DEFINE Held == \A r \in Revisions :
                      future'[StateJob(r)] # "pending" => future[StateJob(r)] # "pending"
<1>1. ASSUME NEW s \in Samples, OfferSample(s)
      PROVE  Stored'
  <2>1. /\ <<s, "sample">> \in Jobs /\ Enqueue(<<s, "sample">>) /\ phase' = "started"
        /\ UNCHANGED stateVars /\ ~SubmitState /\ faults' = faults /\ dbUp' = dbUp
        /\ written' = written
    BY <1>1, JobFacts DEF OfferSample, SubmitState, dbVars, stateVars
  <2>2. Held
    <3>1. ASSUME NEW r \in Revisions
          PROVE  future'[StateJob(r)] = future[StateJob(r)]
      <4>1. StateJob(r) \in Jobs \ {<<s, "sample">>}
        BY JobFacts
      <4>. QED
        BY <2>1, <4>1, Enqueued
    <3>. QED
      BY <3>1
  <2>3. dropped => dropped'
    BY <2>1, Enqueued
  <2>. QED
    BY <2>1, <2>2, <2>3, StoredWhileAnswering
<1>2. ASSUME Take
      PROVE  Stored'
  <2>1. /\ UNCHANGED stateVars /\ ~SubmitState /\ faults' = faults /\ dbUp' = dbUp
        /\ dropped' = dropped /\ written' = written /\ future' = future /\ worker' = "busy"
    BY <1>2 DEF Take, SubmitState, dbVars, stateVars
  <2>. QED
    BY <2>1, StoredWhileAnswering
<1>3. ASSUME ExecuteReturns
      PROVE  Stored'
  <2>1. /\ current \in Jobs /\ future[current] = "pending" /\ worker' = "idle"
        /\ UNCHANGED stateVars /\ ~SubmitState /\ faults' = faults /\ dbUp' = dbUp
        /\ dropped' = dropped
        /\ \A j \in Jobs \ {current} : future'[j] = future[j]
    BY <1>3 DEF ExecuteReturns, JobsTyped, WorkerHolds, Tracked, SubmitState, stateVars
  <2>2. CASE \A r \in Revisions : current # StateJob(r)
    <3>1. written' = written
      BY <2>1, <2>2, <1>3, Written DEF ExecuteReturns
    <3>2. Held
      BY <2>1, <2>2, JobFacts
    <3>. QED
      BY <2>1, <3>1, <3>2, StoredWhileAnswering
  <2>3. ASSUME NEW r \in Revisions, current = StateJob(r), faults = 0
        PROVE  Stored'
    <3>1. written' = r
      <4>1. Method(current) = "state" /\ current[1] = r
        BY <2>3, JobFacts
      <4>. QED
        BY <1>3, <4>1 DEF ExecuteReturns, Write
    <3>2. publisher = "off" \/ (publisher = "waiting" /\ r = Head(stateQueue))
      BY <2>1, <2>3 DEF Publication
    <3>3. publisher = "off" => dropped
      BY <2>1, <2>3 DEF Stored
    <3>4. dbUp'
      BY <2>1, <2>3 DEF Stored
    <3>. QED
      BY <2>1, <3>1, <3>2, <3>3, <3>4 DEF Stored, stateVars
  <2>4. CASE faults # 0
    BY <2>1, <2>4 DEF Stored
  <2>. QED
    BY <2>2, <2>3, <2>4
<1>4. ASSUME ExecuteRaises \/ Restored \/ ReadLastBootFails \/ StatesTimeout
      PROVE  Stored'
  <2>1. ~dbUp /\ faults' = faults
    BY <1>4 DEF ExecuteRaises, Restored, ReadLastBootFails, StatesTimeout
  <2>. QED
    BY <2>1 DEF Stored
<1>5. ASSUME Outage
      PROVE  Stored'
  <2>1. faults' = faults + 1 /\ faults \in Nat
    BY <1>5 DEF Outage, JobsTyped
  <2>2. faults' # 0
    BY <2>1
  <2>. QED
    BY <2>2 DEF Stored
<1>6. ASSUME PublishState \/ BeginStop
      PROVE  Stored'
  BY <1>6, Published DEF Stored
<1>7. ASSUME SubmitState
      PROVE  Stored'
  <2>1. /\ publisher' = "waiting" /\ stateQueue' = stateQueue /\ revision' = revision
        /\ dropped' \/ (dropped' = dropped /\ future'[StateJob(Head(stateQueue))] = "pending")
        /\ worker' = worker /\ current' = current /\ dbUp' = dbUp /\ faults' = faults
        /\ phase' = phase /\ publisher = "idle"
    BY <1>7, Submitted DEF dbVars
  <2>2. phase # "flushJobs"
    BY <2>1 DEF Stages
  <2>. QED
    BY <2>1, <2>2 DEF Stored
<1>8. ASSUME StatePublished
      PROVE  Stored'
  <2>1. /\ publisher = "waiting" /\ publisher' = "idle"
        /\ future[StateJob(Head(stateQueue))] # "pending"
        /\ revision' - Len(stateQueue') = Head(stateQueue)
        /\ queue' = queue /\ current' = current /\ worker' = worker /\ future' = future
        /\ dropped' = dropped /\ written' = written /\ dbUp' = dbUp /\ faults' = faults
        /\ phase' = phase
    BY <1>8, PublishedOne DEF jobVars, dbVars
  <2>. QED
    BY <2>1 DEF Stored
<1>9. ASSUME StatesFlushed
      PROVE  Stored'
  <2>1. /\ phase = "flushStates" /\ stateQueue = <<>> /\ publisher' = "off"
        /\ stateQueue' = <<>> /\ revision' = revision /\ worker' = worker
        /\ current' = current /\ future' = future /\ dropped' = dropped
        /\ written' = written /\ dbUp' = dbUp /\ faults' = faults
    BY <1>9 DEF StatesFlushed, jobVars, dbVars
  <2>2. publisher = "idle"
    BY <2>1 DEF Stages, Publication, JobsTyped
  <2>3. worker \notin {"cancelled", "off"}
    BY <2>1 DEF Stages
  <2>4. revision - Len(stateQueue) = revision
    <3>1. Len(stateQueue) = 0 /\ revision \in Nat
      BY <2>1, EmptySeq DEF JobsTyped
    <3>. QED
      BY <3>1
  <2>5. \A r \in Revisions : future[StateJob(r)] # "pending"
    BY <2>2 DEF Publication
  <2>. QED
    BY <2>1, <2>2, <2>3, <2>4, <2>5 DEF Stored
<1>10. ASSUME CancelWorker
      PROVE  Stored'
  <2>1. /\ UNCHANGED stateVars /\ ~SubmitState /\ faults' = faults /\ dbUp' = dbUp
        /\ dropped' = dropped /\ written' = written /\ future' = future
        /\ queue' = queue /\ current' = current
    BY <1>10 DEF CancelWorker, SubmitState, dbVars, stateVars
  <2>2. faults = 0 => queue' = <<>> /\ current' = NoJob
    BY <1>10, <2>1 DEF CancelWorker, Stored, WorkerHolds
  <2>. QED
    BY <2>1, <2>2, StoredWhileAnswering
<1>11. ASSUME WorkerEnds
      PROVE  Stored'
  <2>1. CASE faults # 0
    BY <1>11, <2>1 DEF WorkerEnds, Stored
  <2>2. CASE faults = 0
    <3>1. phase = "flushJobs" /\ queue = <<>> /\ current = NoJob
      BY <1>11, <2>2 DEF WorkerEnds, Stages, Stored
    <3>2. /\ UNCHANGED stateVars /\ ~SubmitState /\ faults' = faults /\ dbUp' = dbUp
          /\ dropped' = dropped /\ written' = written /\ future' = future
          /\ queue' = <<>> /\ current' = NoJob
      BY <1>11, <3>1 DEF WorkerEnds, SubmitState, stateVars
    <3>. QED
      BY <3>2, StoredWhileAnswering
  <2>. QED
    BY <2>1, <2>2
<1>12. ASSUME FailPending
      PROVE  Stored'
  <2>1. /\ phase' = "stopped" /\ publisher = "off" /\ UNCHANGED stateVars /\ ~SubmitState
        /\ written' = written /\ dbUp' = dbUp /\ faults' = faults /\ dropped' = dropped
    BY <1>12 DEF FailPending, Stages, SubmitState, dbVars, stateVars
  <2>2. \A r \in Revisions : future'[StateJob(r)] = "pending" => future[StateJob(r)] = "pending"
    BY <2>1, StatesAnswered
  <2>. QED
    BY <2>1, <2>2 DEF Stored, stateVars
<1>13. CASE UNCHANGED vars
  BY <1>13 DEF vars, jobVars, dbVars, stateVars, Stored
<1>. QED
  BY <1>1, <1>2, <1>3, <1>4, <1>5, <1>6, <1>7, <1>8, <1>9, <1>10, <1>11, <1>12, <1>13 DEF Next

-----------------------------------------------------------------------------
(* The invariant and what follows from it *)

LEMMA Initially ==
  ASSUME Init, CapacityAssumption, BoundsAssumption
  PROVE  IInv
<1>1. /\ queue = <<>> /\ worker = "idle" /\ current = NoJob
      /\ future = [j \in Jobs |-> None] /\ dropped = FALSE
      /\ written = 0 /\ dbUp = TRUE /\ faults = 0
      /\ revision = 0 /\ stateQueue = <<>> /\ publisher = "idle" /\ phase = "started"
  BY DEF Init
<1>2. /\ <<>> \in Seq(Jobs) /\ <<>> \in Seq(1..MaxRevision + 1) /\ Len(<<>>) = 0
      /\ DOMAIN <<>> = {}
  BY EmptySeq
<1>3. JobsTyped
  <2>1. 0 <= Capacity /\ 0 \in 0..MaxRevision + 1 /\ 0 \in 0..MaxFaults
    BY DEF CapacityAssumption, BoundsAssumption
  <2>2. queue \in Seq(Jobs) /\ Len(queue) <= Capacity /\ stateQueue \in Seq(1..MaxRevision + 1)
    BY <1>1, <1>2, <2>1
  <2>3. future \in [Jobs -> {None, "pending", "persisted", "failed"}]
    BY <1>1
  <2>. QED
    BY <1>1, <2>1, <2>2, <2>3 DEF JobsTyped
<1>4. \A j \in Jobs : future[j] # "pending"
  BY <1>1 DEF None
<1>5. Tracked /\ WorkerHolds
  BY <1>1, <1>2, <1>4, JobFacts DEF Tracked, WorkerHolds, Queued
<1>6. Stages
  BY <1>1 DEF Stages, BoundsAssumption
<1>7. \A r \in Revisions : future[StateJob(r)] # "pending"
  BY <1>4, JobFacts
<1>8. revision - Len(stateQueue) = 0 /\ 1..Len(stateQueue) = {} /\ Len(stateQueue) <= revision
  <2>1. Len(stateQueue) = 0 /\ revision = 0
    BY <1>1, <1>2
  <2>. QED
    BY <2>1
<1>9. Publication
  BY <1>1, <1>7, <1>8 DEF Publication
<1>10. Ordered /\ Stored
  BY <1>1, <1>7, <1>8 DEF Ordered, Stored
<1>. QED
  BY <1>3, <1>5, <1>6, <1>9, <1>10 DEF IInv

LEMMA Invariance ==
  ASSUME CapacityAssumption, BoundsAssumption
  PROVE  Spec => []IInv
<1>1. Init => IInv
  BY Initially
<1>2. IInv /\ [Next]_vars => IInv'
  BY TypesKept, TrackedKept, StagesKept, PublicationKept, OrderedKept, StoredKept DEF IInv
<1>. QED
  BY <1>1, <1>2, PTL DEF Spec

\* A future is pending as often as its job waits.
LEMMA NoJobIsLost ==
  ASSUME JobsTyped, Tracked
  PROVE  NoLostJob
<1>. SUFFICES ASSUME NEW j \in Jobs
     PROVE  Cardinality({i \in DOMAIN queue : queue[i] = j}) + (IF current = j THEN 1 ELSE 0)
              = IF future[j] = "pending" THEN 1 ELSE 0
  BY DEF NoLostJob
<1>1. CASE Queued(j)
  <2>1. PICK i \in DOMAIN queue : queue[i] = j
    BY <1>1 DEF Queued
  <2>2. {k \in DOMAIN queue : queue[k] = j} = {i}
    BY <2>1 DEF Tracked
  <2>3. current # j /\ future[j] = "pending"
    BY <1>1, <2>1 DEF Tracked
  <2>4. Cardinality({i}) = 1
    BY FS_Singleton
  <2>. QED
    BY <2>2, <2>3, <2>4
<1>2. CASE ~Queued(j)
  <2>1. {k \in DOMAIN queue : queue[k] = j} = {}
    BY <1>2 DEF Queued
  <2>2. Cardinality({}) = 0
    BY FS_EmptySet
  <2>3. future[j] = "pending" <=> current = j
    BY <1>2 DEF Tracked
  <2>. QED
    BY <2>1, <2>2, <2>3
<1>. QED
  BY <1>1, <1>2

\* The service that stopped left no future pending, and undisturbed no state.
LEMMA StoppedIsStored ==
  ASSUME JobsTyped, Tracked, WorkerHolds, Stages, Stored
  PROVE  FinalStateStored
<1>1. ASSUME phase = "stopped"
      PROVE  \A j \in Jobs : future[j] # "pending"
  <2>1. DOMAIN queue = {} /\ current = NoJob
    BY <1>1, EmptySeq DEF Stages, WorkerHolds
  <2>. QED
    BY <2>1, JobFacts DEF Tracked, Queued
<1>2. ASSUME phase = "stopped", faults = 0, ~dropped
      PROVE  written = revision
  BY <1>2 DEF Stages, Stored
<1>. QED
  BY <1>1, <1>2 DEF FinalStateStored

\* The types of the persistence queue, its worker and the state publisher
\* (PersistenceWorker, _state_publisher, stop).
THEOREM TypeCorrect ==
  ASSUME CapacityAssumption, BoundsAssumption
  PROVE  Spec => []JobsTyped
<1>1. IInv => JobsTyped
  BY DEF IInv
<1>. QED
  BY <1>1, Invariance, PTL

\* Every record handed to the worker is answered exactly once, through a full
\* queue, outages and a stop in the middle of a write; an undisturbed stop has
\* stored the last state (enqueue, _run, _fail_pending, stop).
THEOREM RecordsAreAnswered ==
  ASSUME CapacityAssumption, BoundsAssumption
  PROVE  Spec => []RecordsAnswered
<1>1. IInv => RecordsAnswered
  BY NoJobIsLost, StoppedIsStored DEF IInv, RecordsAnswered
<1>. QED
  BY <1>1, Invariance, PTL

\* A state of the controller never overwrites a newer one (_state_publisher,
\* _run).
THEOREM StatesNeverGoBack ==
  ASSUME CapacityAssumption, BoundsAssumption
  PROVE  Spec => StatesAdvance
<1>1. IInv /\ [Next]_vars => written <= written'
  <2>. SUFFICES ASSUME IInv, [Next]_vars
       PROVE  written <= written'
    OBVIOUS
  <2>1. CASE written' = written
    BY <2>1 DEF IInv, JobsTyped
  <2>2. ASSUME NEW r \in Revisions, written' = r, future[StateJob(r)] = "pending"
        PROVE  written <= written'
    <3>1. written < r /\ written \in Nat /\ r \in Nat
      BY <2>2 DEF IInv, Ordered, JobsTyped, Revisions, BoundsAssumption
    <3>. QED
      BY <2>2, <3>1
  <2>. QED
    BY <2>1, <2>2, WrittenOnce DEF IInv
<1>2. IInv /\ [Next]_vars => [written <= written']_vars
  BY <1>1
<1>. QED
  BY <1>2, Invariance, PTL DEF Spec, StatesAdvance

=============================================================================
