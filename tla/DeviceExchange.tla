--------------------------- MODULE DeviceExchange ---------------------------
(***************************************************************************)
(* ThermometerBleClient of backend/pc_client/thermometer_client.py: the    *)
(* coroutines of several callers that share one client, its request,       *)
(* connect and pairing locks, the exchange of a written request for a read *)
(* response, and the Bleak backends it opens and disposes of.              *)
(*                                                                         *)
(* Any coroutine can be cancelled where it awaits (asyncio.wait_for).  The *)
(* operating system carries ATT operations out in the order they were      *)
(* issued, those of a cancelled coroutine too.                             *)
(***************************************************************************)
EXTENDS Naturals, Sequences, FiniteSets, SequencesExt

CONSTANTS Tasks,            \* calls, one coroutine each
          Call(_),          \* what a task calls
          SupportsCompact,  \* the firmware knows GET_HISTORY_CHUNK_COMPACT
          IdSpace,          \* request ids wrap here (2^16)
          MaxBackends,      \* bound: Bleak clients created
          MaxFaults,        \* bound: GATT errors and lost links
          MaxCancels        \* bound: cancelled tasks

NoBackend == 0
Backends == 1..MaxBackends
Free == "free"

ASSUME CallAssumption ==
    /\ \A t \in Tasks : Call(t) \in {"request", "chunk", "connect", "disconnect",
                                     "close", "forget"}
    /\ Free \notin Tasks
ASSUME SizeAssumption == IdSpace \in Nat \ {0} /\ MaxBackends \in Nat

VARIABLES
    client,     \* _client
    open,       \* backends that hold an operating-system session
    alive,      \* backends whose link is up
    created,    \* backends created so far
    closed,     \* _closed
    compact,    \* _compact_history_supported
    lock,       \* owner of the request, connect and pairing locks
    line,       \* tasks waiting for the connect lock, in turn
    pc,         \* where each task awaits
    mine,       \* backend a task opens or closes
    nextId, id, \* _request_id, the id a task's packet carries
    format,     \* per task: it asks for compact records
    wire,       \* ATT operations on their way: [op, id, by]
    response,   \* what the response characteristic holds: [id, compact]
    result,     \* per task
    given,      \* backends given up: disconnect() failed or was cut short (a history)
    faults, cancels

link == <<open, alive, created, given>>
protocol == <<nextId, id, format, wire, response, compact>>
vars == <<client, link, closed, lock, line, pc, mine, protocol, result, faults, cancels>>

Locks == {"request", "connect", "pairing"}
Waiting == {"start", "request_lock", "write", "read", "connect_lock", "pairing_lock",
            "pair", "open", "dispose", "close", "forget"}
NoResponse == [id |-> 0, compact |-> FALSE]
Operations == [op : {"write", "read"}, id : 0..IdSpace - 1, by : Tasks, compact : BOOLEAN]

TypeOK ==
    /\ client \in Backends \cup {NoBackend}
    /\ open \subseteq Backends /\ alive \subseteq open /\ given \subseteq Backends
    /\ created \in 0..MaxBackends /\ closed \in BOOLEAN
    /\ compact \in {"unknown", "yes", "no"}
    /\ lock \in [Locks -> Tasks \cup {Free}] /\ line \in Seq(Tasks)
    /\ pc \in [Tasks -> Waiting \cup {"done"}]
    /\ mine \in [Tasks -> Backends \cup {NoBackend}]
    /\ nextId \in 0..IdSpace - 1 /\ id \in [Tasks -> 0..IdSpace - 1]
    /\ format \in [Tasks -> BOOLEAN]
    /\ wire \in Seq(Operations) /\ response \in [id : 0..IdSpace - 1, compact : BOOLEAN]
    /\ result \in [Tasks -> {"none", "returned", "raised", "mismatch", "cancelled"}]

\* A fresh client: the service makes one for each connection attempt.
Init ==
    /\ client = NoBackend /\ open = {} /\ alive = {} /\ created = 0
    /\ closed = FALSE /\ compact = "unknown" /\ lock = [l \in Locks |-> Free]
    /\ line = <<>>
    /\ pc = [t \in Tasks |-> "start"] /\ mine = [t \in Tasks |-> NoBackend]
    /\ nextId = 0 /\ id = [t \in Tasks |-> 0] /\ format = [t \in Tasks |-> FALSE]
    /\ wire = <<>> /\ response = NoResponse
    /\ result = [t \in Tasks |-> "none"] /\ given = {} /\ faults = 0 /\ cancels = 0

-----------------------------------------------------------------------------

IsConnected == client \in alive
\* A lock's waiters are served in turn (asyncio.Lock).
InLine(t) == \E i \in DOMAIN line : line[i] = t
Left(t) == IF InLine(t) THEN RemoveAt(line, CHOOSE i \in DOMAIN line : line[i] = t)
           ELSE line

Goto(t, to) ==
    /\ pc' = [pc EXCEPT ![t] = to]
    /\ line' = IF to = "connect_lock" THEN Append(Left(t), t) ELSE Left(t)

\* Plausible bug: a coroutine that ends keeps its locks.
KeptLocks(t) == lock
Released(t) == [l \in Locks |-> IF lock[l] = t THEN Free ELSE lock[l]]

\* The coroutine ends; async with releases what it holds.
End(t, r) ==
    /\ Goto(t, "done") /\ result' = [result EXCEPT ![t] = r] /\ lock' = Released(t)

Requests == {t \in Tasks : Call(t) \in {"request", "chunk"}}
Closers == {t \in Tasks : Call(t) \in {"disconnect", "close", "forget"}}

\* _next_request_id
TakeId(t) ==
    nextId' = (nextId + 1) % IdSpace /\ id' = [id EXCEPT ![t] = nextId']

Refused == closed

\* The synchronous start of a call.
Begin(t) ==
    /\ pc[t] = "start"
    /\ CASE t \in Requests ->
              /\ TakeId(t) /\ UNCHANGED closed
              /\ format' = [format EXCEPT ![t] = Call(t) = "chunk" /\ compact # "no"]
              /\ IF IsConnected
                 THEN Goto(t, "request_lock") /\ UNCHANGED <<lock, result>>
                 ELSE End(t, "raised")
         [] t \in Closers ->
              /\ closed' = (closed \/ Call(t) = "close")
              /\ Goto(t, "request_lock") /\ UNCHANGED <<lock, result, nextId, id, format>>
         [] OTHER ->
              /\ UNCHANGED <<closed, nextId, id, format>>
              /\ IF Refused THEN End(t, "raised")
                 ELSE IF IsConnected THEN End(t, "returned")
                 ELSE Goto(t, "connect_lock") /\ UNCHANGED <<lock, result>>
    /\ UNCHANGED <<client, link, mine, wire, response, compact, faults, cancels>>

Take(t, l) == lock' = [lock EXCEPT ![l] = t]

\* An operation on a link that dropped is not issued; it raises.
Issue(t, op) ==
    LET operation == [op |-> op, id |-> id[t], by |-> t, compact |-> format[t]]
    IN  wire' = IF IsConnected THEN Append(wire, operation) ELSE wire

\* Plausible bug: an exchange does not hold the request lock.
AcquireRequestNot(t) ==
    /\ pc[t] = "request_lock" /\ UNCHANGED lock
    /\ IF t \in Requests
       THEN Issue(t, "write") /\ Goto(t, "write")
       ELSE Goto(t, "connect_lock") /\ UNCHANGED wire
    /\ UNCHANGED <<client, link, closed, mine, nextId, id, format, response, compact, result,
                   faults, cancels>>

\* The request lock is granted: a transaction starts, or teardown goes on.
AcquireRequest(t) ==
    /\ pc[t] = "request_lock" /\ lock["request"] = Free
    /\ IF t \in Requests
       THEN IF client = NoBackend
            THEN End(t, "raised") /\ UNCHANGED wire
            ELSE /\ Take(t, "request") /\ Issue(t, "write") /\ Goto(t, "write")
                 /\ UNCHANGED result
       ELSE Take(t, "request") /\ Goto(t, "connect_lock") /\ UNCHANGED <<wire, result>>
    /\ UNCHANGED <<client, link, closed, mine, nextId, id, format, response, compact, faults,
                   cancels>>

\* The device carries the next ATT operation out and answers.
AttWrite ==
    /\ wire # <<>> /\ Head(wire).op = "write" /\ alive # {}
    /\ LET w == Head(wire)
       IN  /\ response' = [id |-> w.id, compact |-> w.compact]
           /\ IF pc[w.by] = "write" /\ id[w.by] = w.id
              THEN /\ wire' = Append(Tail(wire), [w EXCEPT !.op = "read"])
                   /\ Goto(w.by, "read")
              ELSE wire' = Tail(wire) /\ UNCHANGED <<pc, line>>
    /\ UNCHANGED <<client, link, closed, lock, mine, nextId, id, format, compact,
                   result,
                   faults, cancels>>

Fallback == "no"

\* The response is parsed.  A chunk in a format the firmware does not know is
\* asked for again in the old one.
AttRead ==
    /\ wire # <<>> /\ Head(wire).op = "read" /\ alive # {}
    /\ wire' = Tail(wire)
    /\ LET t == Head(wire).by
           current == pc[t] = "read" /\ id[t] = Head(wire).id
           unknown == response.compact /\ ~SupportsCompact
       IN  CASE ~current -> UNCHANGED <<pc, line, lock, result, compact, nextId, id, format>>
             [] current /\ response.id # id[t] ->
                  End(t, "mismatch") /\ UNCHANGED <<compact, nextId, id, format>>
             [] current /\ response.id = id[t] /\ unknown ->
                  /\ compact' = Fallback /\ format' = [format EXCEPT ![t] = FALSE]
                  /\ TakeId(t) /\ lock' = Released(t)
                  /\ Goto(t, IF IsConnected THEN "request_lock" ELSE "done")
                  /\ result' = IF IsConnected THEN result
                               ELSE [result EXCEPT ![t] = "raised"]
             [] OTHER ->
                  /\ End(t, "returned") /\ UNCHANGED <<nextId, id, format>>
                  /\ compact' = IF Call(t) # "chunk" THEN compact
                                ELSE IF response.compact THEN "yes" ELSE "no"
    /\ UNCHANGED <<client, link, closed, mine, response, faults, cancels>>

\* The operation t waits for, which is the last one on its way; a link that
\* drops takes it away.
Issued(t) == wire # <<>> /\ Last(wire).by = t

\* A GATT operation raises: the connection is torn down inside the
\* transaction.
ExchangeFails(t) ==
    /\ pc[t] \in {"write", "read"}
    /\ IF Issued(t)
       THEN faults < MaxFaults /\ faults' = faults + 1 /\ wire' = Front(wire)
       ELSE UNCHANGED <<faults, wire>>
    /\ Goto(t, "connect_lock")
    /\ UNCHANGED <<client, link, closed, lock, mine, nextId, id, format, response, compact,
                   result, cancels>>

-----------------------------------------------------------------------------
(* Teardown and connection, under the connect lock *)

\* _disconnect_current_client
TakeClient(t) ==
    /\ line # <<>> /\ Head(line) = t /\ lock["connect"] = Free /\ Call(t) # "connect"
    /\ client' = NoBackend /\ mine' = [mine EXCEPT ![t] = client]
    /\ Take(t, "connect") /\ Goto(t, "close")
    /\ UNCHANGED <<link, closed, protocol, result, faults, cancels>>

\* client.disconnect() returned; what was on its way there is gone.
\* forget_pairing goes on to the bond.
Closed(t) ==
    /\ pc[t] = "close"
    /\ open' = open \ {mine[t]} /\ alive' = alive \ {mine[t]} /\ wire' = <<>>
    /\ IF Call(t) = "forget"
       THEN Goto(t, "pairing_lock") /\ lock' = Released(t) /\ UNCHANGED result
       ELSE End(t, IF t \in Requests THEN "raised" ELSE "returned")
    /\ UNCHANGED <<client, created, given, closed, mine, nextId, id, format, response,
                   compact, faults, cancels>>

\* disconnect() of the backend t holds raises or is cut short; the system keeps
\* the session or not.
GivesUp(t) ==
    \E left \in SUBSET ({mine[t]} \cap open) :
        /\ given' = given \cup left
        /\ open' = open \ ({mine[t]} \ left) /\ alive' = alive \cap open'

\* client.disconnect() raises; nobody has the client any more.  An exchange
\* swallows that error and raises its own, forget_pairing goes no further.
CloseFails(t) ==
    /\ pc[t] = "close" /\ mine[t] # NoBackend /\ faults < MaxFaults /\ faults' = faults + 1
    /\ GivesUp(t) /\ wire' = IF mine[t] \in open' THEN wire ELSE <<>>
    /\ End(t, "raised")
    /\ UNCHANGED <<client, created, closed, mine, nextId, id, format, response, compact,
                   cancels>>

StartConnect(t) ==
    /\ line # <<>> /\ Head(line) = t /\ lock["connect"] = Free /\ Call(t) = "connect"
    /\ IF IsConnected THEN End(t, "returned")
       ELSE Take(t, "connect") /\ Goto(t, "pairing_lock") /\ UNCHANGED result
    /\ UNCHANGED <<client, link, closed, mine, protocol, faults, cancels>>

\* pair and forget_device run under the pairing lock.
AcquirePairing(t) ==
    /\ pc[t] = "pairing_lock" /\ lock["pairing"] = Free
    /\ Take(t, "pairing") /\ Goto(t, IF Call(t) = "forget" THEN "forget" ELSE "pair")
    /\ UNCHANGED <<client, link, closed, mine, protocol, result, faults, cancels>>

Forgotten(t) ==
    /\ pc[t] = "forget" /\ End(t, "returned")
    /\ UNCHANGED <<client, link, closed, mine, protocol, faults, cancels>>

\* Bonded: a backend is created and connects.
Paired(t) ==
    /\ pc[t] = "pair" /\ created < MaxBackends
    /\ created' = created + 1 /\ mine' = [mine EXCEPT ![t] = created + 1]
    /\ open' = open \cup {created + 1}
    /\ lock' = [lock EXCEPT !["pairing"] = Free] /\ Goto(t, "open")
    /\ UNCHANGED <<client, alive, given, closed, protocol, result, faults, cancels>>

PairFails(t) ==
    /\ pc[t] = "pair" /\ faults < MaxFaults /\ faults' = faults + 1
    /\ End(t, "raised")
    /\ UNCHANGED <<client, link, closed, mine, protocol, cancels>>

\* connect() and service discovery succeeded.
Opened(t) ==
    /\ pc[t] = "open"
    /\ client' = mine[t] /\ alive' = alive \cup {mine[t]}
    /\ End(t, "returned")
    /\ UNCHANGED <<open, created, given, closed, mine, protocol, faults, cancels>>

\* ... or not: the partial backend is disposed of.
OpenFails(t) ==
    /\ pc[t] = "open" /\ faults < MaxFaults /\ faults' = faults + 1
    /\ Goto(t, "dispose")
    /\ UNCHANGED <<client, link, closed, lock, mine, protocol, result, cancels>>

\* The connect raises what made it fail, whatever became of the disposal.
DisposalEnds(t) ==
    /\ pc[t] = "dispose"
    /\ End(t, IF result[t] = "cancelled" THEN "cancelled" ELSE "raised")
    /\ UNCHANGED <<client, created, closed, mine, protocol, cancels>>

Disposed(t) ==
    /\ DisposalEnds(t) /\ open' = open \ {mine[t]}
    /\ UNCHANGED <<alive, given, faults>>

\* The disposal fails, or does not end within three seconds; both are suppressed.
DisposeFails(t) ==
    /\ DisposalEnds(t) /\ GivesUp(t)
    /\ faults < MaxFaults /\ faults' = faults + 1

-----------------------------------------------------------------------------

LinkDrops ==
    /\ client \in alive /\ faults < MaxFaults /\ faults' = faults + 1
    /\ alive' = alive \ {client} /\ wire' = <<>>
    /\ UNCHANGED <<client, open, created, given, closed, lock, line, pc, mine, nextId,
                   id, format, response, compact, result, cancels>>

\* Plausible bug: a cancelled connect only gives its lock back.
AtOpenEnds(t) == End(t, "cancelled")

\* A connect that is cancelled while it opens disposes of the backend.
AtOpen(t) ==
    /\ Goto(t, "dispose") /\ result' = [result EXCEPT ![t] = "cancelled"]
    /\ UNCHANGED lock

\* Cancelled at an await: CancelledError is no Exception, so an exchange is
\* left without teardown, and a close or a disposal leaves its backend to the
\* system.
Cancel(t) ==
    /\ pc[t] \notin {"start", "done"}
    /\ cancels < MaxCancels /\ cancels' = cancels + 1
    /\ IF pc[t] = "open" THEN AtOpen(t) ELSE End(t, "cancelled")
    /\ given' = IF pc[t] \in {"close", "dispose"} THEN given \cup ({mine[t]} \cap open)
                ELSE given
    /\ UNCHANGED <<client, open, alive, created, closed, mine, protocol, faults>>

Step(t) ==
    \/ Begin(t) \/ AcquireRequest(t) \/ TakeClient(t) \/ Closed(t)
    \/ StartConnect(t) \/ AcquirePairing(t) \/ Forgotten(t)
    \/ Paired(t) \/ Opened(t) \/ Disposed(t)

Next ==
    \/ \E t \in Tasks : \/ Step(t) \/ ExchangeFails(t) \/ PairFails(t) \/ OpenFails(t)
                         \/ CloseFails(t) \/ DisposeFails(t) \/ Cancel(t)
    \/ AttWrite \/ AttRead \/ LinkDrops

Spec == Init /\ [][Next]_vars

\* Locks are granted in turn; every operating-system call returns or raises.
FairSpec ==
    /\ Spec
    /\ \A t \in Tasks : SF_vars(Step(t)) /\ WF_vars(ExchangeFails(t))
    /\ WF_vars(AttWrite) /\ WF_vars(AttRead)

-----------------------------------------------------------------------------

\* Every response read belongs to the request written before it, although
\* callers share the two characteristics and may be cancelled between the
\* write and the read (_exchange_packet).
OwnResponse == \A t \in Tasks : result[t] # "mismatch"

Owned == {client} \cup given \cup {mine[t] : t \in {u \in Tasks : pc[u] \in {"open", "dispose", "close"}}}
Ended(t) == pc[t] \in {"start", "done"}

\* A session of the operating system is the client's, or somebody opens or
\* closes it, or its disconnect() was called and did not finish: however
\* connects, closes and cancellations meet, none is forgotten before it was
\* asked to end (dispose_partial_client, _disconnect_current_client).  That it
\* does end the code does not promise: a disposal has three seconds, and errors
\* of a disposal or of the close after a failed exchange are swallowed.  A client
\* that is connected again after its link dropped forgets the dead one; the
\* service makes a new client for each attempt.
NoLeakedSession == alive \subseteq Owned /\ (created <= 1 => open \subseteq Owned)

\* After close() returned no connect runs, and nothing is open but what was
\* given up (close, connect).
ClosedHoldsNothing ==
    (\E t \in Tasks : Call(t) = "close" /\ result[t] = "returned")
    => /\ client = NoBackend /\ \A u \in Tasks : Call(u) = "connect" => Ended(u)
       /\ alive \subseteq given /\ (created <= 1 => open \subseteq given)

\* Both: who holds a session of the operating system.
SessionsOwned == NoLeakedSession /\ ClosedHoldsNothing

\* What is not true of the code: that only a cancelled close leaves a session.
\* The disposal after a failed connect runs out of its three seconds
\* (thermometer_client.py:351), or an exchange swallows that its close failed
\* (thermometer_client.py:435), and no cancellation had any part in it.
OnlyCancelledLeave == cancels = 0 => given = {}

\* A caller waits for a lock, the device or the system, never for ever: no
\* cycle of request, connect and pairing lock, with failures and
\* cancellations anywhere.
CallsEnd == \A t \in Tasks : <>(pc[t] = "done")

\* What the firmware supports is learnt once, also from chunks that were
\* asked for before it was known: no chunk overrules another, and only a
\* caller that did not know asks twice (get_history_chunk).
FormatLearnt ==
    [][compact # "unknown" => compact' = compact]_compact
=============================================================================
