---------------------------- MODULE PairingProofs ----------------------------
(***************************************************************************)
(* That calls to the device and to the operating system end as they should: *)
(* callers who share one client of the device, fail and are cancelled      *)
(* anywhere, get their own response, learn the firmware's format once, and *)
(* leave no session that was not asked to end; nobody waits for a request  *)
(* that no one has; pairing and removal leave nothing behind and do what   *)
(* they report.  For any calls, ids, connections, failures, cancellations, *)
(* callers, priorities and lengths of the queue.                           *)
(***************************************************************************)
EXTENDS MCPairing, SequenceTheorems, FiniteSetTheorems, WellFoundedInduction, TLAPS

(* The calls that share the device's client (DeviceExchange). *)

\* Which calls come where.
Place(t, at) ==
  /\ at \in {"write", "read"} => t \in Requests
  /\ at = "request_lock" => Call(t) # "connect"
  /\ at = "pairing_lock" => Call(t) \in {"connect", "forget"}
  /\ at \in {"pair", "open", "dispose"} => Call(t) = "connect"
  /\ at = "close" => Call(t) # "connect"
  /\ at = "forget" => Call(t) = "forget"
Places == \A t \in Tasks : Place(t, pc[t])

\* Who owns the request and the connect lock.
Connects(t, at) ==
  \/ at \in {"pair", "open", "dispose", "close"}
  \/ at = "pairing_lock" /\ Call(t) = "connect"
LocksHeld ==
  \A t \in Tasks :
    /\ pc[t] \in {"write", "read"} => lock["request"] = t
    /\ Connects(t, pc[t]) => lock["connect"] = t

\* The line for the connect lock: who waits for it, each once, and no connect
\* behind a close.
LineOrdered ==
  /\ \A i \in DOMAIN line : pc[line[i]] = "connect_lock"
  /\ \A i, j \in DOMAIN line : line[i] = line[j] => i = j
  /\ \A t \in Tasks : pc[t] = "connect_lock" => InLine(t)
  /\ \A i, j \in DOMAIN line :
       i < j /\ Call(line[i]) = "close" => Call(line[j]) # "connect"

\* The operation a task waits for is the last on its way, and its read alone
\* there: what was cancelled before has been carried out.
OwnIsLast ==
  /\ \A i \in DOMAIN wire : pc[wire[i].by] \notin {"start", "request_lock"}
  /\ \A t \in Tasks, i \in DOMAIN wire :
       pc[t] = "write" /\ wire[i].by = t =>
         i = Len(wire) /\ wire[i].compact = format[t]
  /\ \A t \in Tasks :
       pc[t] = "read" /\ wire # <<>> =>
         /\ Len(wire) = 1 /\ wire[1].op = "read"
         /\ response.id = id[t] /\ response.compact = format[t]

\* What is known of the firmware is true, and who asks for the old format
\* while it is not yet known is none.
Learnt ==
  /\ compact = "yes" => SupportsCompact
  /\ compact = "no" => ~SupportsCompact
  /\ \A t \in Tasks :
       Call(t) = "chunk" /\ pc[t] # "start" /\ ~format[t] => compact = "no"

\* The backend being opened is new, and replaces none that is alive.
Opening ==
  /\ client \in 0..created /\ open \subseteq 1..created
  /\ \A t \in Tasks :
       /\ Connects(t, pc[t]) /\ Call(t) = "connect" => client \notin alive
       /\ pc[t] \in {"open", "dispose"} => mine[t] \in open \ alive
       /\ pc[t] = "open" => mine[t] = created /\ client # created

\* A close that took the client: no connect runs or will.
Quiet == client = NoBackend /\ \A u \in Tasks : Call(u) = "connect" => Ended(u)
Closing ==
  \A t \in Tasks : Call(t) = "close" =>
    /\ pc[t] # "start" \/ result[t] = "returned" => closed
    /\ pc[t] = "close" \/ result[t] = "returned" => Quiet
    /\ result[t] = "returned" => \A u \in Tasks : pc[u] = "close" => mine[u] = NoBackend

IInv ==
  /\ TypeOK /\ Places /\ LocksHeld /\ LineOrdered /\ OwnIsLast /\ Learnt
  /\ Opening /\ NoLeakedSession /\ Closing /\ OwnResponse

-----------------------------------------------------------------------------
(* Sequences: an element taken out, the line, what is on the wire. *)

\* A sequence with one element taken out: the others, in order.
LEMMA RemoveAtFacts ==
  ASSUME NEW S, NEW s \in Seq(S), NEW p \in 1..Len(s)
  PROVE  /\ RemoveAt(s, p) \in Seq(S) /\ Len(RemoveAt(s, p)) = Len(s) - 1
         /\ \A i \in 1..(Len(s) - 1) :
              RemoveAt(s, p)[i] = IF i < p THEN s[i] ELSE s[i + 1]
<1> DEFINE before == SubSeq(s, 1, p - 1)
           after  == SubSeq(s, p + 1, Len(s))
<1>1. /\ before \in Seq(S) /\ Len(before) = p - 1
      /\ \A i \in 1..(p - 1) : before[i] = s[i]
  <2>1. \A i \in 1..(p - 1) : s[i] \in S
    BY ElementOfSeq
  <2>2. 1 \in Int /\ p - 1 \in Int
    OBVIOUS
  <2>3. /\ before \in Seq(S) /\ Len(before) = IF 1 <= p - 1 THEN (p - 1) - 1 + 1 ELSE 0
        /\ \A i \in 1..((p - 1) - 1 + 1) : before[i] = s[1 + i - 1]
    BY <2>1, <2>2, SubSeqProperties
  <2>. HIDE DEF before
  <2>. QED
    BY <2>3
<1>2. /\ after \in Seq(S) /\ Len(after) = Len(s) - p
      /\ \A i \in 1..(Len(s) - p) : after[i] = s[p + i]
  <2>1. \A i \in (p + 1)..Len(s) : s[i] \in S
    BY ElementOfSeq
  <2>2. p + 1 \in Int /\ Len(s) \in Int
    OBVIOUS
  <2>3. /\ after \in Seq(S)
        /\ Len(after) = IF p + 1 <= Len(s) THEN Len(s) - (p + 1) + 1 ELSE 0
        /\ \A i \in 1..(Len(s) - (p + 1) + 1) : after[i] = s[(p + 1) + i - 1]
    BY <2>1, <2>2, SubSeqProperties
  <2>. HIDE DEF after
  <2>. QED
    BY <2>3
<1>3. /\ before \o after \in Seq(S) /\ Len(before \o after) = Len(before) + Len(after)
      /\ \A i \in 1..(Len(before) + Len(after)) : (before \o after)[i] =
           IF i <= Len(before) THEN before[i] ELSE after[i - Len(before)]
  <2>. HIDE DEF before, after
  <2>. QED
    BY <1>1, <1>2, ConcatProperties
<1>4. RemoveAt(s, p) = before \o after
  BY DEF RemoveAt
<1>. HIDE DEF before, after
<1>5. Len(RemoveAt(s, p)) = Len(s) - 1
  <2>1. (p - 1) + (Len(s) - p) = Len(s) - 1
    OBVIOUS
  <2>. QED
    BY <1>1, <1>2, <1>3, <1>4, <2>1, Zenon
<1>6. ASSUME NEW i \in 1..(Len(s) - 1)
      PROVE  RemoveAt(s, p)[i] = IF i < p THEN s[i] ELSE s[i + 1]
  <2>1. i \in 1..(Len(before) + Len(after))
    BY <1>1, <1>2
  <2>2. CASE i < p
    BY <1>1, <1>3, <1>4, <2>1, <2>2
  <2>3. CASE ~(i < p)
    <3>1. i - Len(before) \in 1..(Len(s) - p) /\ p + (i - Len(before)) = i + 1
          /\ ~(i <= Len(before))
      BY <1>1, <2>3
    <3>. QED
      BY <1>2, <1>3, <1>4, <2>1, <2>3, <3>1
  <2>. QED
    BY <2>2, <2>3
<1>. QED
  BY <1>3, <1>4, <1>5, <1>6

\* A queue without its last member.
LEMMA FrontFacts ==
  ASSUME NEW S, NEW s \in Seq(S), s # <<>>
  PROVE  /\ Front(s) \in Seq(S) /\ Len(Front(s)) = Len(s) - 1
         /\ \A i \in DOMAIN Front(s) : i \in DOMAIN s /\ Front(s)[i] = s[i]
<1>1. Len(s) \in Nat \ {0} /\ \A i \in 1..(Len(s) - 1) : s[i] \in S
  BY LenProperties, EmptySeq, ElementOfSeq
<1>2. 1 \in Int /\ Len(s) - 1 \in Int /\ Front(s) = SubSeq(s, 1, Len(s) - 1)
  BY <1>1 DEF Front
<1>3. /\ Front(s) \in Seq(S)
      /\ Len(Front(s)) = IF 1 <= Len(s) - 1 THEN (Len(s) - 1) - 1 + 1 ELSE 0
      /\ \A i \in 1..((Len(s) - 1) - 1 + 1) : Front(s)[i] = s[1 + i - 1]
  BY <1>1, <1>2, SubSeqProperties
<1>4. DOMAIN s = 1..Len(s) /\ DOMAIN Front(s) = 1..Len(Front(s))
  BY <1>3, LenProperties
<1>5. Len(Front(s)) = Len(s) - 1
  <2> DEFINE n == Len(s)
  <2>1. n \in Nat \ {0} /\ Len(Front(s)) = IF 1 <= n - 1 THEN (n - 1) - 1 + 1 ELSE 0
    BY <1>1, <1>3, Zenon
  <2>. HIDE DEF n
  <2>2. Len(Front(s)) = n - 1
    BY <2>1
  <2>. QED
    BY <2>2 DEF n
<1>6. ASSUME NEW i \in DOMAIN Front(s)
      PROVE  i \in DOMAIN s /\ Front(s)[i] = s[i]
  <2>1. i \in 1..(Len(s) - 1) /\ 1 + i - 1 = i /\ Len(s) - 1 - 1 + 1 = Len(s) - 1
    BY <1>1, <1>4, <1>5
  <2>2. i \in DOMAIN s
    BY <1>1, <1>4, <2>1
  <2>. QED
    BY <1>3, <2>1, <2>2
<1>. QED
  BY <1>3, <1>5, <1>6

\* Leaving the line keeps the order of the others.
LEMMA LeftFacts ==
  ASSUME line \in Seq(Tasks), NEW t \in Tasks,
         \A i, j \in DOMAIN line : line[i] = line[j] => i = j
  PROVE  /\ Left(t) \in Seq(Tasks)
         /\ \A i \in DOMAIN Left(t) : Left(t)[i] # t /\ \E k \in DOMAIN line : Left(t)[i] = line[k]
         /\ \A i, j \in DOMAIN Left(t) : i < j =>
              \E k, l \in DOMAIN line : k < l /\ Left(t)[i] = line[k] /\ Left(t)[j] = line[l]
         /\ \A u \in Tasks : u # t /\ InLine(u) => \E i \in DOMAIN Left(t) : Left(t)[i] = u
<1>0. DOMAIN line = 1..Len(line) /\ Len(line) \in Nat
  BY LenProperties
<1>1. CASE ~InLine(t)
  <2>1. Left(t) = line
    BY <1>1 DEF Left
  <2>. QED
    BY <1>1, <2>1 DEF InLine
<1>2. CASE InLine(t)
  <2> DEFINE p == CHOOSE i \in DOMAIN line : line[i] = t
  <2>1. p \in 1..Len(line) /\ line[p] = t
    BY <1>0, <1>2 DEF InLine
  <2>2. Left(t) = RemoveAt(line, p)
    BY <1>2 DEF Left
  <2>. HIDE DEF p
  <2>3. /\ Left(t) \in Seq(Tasks) /\ Len(Left(t)) = Len(line) - 1
        /\ \A i \in 1..(Len(line) - 1) :
             Left(t)[i] = IF i < p THEN line[i] ELSE line[i + 1]
    <3>1. /\ RemoveAt(line, p) \in Seq(Tasks) /\ Len(RemoveAt(line, p)) = Len(line) - 1
          /\ \A i \in 1..(Len(line) - 1) :
               RemoveAt(line, p)[i] = IF i < p THEN line[i] ELSE line[i + 1]
      BY <2>1, RemoveAtFacts
    <3>. QED
      BY <2>2, <3>1
  <2>4. DOMAIN Left(t) = 1..(Len(line) - 1)
    BY <2>3, LenProperties
  <2> DEFINE k(i) == IF i < p THEN i ELSE i + 1
  <2>5. \A i \in DOMAIN Left(t) : k(i) \in DOMAIN line /\ k(i) # p /\ Left(t)[i] = line[k(i)]
    BY <1>0, <2>1, <2>3, <2>4
  <2>6. \A i, j \in DOMAIN Left(t) : i < j => k(i) < k(j)
    BY <2>1, <2>4
  <2>7. ASSUME NEW u \in Tasks, u # t, InLine(u)
        PROVE  \E i \in DOMAIN Left(t) : Left(t)[i] = u
    <3>1. PICK q \in DOMAIN line : line[q] = u
      BY <2>7 DEF InLine
    <3> DEFINE i == IF q < p THEN q ELSE q - 1
    <3>2. q # p
      BY <2>1, <2>7, <3>1
    <3>3. i \in DOMAIN Left(t) /\ k(i) = q
      BY <1>0, <2>1, <2>4, <3>2
    <3>. QED
      BY <2>5, <3>1, <3>3
  <2>8. \A i \in DOMAIN Left(t) : Left(t)[i] # t
    BY <1>0, <2>1, <2>5
  <2>. HIDE DEF k
  <2>. QED
    BY <2>3, <2>5, <2>6, <2>7, <2>8
<1>. QED
  BY <1>1, <1>2

\* The line for the connect lock stays ordered when a call goes anywhere.
LEMMA LineStep ==
  ASSUME line \in Seq(Tasks), pc \in [Tasks -> Waiting \cup {"done"}], LineOrdered, Closing,
         NEW t \in Tasks, NEW to, Goto(t, to),
         to = "connect_lock" /\ Call(t) = "connect" => ~closed
  PROVE  line' \in Seq(Tasks) /\ LineOrdered'
<1>0. PICK left : left = Left(t)
  OBVIOUS
<1>1. /\ left \in Seq(Tasks)
      /\ \A i \in DOMAIN left : left[i] # t /\ \E k \in DOMAIN line : left[i] = line[k]
      /\ \A i, j \in DOMAIN left : i < j =>
           \E k, l \in DOMAIN line : k < l /\ left[i] = line[k] /\ left[j] = line[l]
      /\ \A u \in Tasks : u # t /\ InLine(u) => \E i \in DOMAIN left : left[i] = u
  BY <1>0, LeftFacts DEF LineOrdered
<1>2. /\ pc' = [pc EXCEPT ![t] = to]
      /\ line' = IF to = "connect_lock" THEN Append(left, t) ELSE left
  BY <1>0 DEF Goto
<1>3. DOMAIN left = 1..Len(left) /\ Len(left) \in Nat /\ DOMAIN line = 1..Len(line)
      /\ Len(line) \in Nat
  BY <1>1, LenProperties
<1>4. \A i \in DOMAIN left : left[i] \in Tasks \ {t} /\ pc'[left[i]] = "connect_lock"
  <2> SUFFICES ASSUME NEW i \in DOMAIN left
               PROVE  left[i] \in Tasks \ {t} /\ pc'[left[i]] = "connect_lock"
    OBVIOUS
  <2>1. left[i] \in Tasks /\ left[i] # t
    BY <1>1, <1>3, ElementOfSeq
  <2>2. pc[left[i]] = "connect_lock"
    BY <1>1 DEF LineOrdered
  <2>. QED
    BY <1>2, <2>1, <2>2
<1>5. \A i, j \in DOMAIN left : left[i] = left[j] => i = j
  <2> SUFFICES ASSUME NEW i \in DOMAIN left, NEW j \in DOMAIN left, i < j
               PROVE  left[i] # left[j]
    BY <1>3
  <2>1. PICK k, l \in DOMAIN line : k < l /\ left[i] = line[k] /\ left[j] = line[l]
    BY <1>1
  <2>. QED
    BY <1>3, <2>1 DEF LineOrdered
<1>6. \A i, j \in DOMAIN left :
        i < j /\ Call(left[i]) = "close" => Call(left[j]) # "connect"
  <2> SUFFICES ASSUME NEW i \in DOMAIN left, NEW j \in DOMAIN left, i < j,
                      Call(left[i]) = "close"
               PROVE  Call(left[j]) # "connect"
    OBVIOUS
  <2>1. PICK k, l \in DOMAIN line : k < l /\ left[i] = line[k] /\ left[j] = line[l]
    BY <1>1
  <2>. QED
    BY <2>1 DEF LineOrdered
<1>7. \A u \in Tasks : u # t /\ pc'[u] = "connect_lock" => \E i \in DOMAIN left : left[i] = u
  BY <1>1, <1>2 DEF LineOrdered
<1>8. CASE to # "connect_lock"
  <2>1. line' = left /\ pc'[t] # "connect_lock"
    BY <1>2, <1>8
  <2>2. \A u \in Tasks : pc'[u] = "connect_lock" => InLine(u)'
    BY <1>7, <2>1 DEF InLine
  <2>. QED
    BY <1>1, <1>4, <1>5, <1>6, <2>1, <2>2 DEF LineOrdered
<1>9. CASE to = "connect_lock"
  <2>1. /\ line' = Append(left, t) /\ line' \in Seq(Tasks)
        /\ DOMAIN line' = 1..(Len(left) + 1) /\ Len(left) + 1 \in DOMAIN line'
        /\ line'[Len(left) + 1] = t /\ \A i \in DOMAIN left : line'[i] = left[i]
    BY <1>1, <1>2, <1>3, <1>9
  <2>2. \A i \in DOMAIN line' : i \in DOMAIN left \/ i = Len(left) + 1
    BY <1>3, <2>1
  <2>3. pc'[t] = "connect_lock"
    BY <1>2, <1>9
  <2>4. \A i \in DOMAIN line' : pc'[line'[i]] = "connect_lock"
    BY <1>4, <2>1, <2>2, <2>3
  <2>5. \A i, j \in DOMAIN line' : line'[i] = line'[j] => i = j
    BY <1>4, <1>5, <2>1, <2>2
  <2>6. \A u \in Tasks : pc'[u] = "connect_lock" => InLine(u)'
    <3>1. \A u \in Tasks : pc'[u] = "connect_lock" => \E i \in DOMAIN line' : line'[i] = u
      BY <1>3, <1>7, <2>1
    <3>. QED
      BY <3>1 DEF InLine
  <2>7. ASSUME NEW i \in DOMAIN line', NEW j \in DOMAIN line', i < j, Call(line'[i]) = "close"
        PROVE  Call(line'[j]) # "connect"
    <3>1. i \in DOMAIN left
      BY <1>3, <2>1, <2>2, <2>7
    <3>2. CASE j \in DOMAIN left
      BY <1>6, <2>1, <2>7, <3>1, <3>2
    <3>3. CASE j = Len(left) + 1
      <4>1. PICK k \in DOMAIN line : left[i] = line[k]
        BY <1>1, <3>1
      <4>2. pc[left[i]] = "connect_lock" /\ Call(left[i]) = "close" /\ left[i] \in Tasks
        BY <1>4, <2>1, <2>7, <3>1, <4>1 DEF LineOrdered
      <4>3. closed
        BY <4>2 DEF Closing
      <4>. QED
        BY <1>9, <2>1, <3>3, <4>3
    <3>. QED
      BY <2>2, <3>2, <3>3
  <2>. QED
    BY <2>1, <2>4, <2>5, <2>6, <2>7 DEF LineOrdered
<1>. QED
  BY <1>8, <1>9
-----------------------------------------------------------------------------
(* Each step keeps each part of the invariant. *)

\* The operation at the head of the wire, and what is behind it.
LEMMA WireFacts ==
  ASSUME TypeOK, wire # <<>>
  PROVE  /\ DOMAIN wire = 1..Len(wire) /\ Len(wire) \in Nat \ {0} /\ Head(wire) = wire[1]
         /\ Head(wire) \in Operations /\ Head(wire).by \in Tasks
         /\ Head(wire).id \in 0..IdSpace - 1 /\ Head(wire).compact \in BOOLEAN
         /\ Tail(wire) \in Seq(Operations) /\ Len(Tail(wire)) = Len(wire) - 1
         /\ DOMAIN Tail(wire) = 1..(Len(wire) - 1)
         /\ \A i \in 1..(Len(wire) - 1) : Tail(wire)[i] = wire[i + 1]
<1>1. wire \in Seq(Operations)
  BY DEF TypeOK
<1>2. Len(wire) \in Nat \ {0} /\ DOMAIN wire = 1..Len(wire)
  BY <1>1, LenProperties, EmptySeq
<1>3. Head(wire) \in Operations /\ Head(wire) = wire[1]
  BY <1>1, HeadTailProperties
<1>. HIDE DEF Operations
<1>4. /\ Tail(wire) \in Seq(Operations) /\ Len(Tail(wire)) = Len(wire) - 1
      /\ \A i \in 1..Len(Tail(wire)) : Tail(wire)[i] = wire[i + 1]
  BY <1>1, HeadTailProperties
<1>5. DOMAIN Tail(wire) = 1..(Len(wire) - 1)
  BY <1>4, LenProperties
<1>6. \A operation \in Operations :
        /\ operation.by \in Tasks /\ operation.id \in 0..IdSpace - 1
        /\ operation.compact \in BOOLEAN
  BY DEF Operations
<1>. QED
  BY <1>2, <1>3, <1>4, <1>5, <1>6

\* Operations on the wire are of calls.
LEMMA WireBy ==
  ASSUME TypeOK
  PROVE  \A i \in DOMAIN wire : wire[i].by \in Tasks
<1>1. wire \in Seq(Operations)
  BY DEF TypeOK
<1>. HIDE DEF Operations
<1>2. \A i \in DOMAIN wire : wire[i] \in Operations
  BY <1>1, LenProperties, ElementOfSeq
<1>. QED
  BY <1>2 DEF Operations

\* A call goes where calls of its kind go.
LEMMA Goes ==
  ASSUME TypeOK, Places, NEW t \in Tasks, NEW to, Goto(t, to), Place(t, to)
  PROVE  Places'
BY DEF TypeOK, Places, Place, Goto, Requests

\* Every step leaves each call at a place of its kind.
LEMMA PlacesKept ==
  ASSUME TypeOK, Places, [Next]_vars
  PROVE  Places'
<1>1. ASSUME NEW t \in Tasks, Begin(t) PROVE Places'
  BY <1>1, Goes DEF Begin, End, Places, Place, Requests, Closers
<1>2. ASSUME NEW t \in Tasks, AcquireRequest(t) PROVE Places'
  BY <1>2, Goes DEF AcquireRequest, End, Places, Place
<1>3. ASSUME NEW t \in Tasks, TakeClient(t) PROVE Places'
  BY <1>3, Goes DEF TakeClient, End, Places, Place
<1>4. ASSUME NEW t \in Tasks, Closed(t) PROVE Places'
  BY <1>4, Goes DEF Closed, End, Places, Place
<1>5. ASSUME NEW t \in Tasks, StartConnect(t) PROVE Places'
  BY <1>5, Goes DEF StartConnect, End, Places, Place
<1>6. ASSUME NEW t \in Tasks, AcquirePairing(t) PROVE Places'
  BY <1>6, Goes DEF AcquirePairing, End, Places, Place
<1>7. ASSUME NEW t \in Tasks, Forgotten(t) PROVE Places'
  BY <1>7, Goes DEF Forgotten, End, Places, Place
<1>8. ASSUME NEW t \in Tasks, Paired(t) PROVE Places'
  BY <1>8, Goes DEF Paired, End, Places, Place
<1>9. ASSUME NEW t \in Tasks, Opened(t) PROVE Places'
  BY <1>9, Goes DEF Opened, End, Places, Place
<1>10. ASSUME NEW t \in Tasks, Disposed(t) PROVE Places'
  BY <1>10, Goes DEF Disposed, DisposalEnds, End, Places, Place
<1>11. ASSUME NEW t \in Tasks, ExchangeFails(t) PROVE Places'
  BY <1>11, Goes DEF ExchangeFails, End, Places, Place
<1>12. ASSUME NEW t \in Tasks, PairFails(t) PROVE Places'
  BY <1>12, Goes DEF PairFails, End, Places, Place
<1>13. ASSUME NEW t \in Tasks, OpenFails(t) PROVE Places'
  BY <1>13, Goes DEF OpenFails, End, Places, Place
<1>14. ASSUME NEW t \in Tasks, Cancel(t) PROVE Places'
  BY <1>14, Goes DEF Cancel, End, AtOpen, Places, Place
<1>15. ASSUME AttWrite PROVE Places'
  <2> DEFINE t == Head(wire).by
  <2>1. CASE pc' = pc
    BY <2>1 DEF Places, Place, Requests
  <2>2. CASE pc[t] = "write" /\ Goto(t, "read")
    BY <2>2, <1>15, WireFacts, Goes DEF AttWrite, Places, Place
  <2>. QED
    BY <2>1, <2>2, <1>15 DEF AttWrite
<1>16. ASSUME AttRead PROVE Places'
  <2> DEFINE t == Head(wire).by
  <2>1. t \in Tasks
    BY <1>16, WireFacts DEF AttRead
  <2>2. \/ pc' = pc
        \/ pc[t] = "read" /\ \E to \in {"request_lock", "done"} : Goto(t, to)
    BY <1>16 DEF AttRead, End
  <2>3. CASE pc' = pc
    BY <2>3 DEF Places, Place, Requests
  <2>4. CASE pc[t] = "read" /\ \E to \in {"request_lock", "done"} : Goto(t, to)
    BY <2>1, <2>4, Goes DEF Places, Place, Requests
  <2>. QED
    BY <2>2, <2>3, <2>4
<1>17. ASSUME LinkDrops PROVE Places'
  BY <1>17 DEF LinkDrops, Places
<1>18. CASE UNCHANGED vars
  BY <1>18 DEF vars, Places, Place, Requests
<1>19. ASSUME NEW t \in Tasks, CloseFails(t) PROVE Places'
  BY <1>19, Goes DEF CloseFails, End, Places, Place
<1>20. ASSUME NEW t \in Tasks, DisposeFails(t) PROVE Places'
  BY <1>20, Goes DEF DisposeFails, DisposalEnds, End, Places, Place
<1>. QED
  BY <1>1, <1>2, <1>3, <1>4, <1>5, <1>6, <1>7, <1>8, <1>9, <1>10, <1>11, <1>12, <1>13,
     <1>14, <1>15, <1>16, <1>17, <1>18, <1>19, <1>20 DEF Next, Step

\* Who goes somewhere keeps the locks that the place takes, and no one else
\* loses his.
LEMMA Holds ==
  ASSUME TypeOK, LocksHeld, NEW t \in Tasks, NEW to, Goto(t, to),
         \A u \in Tasks \ {t}, l \in {"request", "connect"} : lock[l] = u => lock'[l] = u,
         to \in {"write", "read"} => lock'["request"] = t,
         Connects(t, to) => lock'["connect"] = t
  PROVE  LocksHeld'
<1>1. pc' = [pc EXCEPT ![t] = to] /\ pc \in [Tasks -> Waiting \cup {"done"}]
  BY DEF Goto, TypeOK
<1>2. ASSUME NEW u \in Tasks
      PROVE  /\ pc'[u] \in {"write", "read"} => lock'["request"] = u
             /\ Connects(u, pc'[u]) => lock'["connect"] = u
  <2>1. CASE u = t
    BY <1>1, <2>1
  <2>2. CASE u # t
    BY <1>1, <2>2 DEF LocksHeld
  <2>. QED
    BY <2>1, <2>2
<1>. QED
  BY <1>2 DEF LocksHeld, Connects

\* What a grant and the end of a call do to the locks of others.
LEMMA LockFacts ==
  ASSUME TypeOK, NEW t \in Tasks
  PROVE  /\ \A l \in Locks : lock[l] = Free => \A u \in Tasks : lock[l] # u
         /\ \A u \in Tasks \ {t}, l \in Locks : lock[l] = u => Released(t)[l] = u
         /\ \A l \in Locks : lock[l] = Free /\ Take(t, l) =>
              /\ lock'[l] = t
              /\ \A u \in Tasks, k \in Locks : lock[k] = u => lock'[k] = u
BY CallAssumption DEF TypeOK, Released, Take, Locks

\* Every step leaves each call that needs a lock its owner.
LEMMA LocksKept ==
  ASSUME TypeOK, Places, LocksHeld, [Next]_vars
  PROVE  LocksHeld'
<1>1. ASSUME NEW t \in Tasks, Begin(t) PROVE LocksHeld'
  BY <1>1, Holds, LockFacts DEF Begin, End, LocksHeld, Connects, Locks
<1>2. ASSUME NEW t \in Tasks, AcquireRequest(t) PROVE LocksHeld'
  BY <1>2, Holds, LockFacts DEF AcquireRequest, End, LocksHeld, Connects, Locks
<1>3. ASSUME NEW t \in Tasks, TakeClient(t) PROVE LocksHeld'
  BY <1>3, Holds, LockFacts DEF TakeClient, End, LocksHeld, Connects, Locks, Place, Places
<1>4. ASSUME NEW t \in Tasks, Closed(t) PROVE LocksHeld'
  BY <1>4, Holds, LockFacts DEF Closed, End, LocksHeld, Connects, Locks
<1>5. ASSUME NEW t \in Tasks, StartConnect(t) PROVE LocksHeld'
  BY <1>5, Holds, LockFacts DEF StartConnect, End, LocksHeld, Connects, Locks, Place, Places
<1>6. ASSUME NEW t \in Tasks, AcquirePairing(t) PROVE LocksHeld'
  BY <1>6, Holds, LockFacts DEF AcquirePairing, End, LocksHeld, Connects, Locks, Place, Places
<1>7. ASSUME NEW t \in Tasks, Forgotten(t) PROVE LocksHeld'
  BY <1>7, Holds, LockFacts DEF Forgotten, End, LocksHeld, Connects, Locks
<1>8. ASSUME NEW t \in Tasks, Paired(t) PROVE LocksHeld'
  BY <1>8, Holds DEF Paired, TypeOK, LocksHeld, Connects, Locks
<1>9. ASSUME NEW t \in Tasks, Opened(t) PROVE LocksHeld'
  BY <1>9, Holds, LockFacts DEF Opened, End, LocksHeld, Connects, Locks
<1>10. ASSUME NEW t \in Tasks, Disposed(t) PROVE LocksHeld'
  BY <1>10, Holds, LockFacts DEF Disposed, DisposalEnds, End, LocksHeld, Connects, Locks
<1>11. ASSUME NEW t \in Tasks, ExchangeFails(t) PROVE LocksHeld'
  BY <1>11, Holds, LockFacts DEF ExchangeFails, End, LocksHeld, Connects, Locks, Place, Places
<1>12. ASSUME NEW t \in Tasks, PairFails(t) PROVE LocksHeld'
  BY <1>12, Holds, LockFacts DEF PairFails, End, LocksHeld, Connects, Locks
<1>13. ASSUME NEW t \in Tasks, OpenFails(t) PROVE LocksHeld'
  BY <1>13, Holds, LockFacts DEF OpenFails, End, LocksHeld, Connects, Locks
<1>14. ASSUME NEW t \in Tasks, Cancel(t) PROVE LocksHeld'
  BY <1>14, Holds, LockFacts DEF Cancel, End, AtOpen, LocksHeld, Connects, Locks
<1>15. ASSUME AttWrite PROVE LocksHeld'
  <2> DEFINE t == Head(wire).by
  <2>1. CASE pc' = pc
    BY <2>1, <1>15 DEF AttWrite, LocksHeld, Connects
  <2>2. CASE pc[t] = "write" /\ Goto(t, "read")
    BY <2>2, <1>15, WireFacts, Holds DEF AttWrite, LocksHeld, Connects
  <2>. QED
    BY <2>1, <2>2, <1>15 DEF AttWrite
<1>16. ASSUME AttRead PROVE LocksHeld'
  <2> DEFINE t == Head(wire).by
  <2>1. t \in Tasks
    BY <1>16, WireFacts DEF AttRead
  <2>2. \/ pc' = pc /\ lock' = lock
        \/ pc[t] = "read" /\ lock' = Released(t) /\ \E to \in {"request_lock", "done"} : Goto(t, to)
    BY <1>16 DEF AttRead, End
  <2>3. CASE pc' = pc /\ lock' = lock
    BY <2>3 DEF LocksHeld, Connects
  <2>4. ASSUME lock' = Released(t), NEW to \in {"request_lock", "done"}, Goto(t, to)
        PROVE  LocksHeld'
    BY <2>1, <2>4, Holds, LockFacts DEF Connects, Locks
  <2>. QED
    BY <2>2, <2>3, <2>4
<1>17. ASSUME LinkDrops PROVE LocksHeld'
  BY <1>17 DEF LinkDrops, LocksHeld, Connects
<1>18. CASE UNCHANGED vars
  BY <1>18 DEF vars, LocksHeld, Connects
<1>19. ASSUME NEW t \in Tasks, CloseFails(t) PROVE LocksHeld'
  BY <1>19, Holds, LockFacts DEF CloseFails, End, LocksHeld, Connects, Locks
<1>20. ASSUME NEW t \in Tasks, DisposeFails(t) PROVE LocksHeld'
  BY <1>20, Holds, LockFacts DEF DisposeFails, DisposalEnds, End, LocksHeld, Connects, Locks
<1>. QED
  BY <1>1, <1>2, <1>3, <1>4, <1>5, <1>6, <1>7, <1>8, <1>9, <1>10, <1>11, <1>12, <1>13,
     <1>14, <1>15, <1>16, <1>17, <1>18, <1>19, <1>20 DEF Next, Step

\* Every step leaves the line for the connect lock in order.
LEMMA LineKept ==
  ASSUME TypeOK, Places, LineOrdered, Closing, [Next]_vars
  PROVE  line' \in Seq(Tasks) /\ LineOrdered'
<1>0. line \in Seq(Tasks) /\ pc \in [Tasks -> Waiting \cup {"done"}]
  BY DEF TypeOK
<1>1. ASSUME NEW t \in Tasks, Begin(t) PROVE line' \in Seq(Tasks) /\ LineOrdered'
  BY <1>1, <1>0, LineStep DEF Begin, End, Refused
<1>2. ASSUME NEW t \in Tasks, AcquireRequest(t) PROVE line' \in Seq(Tasks) /\ LineOrdered'
  BY <1>2, <1>0, LineStep DEF AcquireRequest, End, Places, Place
<1>3. ASSUME NEW t \in Tasks, TakeClient(t) PROVE line' \in Seq(Tasks) /\ LineOrdered'
  BY <1>3, <1>0, LineStep DEF TakeClient, End
<1>4. ASSUME NEW t \in Tasks, Closed(t) PROVE line' \in Seq(Tasks) /\ LineOrdered'
  BY <1>4, <1>0, LineStep DEF Closed, End
<1>5. ASSUME NEW t \in Tasks, StartConnect(t) PROVE line' \in Seq(Tasks) /\ LineOrdered'
  BY <1>5, <1>0, LineStep DEF StartConnect, End
<1>6. ASSUME NEW t \in Tasks, AcquirePairing(t) PROVE line' \in Seq(Tasks) /\ LineOrdered'
  BY <1>6, <1>0, LineStep DEF AcquirePairing, End
<1>7. ASSUME NEW t \in Tasks, Forgotten(t) PROVE line' \in Seq(Tasks) /\ LineOrdered'
  BY <1>7, <1>0, LineStep DEF Forgotten, End
<1>8. ASSUME NEW t \in Tasks, Paired(t) PROVE line' \in Seq(Tasks) /\ LineOrdered'
  BY <1>8, <1>0, LineStep DEF Paired, End
<1>9. ASSUME NEW t \in Tasks, Opened(t) PROVE line' \in Seq(Tasks) /\ LineOrdered'
  BY <1>9, <1>0, LineStep DEF Opened, End
<1>10. ASSUME NEW t \in Tasks, Disposed(t) PROVE line' \in Seq(Tasks) /\ LineOrdered'
  BY <1>10, <1>0, LineStep DEF Disposed, DisposalEnds, End
<1>11. ASSUME NEW t \in Tasks, ExchangeFails(t) PROVE line' \in Seq(Tasks) /\ LineOrdered'
  BY <1>11, <1>0, LineStep DEF ExchangeFails, Places, Place, Requests
<1>12. ASSUME NEW t \in Tasks, PairFails(t) PROVE line' \in Seq(Tasks) /\ LineOrdered'
  BY <1>12, <1>0, LineStep DEF PairFails, End
<1>13. ASSUME NEW t \in Tasks, OpenFails(t) PROVE line' \in Seq(Tasks) /\ LineOrdered'
  BY <1>13, <1>0, LineStep DEF OpenFails, End
<1>14. ASSUME NEW t \in Tasks, Cancel(t) PROVE line' \in Seq(Tasks) /\ LineOrdered'
  BY <1>14, <1>0, LineStep DEF Cancel, End, AtOpen
<1>15. ASSUME AttWrite PROVE line' \in Seq(Tasks) /\ LineOrdered'
  <2> DEFINE t == Head(wire).by
  <2>1. CASE pc' = pc /\ line' = line
    BY <2>1, <1>0 DEF LineOrdered, InLine
  <2>2. CASE Goto(t, "read")
    BY <2>2, <1>0, <1>15, WireFacts, <1>0, LineStep DEF AttWrite
  <2>. QED
    BY <2>1, <2>2, <1>15 DEF AttWrite
<1>16. ASSUME AttRead PROVE line' \in Seq(Tasks) /\ LineOrdered'
  <2> DEFINE t == Head(wire).by
  <2>1. t \in Tasks
    BY <1>16, WireFacts DEF AttRead
  <2>2. \/ pc' = pc /\ line' = line
        \/ \E to \in {"request_lock", "done"} : Goto(t, to)
    BY <1>16 DEF AttRead, End
  <2>3. CASE pc' = pc /\ line' = line
    BY <2>3, <1>0 DEF LineOrdered, InLine
  <2>4. CASE \E to \in {"request_lock", "done"} : Goto(t, to)
    BY <2>1, <2>4, <1>0, LineStep
  <2>. QED
    BY <2>2, <2>3, <2>4
<1>17. ASSUME LinkDrops PROVE line' \in Seq(Tasks) /\ LineOrdered'
  BY <1>17, <1>0 DEF LinkDrops, LineOrdered, InLine
<1>18. CASE UNCHANGED vars
  BY <1>18, <1>0 DEF vars, LineOrdered, InLine
<1>19. ASSUME NEW t \in Tasks, CloseFails(t) PROVE line' \in Seq(Tasks) /\ LineOrdered'
  BY <1>19, <1>0, LineStep DEF CloseFails, End
<1>20. ASSUME NEW t \in Tasks, DisposeFails(t) PROVE line' \in Seq(Tasks) /\ LineOrdered'
  BY <1>20, <1>0, LineStep DEF DisposeFails, DisposalEnds, End
<1>. QED
  BY <1>1, <1>2, <1>3, <1>4, <1>5, <1>6, <1>7, <1>8, <1>9, <1>10, <1>11, <1>12, <1>13,
     <1>14, <1>15, <1>16, <1>17, <1>18, <1>19, <1>20 DEF Next, Step

\* One exchange at a time: they hold the request lock.
LEMMA OneExchange ==
  ASSUME LocksHeld, NEW t \in Tasks, NEW u \in Tasks,
         pc[t] \in {"write", "read"}, pc[u] \in {"write", "read"}
  PROVE  t = u
BY DEF LocksHeld

\* Steps off the wire leave it alone.
LEMMA WireStays ==
  ASSUME TypeOK, OwnIsLast, NEW t \in Tasks, NEW to, Goto(t, to),
         to \notin {"start", "write", "read"}, to = "request_lock" => pc[t] = "start",
         \A u \in Tasks \ {t} : id'[u] = id[u] /\ format'[u] = format[u],
         wire' = wire \/ wire' = <<>>, response' = response
  PROVE  OwnIsLast'
<1>1. /\ pc' = [pc EXCEPT ![t] = to] /\ pc \in [Tasks -> Waiting \cup {"done"}]
      /\ \A i \in DOMAIN wire : wire[i].by \in Tasks
  BY WireBy DEF Goto, TypeOK
<1>2. CASE wire' = <<>>
  BY <1>1, <1>2 DEF OwnIsLast
<1>3. CASE wire' = wire
  <2>1. \A i \in DOMAIN wire : pc'[wire[i].by] \notin {"start", "request_lock"}
    BY <1>1 DEF OwnIsLast
  <2>2. \A u \in Tasks : pc'[u] \in {"write", "read"} => u # t /\ pc'[u] = pc[u]
    BY <1>1
  <2>. QED
    BY <1>3, <2>1, <2>2 DEF OwnIsLast
<1>. QED
  BY <1>2, <1>3

\* Every step leaves the operation a call waits for the last on its way.
LEMMA WireKept ==
  ASSUME TypeOK, Places, LocksHeld, OwnIsLast, [Next]_vars
  PROVE  OwnIsLast'
<1>1. ASSUME NEW t \in Tasks, Begin(t) PROVE OwnIsLast'
  <2>1. /\ wire' = wire /\ response' = response /\ pc[t] = "start"
        /\ \A u \in Tasks \ {t} : id'[u] = id[u] /\ format'[u] = format[u]
    BY <1>1 DEF Begin, TakeId, TypeOK
  <2>2. \E to \in {"request_lock", "connect_lock", "done"} : Goto(t, to)
    BY <1>1 DEF Begin, End
  <2>. QED
    BY <2>1, <2>2, WireStays
<1>2. ASSUME NEW t \in Tasks, AcquireRequest(t) PROVE OwnIsLast'
  <2>1. CASE ~(t \in Requests /\ client # NoBackend)
    BY <1>2, <2>1, WireStays DEF AcquireRequest, End
  <2>2. CASE t \in Requests /\ client # NoBackend
    <3>1. /\ pc[t] = "request_lock" /\ lock["request"] = Free /\ Goto(t, "write")
          /\ Issue(t, "write") /\ response' = response /\ UNCHANGED <<id, format>>
      BY <1>2, <2>2 DEF AcquireRequest
    <3>2. /\ pc' = [pc EXCEPT ![t] = "write"] /\ pc \in [Tasks -> Waiting \cup {"done"}]
          /\ \A u \in Tasks : pc[u] \notin {"write", "read"}
          /\ wire \in Seq(Operations) /\ Len(wire) \in Nat /\ DOMAIN wire = 1..Len(wire)
      <4>1. \A u \in Tasks : pc[u] \notin {"write", "read"}
        BY <3>1, LockFacts DEF LocksHeld, Locks
      <4>. QED
        BY <3>1, <4>1, LenProperties DEF Goto, TypeOK
    <3>3. \A i \in DOMAIN wire : wire[i].by \in Tasks /\ wire[i].by # t
      BY <3>1, <3>2, WireBy DEF OwnIsLast
    <3> DEFINE operation == [op |-> "write", id |-> id[t], by |-> t, compact |-> format[t]]
    <3>4. operation.by = t /\ operation.compact = format[t]
      OBVIOUS
    <3>5. CASE wire' = wire
      BY <3>1, <3>2, <3>3, <3>5 DEF OwnIsLast
    <3>6. CASE wire' = Append(wire, operation)
      <4>. HIDE DEF operation
      <4>1. /\ Len(wire') = Len(wire) + 1 /\ DOMAIN wire' = 1..(Len(wire) + 1)
            /\ wire'[Len(wire) + 1] = operation
            /\ \A i \in 1..Len(wire) : wire'[i] = wire[i]
        BY <3>2, <3>6
      <4>2. \A i \in DOMAIN wire' : pc'[wire'[i].by] \notin {"start", "request_lock"}
        BY <3>2, <3>3, <3>4, <4>1 DEF OwnIsLast
      <4>3. \A u \in Tasks : pc'[u] \in {"write", "read"} => u = t /\ pc'[u] = "write"
        BY <3>2
      <4>4. \A i \in DOMAIN wire' : wire'[i].by = t => i = Len(wire') /\ wire'[i].compact = format'[t]
        BY <3>1, <3>2, <3>3, <3>4, <4>1
      <4>. QED
        BY <4>2, <4>3, <4>4 DEF OwnIsLast
    <3>. QED
      BY <3>1, <3>5, <3>6 DEF Issue
  <2>. QED
    BY <2>1, <2>2
<1>3. ASSUME NEW t \in Tasks, TakeClient(t) PROVE OwnIsLast'
  BY <1>3, WireStays DEF TakeClient, End, link, protocol
<1>4. ASSUME NEW t \in Tasks, Closed(t) PROVE OwnIsLast'
  BY <1>4, WireStays DEF Closed, End, link, protocol
<1>5. ASSUME NEW t \in Tasks, StartConnect(t) PROVE OwnIsLast'
  BY <1>5, WireStays DEF StartConnect, End, link, protocol
<1>6. ASSUME NEW t \in Tasks, AcquirePairing(t) PROVE OwnIsLast'
  BY <1>6, WireStays DEF AcquirePairing, End, link, protocol
<1>7. ASSUME NEW t \in Tasks, Forgotten(t) PROVE OwnIsLast'
  BY <1>7, WireStays DEF Forgotten, End, link, protocol
<1>8. ASSUME NEW t \in Tasks, Paired(t) PROVE OwnIsLast'
  BY <1>8, WireStays DEF Paired, End, link, protocol
<1>9. ASSUME NEW t \in Tasks, Opened(t) PROVE OwnIsLast'
  BY <1>9, WireStays DEF Opened, End, link, protocol
<1>10. ASSUME NEW t \in Tasks, Disposed(t) PROVE OwnIsLast'
  BY <1>10, WireStays DEF Disposed, DisposalEnds, End, link, protocol
<1>11. ASSUME NEW t \in Tasks, ExchangeFails(t) PROVE OwnIsLast'
  <2>1. CASE wire' = wire
    BY <1>11, <2>1, WireStays DEF ExchangeFails
  <2>2. CASE wire # <<>> /\ wire' = Front(wire)
    <3>1. /\ pc' = [pc EXCEPT ![t] = "connect_lock"] /\ pc \in [Tasks -> Waiting \cup {"done"}]
          /\ \A i \in DOMAIN wire : wire[i].by \in Tasks
      BY <1>11, WireBy DEF ExchangeFails, Goto, TypeOK
    <3>2. \A u \in Tasks : pc'[u] \notin {"write", "read"}
      BY <1>11, <3>1, OneExchange DEF ExchangeFails
    <3>3. \A i \in DOMAIN wire' : i \in DOMAIN wire /\ wire'[i] = wire[i]
      BY <2>2, FrontFacts DEF TypeOK
    <3>. QED
      BY <3>1, <3>2, <3>3 DEF OwnIsLast
  <2>. QED
    BY <1>11, <2>1, <2>2 DEF ExchangeFails, Issued
<1>12. ASSUME NEW t \in Tasks, PairFails(t) PROVE OwnIsLast'
  BY <1>12, WireStays DEF PairFails, End, link, protocol
<1>13. ASSUME NEW t \in Tasks, OpenFails(t) PROVE OwnIsLast'
  BY <1>13, WireStays DEF OpenFails, End, link, protocol
<1>14. ASSUME NEW t \in Tasks, Cancel(t) PROVE OwnIsLast'
  BY <1>14, WireStays DEF Cancel, End, link, protocol, AtOpen
<1>15. ASSUME AttWrite PROVE OwnIsLast'
  <2> DEFINE t == Head(wire).by
  <2>1. /\ t \in Tasks /\ wire # <<>> /\ wire[1] = Head(wire) /\ Len(wire) \in Nat \ {0}
        /\ DOMAIN wire = 1..Len(wire) /\ Head(wire).op = "write" /\ UNCHANGED <<id, format>>
        /\ Tail(wire) \in Seq(Operations) /\ Len(Tail(wire)) = Len(wire) - 1
        /\ DOMAIN Tail(wire) = 1..(Len(wire) - 1)
        /\ \A i \in 1..(Len(wire) - 1) : Tail(wire)[i] = wire[i + 1]
    BY <1>15, WireFacts DEF AttWrite
  <2>2. \A u \in Tasks : pc[u] # "read"
    BY <2>1 DEF OwnIsLast
  <2>3. CASE pc' = pc /\ wire' = Tail(wire)
    <3>1. \A i \in DOMAIN wire' : i + 1 \in DOMAIN wire /\ wire'[i] = wire[i + 1]
      BY <2>1, <2>3
    <3>. QED
      BY <2>1, <2>2, <2>3, <3>1 DEF OwnIsLast
  <2>4. CASE /\ pc[t] = "write" /\ id[t] = Head(wire).id /\ Goto(t, "read")
             /\ wire' = Append(Tail(wire), [Head(wire) EXCEPT !.op = "read"])
             /\ response' = [id |-> Head(wire).id, compact |-> Head(wire).compact]
    <3>1. Len(wire) = 1 /\ Head(wire).compact = format[t]
      BY <2>1, <2>4 DEF OwnIsLast
    <3>2. Tail(wire) = <<>>
      BY <2>1, <3>1, EmptySeq
    <3>3. /\ Len(wire') = 1 /\ DOMAIN wire' = {1} /\ wire'[1].op = "read" /\ wire'[1].by = t
      <4> DEFINE answer == [Head(wire) EXCEPT !.op = "read"]
      <4>1. answer.op = "read" /\ answer.by = t
        BY <1>15, WireFacts DEF AttWrite, Operations
      <4>2. wire' = Append(Tail(wire), answer)
        BY <2>4
      <4>. HIDE DEF answer
      <4>3. Append(<<>>, answer) = <<answer>>
        OBVIOUS
      <4>4. wire' = <<answer>>
        BY <3>2, <4>2, <4>3, Zenon
      <4>. QED
        BY <4>1, <4>4
    <3>4. /\ \A u \in Tasks : pc'[u] \in {"write", "read"} => u = t /\ pc'[u] = "read"
          /\ pc'[t] = "read"
      BY <2>1, <2>4, OneExchange DEF Goto, TypeOK
    <3>. QED
      BY <2>1, <2>4, <3>1, <3>3, <3>4 DEF OwnIsLast
  <2>. QED
    BY <1>15, <2>3, <2>4 DEF AttWrite
<1>16. ASSUME AttRead PROVE OwnIsLast'
  <2> DEFINE t == Head(wire).by
  <2>1. /\ t \in Tasks /\ wire # <<>> /\ wire[1] = Head(wire) /\ Len(wire) \in Nat \ {0}
        /\ DOMAIN wire = 1..Len(wire) /\ wire' = Tail(wire) /\ response' = response
        /\ Tail(wire) \in Seq(Operations) /\ Len(Tail(wire)) = Len(wire) - 1
        /\ DOMAIN Tail(wire) = 1..(Len(wire) - 1)
        /\ \A i \in 1..(Len(wire) - 1) : Tail(wire)[i] = wire[i + 1]
    BY <1>16, WireFacts DEF AttRead
  <2>2. ASSUME NEW u \in Tasks, pc[u] = "read"
        PROVE  wire' = <<>>
    <3>1. Len(wire) = 1
      BY <2>1, <2>2 DEF OwnIsLast
    <3>. QED
      BY <2>1, <3>1, EmptySeq
  <2>3. CASE pc' = pc /\ id' = id /\ format' = format
    <3>1. \A i \in DOMAIN wire' : i + 1 \in DOMAIN wire /\ wire'[i] = wire[i + 1]
      BY <2>1
    <3>. QED
      BY <2>1, <2>2, <2>3, <3>1 DEF OwnIsLast
  <2>4. CASE pc[t] = "read"
    BY <2>1, <2>2, <2>4 DEF OwnIsLast
  <2>. QED
    BY <1>16, <2>3, <2>4 DEF AttRead
<1>17. ASSUME LinkDrops PROVE OwnIsLast'
  BY <1>17 DEF LinkDrops, OwnIsLast
<1>18. CASE UNCHANGED vars
  BY <1>18 DEF vars, protocol, OwnIsLast
<1>19. ASSUME NEW t \in Tasks, CloseFails(t) PROVE OwnIsLast'
  BY <1>19, WireStays DEF CloseFails, End, link, protocol
<1>20. ASSUME NEW t \in Tasks, DisposeFails(t) PROVE OwnIsLast'
  BY <1>20, WireStays DEF DisposeFails, DisposalEnds, End, link, protocol
<1>. QED
  BY <1>1, <1>2, <1>3, <1>4, <1>5, <1>6, <1>7, <1>8, <1>9, <1>10, <1>11, <1>12, <1>13,
     <1>14, <1>15, <1>16, <1>17, <1>18, <1>19, <1>20 DEF Next, Step

\* So nobody takes a response that is not his own.
LEMMA ResponseKept ==
  ASSUME TypeOK, OwnIsLast, OwnResponse, [Next]_vars
  PROVE  OwnResponse'
<1>1. ASSUME NEW t \in Tasks, Begin(t) PROVE OwnResponse'
  BY <1>1 DEF Begin, End, TypeOK, OwnResponse
<1>2. ASSUME NEW t \in Tasks, AcquireRequest(t) PROVE OwnResponse'
  BY <1>2 DEF AcquireRequest, End, TypeOK, OwnResponse
<1>3. ASSUME NEW t \in Tasks, TakeClient(t) PROVE OwnResponse'
  BY <1>3 DEF TakeClient, End, TypeOK, OwnResponse
<1>4. ASSUME NEW t \in Tasks, Closed(t) PROVE OwnResponse'
  BY <1>4 DEF Closed, End, TypeOK, OwnResponse
<1>5. ASSUME NEW t \in Tasks, StartConnect(t) PROVE OwnResponse'
  BY <1>5 DEF StartConnect, End, TypeOK, OwnResponse
<1>6. ASSUME NEW t \in Tasks, AcquirePairing(t) PROVE OwnResponse'
  BY <1>6 DEF AcquirePairing, End, TypeOK, OwnResponse
<1>7. ASSUME NEW t \in Tasks, Forgotten(t) PROVE OwnResponse'
  BY <1>7 DEF Forgotten, End, TypeOK, OwnResponse
<1>8. ASSUME NEW t \in Tasks, Paired(t) PROVE OwnResponse'
  BY <1>8 DEF Paired, End, TypeOK, OwnResponse
<1>9. ASSUME NEW t \in Tasks, Opened(t) PROVE OwnResponse'
  BY <1>9 DEF Opened, End, TypeOK, OwnResponse
<1>10. ASSUME NEW t \in Tasks, Disposed(t) PROVE OwnResponse'
  BY <1>10 DEF Disposed, DisposalEnds, End, TypeOK, OwnResponse
<1>11. ASSUME NEW t \in Tasks, ExchangeFails(t) PROVE OwnResponse'
  BY <1>11 DEF ExchangeFails, End, TypeOK, OwnResponse
<1>12. ASSUME NEW t \in Tasks, PairFails(t) PROVE OwnResponse'
  BY <1>12 DEF PairFails, End, TypeOK, OwnResponse
<1>13. ASSUME NEW t \in Tasks, OpenFails(t) PROVE OwnResponse'
  BY <1>13 DEF OpenFails, End, TypeOK, OwnResponse
<1>14. ASSUME NEW t \in Tasks, Cancel(t) PROVE OwnResponse'
  BY <1>14 DEF Cancel, End, TypeOK, OwnResponse, AtOpen
<1>15. ASSUME AttWrite PROVE OwnResponse'
  BY <1>15 DEF AttWrite, End, TypeOK, OwnResponse
<1>16. ASSUME AttRead PROVE OwnResponse'
  <2> DEFINE t == Head(wire).by
  <2>1. t \in Tasks /\ (pc[t] = "read" => response.id = id[t])
    BY <1>16, WireFacts DEF AttRead, OwnIsLast
  <2>2. result' = result \/ \E r \in {"returned", "raised"} : result' = [result EXCEPT ![t] = r]
    BY <2>1, <1>16 DEF AttRead, End
  <2>. QED
    BY <2>1, <2>2 DEF TypeOK, OwnResponse
<1>17. ASSUME LinkDrops PROVE OwnResponse'
  BY <1>17 DEF LinkDrops, End, TypeOK, OwnResponse
<1>18. CASE UNCHANGED vars
  BY <1>18 DEF vars, OwnResponse
<1>19. ASSUME NEW t \in Tasks, CloseFails(t) PROVE OwnResponse'
  BY <1>19 DEF CloseFails, End, TypeOK, OwnResponse
<1>20. ASSUME NEW t \in Tasks, DisposeFails(t) PROVE OwnResponse'
  BY <1>20 DEF DisposeFails, DisposalEnds, End, TypeOK, OwnResponse
<1>. QED
  BY <1>1, <1>2, <1>3, <1>4, <1>5, <1>6, <1>7, <1>8, <1>9, <1>10, <1>11, <1>12, <1>13,
     <1>14, <1>15, <1>16, <1>17, <1>18, <1>19, <1>20 DEF Next, Step

\* The first in the line waits for the connect lock.
LEMMA FirstInLine ==
  ASSUME TypeOK, LineOrdered, line # <<>>
  PROVE  /\ line[1] = Head(line) /\ 1 \in DOMAIN line
         /\ Head(line) \in Tasks /\ pc[Head(line)] = "connect_lock"
<1>1. line \in Seq(Tasks)
  BY DEF TypeOK
<1>2. line[1] = Head(line) /\ 1 \in DOMAIN line /\ Head(line) \in Tasks
  BY <1>1, LenProperties, EmptySeq, HeadTailProperties
<1>. QED
  BY <1>2 DEF LineOrdered

\* Steps that learn nothing leave the chunk format alone.
LEMMA LearntStays ==
  ASSUME TypeOK, Learnt, NEW t \in Tasks, NEW to, Goto(t, to),
         pc[t] # "start", format' = format, compact' = compact
  PROVE  Learnt'
BY DEF TypeOK, Learnt, Goto

\* What is learnt of the firmware stays true.
LEMMA LearntKept ==
  ASSUME TypeOK, LineOrdered, OwnIsLast, Learnt, [Next]_vars
  PROVE  Learnt'
<1>1. ASSUME NEW t \in Tasks, Begin(t) PROVE Learnt'
  <2>1. /\ compact' = compact /\ pc[t] = "start"
        /\ IF t \in Requests
           THEN format' = [format EXCEPT ![t] = Call(t) = "chunk" /\ compact # "no"]
           ELSE format' = format
    BY <1>1 DEF Begin, Requests, Closers
  <2>2. \A u \in Tasks : u # t => pc'[u] = pc[u] /\ format'[u] = format[u]
    BY <1>1, <2>1 DEF Begin, End, Goto, TypeOK
  <2>3. Call(t) = "chunk" /\ ~format'[t] => compact = "no"
    BY <2>1 DEF Requests, TypeOK
  <2>. QED
    BY <2>1, <2>2, <2>3 DEF Learnt
<1>2. ASSUME NEW t \in Tasks, AcquireRequest(t) PROVE Learnt'
  BY <1>2, LearntStays DEF AcquireRequest, End, protocol
<1>3. ASSUME NEW t \in Tasks, TakeClient(t) PROVE Learnt'
  BY <1>3, FirstInLine, LearntStays DEF TakeClient, protocol
<1>4. ASSUME NEW t \in Tasks, Closed(t) PROVE Learnt'
  BY <1>4, LearntStays DEF Closed, End, protocol
<1>5. ASSUME NEW t \in Tasks, StartConnect(t) PROVE Learnt'
  BY <1>5, FirstInLine, LearntStays DEF StartConnect, End, protocol
<1>6. ASSUME NEW t \in Tasks, AcquirePairing(t) PROVE Learnt'
  BY <1>6, LearntStays DEF AcquirePairing, End, protocol
<1>7. ASSUME NEW t \in Tasks, Forgotten(t) PROVE Learnt'
  BY <1>7, LearntStays DEF Forgotten, End, protocol
<1>8. ASSUME NEW t \in Tasks, Paired(t) PROVE Learnt'
  BY <1>8, LearntStays DEF Paired, End, protocol
<1>9. ASSUME NEW t \in Tasks, Opened(t) PROVE Learnt'
  BY <1>9, LearntStays DEF Opened, End, protocol
<1>10. ASSUME NEW t \in Tasks, Disposed(t) PROVE Learnt'
  BY <1>10, LearntStays DEF Disposed, DisposalEnds, End, protocol
<1>11. ASSUME NEW t \in Tasks, ExchangeFails(t) PROVE Learnt'
  BY <1>11, LearntStays DEF ExchangeFails, End, protocol
<1>12. ASSUME NEW t \in Tasks, PairFails(t) PROVE Learnt'
  BY <1>12, LearntStays DEF PairFails, End, protocol
<1>13. ASSUME NEW t \in Tasks, OpenFails(t) PROVE Learnt'
  BY <1>13, LearntStays DEF OpenFails, End, protocol
<1>14. ASSUME NEW t \in Tasks, Cancel(t) PROVE Learnt'
  BY <1>14, LearntStays DEF Cancel, End, protocol, AtOpen
<1>15. ASSUME AttWrite PROVE Learnt'
  BY <1>15, WireFacts, LearntStays DEF AttWrite, Learnt
<1>16. ASSUME AttRead PROVE Learnt'
  <2> DEFINE t == Head(wire).by
             unknown == response.compact /\ ~SupportsCompact
  <2>1. /\ t \in Tasks /\ wire # <<>>
        /\ pc[t] = "read" => response.compact = format[t]
    BY <1>16, WireFacts DEF AttRead, OwnIsLast
  <2>2. CASE pc' = pc /\ format' = format /\ compact' = compact
    BY <2>2 DEF Learnt
  <2>3. CASE /\ pc[t] = "read" /\ unknown /\ compact' = "no"
             /\ format' = [format EXCEPT ![t] = FALSE]
             /\ \E to \in {"request_lock", "done"} : Goto(t, to)
    <3>1. \A u \in Tasks : pc'[u] # "start" => pc[u] # "start"
      BY <2>1, <2>3 DEF Goto, TypeOK
    <3>. QED
      BY <2>1, <2>3, <3>1 DEF Learnt
  <2>4. CASE /\ pc[t] = "read" /\ ~unknown /\ format' = format /\ Goto(t, "done")
             /\ compact' = IF Call(t) # "chunk" THEN compact
                           ELSE IF response.compact THEN "yes" ELSE "no"
    <3>1. \A u \in Tasks : pc'[u] # "start" => pc[u] # "start"
      BY <2>1, <2>4 DEF Goto, TypeOK
    <3>2. Call(t) = "chunk" /\ ~response.compact => compact = "no"
      BY <2>1, <2>4 DEF Learnt
    <3>3. Call(t) = "chunk" /\ response.compact => compact # "no" /\ SupportsCompact
      BY <2>4 DEF Learnt
    <3>. QED
      BY <2>4, <3>1, <3>2, <3>3 DEF Learnt
  <2>5. CASE pc[t] = "read" /\ Goto(t, "done") /\ format' = format /\ compact' = compact
    BY <2>1, <2>5 DEF Learnt, Goto, TypeOK
  <2>. QED
    BY <1>16, <2>2, <2>3, <2>4, <2>5 DEF AttRead, End, Fallback
<1>17. ASSUME LinkDrops PROVE Learnt'
  BY <1>17 DEF LinkDrops, Learnt
<1>18. CASE UNCHANGED vars
  BY <1>18 DEF vars, protocol, Learnt
<1>19. ASSUME NEW t \in Tasks, CloseFails(t) PROVE Learnt'
  BY <1>19, LearntStays DEF CloseFails, End, protocol
<1>20. ASSUME NEW t \in Tasks, DisposeFails(t) PROVE Learnt'
  BY <1>20, LearntStays DEF DisposeFails, DisposalEnds, End, protocol
<1>. QED
  BY <1>1, <1>2, <1>3, <1>4, <1>5, <1>6, <1>7, <1>8, <1>9, <1>10, <1>11, <1>12, <1>13,
     <1>14, <1>15, <1>16, <1>17, <1>18, <1>19, <1>20 DEF Next, Step

-----------------------------------------------------------------------------
(* The sessions of the operating system. *)

\* One connection at a time is made or taken down: it holds the connect lock.
LEMMA OneConnection ==
  ASSUME LocksHeld, NEW t \in Tasks, NEW u \in Tasks,
         Connects(t, pc[t]), Connects(u, pc[u])
  PROVE  t = u
BY DEF LocksHeld

\* A step that opens and closes nothing keeps what is said of opening.
LEMMA OpeningStays ==
  ASSUME TypeOK, Opening, NEW t \in Tasks, NEW to, Goto(t, to),
         Connects(t, to) /\ Call(t) = "connect" =>
           client \notin alive \/ Connects(t, pc[t]),
         to \notin {"open"}, to = "dispose" => pc[t] = "open",
         client' = client, open' = open, alive' = alive, created' = created, mine' = mine
  PROVE  Opening'
<1>1. /\ pc' = [pc EXCEPT ![t] = to] /\ pc \in [Tasks -> Waiting \cup {"done"}]
  BY DEF Goto, TypeOK
<1>2. ASSUME NEW u \in Tasks
      PROVE  /\ Connects(u, pc'[u]) /\ Call(u) = "connect" => client \notin alive
             /\ pc'[u] \in {"open", "dispose"} => mine[u] \in open \ alive
             /\ pc'[u] = "open" => mine[u] = created /\ client # created
  <2>1. CASE u = t
    BY <1>1, <2>1 DEF Opening
  <2>2. CASE u # t
    BY <1>1, <2>2 DEF Opening
  <2>. QED
    BY <2>1, <2>2
<1>. QED
  BY <1>2 DEF Opening, Connects

\* The backend that is being opened stays new, and replaces none alive.
LEMMA OpeningKept ==
  ASSUME TypeOK, Places, LocksHeld, Opening, [Next]_vars
  PROVE  Opening'
<1>1. ASSUME NEW t \in Tasks, Begin(t) PROVE Opening'
  BY <1>1, OpeningStays DEF Begin, End, link, Connects
<1>2. ASSUME NEW t \in Tasks, AcquireRequest(t) PROVE Opening'
  BY <1>2, OpeningStays DEF AcquireRequest, End, link, Connects
<1>3. ASSUME NEW t \in Tasks, TakeClient(t) PROVE Opening'
  <2>1. /\ pc' = [pc EXCEPT ![t] = "close"] /\ pc \in [Tasks -> Waiting \cup {"done"}]
        /\ mine' = [mine EXCEPT ![t] = client] /\ mine \in [Tasks -> Backends \cup {NoBackend}]
        /\ client' = 0 /\ UNCHANGED <<open, alive, created>> /\ Call(t) # "connect"
        /\ alive \subseteq open /\ created \in Nat
    BY <1>3 DEF TakeClient, Goto, TypeOK, NoBackend, link
  <2>2. \A u \in Tasks : pc[u] \in {"open", "dispose"} => u # t /\ pc[u] # "close"
    BY <1>3, <2>1 DEF Places, Place, TakeClient
  <2>. QED
    BY <2>1, <2>2 DEF Opening, Connects
<1>4. ASSUME NEW t \in Tasks, Closed(t) PROVE Opening'
  <2>1. /\ \E to \in {"pairing_lock", "done"} : pc' = [pc EXCEPT ![t] = to]
        /\ pc \in [Tasks -> Waiting \cup {"done"}]
        /\ open' = open \ {mine[t]} /\ alive' = alive \ {mine[t]}
        /\ UNCHANGED <<client, created, mine>> /\ Call(t) # "connect"
    BY <1>4 DEF Closed, End, Goto, TypeOK, Places, Place
  <2>2. \A u \in Tasks : Connects(u, pc[u]) => u = t
    BY <1>4, OneConnection DEF Closed, Connects
  <2>3. \A u \in Tasks : Connects(u, pc'[u]) => Connects(u, pc[u]) \/ u = t
    BY <2>1
  <2>. QED
    BY <2>1, <2>2, <2>3 DEF Opening, Connects
<1>5. ASSUME NEW t \in Tasks, StartConnect(t) PROVE Opening'
  BY <1>5, OpeningStays DEF StartConnect, End, link, Connects, IsConnected
<1>6. ASSUME NEW t \in Tasks, AcquirePairing(t) PROVE Opening'
  BY <1>6, OpeningStays DEF AcquirePairing, End, link, Connects, Places, Place
<1>7. ASSUME NEW t \in Tasks, Forgotten(t) PROVE Opening'
  BY <1>7, OpeningStays DEF Forgotten, End, link, Connects
<1>8. ASSUME NEW t \in Tasks, Paired(t) PROVE Opening'
  <2>1. /\ pc' = [pc EXCEPT ![t] = "open"] /\ pc \in [Tasks -> Waiting \cup {"done"}]
        /\ open' = open \cup {created + 1} /\ alive' = alive /\ client' = client
        /\ created' = created + 1 /\ created \in Nat /\ alive \subseteq open
        /\ mine' = [mine EXCEPT ![t] = created + 1]
        /\ mine \in [Tasks -> Backends \cup {NoBackend}]
    BY <1>8 DEF Paired, Goto, TypeOK
  <2>2. \A u \in Tasks : Connects(u, pc[u]) => u = t
    BY <1>8, OneConnection DEF Paired, Connects
  <2>3. \A u \in Tasks : Connects(u, pc'[u]) => u = t
    BY <2>1, <2>2 DEF Connects
  <2>4. client \notin alive
    BY <1>8 DEF Paired, Places, Place, Opening, Connects
  <2>5. client \in 0..created /\ open \subseteq 1..created
    BY DEF Opening
  <2>6. created + 1 \notin open /\ client # created + 1
    BY <2>1, <2>5
  <2>7. ASSUME NEW u \in Tasks
        PROVE  /\ Connects(u, pc'[u]) /\ Call(u) = "connect" => client' \notin alive'
               /\ pc'[u] \in {"open", "dispose"} => mine'[u] \in open' \ alive'
               /\ pc'[u] = "open" => mine'[u] = created' /\ client' # created'
    BY <2>1, <2>3, <2>4, <2>6 DEF Connects
  <2>8. client' \in 0..created' /\ open' \subseteq 1..created'
    BY <2>1, <2>5
  <2>. QED
    BY <2>7, <2>8 DEF Opening, Connects
<1>9. ASSUME NEW t \in Tasks, Opened(t) PROVE Opening'
  <2>1. /\ pc' = [pc EXCEPT ![t] = "done"] /\ pc \in [Tasks -> Waiting \cup {"done"}]
        /\ client' = mine[t] /\ UNCHANGED <<open, created, mine>>
        /\ mine[t] = created /\ mine[t] \in open /\ open \subseteq 1..created
        /\ created \in Nat
    BY <1>9 DEF Opened, End, Goto, TypeOK, Opening
  <2>2. \A u \in Tasks : Connects(u, pc[u]) => u = t
    BY <1>9, OneConnection DEF Opened, Connects
  <2>3. \A u \in Tasks : ~Connects(u, pc'[u])
    BY <2>1, <2>2 DEF Connects
  <2>4. client' \in 0..created' /\ open' \subseteq 1..created'
    BY <2>1
  <2>. QED
    BY <2>1, <2>3, <2>4 DEF Opening, Connects
<1>10. ASSUME NEW t \in Tasks, Disposed(t) PROVE Opening'
  <2>1. /\ pc' = [pc EXCEPT ![t] = "done"] /\ pc \in [Tasks -> Waiting \cup {"done"}]
        /\ open' = open \ {mine[t]} /\ UNCHANGED <<client, alive, created, mine>>
    BY <1>10 DEF Disposed, DisposalEnds, End, Goto, TypeOK
  <2>2. \A u \in Tasks : Connects(u, pc[u]) => u = t
    BY <1>10, OneConnection DEF Disposed, DisposalEnds, Connects
  <2>3. \A u \in Tasks : ~Connects(u, pc'[u])
    BY <2>1, <2>2 DEF Connects
  <2>. QED
    BY <2>1, <2>3 DEF Opening, Connects
<1>11. ASSUME NEW t \in Tasks, ExchangeFails(t) PROVE Opening'
  BY <1>11, OpeningStays DEF ExchangeFails, End, link, Connects
<1>12. ASSUME NEW t \in Tasks, PairFails(t) PROVE Opening'
  BY <1>12, OpeningStays DEF PairFails, End, link, Connects
<1>13. ASSUME NEW t \in Tasks, OpenFails(t) PROVE Opening'
  BY <1>13, OpeningStays DEF OpenFails, End, link, Connects
<1>14. ASSUME NEW t \in Tasks, Cancel(t) PROVE Opening'
  BY <1>14, OpeningStays DEF Cancel, End, link, Connects, AtOpen
<1>15. ASSUME AttWrite PROVE Opening'
  <2> DEFINE t == Head(wire).by
  <2>1. CASE pc' = pc
    BY <2>1, <1>15 DEF AttWrite, Opening, Connects, link
  <2>2. CASE Goto(t, "read")
    BY <2>2, <1>15, WireFacts, OpeningStays DEF AttWrite, Connects, link
  <2>. QED
    BY <2>1, <2>2, <1>15 DEF AttWrite
<1>16. ASSUME AttRead PROVE Opening'
  <2> DEFINE t == Head(wire).by
  <2>1. t \in Tasks /\ UNCHANGED <<client, open, alive, created, mine>>
    BY <1>16, WireFacts DEF AttRead, link
  <2>2. \/ pc' = pc
        \/ \E to \in {"request_lock", "done"} : Goto(t, to)
    BY <1>16 DEF AttRead, End
  <2>3. CASE pc' = pc
    BY <2>1, <2>3 DEF Opening, Connects
  <2>4. CASE \E to \in {"request_lock", "done"} : Goto(t, to)
    BY <2>1, <2>4, OpeningStays DEF Connects
  <2>. QED
    BY <2>2, <2>3, <2>4
<1>17. ASSUME LinkDrops PROVE Opening'
  BY <1>17 DEF LinkDrops, Opening, Connects
<1>18. CASE UNCHANGED vars
  BY <1>18 DEF vars, link, Opening, Connects
<1>19. ASSUME NEW t \in Tasks, CloseFails(t) PROVE Opening'
  <2>1. /\ pc' = [pc EXCEPT ![t] = "done"] /\ pc \in [Tasks -> Waiting \cup {"done"}]
        /\ open' \subseteq open /\ alive' \subseteq alive /\ UNCHANGED <<client, created, mine>>
    BY <1>19 DEF CloseFails, GivesUp, End, Goto, TypeOK
  <2>2. \A u \in Tasks : Connects(u, pc[u]) => u = t
    BY <1>19, OneConnection DEF CloseFails, Connects
  <2>3. \A u \in Tasks : ~Connects(u, pc'[u])
    BY <2>1, <2>2 DEF Connects
  <2>. QED
    BY <2>1, <2>3 DEF Opening, Connects
<1>20. ASSUME NEW t \in Tasks, DisposeFails(t) PROVE Opening'
  <2>1. /\ pc' = [pc EXCEPT ![t] = "done"] /\ pc \in [Tasks -> Waiting \cup {"done"}]
        /\ open' \subseteq open /\ alive' \subseteq alive /\ UNCHANGED <<client, created, mine>>
    BY <1>20 DEF DisposeFails, DisposalEnds, GivesUp, End, Goto, TypeOK
  <2>2. \A u \in Tasks : Connects(u, pc[u]) => u = t
    BY <1>20, OneConnection DEF DisposeFails, DisposalEnds, Connects
  <2>3. \A u \in Tasks : ~Connects(u, pc'[u])
    BY <2>1, <2>2 DEF Connects
  <2>. QED
    BY <2>1, <2>3 DEF Opening, Connects
<1>. QED
  BY <1>1, <1>2, <1>3, <1>4, <1>5, <1>6, <1>7, <1>8, <1>9, <1>10, <1>11, <1>12, <1>13,
     <1>14, <1>15, <1>16, <1>17, <1>18, <1>19, <1>20 DEF Next, Step

\* A step that hands over no backend leaves each with its owner.
LEMMA OwnedStays ==
  ASSUME TypeOK, NEW t \in Tasks, NEW to, Goto(t, to),
         pc[t] \in {"open", "dispose", "close"} => to \in {"open", "dispose", "close"},
         client' = client, given' = given, mine' = mine
  PROVE  Owned \subseteq Owned'
BY DEF TypeOK, Owned, Goto

\* A backend that is given up is remembered as such, or closed.
LEMMA GivenUp ==
  ASSUME TypeOK, NoLeakedSession, NEW t \in Tasks, Goto(t, "done"), GivesUp(t),
         client' = client, created' = created, mine' = mine
  PROVE  NoLeakedSession'
<1>1. PICK left \in SUBSET ({mine[t]} \cap open) :
        /\ given' = given \cup left
        /\ open' = open \ ({mine[t]} \ left) /\ alive' = alive \cap open'
  BY DEF GivesUp
<1>2. (Owned \ {mine[t]}) \cup given' \subseteq Owned'
  BY <1>1 DEF TypeOK, Goto, Owned
<1>3. mine[t] \in open' => mine[t] \in given'
  BY <1>1
<1>. QED
  BY <1>1, <1>2, <1>3 DEF NoLeakedSession, TypeOK

\* Every open session is the client's, or that of a call that will close it, or
\* was given up.
LEMMA OwnersKept ==
  ASSUME TypeOK, Places, LineOrdered, Opening, NoLeakedSession, [Next]_vars
  PROVE  NoLeakedSession'
<1>1. ASSUME NEW t \in Tasks, Begin(t) PROVE NoLeakedSession'
  BY <1>1, OwnedStays DEF Begin, End, link, NoLeakedSession
<1>2. ASSUME NEW t \in Tasks, AcquireRequest(t) PROVE NoLeakedSession'
  BY <1>2, OwnedStays DEF AcquireRequest, End, link, NoLeakedSession
<1>3. ASSUME NEW t \in Tasks, TakeClient(t) PROVE NoLeakedSession'
  <2>1. /\ pc' = [pc EXCEPT ![t] = "close"] /\ pc \in [Tasks -> Waiting \cup {"done"}]
        /\ mine' = [mine EXCEPT ![t] = client] /\ mine \in [Tasks -> Backends \cup {NoBackend}]
        /\ UNCHANGED <<open, alive, given, created>> /\ pc[t] = "connect_lock"
    BY <1>3, FirstInLine DEF TakeClient, Goto, TypeOK, link
  <2>2. Owned \subseteq Owned'
    BY <2>1 DEF Owned
  <2>. QED
    BY <2>1, <2>2 DEF NoLeakedSession
<1>4. ASSUME NEW t \in Tasks, Closed(t) PROVE NoLeakedSession'
  <2>1. /\ \E to \in {"pairing_lock", "done"} : pc' = [pc EXCEPT ![t] = to]
        /\ pc \in [Tasks -> Waiting \cup {"done"}]
        /\ open' = open \ {mine[t]} /\ alive' = alive \ {mine[t]}
        /\ UNCHANGED <<client, given, created, mine>>
    BY <1>4 DEF Closed, End, Goto, TypeOK
  <2>2. Owned \ {mine[t]} \subseteq Owned'
    BY <2>1 DEF Owned
  <2>. QED
    BY <2>1, <2>2 DEF NoLeakedSession
<1>5. ASSUME NEW t \in Tasks, StartConnect(t) PROVE NoLeakedSession'
  BY <1>5, FirstInLine, OwnedStays DEF StartConnect, End, link, NoLeakedSession
<1>6. ASSUME NEW t \in Tasks, AcquirePairing(t) PROVE NoLeakedSession'
  BY <1>6, OwnedStays DEF AcquirePairing, End, link, NoLeakedSession
<1>7. ASSUME NEW t \in Tasks, Forgotten(t) PROVE NoLeakedSession'
  BY <1>7, OwnedStays DEF Forgotten, End, link, NoLeakedSession
<1>8. ASSUME NEW t \in Tasks, Paired(t) PROVE NoLeakedSession'
  <2>1. /\ pc' = [pc EXCEPT ![t] = "open"] /\ pc \in [Tasks -> Waiting \cup {"done"}]
        /\ mine' = [mine EXCEPT ![t] = created + 1] /\ mine \in [Tasks -> Backends \cup {NoBackend}]
        /\ open' = open \cup {created + 1} /\ created' = created + 1 /\ created \in Nat
        /\ UNCHANGED <<client, alive, given>> /\ pc[t] = "pair"
    BY <1>8 DEF Paired, Goto, TypeOK
  <2>2. Owned \cup {created + 1} \subseteq Owned'
    BY <2>1 DEF Owned
  <2>3. created' <= 1 => created <= 1
    BY <2>1
  <2>. QED
    BY <2>1, <2>2, <2>3 DEF NoLeakedSession
<1>9. ASSUME NEW t \in Tasks, Opened(t) PROVE NoLeakedSession'
  <2>1. /\ pc' = [pc EXCEPT ![t] = "done"] /\ pc \in [Tasks -> Waiting \cup {"done"}]
        /\ client' = mine[t] /\ alive' = alive \cup {mine[t]} /\ pc[t] = "open"
        /\ UNCHANGED <<open, given, created, mine>>
    BY <1>9 DEF Opened, End, Goto, TypeOK
  <2>2. Owned \ {client} \subseteq Owned' /\ mine[t] \in Owned'
    BY <2>1 DEF Owned
  <2>3. client \notin alive /\ mine[t] \in open /\ mine[t] = created /\ open \subseteq 1..created
    BY <2>1 DEF Opening, Connects, Opened, Places, Place
  <2>4. created <= 1 => open \subseteq {mine[t]}
    BY <2>3 DEF TypeOK
  <2>. QED
    BY <2>1, <2>2, <2>3, <2>4 DEF NoLeakedSession
<1>10. ASSUME NEW t \in Tasks, Disposed(t) PROVE NoLeakedSession'
  <2>1. /\ pc' = [pc EXCEPT ![t] = "done"] /\ pc \in [Tasks -> Waiting \cup {"done"}]
        /\ open' = open \ {mine[t]} /\ pc[t] = "dispose"
        /\ UNCHANGED <<client, alive, given, created, mine>>
    BY <1>10 DEF Disposed, DisposalEnds, End, Goto, TypeOK
  <2>2. Owned \ {mine[t]} \subseteq Owned'
    BY <2>1 DEF Owned
  <2>3. mine[t] \notin alive
    BY <2>1 DEF Opening
  <2>. QED
    BY <2>1, <2>2, <2>3 DEF NoLeakedSession
<1>11. ASSUME NEW t \in Tasks, ExchangeFails(t) PROVE NoLeakedSession'
  BY <1>11, OwnedStays DEF ExchangeFails, End, link, NoLeakedSession
<1>12. ASSUME NEW t \in Tasks, PairFails(t) PROVE NoLeakedSession'
  BY <1>12, OwnedStays DEF PairFails, End, link, NoLeakedSession
<1>13. ASSUME NEW t \in Tasks, OpenFails(t) PROVE NoLeakedSession'
  BY <1>13, OwnedStays DEF OpenFails, End, link, NoLeakedSession
<1>14. ASSUME NEW t \in Tasks, Cancel(t) PROVE NoLeakedSession'
  <2>1. /\ \E to \in {"dispose", "done"} :
              /\ pc[t] = "open" => to = "dispose"
              /\ pc' = [pc EXCEPT ![t] = to]
        /\ pc \in [Tasks -> Waiting \cup {"done"}]
        /\ UNCHANGED <<client, open, alive, created, mine>>
        /\ given' = IF pc[t] \in {"close", "dispose"} THEN given \cup ({mine[t]} \cap open)
                    ELSE given
    BY <1>14 DEF Cancel, AtOpen, End, Goto, TypeOK
  <2>2. Owned \cap open \subseteq Owned'
    BY <2>1 DEF Owned
  <2>3. alive \subseteq open
    BY DEF TypeOK
  <2>. QED
    BY <2>1, <2>2, <2>3 DEF NoLeakedSession
<1>15. ASSUME AttWrite PROVE NoLeakedSession'
  <2> DEFINE t == Head(wire).by
  <2>1. CASE pc' = pc
    BY <2>1, <1>15 DEF AttWrite, NoLeakedSession, Owned, link
  <2>2. CASE pc[t] = "write" /\ Goto(t, "read")
    BY <2>2, <1>15, WireFacts, OwnedStays DEF AttWrite, NoLeakedSession, link
  <2>. QED
    BY <2>1, <2>2, <1>15 DEF AttWrite
<1>16. ASSUME AttRead PROVE NoLeakedSession'
  <2> DEFINE t == Head(wire).by
  <2>1. t \in Tasks /\ UNCHANGED <<client, open, alive, given, created, mine>>
    BY <1>16, WireFacts DEF AttRead, link
  <2>2. \/ pc' = pc
        \/ pc[t] = "read" /\ \E to \in {"request_lock", "done"} : Goto(t, to)
    BY <1>16 DEF AttRead, End
  <2>3. CASE pc' = pc
    BY <2>1, <2>3 DEF NoLeakedSession, Owned
  <2>4. CASE pc[t] = "read" /\ \E to \in {"request_lock", "done"} : Goto(t, to)
    BY <2>1, <2>4, OwnedStays DEF NoLeakedSession
  <2>. QED
    BY <2>2, <2>3, <2>4
<1>17. ASSUME LinkDrops PROVE NoLeakedSession'
  BY <1>17 DEF LinkDrops, NoLeakedSession, Owned
<1>18. CASE UNCHANGED vars
  BY <1>18 DEF vars, link, NoLeakedSession, Owned
<1>19. ASSUME NEW t \in Tasks, CloseFails(t) PROVE NoLeakedSession'
  BY <1>19, GivenUp DEF CloseFails, End
<1>20. ASSUME NEW t \in Tasks, DisposeFails(t) PROVE NoLeakedSession'
  BY <1>20, GivenUp DEF DisposeFails, DisposalEnds, End
<1>. QED
  BY <1>1, <1>2, <1>3, <1>4, <1>5, <1>6, <1>7, <1>8, <1>9, <1>10, <1>11, <1>12, <1>13,
     <1>14, <1>15, <1>16, <1>17, <1>18, <1>19, <1>20 DEF Next, Step

\* How a call ends.
Ends == {"returned", "raised", "mismatch", "cancelled"}

\* A step that begins no close keeps what is said of closing.
LEMMA ClosingStays ==
  ASSUME TypeOK, Closing, NEW t \in Tasks, NEW to, Goto(t, to),
         to \notin {"start", "close"}, pc[t] # "start",
         Call(t) = "connect" => to = "done" \/ pc[t] # "done",
         closed' = closed, client' = client, mine' = mine,
         \/ result' = result
         \/ \E r \in Ends : result' = [result EXCEPT ![t] = r] /\ (r = "returned" => Call(t) # "close")
  PROVE  Closing'
<1>1. \A u \in Tasks : /\ pc'[u] = "start" <=> pc[u] = "start"
                       /\ pc'[u] = "close" => pc[u] = "close"
                       /\ Call(u) = "connect" /\ Ended(u) => Ended(u)'
  BY DEF TypeOK, Goto, Ended
<1>2. \A u \in Tasks : Call(u) = "close" /\ result'[u] = "returned" => result[u] = "returned"
  <2>1. CASE result' = result
    BY <2>1
  <2>2. CASE \E r \in Ends : result' = [result EXCEPT ![t] = r] /\ (r = "returned" => Call(t) # "close")
    <3>1. PICK r \in Ends : result' = [result EXCEPT ![t] = r] /\ (r = "returned" => Call(t) # "close")
      BY <2>2
    <3>. QED
      BY <3>1 DEF TypeOK
  <2>. QED
    BY <2>1, <2>2
<1>3. Quiet => Quiet'
  BY <1>1 DEF Quiet, Ended
<1>. QED
  BY <1>1, <1>2, <1>3 DEF Closing

\* Every step leaves nothing to run behind a close.
LEMMA ClosingKept ==
  ASSUME TypeOK, Places, LocksHeld, LineOrdered, Closing, [Next]_vars
  PROVE  Closing'
<1>1. ASSUME NEW t \in Tasks, Begin(t) PROVE Closing'
  <2>1. /\ pc[t] = "start" /\ UNCHANGED <<client, mine>> /\ (closed => closed')
        /\ Call(t) = "close" => closed' /\ result' = result
    BY <1>1 DEF Begin, Requests, Closers
  <2>2. PICK to : /\ Goto(t, to) /\ to \in {"request_lock", "connect_lock", "done"}
                  /\ Call(t) = "connect" => to = "done" \/ ~closed
    BY <1>1 DEF Begin, End, Requests, Closers, Refused
  <2>3. \/ result' = result
        \/ \E r \in Ends : result' = [result EXCEPT ![t] = r]
    BY <1>1 DEF Begin, End, Ends
  <2>4. \A u \in Tasks : /\ u # t => pc'[u] = pc[u]
                         /\ pc'[u] = "close" => pc[u] = "close" /\ u # t
                         /\ Call(u) = "connect" /\ Ended(u) /\ closed => Ended(u)'
    BY <2>1, <2>2 DEF TypeOK, Goto, Ended
  <2>5. \A u \in Tasks : Call(u) = "close" => result'[u] = result[u]
    BY <2>1, <2>3 DEF TypeOK
  <2>6. Quiet /\ closed => Quiet'
    BY <2>1, <2>4 DEF Quiet, Ended
  <2>. QED
    BY <2>1, <2>4, <2>5, <2>6 DEF Closing
<1>2. ASSUME NEW t \in Tasks, AcquireRequest(t) PROVE Closing'
  BY <1>2, ClosingStays DEF AcquireRequest, End, Ends, link, protocol, Places, Place, Requests
<1>3. ASSUME NEW t \in Tasks, TakeClient(t) PROVE Closing'
  <2>1. /\ t \in Tasks /\ line # <<>> /\ line[1] = t /\ 1 \in DOMAIN line /\ Call(t) # "connect"
        /\ lock["connect"] = Free /\ pc[t] = "connect_lock"
        /\ pc' = [pc EXCEPT ![t] = "close"] /\ pc \in [Tasks -> Waiting \cup {"done"}]
        /\ client' = NoBackend /\ UNCHANGED <<closed, result>>
        /\ mine' = [mine EXCEPT ![t] = client] /\ mine \in [Tasks -> Backends \cup {NoBackend}]
    BY <1>3, FirstInLine DEF TakeClient, Goto, TypeOK
  <2>2. ASSUME Call(t) = "close", NEW u \in Tasks, Call(u) = "connect"
        PROVE  Ended(u)
    <3>1. pc[u] # "connect_lock"
      <4>1. SUFFICES ASSUME pc[u] = "connect_lock" PROVE FALSE
        OBVIOUS
      <4>2. PICK j \in DOMAIN line : line[j] = u
        BY <4>1 DEF LineOrdered, InLine
      <4>3. j \in 1..Len(line) /\ Len(line) \in Nat
        BY LenProperties DEF TypeOK
      <4>4. j # 1
        BY <2>1, <2>2, <4>2
      <4>5. 1 < j
        BY <4>3, <4>4
      <4>. QED
        BY <2>1, <2>2, <4>2, <4>5 DEF LineOrdered
    <3>2. ~Connects(u, pc[u])
      BY <2>1, LockFacts DEF LocksHeld, Locks
    <3>3. pc[u] \notin {"write", "read", "request_lock", "forget"}
      BY <2>2 DEF Places, Place, Requests
    <3>. QED
      BY <2>2, <3>1, <3>2, <3>3 DEF Connects, Ended, TypeOK, Waiting
  <2>3. \A u \in Tasks : Call(u) = "connect" /\ Ended(u) => Ended(u)'
    BY <2>1 DEF Ended
  <2>4. Call(t) = "close" \/ Quiet => Quiet'
    BY <2>1, <2>2, <2>3 DEF Quiet, Ended
  <2>5. ASSUME NEW u \in Tasks, Call(u) = "close"
        PROVE  /\ pc'[u] # "start" \/ result'[u] = "returned" => closed'
               /\ pc'[u] = "close" \/ result'[u] = "returned" => Quiet'
               /\ result'[u] = "returned" => \A v \in Tasks : pc'[v] = "close" => mine'[v] = NoBackend
    <3>1. pc'[u] # "start" \/ result'[u] = "returned" => closed'
      BY <2>1, <2>5 DEF Closing
    <3>2. pc'[u] = "close" \/ result'[u] = "returned" => Quiet'
      BY <2>1, <2>4, <2>5 DEF Closing
    <3>3. ASSUME result'[u] = "returned", NEW v \in Tasks, pc'[v] = "close"
          PROVE  mine'[v] = NoBackend
      <4>1. client = NoBackend /\ (pc[v] = "close" => mine[v] = NoBackend)
        BY <2>1, <2>5, <3>3 DEF Closing, Quiet
      <4>. QED
        BY <2>1, <3>3, <4>1
    <3>. QED
      BY <3>1, <3>2, <3>3
  <2>. QED
    BY <2>5 DEF Closing
<1>4. ASSUME NEW t \in Tasks, Closed(t) PROVE Closing'
  <2>1. /\ pc[t] = "close" /\ Call(t) # "connect" /\ UNCHANGED <<client, closed, mine>>
        /\ \E to \in {"pairing_lock", "done"} : Goto(t, to)
        /\ result' = result \/ \E r \in Ends : result' = [result EXCEPT ![t] = r]
    BY <1>4 DEF Closed, End, Ends, Places, Place
  <2>2. \A u \in Tasks : /\ pc'[u] = "start" <=> pc[u] = "start"
                         /\ pc'[u] = "close" => pc[u] = "close" /\ u # t
                         /\ Call(u) = "connect" /\ Ended(u) => Ended(u)'
    BY <2>1 DEF TypeOK, Goto, Ended
  <2>3. \A u \in Tasks : pc'[u] # "close"
    BY <2>1, <2>2, OneConnection DEF Connects
  <2>4. \A u \in Tasks : result'[u] = "returned" => result[u] = "returned" \/ u = t
    BY <2>1 DEF TypeOK
  <2>5. Quiet => Quiet'
    BY <2>1, <2>2 DEF Quiet, Ended
  <2>. QED
    BY <2>1, <2>2, <2>3, <2>4, <2>5 DEF Closing
<1>5. ASSUME NEW t \in Tasks, StartConnect(t) PROVE Closing'
  BY <1>5, FirstInLine, ClosingStays DEF StartConnect, End, Ends, link, protocol
<1>6. ASSUME NEW t \in Tasks, AcquirePairing(t) PROVE Closing'
  BY <1>6, ClosingStays DEF AcquirePairing, End, Ends, link, protocol
<1>7. ASSUME NEW t \in Tasks, Forgotten(t) PROVE Closing'
  BY <1>7, ClosingStays DEF Forgotten, End, Ends, link, protocol, Places, Place
<1>8. ASSUME NEW t \in Tasks, Paired(t) PROVE Closing'
  <2>1. /\ pc' = [pc EXCEPT ![t] = "open"] /\ pc \in [Tasks -> Waiting \cup {"done"}]
        /\ pc[t] = "pair" /\ Call(t) = "connect" /\ UNCHANGED <<closed, result>>
    BY <1>8 DEF Paired, Goto, TypeOK, Places, Place
  <2>2. ~Quiet
    BY <2>1 DEF Quiet, Ended
  <2>3. \A u \in Tasks : /\ pc'[u] = "start" <=> pc[u] = "start"
                         /\ pc'[u] = "close" => pc[u] = "close"
    BY <2>1
  <2>. QED
    BY <2>1, <2>2, <2>3 DEF Closing
<1>9. ASSUME NEW t \in Tasks, Opened(t) PROVE Closing'
  <2>1. /\ pc' = [pc EXCEPT ![t] = "done"] /\ pc \in [Tasks -> Waiting \cup {"done"}]
        /\ pc[t] = "open" /\ Call(t) = "connect" /\ closed' = closed
        /\ result' = [result EXCEPT ![t] = "returned"]
    BY <1>9 DEF Opened, End, Goto, TypeOK, Places, Place
  <2>2. ~Quiet
    BY <2>1 DEF Quiet, Ended
  <2>3. \A u \in Tasks : /\ pc'[u] = "start" <=> pc[u] = "start"
                         /\ pc'[u] = "close" => pc[u] = "close"
                         /\ Call(u) = "close" => result'[u] = result[u]
    BY <2>1 DEF TypeOK
  <2>. QED
    BY <2>1, <2>2, <2>3 DEF Closing
<1>10. ASSUME NEW t \in Tasks, Disposed(t) PROVE Closing'
  BY <1>10, ClosingStays DEF Disposed, DisposalEnds, End, Ends, link, protocol, Places, Place
<1>11. ASSUME NEW t \in Tasks, ExchangeFails(t) PROVE Closing'
  BY <1>11, ClosingStays DEF ExchangeFails, End, Ends, link, protocol
<1>12. ASSUME NEW t \in Tasks, PairFails(t) PROVE Closing'
  <2>1. /\ Goto(t, "done") /\ result' = [result EXCEPT ![t] = "raised"] /\ pc[t] = "pair"
        /\ UNCHANGED <<client, closed, mine>>
    BY <1>12 DEF PairFails, End
  <2>2. \E r \in Ends : result' = [result EXCEPT ![t] = r] /\ (r = "returned" => Call(t) # "close")
    BY <2>1 DEF Ends
  <2>. QED
    BY <2>1, <2>2, ClosingStays
<1>13. ASSUME NEW t \in Tasks, OpenFails(t) PROVE Closing'
  BY <1>13, ClosingStays DEF OpenFails, End, Ends, link, protocol
<1>14. ASSUME NEW t \in Tasks, Cancel(t) PROVE Closing'
  BY <1>14, ClosingStays DEF Cancel, End, Ends, link, protocol, AtOpen
<1>15. ASSUME AttWrite PROVE Closing'
  <2> DEFINE t == Head(wire).by
  <2>1. CASE pc' = pc
    BY <2>1, <1>15 DEF AttWrite, Closing, Quiet, Ended, link
  <2>2. CASE pc[t] = "write" /\ Goto(t, "read")
    BY <2>2, <1>15, WireFacts, ClosingStays DEF AttWrite, link
  <2>. QED
    BY <2>1, <2>2, <1>15 DEF AttWrite
<1>16. ASSUME AttRead PROVE Closing'
  <2> DEFINE t == Head(wire).by
  <2>1. /\ t \in Tasks /\ UNCHANGED <<client, closed, mine>>
        /\ pc[t] = "read" => Call(t) \notin {"connect", "close"}
    BY <1>16, WireFacts DEF AttRead, link, Places, Place, Requests
  <2>2. \/ pc' = pc /\ result' = result
        \/ /\ pc[t] = "read" /\ \E to \in {"request_lock", "done"} : Goto(t, to)
           /\ result' = result \/ \E r \in Ends : result' = [result EXCEPT ![t] = r]
    BY <1>16 DEF AttRead, End, Ends
  <2>3. CASE pc' = pc /\ result' = result
    BY <2>1, <2>3 DEF Closing, Quiet, Ended
  <2>4. CASE /\ pc[t] = "read" /\ \E to \in {"request_lock", "done"} : Goto(t, to)
             /\ result' = result \/ \E r \in Ends : result' = [result EXCEPT ![t] = r]
    BY <2>1, <2>4, ClosingStays
  <2>. QED
    BY <2>2, <2>3, <2>4
<1>17. ASSUME LinkDrops PROVE Closing'
  BY <1>17 DEF LinkDrops, Closing, Quiet, Ended
<1>18. CASE UNCHANGED vars
  BY <1>18 DEF vars, link, Closing, Quiet, Ended
<1>19. ASSUME NEW t \in Tasks, CloseFails(t) PROVE Closing'
  <2>1. /\ Goto(t, "done") /\ pc[t] = "close" /\ UNCHANGED <<client, closed, mine>>
        /\ result' = [result EXCEPT ![t] = "raised"] /\ Call(t) # "connect"
    BY <1>19 DEF CloseFails, End, Places, Place
  <2>2. \E r \in Ends : result' = [result EXCEPT ![t] = r] /\ (r = "returned" => Call(t) # "close")
    BY <2>1 DEF Ends
  <2>. QED
    BY <2>1, <2>2, ClosingStays
<1>20. ASSUME NEW t \in Tasks, DisposeFails(t) PROVE Closing'
  <2>1. /\ Goto(t, "done") /\ pc[t] = "dispose" /\ UNCHANGED <<client, closed, mine>>
        /\ \E r \in {"cancelled", "raised"} : result' = [result EXCEPT ![t] = r]
    BY <1>20 DEF DisposeFails, DisposalEnds, End
  <2>2. \E r \in Ends : result' = [result EXCEPT ![t] = r] /\ (r = "returned" => Call(t) # "close")
    BY <2>1 DEF Ends
  <2>. QED
    BY <2>1, <2>2, ClosingStays
<1>. QED
  BY <1>1, <1>2, <1>3, <1>4, <1>5, <1>6, <1>7, <1>8, <1>9, <1>10, <1>11, <1>12, <1>13,
     <1>14, <1>15, <1>16, <1>17, <1>18, <1>19, <1>20 DEF Next, Step

-----------------------------------------------------------------------------
(* Types. *)

\* Going to the next place keeps the types.
LEMMA GoesTyped ==
  ASSUME TypeOK, NEW t \in Tasks, NEW to \in Waiting \cup {"done"}, Goto(t, to)
  PROVE  pc' \in [Tasks -> Waiting \cup {"done"}]
BY DEF TypeOK, Goto

\* Ending a call keeps the types.
LEMMA EndTyped ==
  ASSUME TypeOK, NEW t \in Tasks, NEW r \in {"returned", "raised", "mismatch", "cancelled"}, End(t, r)
  PROVE  /\ pc' \in [Tasks -> Waiting \cup {"done"}]
         /\ lock' \in [Locks -> Tasks \cup {Free}]
         /\ result' \in [Tasks -> {"none", "returned", "raised", "mismatch", "cancelled"}]
BY GoesTyped DEF TypeOK, End, Released

\* Granting a lock keeps the types.
LEMMA GrantTyped ==
  ASSUME TypeOK, NEW t \in Tasks
  PROVE  /\ \A l \in Locks : Take(t, l) => lock' \in [Locks -> Tasks \cup {Free}]
         /\ Released(t) \in [Locks -> Tasks \cup {Free}]
         /\ TakeId(t) => nextId' \in 0..IdSpace - 1 /\ id' \in [Tasks -> 0..IdSpace - 1]
<1>1. \A m \in Nat, n \in Nat \ {0} : m % n \in 0..n - 1
  OBVIOUS
<1>2. (nextId + 1) % IdSpace \in 0..IdSpace - 1
  BY <1>1, SizeAssumption DEF TypeOK
<1>3. TakeId(t) => nextId' \in 0..IdSpace - 1 /\ id' \in [Tasks -> 0..IdSpace - 1]
  BY <1>2 DEF TypeOK, TakeId
<1>4. Released(t) \in [Locks -> Tasks \cup {Free}]
  BY DEF TypeOK, Released
<1>5. \A l \in Locks : Take(t, l) => lock' \in [Locks -> Tasks \cup {Free}]
  BY DEF TypeOK, Take
<1>. QED
  BY <1>3, <1>4, <1>5

\* Every step of the exchange keeps the types.
LEMMA TypesKept ==
  ASSUME TypeOK, OwnIsLast, Opening, line' \in Seq(Tasks), [Next]_vars
  PROVE  TypeOK'
<1>1. ASSUME NEW t \in Tasks, Begin(t) PROVE TypeOK'
  <2>1. /\ pc' \in [Tasks -> Waiting \cup {"done"}] /\ lock' \in [Locks -> Tasks \cup {Free}]
        /\ result' \in [Tasks -> {"none", "returned", "raised", "mismatch", "cancelled"}]
    BY <1>1, GoesTyped, EndTyped DEF Begin, TypeOK, Waiting
  <2>2. nextId' \in 0..IdSpace - 1 /\ id' \in [Tasks -> 0..IdSpace - 1]
    BY <1>1, GrantTyped DEF Begin, TypeOK
  <2>3. format' \in [Tasks -> BOOLEAN] /\ closed' \in BOOLEAN
    BY <1>1 DEF Begin, TypeOK
  <2>. QED
    BY <1>1, <2>1, <2>2, <2>3 DEF Begin, TypeOK, link
<1>2. ASSUME NEW t \in Tasks, AcquireRequest(t) PROVE TypeOK'
  <2>1. pc' \in [Tasks -> Waiting \cup {"done"}] /\ lock' \in [Locks -> Tasks \cup {Free}]
    BY <1>2, GoesTyped, EndTyped, GrantTyped DEF AcquireRequest, TypeOK, Waiting, Locks
  <2>2. result' \in [Tasks -> {"none", "returned", "raised", "mismatch", "cancelled"}]
    BY <1>2, EndTyped DEF AcquireRequest, TypeOK
  <2>3. wire' \in Seq(Operations)
    <3> DEFINE operation == [op |-> "write", id |-> id[t], by |-> t, compact |-> format[t]]
    <3>1. operation \in Operations
      BY DEF TypeOK, Operations
    <3>2. wire' = wire \/ wire' = Append(wire, operation)
      BY <1>2 DEF AcquireRequest, Issue
    <3>. HIDE DEF operation, Operations
    <3>. QED
      <4>1. wire \in Seq(Operations)
        BY DEF TypeOK
      <4>2. Append(wire, operation) \in Seq(Operations)
        BY <3>1, <4>1, AppendProperties
      <4>. QED
        BY <3>2, <4>1, <4>2
  <2>. QED
    BY <1>2, <2>1, <2>2, <2>3 DEF AcquireRequest, TypeOK, link
<1>3. ASSUME NEW t \in Tasks, TakeClient(t) PROVE TypeOK'
  BY <1>3, GoesTyped, EndTyped, GrantTyped DEF TakeClient, TypeOK, Waiting, Locks, link, protocol
<1>4. ASSUME NEW t \in Tasks, Closed(t) PROVE TypeOK'
  <2>1. /\ pc' \in [Tasks -> Waiting \cup {"done"}] /\ lock' \in [Locks -> Tasks \cup {Free}]
        /\ result' \in [Tasks -> {"none", "returned", "raised", "mismatch", "cancelled"}]
    BY <1>4, GoesTyped, EndTyped, GrantTyped DEF Closed, TypeOK, Waiting
  <2>2. open' \subseteq Backends /\ alive' \subseteq open' /\ wire' \in Seq(Operations)
    BY <1>4 DEF Closed, TypeOK
  <2>. QED
    BY <1>4, <2>1, <2>2 DEF Closed, TypeOK
<1>5. ASSUME NEW t \in Tasks, StartConnect(t) PROVE TypeOK'
  BY <1>5, GoesTyped, EndTyped, GrantTyped DEF StartConnect, TypeOK, Waiting, Locks, link,
     protocol
<1>6. ASSUME NEW t \in Tasks, AcquirePairing(t) PROVE TypeOK'
  BY <1>6, GoesTyped, EndTyped, GrantTyped DEF AcquirePairing, TypeOK, Waiting, Locks, link,
     protocol
<1>7. ASSUME NEW t \in Tasks, Forgotten(t) PROVE TypeOK'
  BY <1>7, GoesTyped, EndTyped, GrantTyped DEF Forgotten, TypeOK, Waiting, Locks, link, protocol
<1>8. ASSUME NEW t \in Tasks, Paired(t) PROVE TypeOK'
  <2>1. pc' \in [Tasks -> Waiting \cup {"done"}] /\ lock' \in [Locks -> Tasks \cup {Free}]
    BY <1>8, GoesTyped DEF Paired, TypeOK, Waiting
  <2>2. created + 1 \in Backends /\ created + 1 \in 0..MaxBackends
    BY <1>8, SizeAssumption DEF Paired, TypeOK, Backends
  <2>3. open' \subseteq Backends /\ mine' \in [Tasks -> Backends \cup {NoBackend}]
        /\ open \subseteq open'
    BY <1>8, <2>2 DEF Paired, TypeOK
  <2>. QED
    BY <1>8, <2>1, <2>2, <2>3 DEF Paired, TypeOK, protocol
<1>9. ASSUME NEW t \in Tasks, Opened(t) PROVE TypeOK'
  <2>1. mine[t] \in open
    BY <1>9 DEF Opened, Opening
  <2>2. client' \in Backends \cup {NoBackend} /\ alive' \subseteq open
    BY <1>9, <2>1 DEF Opened, TypeOK
  <2>. QED
    BY <1>9, <2>2, EndTyped DEF Opened, TypeOK, protocol
<1>10. ASSUME NEW t \in Tasks, Disposed(t) PROVE TypeOK'
  <2>1. mine[t] \notin alive
    BY <1>10 DEF Disposed, DisposalEnds, Opening
  <2>2. open' \subseteq Backends /\ alive \subseteq open'
    BY <1>10, <2>1 DEF Disposed, DisposalEnds, TypeOK
  <2>. QED
    BY <1>10, <2>2, EndTyped DEF Disposed, DisposalEnds, TypeOK, protocol
<1>11. ASSUME NEW t \in Tasks, ExchangeFails(t) PROVE TypeOK'
  <2>1. wire' = wire \/ (wire # <<>> /\ wire' = Front(wire))
    BY <1>11 DEF ExchangeFails, Issued
  <2>2. wire' \in Seq(Operations)
    BY <2>1, FrontFacts DEF TypeOK
  <2>. QED
    BY <1>11, <2>2, GoesTyped DEF ExchangeFails, TypeOK, Waiting, link
<1>12. ASSUME NEW t \in Tasks, PairFails(t) PROVE TypeOK'
  BY <1>12, GoesTyped, EndTyped, GrantTyped DEF PairFails, TypeOK, Waiting, Locks, link, protocol
<1>13. ASSUME NEW t \in Tasks, OpenFails(t) PROVE TypeOK'
  BY <1>13, GoesTyped, EndTyped, GrantTyped DEF OpenFails, TypeOK, Waiting, Locks, link, protocol
<1>14. ASSUME NEW t \in Tasks, Cancel(t) PROVE TypeOK'
  BY <1>14, GoesTyped, EndTyped, GrantTyped DEF Cancel, TypeOK, Waiting, Locks, link,
     protocol, AtOpen
<1>15. ASSUME AttWrite PROVE TypeOK'
  <2> DEFINE t == Head(wire).by
             answer == [Head(wire) EXCEPT !.op = "read"]
  <2>1. /\ t \in Tasks /\ Tail(wire) \in Seq(Operations) /\ answer \in Operations
        /\ response' \in [id : 0..IdSpace - 1, compact : BOOLEAN]
    BY <1>15, WireFacts DEF AttWrite, Operations
  <2>2. \/ wire' = Tail(wire) /\ pc' = pc
        \/ wire' = Append(Tail(wire), answer) /\ Goto(t, "read")
    BY <1>15 DEF AttWrite
  <2>. HIDE DEF answer, t, Operations
  <2>3. Append(Tail(wire), answer) \in Seq(Operations)
    BY <2>1, AppendProperties
  <2>4. wire' \in Seq(Operations) /\ pc' \in [Tasks -> Waiting \cup {"done"}]
    BY <2>1, <2>2, <2>3, GoesTyped DEF TypeOK, Waiting
  <2>. QED
    BY <1>15, <2>1, <2>4 DEF AttWrite, TypeOK, link
<1>16. ASSUME AttRead PROVE TypeOK'
  <2> DEFINE t == Head(wire).by
  <2>1. t \in Tasks /\ wire' \in Seq(Operations)
    BY <1>16, WireFacts DEF AttRead
  <2>2. CASE UNCHANGED <<pc, line, lock, result, compact, nextId, id, format>>
    BY <1>16, <2>1, <2>2 DEF AttRead, TypeOK, link
  <2>3. CASE /\ End(t, "mismatch") \/ End(t, "returned")
             /\ UNCHANGED <<nextId, id, format>>
             /\ compact' \in {compact, "yes", "no"}
    BY <1>16, <2>1, <2>3, EndTyped DEF AttRead, TypeOK, link
  <2>4. CASE /\ compact' = "no" /\ format' = [format EXCEPT ![t] = FALSE]
             /\ TakeId(t) /\ lock' = Released(t)
             /\ \E to \in {"request_lock", "done"} : Goto(t, to)
             /\ result' = result \/ result' = [result EXCEPT ![t] = "raised"]
    <3>1. /\ pc' \in [Tasks -> Waiting \cup {"done"}] /\ lock' \in [Locks -> Tasks \cup {Free}]
          /\ nextId' \in 0..IdSpace - 1 /\ id' \in [Tasks -> 0..IdSpace - 1]
      BY <2>1, <2>4, GoesTyped, GrantTyped DEF Waiting
    <3>. QED
      BY <1>16, <2>1, <2>4, <3>1 DEF AttRead, TypeOK, link
  <2>. QED
    BY <1>16, <2>2, <2>3, <2>4 DEF AttRead, Fallback
<1>17. ASSUME LinkDrops PROVE TypeOK'
  BY <1>17 DEF LinkDrops, TypeOK
<1>18. CASE UNCHANGED vars
  BY <1>18 DEF vars, link, protocol, TypeOK
<1>19. ASSUME NEW t \in Tasks, CloseFails(t) PROVE TypeOK'
  <2>1. /\ open' \subseteq open /\ alive' \subseteq open' /\ given' \subseteq given \cup open
        /\ wire' \in Seq(Operations)
    BY <1>19 DEF CloseFails, GivesUp, TypeOK
  <2>. QED
    BY <1>19, <2>1, EndTyped DEF CloseFails, TypeOK
<1>20. ASSUME NEW t \in Tasks, DisposeFails(t) PROVE TypeOK'
  <2>1. open' \subseteq open /\ alive' \subseteq open' /\ given' \subseteq given \cup open
    BY <1>20 DEF DisposeFails, GivesUp
  <2>. QED
    BY <1>20, <2>1, EndTyped DEF DisposeFails, DisposalEnds, TypeOK, protocol
<1>. QED
  BY <1>1, <1>2, <1>3, <1>4, <1>5, <1>6, <1>7, <1>8, <1>9, <1>10, <1>11, <1>12, <1>13,
     <1>14, <1>15, <1>16, <1>17, <1>18, <1>19, <1>20 DEF Next, Step

-----------------------------------------------------------------------------
(* The theorems. *)

\* The invariant of the exchange holds at first.
LEMMA Initially == Init => IInv
<1>. SUFFICES ASSUME Init PROVE IInv
  OBVIOUS
<1>1. TypeOK
  <2>1. NoResponse \in [id : 0..IdSpace - 1, compact : BOOLEAN]
    BY SizeAssumption DEF NoResponse
  <2>2. /\ client \in Backends \cup {NoBackend} /\ created \in 0..MaxBackends
        /\ nextId \in 0..IdSpace - 1 /\ id \in [Tasks -> 0..IdSpace - 1]
    BY SizeAssumption DEF Init
  <2>3. line \in Seq(Tasks) /\ wire \in Seq(Operations)
    BY DEF Init
  <2>. QED
    BY <2>1, <2>2, <2>3 DEF Init, TypeOK, Waiting
<1>2. Places /\ LocksHeld
  BY DEF Init, Places, Place, LocksHeld, Connects
<1>3. LineOrdered /\ OwnIsLast
  BY DEF Init, LineOrdered, OwnIsLast, InLine
<1>4. Learnt /\ Opening
  BY DEF Init, Learnt, Opening, Connects, NoBackend
<1>5. NoLeakedSession
  BY DEF Init, NoLeakedSession
<1>6. Closing /\ OwnResponse
  BY DEF Init, Closing, OwnResponse
<1>. QED
  BY <1>1, <1>2, <1>3, <1>4, <1>5, <1>6 DEF IInv

\* Every step of the exchange keeps its invariant.
LEMMA ExchangeKept ==
  ASSUME IInv, [Next]_vars
  PROVE  IInv'
<1>. USE DEF IInv
<1>1. line' \in Seq(Tasks) /\ LineOrdered'
  BY LineKept
<1>2. TypeOK'
  BY <1>1, TypesKept
<1>3. Places' /\ LocksHeld'
  BY PlacesKept, LocksKept
<1>4. OwnIsLast' /\ OwnResponse'
  BY WireKept, ResponseKept
<1>5. Learnt' /\ Opening'
  BY LearntKept, OpeningKept
<1>6. NoLeakedSession' /\ Closing'
  BY OwnersKept, ClosingKept
<1>. QED
  BY <1>1, <1>2, <1>3, <1>4, <1>5, <1>6

\* The invariant of the exchange holds always.
LEMMA Invariance == Spec => []IInv
BY Initially, ExchangeKept, PTL DEF Spec

\* Every variable keeps its type: the callers' places, the locks' owners, the
\* ATT operations on their way, the backends.
THEOREM TypeCorrect == Spec => []TypeOK
<1>1. IInv => TypeOK
  BY DEF IInv
<1>. QED
  BY <1>1, Invariance, PTL

\* Whoever reads the response characteristic reads the answer to the request
\* he wrote, for any number of callers, with cancellations and GATT errors
\* between the two and with ids that wrap (_exchange_packet).
THEOREM ResponsesTrue == Spec => []OwnResponse
<1>1. IInv => OwnResponse
  BY DEF IInv
<1>. QED
  BY <1>1, Invariance, PTL

\* A session of the operating system is the client's, or a call has it that will
\* close it, or its disconnect() was called and failed, timed out or was
\* cancelled; and after close() only such ones are left and no connect can make
\* another (dispose_partial_client, _disconnect_current_client, close).
THEOREM SessionsTrue == Spec => []SessionsOwned
<1>1. IInv => SessionsOwned
  <2>. SUFFICES ASSUME IInv PROVE SessionsOwned
    OBVIOUS
  <2>1. ASSUME NEW t \in Tasks, Call(t) = "close", result[t] = "returned"
        PROVE  /\ client = NoBackend /\ \A u \in Tasks : Call(u) = "connect" => Ended(u)
               /\ alive \subseteq given /\ (created <= 1 => open \subseteq given)
    <3>1. Quiet /\ \A u \in Tasks : pc[u] = "close" => mine[u] = NoBackend
      BY <2>1 DEF IInv, Closing
    <3>2. \A u \in Tasks : pc[u] \notin {"open", "dispose"}
      BY <3>1 DEF IInv, Places, Place, Quiet, Ended
    <3>3. Owned \subseteq {NoBackend} \cup given
      BY <3>1, <3>2 DEF Owned, Quiet
    <3>4. NoBackend \notin open /\ alive \subseteq open
      BY DEF IInv, TypeOK, Backends, NoBackend
    <3>. QED
      BY <3>1, <3>3, <3>4 DEF IInv, NoLeakedSession, Quiet
  <2>. QED
    BY <2>1 DEF IInv, SessionsOwned, ClosedHoldsNothing
<1>. QED
  BY <1>1, Invariance, PTL

\* What the firmware supports is learnt once: no chunk, asked for before or
\* after, overrules what is known (get_history_chunk).
THEOREM LearntOnce == Spec => FormatLearnt
<1>1. IInv /\ [Next]_vars => [compact # "unknown" => compact' = compact]_compact
  <2>. SUFFICES ASSUME IInv, [Next]_vars, compact # "unknown", compact' # compact
                PROVE  FALSE
    BY DEF IInv
  <2>1. Learnt /\ Learnt' /\ TypeOK /\ TypeOK'
    BY LearntKept, LineKept, TypesKept DEF IInv
  <2>2. compact' \in {"yes", "no"}
    BY <2>1 DEF TypeOK, Next, Step, Begin, AcquireRequest, TakeClient, Closed, StartConnect,
       AcquirePairing, Forgotten, Paired, Opened, Disposed, ExchangeFails, PairFails, OpenFails,
       CloseFails, DisposeFails, DisposalEnds, Cancel, AttWrite, AttRead, LinkDrops, Fallback,
       vars, protocol
  <2>. QED
    BY <2>1, <2>2 DEF Learnt, TypeOK
<1>. QED
  BY <1>1, Invariance, PTL DEF Spec, FormatLearnt

-----------------------------------------------------------------------------
(* The requests that queue for the device. *)

Live(c) == [caller |-> c, live |-> TRUE]

\* A caller has at most one live request, queued or under way, and waits for it.
OneRequest ==
  /\ \A i, j \in DOMAIN queue :
       queue[i].live /\ queue[j].live /\ queue[i].caller = queue[j].caller => i = j
  /\ \A i \in DOMAIN queue : queue[i].live =>
       future[queue[i].caller] = "pending" /\ current # Live(queue[i].caller)

\* Who waits has a live request.
Awaited ==
  /\ current.live => future[current.caller] = "pending"
  /\ \A c \in Callers : future[c] = "pending" =>
       current = Live(c) \/ \E i \in DOMAIN queue : queue[i] = Live(c)

\* The worker holds a request while it executes one, and runs while the
\* service does.
WorkerHolds ==
  /\ worker \in {"off", "idle"} => current = Scheduler!NoRequest
  /\ worker = "busy" => current \in Scheduler!Requests
  /\ service = "started" => worker \in {"idle", "busy"}
  /\ service = "stopped" => worker = "off"

SchedulerInv ==
  /\ Scheduler!TypeOK /\ OneRequest /\ Awaited /\ WorkerHolds
  /\ Scheduler!StoppedIsQuiet

\* A nonempty set of natural numbers has a least element.
LEMMA LeastNat ==
  ASSUME NEW T, T \subseteq Nat, T # {}
  PROVE  \E m \in T : \A n \in T : m <= n
<1> DEFINE Less == {ss \in Nat \X Nat : ss[1] < ss[2]}
<1>1. IsWellFoundedOn(Less, Nat)
  BY NatLessThanWellFounded DEF OpToRel
<1>2. PICK m \in T : \A n \in T : ~ (<<n, m>> \in Less)
  <2>. HIDE DEF Less
  <2>. QED
    BY <1>1, WFMin
<1>3. ASSUME NEW n \in T PROVE m <= n
  <2>1. ~ (<<n, m>> \in Less)
    BY <1>2, <1>3
  <2>. QED
    BY <2>1
<1>. QED
  BY <1>3

\* The queue's order has a first request: there is none more urgent, and none
\* as urgent was submitted before it.
LEMMA FirstFacts ==
  ASSUME NEW q \in Seq(Scheduler!Requests), q # <<>>
  PROVE  /\ Scheduler!First(q) \in DOMAIN q
         /\ \A j \in DOMAIN q :
              Priority[q[Scheduler!First(q)].caller] <= Priority[q[j].caller]
<1> DEFINE urgency(i) == Priority[q[i].caller]
           Before(i, j) == \/ urgency(i) < urgency(j)
                           \/ urgency(i) = urgency(j) /\ i < j
<1>1. /\ DOMAIN q # {} /\ DOMAIN q \subseteq Nat
      /\ \A i \in DOMAIN q : urgency(i) \in Nat
  <2>1. DOMAIN q = 1..Len(q) /\ Len(q) \in Nat /\ Len(q) # 0
    BY LenProperties, EmptySeq
  <2>2. \A i \in 1..Len(q) : q[i] \in Scheduler!Requests
    BY ElementOfSeq
  <2>3. \A r \in Scheduler!Requests : Priority[r.caller] \in Nat
    BY SchedulerAssumption DEF Scheduler!Requests, Scheduler!PriorityAssumption
  <2>. QED
    BY <2>1, <2>2, <2>3
<1>. HIDE DEF urgency
<1>2. PICK least \in {urgency(i) : i \in DOMAIN q} :
        \A n \in {urgency(i) : i \in DOMAIN q} : least <= n
  <2>1. {urgency(i) : i \in DOMAIN q} # {} /\ {urgency(i) : i \in DOMAIN q} \subseteq Nat
    BY <1>1
  <2>. QED
    BY <2>1, LeastNat
<1>3. PICK m \in {i \in DOMAIN q : urgency(i) = least} :
        \A n \in {i \in DOMAIN q : urgency(i) = least} : m <= n
  <2>1. {i \in DOMAIN q : urgency(i) = least} # {}
    BY <1>2
  <2>2. {i \in DOMAIN q : urgency(i) = least} \subseteq Nat
    BY <1>1
  <2>. QED
    BY <2>1, <2>2, LeastNat
<1>4. m \in DOMAIN q /\ \A j \in DOMAIN q \ {m} : Before(m, j)
  <2>1. m \in DOMAIN q /\ urgency(m) = least
    BY <1>3
  <2>2. ASSUME NEW j \in DOMAIN q \ {m} PROVE Before(m, j)
    <3>1. urgency(j) \in Nat /\ urgency(m) \in Nat /\ urgency(m) <= urgency(j)
      BY <1>1, <1>2, <2>1, <2>2
    <3>2. urgency(j) = urgency(m) => m <= j
      BY <1>3, <2>1, <2>2
    <3>3. m \in Nat /\ j \in Nat /\ m # j
      BY <1>1, <2>1, <2>2
    <3>. QED
      BY <3>1, <3>2, <3>3
  <2>. QED
    BY <2>1, <2>2
<1>5. Scheduler!First(q) = CHOOSE i \in DOMAIN q : \A j \in DOMAIN q \ {i} : Before(i, j)
  BY DEF Scheduler!First, urgency
<1>6. /\ Scheduler!First(q) \in DOMAIN q
      /\ \A j \in DOMAIN q \ {Scheduler!First(q)} : Before(Scheduler!First(q), j)
  <2>. HIDE DEF Before
  <2>. QED
    BY <1>4, <1>5
<1>7. ASSUME NEW j \in DOMAIN q PROVE urgency(Scheduler!First(q)) <= urgency(j)
  BY <1>1, <1>6, <1>7
<1>. QED
  BY <1>6, <1>7 DEF urgency

\* What is in the queue, and under way, are requests.
LEMMA RequestFacts ==
  ASSUME Scheduler!TypeOK
  PROVE  /\ DOMAIN queue = 1..Len(queue) /\ Len(queue) \in Nat
         /\ \A i \in DOMAIN queue :
              /\ queue[i] \in Scheduler!Requests
              /\ queue[i].caller \in Callers /\ queue[i].live \in BOOLEAN
              /\ queue[i].live => queue[i] = Live(queue[i].caller)
         /\ current.live => current.caller \in Callers /\ current = Live(current.caller)
<1>1. queue \in Seq(Scheduler!Requests)
  BY DEF Scheduler!TypeOK
<1>2. DOMAIN queue = 1..Len(queue) /\ Len(queue) \in Nat
  BY <1>1, LenProperties
<1>3. \A i \in DOMAIN queue : queue[i] \in Scheduler!Requests
  BY <1>1, <1>2, ElementOfSeq
<1>4. \A r \in Scheduler!Requests :
        r.caller \in Callers /\ r.live \in BOOLEAN /\ (r.live => r = Live(r.caller))
  BY DEF Scheduler!Requests, Live
<1>5. current.live => current \in Scheduler!Requests
  BY DEF Scheduler!TypeOK, Scheduler!NoRequest
<1>. QED
  BY <1>2, <1>3, <1>4, <1>5

\* A submission queues its own new future (submit).
LEMMA SubmitKeeps ==
  ASSUME SchedulerInv, NEW c \in Callers, Scheduler!Submit(c)
  PROVE  SchedulerInv'
<1>. USE DEF SchedulerInv
<1>1. /\ queue \in Seq(Scheduler!Requests) /\ Live(c) \in Scheduler!Requests
      /\ future \in [Callers -> {Scheduler!None, "pending"} \cup Scheduler!Answered]
  BY DEF Scheduler!TypeOK, Scheduler!Requests, Live
<1>2. /\ queue' = Append(queue, Live(c)) /\ future[c] # "pending"
      /\ future' = [future EXCEPT ![c] = "pending"] /\ service = "started"
      /\ UNCHANGED <<worker, current, ready, service>>
  BY DEF Scheduler!Submit, Live
<1>3. /\ queue' \in Seq(Scheduler!Requests) /\ Len(queue') = Len(queue) + 1
      /\ DOMAIN queue' = 1..(Len(queue) + 1) /\ queue'[Len(queue) + 1] = Live(c)
      /\ \A i \in 1..Len(queue) : queue'[i] = queue[i]
  <2>. HIDE DEF Live, Scheduler!Requests
  <2>. QED
    BY <1>1, <1>2, AppendProperties, LenProperties
<1>4. Scheduler!TypeOK'
  BY <1>2, <1>3 DEF Scheduler!TypeOK
<1>5. /\ \A d \in Callers : future'[d] = IF d = c THEN "pending" ELSE future[d]
      /\ \A i \in 1..Len(queue) : queue[i].live => queue[i].caller # c
      /\ current # Live(c)
  <2>1. current.live => current.caller # c
    BY <1>2 DEF Awaited
  <2>2. \A i \in 1..Len(queue) : queue[i].live => queue[i].caller # c
    BY <1>2, RequestFacts DEF OneRequest
  <2>. QED
    BY <1>1, <1>2, <2>1, <2>2 DEF Live
<1>6. Live(c).live /\ Live(c).caller = c
  BY DEF Live
<1>7. OneRequest'
  <2>1. ASSUME NEW i \in DOMAIN queue', NEW j \in DOMAIN queue', queue'[i].live,
               queue'[j].live, queue'[i].caller = queue'[j].caller
        PROVE  i = j
    BY <1>3, <1>5, <1>6, <2>1, RequestFacts DEF OneRequest
  <2>2. ASSUME NEW i \in DOMAIN queue', queue'[i].live
        PROVE  future'[queue'[i].caller] = "pending" /\ current' # Live(queue'[i].caller)
    BY <1>2, <1>3, <1>5, <1>6, <2>2, RequestFacts DEF OneRequest
  <2>. QED
    BY <2>1, <2>2 DEF OneRequest
<1>8. Awaited'
  <2>1. current'.live => future'[current'.caller] = "pending"
    BY <1>2, <1>5, RequestFacts DEF Awaited
  <2>2. ASSUME NEW d \in Callers, future'[d] = "pending"
        PROVE  current' = Live(d) \/ \E i \in DOMAIN queue' : queue'[i] = Live(d)
    <3>1. CASE d = c
      <4>1. Len(queue) + 1 \in DOMAIN queue'
        BY <1>3, RequestFacts
      <4>. QED
        BY <1>3, <3>1, <4>1
    <3>2. CASE d # c
      <4>1. current = Live(d) \/ \E i \in DOMAIN queue : queue[i] = Live(d)
        BY <1>5, <2>2, <3>2 DEF Awaited
      <4>. QED
        BY <1>2, <1>3, <4>1, RequestFacts
    <3>. QED
      BY <3>1, <3>2
  <2>. QED
    BY <2>1, <2>2 DEF Awaited
<1>9. WorkerHolds' /\ Scheduler!StoppedIsQuiet'
  BY <1>2 DEF WorkerHolds, Scheduler!StoppedIsQuiet
<1>. QED
  BY <1>4, <1>7, <1>8, <1>9

\* A caller that gives up leaves its future cancelled and the worker its task.
LEMMA GiveUpKeeps ==
  ASSUME SchedulerInv, NEW c \in Callers, Scheduler!GiveUp(c)
  PROVE  SchedulerInv'
<1>. USE DEF SchedulerInv
<1> DEFINE abandoned(r) == [r EXCEPT !.live = FALSE]
<1>1. /\ future[c] = "pending" /\ future' = [future EXCEPT ![c] = "cancelled"]
      /\ queue' = [i \in DOMAIN queue |->
                     IF queue[i].caller = c THEN abandoned(queue[i]) ELSE queue[i]]
      /\ current' = IF current.caller = c THEN abandoned(current) ELSE current
      /\ UNCHANGED <<worker, ready, service>>
  BY DEF Scheduler!GiveUp, Scheduler!Abandon
<1>2. /\ \A d \in Callers : future'[d] = IF d = c THEN "cancelled" ELSE future[d]
      /\ future' \in [Callers -> {Scheduler!None, "pending"} \cup Scheduler!Answered]
  BY <1>1 DEF Scheduler!TypeOK, Scheduler!Answered
<1>3. /\ DOMAIN queue' = DOMAIN queue
      /\ \A i \in DOMAIN queue :
           /\ queue'[i] \in Scheduler!Requests
           /\ queue'[i].live => queue'[i] = queue[i] /\ queue[i].caller # c
           /\ queue[i].caller # c => queue'[i] = queue[i]
  BY <1>1, RequestFacts DEF Scheduler!Requests
<1>4. queue' \in Seq(Scheduler!Requests)
  <2>. HIDE DEF Scheduler!Requests
  <2>1. queue' \in [1..Len(queue) -> Scheduler!Requests]
    BY <1>1, <1>3, RequestFacts
  <2>. QED
    BY <2>1, RequestFacts, SeqDef
<1>5. /\ current' \in Scheduler!Requests \cup {Scheduler!NoRequest}
      /\ current' \in Scheduler!Requests \/ current' = current
      /\ current'.live => current' = current /\ current.caller # c
      /\ current.caller # c => current' = current
      /\ current = Scheduler!NoRequest => current' = Scheduler!NoRequest
  <2>1. \A r \in Scheduler!Requests :
          abandoned(r) \in Scheduler!Requests /\ ~ abandoned(r).live
    BY DEF Scheduler!Requests
  <2>2. abandoned(Scheduler!NoRequest) = Scheduler!NoRequest
    <3> DEFINE Nobody == [caller : {Scheduler!None}, live : BOOLEAN]
    <3>1. \A r \in Nobody : abandoned(r) \in Nobody /\ ~ abandoned(r).live
      OBVIOUS
    <3>2. \A r \in Nobody : ~ r.live => r = Scheduler!NoRequest
      BY DEF Scheduler!NoRequest
    <3>3. Scheduler!NoRequest \in Nobody
      BY DEF Scheduler!NoRequest
    <3>. QED
      BY <3>1, <3>2, <3>3
  <2>3. current \in Scheduler!Requests \cup {Scheduler!NoRequest}
    BY DEF Scheduler!TypeOK
  <2>4. ~ Scheduler!NoRequest.live
    BY DEF Scheduler!NoRequest
  <2>. HIDE DEF abandoned
  <2>. QED
    BY <1>1, <2>1, <2>2, <2>3, <2>4
<1>6. Scheduler!TypeOK'
  BY <1>1, <1>2, <1>4, <1>5 DEF Scheduler!TypeOK
<1>7. OneRequest'
  <2>1. ASSUME NEW d \in Callers, current' = Live(d) PROVE current = Live(d)
    BY <1>5, <2>1 DEF Live
  <2>. QED
    BY <1>2, <1>3, <2>1, RequestFacts DEF OneRequest
<1>8. Awaited'
  <2>1. ASSUME NEW d \in Callers, future'[d] = "pending"
        PROVE  current' = Live(d) \/ \E i \in DOMAIN queue' : queue'[i] = Live(d)
    <3>1. d # c /\ (current = Live(d) \/ \E i \in DOMAIN queue : queue[i] = Live(d))
      BY <1>2, <2>1 DEF Awaited
    <3>2. Live(d).caller = d
      BY DEF Live
    <3>. QED
      BY <1>3, <1>5, <3>1, <3>2
  <2>2. current'.live => future'[current'.caller] = "pending"
    BY <1>2, <1>5, RequestFacts DEF Awaited
  <2>. QED
    BY <2>1, <2>2 DEF Awaited
<1>9. WorkerHolds'
  BY <1>1, <1>5 DEF WorkerHolds, Scheduler!NoRequest
<1>10. Scheduler!StoppedIsQuiet'
  BY <1>1 DEF Scheduler!StoppedIsQuiet
<1>. QED
  BY <1>6, <1>7, <1>8, <1>9, <1>10

\* What the requests owe their callers, when a request leaves them and its
\* future is completed: skipped, refused, or at the end of its execution.
LEMMA TakeKeeps ==
  ASSUME SchedulerInv, Scheduler!Take
  PROVE  /\ SchedulerInv'
         /\ worker' = "busy" =>
              /\ current'.live /\ current'.caller \in Callers
              /\ \A j \in DOMAIN queue' :
                   Priority[current'.caller] <= Priority[queue'[j].caller]
<1>. USE DEF SchedulerInv
<1> DEFINE n == Scheduler!First(queue)
           r == queue[n]
<1>1. /\ worker = "idle" /\ queue # <<>> /\ UNCHANGED <<ready, service>>
      /\ queue' = RemoveAt(queue, n)
      /\ \/ /\ r.live /\ worker' = "busy" /\ current' = r /\ future' = future
         \/ /\ UNCHANGED <<worker, current>>
            /\ future' = IF r.live THEN [future EXCEPT ![r.caller] = "error"] ELSE future
  BY DEF Scheduler!Take, Scheduler!Complete, Scheduler!RemoveAt, RemoveAt
<1>2. /\ n \in DOMAIN queue /\ queue \in Seq(Scheduler!Requests)
      /\ \A j \in DOMAIN queue : Priority[r.caller] <= Priority[queue[j].caller]
  BY <1>1, FirstFacts DEF Scheduler!TypeOK
<1>. HIDE DEF n
<1>3. /\ queue' \in Seq(Scheduler!Requests) /\ DOMAIN queue' = 1..(Len(queue) - 1)
      /\ \A i \in DOMAIN queue' : queue'[i] = IF i < n THEN queue[i] ELSE queue[i + 1]
  <2>1. n \in 1..Len(queue)
    BY <1>2, RequestFacts
  <2>2. queue' \in Seq(Scheduler!Requests) /\ Len(queue') = Len(queue) - 1
    BY <1>1, <1>2, <2>1, RemoveAtFacts
  <2>3. DOMAIN queue' = 1..(Len(queue) - 1)
    BY <2>2, LenProperties
  <2>. QED
    BY <1>1, <1>2, <2>1, <2>2, <2>3, RemoveAtFacts
<1> DEFINE old(i) == IF i < n THEN i ELSE i + 1
<1>4. /\ \A i \in DOMAIN queue' :
           old(i) \in DOMAIN queue \ {n} /\ queue'[i] = queue[old(i)]
      /\ \A i, j \in DOMAIN queue' : old(i) = old(j) => i = j
      /\ \A j \in DOMAIN queue \ {n} : \E i \in DOMAIN queue' : old(i) = j
  <2>1. n \in 1..Len(queue) /\ DOMAIN queue = 1..Len(queue) /\ Len(queue) \in Nat
    BY <1>2, RequestFacts
  <2>2. ASSUME NEW j \in DOMAIN queue \ {n} PROVE \E i \in DOMAIN queue' : old(i) = j
    <3>1. CASE j < n
      <4>1. j \in DOMAIN queue'
        BY <1>3, <2>1, <3>1
      <4>. QED
        BY <3>1, <4>1
    <3>2. CASE j > n
      <4>1. j - 1 \in DOMAIN queue' /\ old(j - 1) = j
        BY <1>3, <2>1, <3>2
      <4>. QED
        BY <4>1
    <3>. QED
      BY <2>1, <3>1, <3>2
  <2>. QED
    BY <1>3, <2>1, <2>2
<1>. HIDE DEF old
<1>5. /\ r \in Scheduler!Requests /\ r.caller \in Callers /\ r.live \in BOOLEAN
      /\ r.live => r = Live(r.caller)
      /\ r.live => future[r.caller] = "pending"
      /\ r.live => \A i \in DOMAIN queue' : queue'[i].live => queue'[i].caller # r.caller
      /\ current = Scheduler!NoRequest /\ ~ current.live
      /\ \A i \in DOMAIN queue' : queue'[i].live => future[queue'[i].caller] = "pending"
  <2>1. current = Scheduler!NoRequest /\ ~ current.live
    BY <1>1 DEF WorkerHolds, Scheduler!NoRequest
  <2>. QED
    BY <1>2, <1>4, <2>1, RequestFacts DEF OneRequest
<1>. HIDE DEF r
<1>6. Scheduler!TypeOK'
  <2>1. CASE r.live /\ worker' = "busy" /\ current' = r /\ future' = future
    BY <1>1, <1>3, <1>5, <2>1 DEF Scheduler!TypeOK
  <2>2. CASE /\ UNCHANGED <<worker, current>>
             /\ future' = IF r.live THEN [future EXCEPT ![r.caller] = "error"] ELSE future
    <3>1. future' \in [Callers -> {Scheduler!None, "pending"} \cup Scheduler!Answered]
      BY <1>5, <2>2 DEF Scheduler!TypeOK, Scheduler!Answered
    <3>. QED
      BY <1>1, <1>3, <2>2, <3>1 DEF Scheduler!TypeOK
  <2>. QED
    BY <1>1, <2>1, <2>2
<1>7. \A i, j \in DOMAIN queue' :
        queue'[i].live /\ queue'[j].live /\ queue'[i].caller = queue'[j].caller => i = j
  BY <1>4 DEF OneRequest
<1>8. \A i \in DOMAIN queue' : queue'[i].caller \in Callers /\ queue'[i].live \in BOOLEAN
  BY <1>4, RequestFacts
<1>9. \A d \in Callers : future[d] = "pending" =>
        r = Live(d) \/ \E i \in DOMAIN queue' : queue'[i] = Live(d)
  <2>1. ASSUME NEW d \in Callers, future[d] = "pending", r # Live(d)
        PROVE  \E i \in DOMAIN queue' : queue'[i] = Live(d)
    <3>1. PICK j \in DOMAIN queue : queue[j] = Live(d)
      BY <1>5, <2>1 DEF Awaited, Live
    <3>2. j # n
      BY <2>1, <3>1 DEF r
    <3>. QED
      BY <1>4, <3>1, <3>2
  <2>. QED
    BY <2>1
<1>10. \A d : Live(d).live /\ Live(d).caller = d
  BY DEF Live
<1>11. OneRequest' /\ Awaited'
  <2>1. CASE r.live /\ worker' = "busy" /\ current' = r /\ future' = future
    <3>1. OneRequest'
      BY <1>5, <1>7, <1>8, <1>10, <2>1 DEF OneRequest
    <3>. QED
      BY <1>5, <1>9, <2>1, <3>1 DEF Awaited
  <2>2. CASE r.live /\ UNCHANGED <<worker, current>>
             /\ future' = [future EXCEPT ![r.caller] = "error"]
    <3>1. \A d \in Callers : future'[d] = IF d = r.caller THEN "error" ELSE future[d]
      BY <2>2 DEF Scheduler!TypeOK
    <3>2. OneRequest'
      BY <1>5, <1>7, <1>8, <1>10, <2>2, <3>1 DEF OneRequest
    <3>3. Awaited'
      BY <1>5, <1>9, <1>10, <2>2, <3>1 DEF Awaited
    <3>. QED
      BY <3>2, <3>3
  <2>3. CASE ~ r.live /\ UNCHANGED <<worker, current, future>>
    <3>1. OneRequest'
      BY <1>5, <1>7, <1>8, <1>10, <2>3 DEF OneRequest
    <3>. QED
      BY <1>5, <1>9, <1>10, <2>3, <3>1 DEF Awaited
  <2>. QED
    BY <1>1, <1>5, <2>1, <2>2, <2>3
<1>12. WorkerHolds' /\ Scheduler!StoppedIsQuiet'
  BY <1>1, <1>5 DEF WorkerHolds, Scheduler!StoppedIsQuiet
<1>13. ASSUME worker' = "busy"
       PROVE  /\ current'.live /\ current'.caller \in Callers
              /\ \A j \in DOMAIN queue' :
                   Priority[current'.caller] <= Priority[queue'[j].caller]
  <2>1. r.live /\ current' = r
    BY <1>1, <1>13
  <2>. QED
    BY <1>2, <1>4, <1>5, <2>1 DEF r
<1>. QED
  BY <1>6, <1>11, <1>12, <1>13

\* The worker that has its outcome answers the future it took, unless that was cancelled.
LEMMA FinishKeeps ==
  ASSUME SchedulerInv, Scheduler!Finish \/ Scheduler!WorkerEnds
  PROVE  SchedulerInv'
<1>. USE DEF SchedulerInv
<1>1. PICK outcome \in {"result", "error", "cancelled"} :
        future' = IF current.live THEN [future EXCEPT ![current.caller] = outcome] ELSE future
  BY DEF Scheduler!Finish, Scheduler!WorkerEnds, Scheduler!Complete
<1>2. /\ current' = Scheduler!NoRequest /\ UNCHANGED <<queue, ready, service>>
      /\ worker' \in {"idle", "off"}
      /\ (worker' = "off" => worker = "cancelled")
      /\ (worker' = "idle" => worker = "busy")
  BY DEF Scheduler!Finish, Scheduler!WorkerEnds
<1>3. /\ future' \in [Callers -> {Scheduler!None, "pending"} \cup Scheduler!Answered]
      /\ \A d \in Callers : future'[d] =
           IF current.live /\ d = current.caller THEN outcome ELSE future[d]
  BY <1>1, RequestFacts DEF Scheduler!TypeOK, Scheduler!Answered
<1>4. Scheduler!TypeOK'
  BY <1>2, <1>3 DEF Scheduler!TypeOK
<1>5. ~ current'.live /\ \A d : current' # Live(d)
  BY <1>2 DEF Scheduler!NoRequest, Live
<1>6. \A d : current = Live(d) => current.live /\ current.caller = d
  BY DEF Live
<1>7. OneRequest'
  <2>1. ASSUME NEW i \in DOMAIN queue, queue[i].live
        PROVE  future'[queue[i].caller] = "pending"
    BY <1>3, <2>1, RequestFacts DEF OneRequest
  <2>. QED
    BY <1>2, <1>5, <2>1 DEF OneRequest
<1>8. Awaited'
  BY <1>2, <1>3, <1>5, <1>6 DEF Awaited
<1>9. WorkerHolds' /\ Scheduler!StoppedIsQuiet'
  BY <1>2 DEF WorkerHolds, Scheduler!StoppedIsQuiet
<1>. QED
  BY <1>4, <1>7, <1>8, <1>9

\* The last statement of stop leaves nobody waiting.
LEMMA FailPendingKeeps ==
  ASSUME SchedulerInv, Scheduler!FailPending
  PROVE  SchedulerInv'
<1>. USE DEF SchedulerInv
<1> DEFINE waiting == {r.caller : r \in {s \in Scheduler!ToSet(queue) : s.live}}
<1>1. /\ worker = "off" /\ queue' = <<>> /\ service' = "stopped"
      /\ future' = [c \in Callers |-> IF c \in waiting THEN "error" ELSE future[c]]
      /\ UNCHANGED <<worker, current, ready>>
  BY DEF Scheduler!FailPending
<1>2. \A i \in DOMAIN queue : queue[i] \in Scheduler!ToSet(queue)
  BY DEF Scheduler!ToSet
<1>3. current = Scheduler!NoRequest /\ ~ current.live /\ \A d : current # Live(d)
  BY <1>1 DEF WorkerHolds, Scheduler!NoRequest, Live
<1>4. \A c \in Callers : future[c] = "pending" => c \in waiting
  <2>1. ASSUME NEW c \in Callers, future[c] = "pending" PROVE c \in waiting
    <3>1. PICK i \in DOMAIN queue : queue[i] = Live(c)
      BY <1>3, <2>1 DEF Awaited
    <3>. QED
      BY <1>2, <3>1 DEF Live
  <2>. QED
    BY <2>1
<1>. HIDE DEF waiting
<1>5. \A c \in Callers : future'[c] # "pending"
  BY <1>1, <1>4
<1>6. future' \in [Callers -> {Scheduler!None, "pending"} \cup Scheduler!Answered]
  BY <1>1 DEF Scheduler!TypeOK, Scheduler!Answered
<1>7. queue' \in Seq(Scheduler!Requests) /\ DOMAIN queue' = {}
  BY <1>1
<1>8. Scheduler!TypeOK'
  BY <1>1, <1>6, <1>7 DEF Scheduler!TypeOK
<1>9. OneRequest' /\ Awaited'
  BY <1>1, <1>3, <1>5, <1>7 DEF OneRequest, Awaited
<1>10. WorkerHolds' /\ Scheduler!StoppedIsQuiet'
  BY <1>1, <1>3, <1>5 DEF WorkerHolds, Scheduler!StoppedIsQuiet
<1>. QED
  BY <1>8, <1>9, <1>10

\* The other steps do not touch the requests.
LEMMA RequestsStay ==
  ASSUME SchedulerInv, UNCHANGED <<queue, current, future>>,
         \/ Scheduler!Connected \/ Scheduler!ConnectionLost \/ Scheduler!BeginStop
         \/ Scheduler!CancelWorker \/ Scheduler!Start \/ UNCHANGED schedulerVars
  PROVE  SchedulerInv'
<1>. USE DEF SchedulerInv
<1>1. OneRequest' /\ Awaited'
  BY DEF OneRequest, Awaited
<1>2. Scheduler!TypeOK' /\ WorkerHolds' /\ Scheduler!StoppedIsQuiet'
  <2>1. CASE Scheduler!Connected \/ Scheduler!ConnectionLost
    BY <2>1 DEF Scheduler!Connected, Scheduler!ConnectionLost, Scheduler!TypeOK,
       WorkerHolds, Scheduler!StoppedIsQuiet
  <2>2. CASE Scheduler!BeginStop \/ Scheduler!CancelWorker
    BY <2>2 DEF Scheduler!BeginStop, Scheduler!CancelWorker, Scheduler!TypeOK,
       WorkerHolds, Scheduler!StoppedIsQuiet
  <2>3. CASE Scheduler!Start
    BY <2>3 DEF Scheduler!Start, Scheduler!TypeOK, WorkerHolds, Scheduler!StoppedIsQuiet
  <2>4. CASE UNCHANGED schedulerVars
    BY <2>4 DEF schedulerVars, Scheduler!TypeOK, WorkerHolds, Scheduler!StoppedIsQuiet
  <2>. QED
    BY <2>1, <2>2, <2>3, <2>4
<1>. QED
  BY <1>1, <1>2

\* Every step of the scheduler keeps its invariant.
LEMMA SchedulerKept ==
  ASSUME SchedulerInv, Scheduler!Next \/ UNCHANGED schedulerVars
  PROVE  /\ SchedulerInv'
         /\ worker = "idle" /\ worker' = "busy" =>
              /\ current'.live /\ current'.caller \in Callers
              /\ \A j \in DOMAIN queue' :
                   Priority[current'.caller] <= Priority[queue'[j].caller]
<1>1. ASSUME NEW c \in Callers, Scheduler!Submit(c) \/ Scheduler!GiveUp(c)
      PROVE  SchedulerInv' /\ worker' = worker
  BY <1>1, SubmitKeeps, GiveUpKeeps DEF Scheduler!Submit, Scheduler!GiveUp
<1>2. CASE Scheduler!Take
  BY <1>2, TakeKeeps
<1>3. CASE Scheduler!Finish \/ Scheduler!WorkerEnds
  BY <1>3, FinishKeeps DEF Scheduler!Finish, Scheduler!WorkerEnds
<1>4. CASE Scheduler!FailPending
  BY <1>4, FailPendingKeeps DEF Scheduler!FailPending
<1>5. CASE \/ Scheduler!Connected \/ Scheduler!ConnectionLost \/ Scheduler!BeginStop
           \/ Scheduler!CancelWorker \/ Scheduler!Start \/ UNCHANGED schedulerVars
  <2>1. UNCHANGED <<queue, current, future>> /\ (worker = "idle" => worker' # "busy")
    BY <1>5 DEF Scheduler!Connected, Scheduler!ConnectionLost, Scheduler!BeginStop,
       Scheduler!CancelWorker, Scheduler!Start, schedulerVars
  <2>. QED
    BY <1>5, <2>1, RequestsStay
<1>. QED
  BY <1>1, <1>2, <1>3, <1>4, <1>5 DEF Scheduler!Next

\* The scheduler's invariant holds at first.
LEMMA SchedulerInitially == Scheduler!Init => SchedulerInv
<1>. SUFFICES ASSUME Scheduler!Init PROVE SchedulerInv
  OBVIOUS
<1>1. queue = <<>> /\ queue \in Seq(Scheduler!Requests) /\ DOMAIN queue = {}
  BY DEF Scheduler!Init
<1>2. current = Scheduler!NoRequest /\ ~ current.live
  BY DEF Scheduler!Init, Scheduler!NoRequest
<1>3. \A c \in Callers : future[c] # "pending"
  BY DEF Scheduler!Init, Scheduler!None
<1>4. Scheduler!TypeOK
  BY <1>1, <1>2 DEF Scheduler!Init, Scheduler!TypeOK
<1>. QED
  BY <1>1, <1>2, <1>3, <1>4 DEF SchedulerInv, Scheduler!Init, OneRequest, Awaited,
     WorkerHolds, Scheduler!StoppedIsQuiet

\* The scheduler's cardinality is that of the theorems on finite sets.
LEMMA SameCardinality == \A S : Scheduler!Cardinality(S) = Cardinality(S)
BY DEF Scheduler!Cardinality, Cardinality

\* The invariant says that no future is without somebody to answer it.
LEMMA NobodyOrphaned == SchedulerInv => Scheduler!NoOrphanedFuture
<1>. SUFFICES ASSUME SchedulerInv, NEW c \in Callers
              PROVE  Cardinality({i \in DOMAIN queue : queue[i] = Live(c)})
                       + (IF current = Live(c) THEN 1 ELSE 0)
                     = IF future[c] = "pending" THEN 1 ELSE 0
  BY SameCardinality DEF Scheduler!NoOrphanedFuture, Live
<1>. USE DEF SchedulerInv
<1> DEFINE queued == {i \in DOMAIN queue : queue[i] = Live(c)}
<1>1. Live(c).live /\ Live(c).caller = c
  BY DEF Live
<1>2. CASE queued = {}
  <2>1. Cardinality(queued) = 0
    BY <1>2, FS_EmptySet
  <2>2. current = Live(c) <=> future[c] = "pending"
    BY <1>1, <1>2 DEF Awaited
  <2>. QED
    BY <2>1, <2>2
<1>3. CASE queued # {}
  <2>1. PICK i \in queued : TRUE
    BY <1>3
  <2>2. /\ i \in DOMAIN queue /\ queue[i] = Live(c) /\ \A j \in queued : j = i
        /\ future[c] = "pending" /\ current # Live(c)
    BY <1>1, <2>1 DEF OneRequest
  <2>3. queued = {i}
    BY <2>2
  <2>4. Cardinality(queued) = 1
    BY <2>3, FS_Singleton
  <2>. QED
    BY <2>2, <2>4
<1>. QED
  BY <1>2, <1>3

-----------------------------------------------------------------------------
(* Pairing through BlueZ. *)

PairPcs == {"connect1", "lookup1", "paired1", "connect2", "lookup2", "filter", "start",
            "poll", "stop", "lookup3", "paired2", "register", "default", "call",
            "unregister", "paired3"}
RemovePcs == {"connect", "objects", "disconnect", "remove", "removed"}

\* Which call is where, and where a cleanup may lead.
LinuxPlaces ==
  /\ linuxClient.pc = "idle" => linuxClient.call = Nothing
  /\ linuxClient.pc \in PairPcs => linuxClient.call = "pair"
  /\ linuxClient.pc \in RemovePcs => linuxClient.call = "remove"
  /\ linuxClient.pc = "stop" => linuxClient.then \in {"lookup3", "error", "cancelled"}
  /\ linuxClient.pc = "unregister" =>
       linuxClient.then \in {"paired3", "ok", "error", "cancelled"}

\* A discovery runs only where the client stops it on every way out.
DiscoveryBounded == bluez.discovering => linuxClient.pc \in {"poll", "stop"}

\* What BlueZ had during the call, and what its answers were based on.
BondSeen == \E d \in seen : d.bond # "none"
GoneSeen == \E d \in seen : ~ d.known
LinuxSeen ==
  /\ linuxClient.pc # "idle" => Linux!Device(bluez) \in seen
  /\ linuxClient.pc = "idle" => bluez.reply = Nothing
  /\ bluez.reply = "exists" => BondSeen
  /\ linuxClient.pc = "unregister" /\ linuxClient.then = "ok" => BondSeen
  /\ linuxClient.pc = "removed" => GoneSeen

LinuxInv ==
  /\ Linux!TypeOK /\ LinuxPlaces /\ DiscoveryBounded /\ LinuxSeen /\ Linux!NothingLeft

LinuxOutcomes == {"ok", "error", "cancelled"}
LinuxReturns(call) ==
  linuxClient.call = call /\ linuxClient'.pc = "idle" /\ linuxClient'.outcome = "ok"

\* The places of the Linux client: idle, those of pair and those of remove.
LEMMA LinuxPcs == Linux!Pcs = {"idle"} \cup PairPcs \cup RemovePcs
BY DEF Linux!Pcs, Linux!CallErrors, PairPcs, RemovePcs

\* A call that ends leaves nothing, whatever its outcome.
LEMMA LinuxEnds ==
  ASSUME LinuxInv, linuxClient.pc # "idle", NEW r \in LinuxOutcomes, Linux!Ends(r),
         Linux!Observed
  PROVE  /\ LinuxInv' /\ linuxClient'.pc = "idle" /\ linuxClient'.outcome = r
<1>. USE DEF LinuxInv
<1>1. /\ linuxClient' = [linuxClient EXCEPT !.pc = "idle", !.call = Nothing,
            !.passkey = Nothing, !.polls = 0, !.then = Nothing, !.bus = FALSE, !.outcome = r]
      /\ bluez' \in Linux!Dropped
  BY DEF Linux!Ends, Linux!Closed
<1>2. PICK c \in {"none", "answered"} :
        bluez' = [bluez EXCEPT !.agent = FALSE, !.discovering = FALSE, !.reply = Nothing,
                               !.ceremony = c]
  BY <1>1 DEF Linux!Dropped
<1>3. /\ linuxClient'.pc = "idle" /\ linuxClient'.outcome = r /\ ~ linuxClient'.bus
      /\ linuxClient'.call = Nothing
      /\ ~ bluez'.agent /\ ~ bluez'.discovering /\ bluez'.reply = Nothing
  BY <1>1, <1>2 DEF Linux!TypeOK, Linux!Clients
<1>4. Linux!TypeOK'
  <2>1. "idle" \in Linux!Pcs /\ 0 \in 0..(Polls - 1)
    BY LinuxPcs, PairingAssumption DEF Linux!LinuxPairingAssumption
  <2>2. linuxClient' \in Linux!Clients
    BY <1>1, <2>1 DEF Linux!TypeOK, Linux!Clients, LinuxOutcomes
  <2>. QED
    BY <1>2, <2>2 DEF Linux!TypeOK
<1>5. Nothing # "exists"
  BY PairingAssumption DEF Linux!LinuxPairingAssumption
<1>. QED
  BY <1>3, <1>4, <1>5 DEF LinuxPlaces, DiscoveryBounded, LinuxSeen, Linux!NothingLeft, Linux!At,
     PairPcs, RemovePcs

\* A step of a call that does not end it: what has to be seen to.
LinuxWalk ==
  /\ Linux!TypeOK' /\ LinuxPlaces' /\ DiscoveryBounded' /\ linuxClient'.pc # "idle"
  /\ bluez'.reply = "exists" => bluez.reply = "exists" \/ bluez.bond # "none"
  /\ linuxClient'.pc = "unregister" /\ linuxClient'.then = "ok" =>
       \/ linuxClient.pc = "unregister" /\ linuxClient.then = "ok"
       \/ bluez.reply = "exists"
  /\ linuxClient'.pc = "removed" => linuxClient.pc = "removed" \/ ~ bluez'.known

\* A step that ends it, with what a success rests on.
LinuxStop ==
  \E r \in LinuxOutcomes :
    /\ Linux!Ends(r)
    /\ r = "ok" => (linuxClient.call = "pair" /\ BondSeen)
                   \/ (linuxClient.call = "remove" /\ GoneSeen)

\* A step that does not end its call keeps the invariant, whatever was seen.
LEMMA LinuxWalks ==
  ASSUME LinuxInv, linuxClient.pc # "idle", Linux!Observed, LinuxWalk
  PROVE  LinuxInv'
<1>1. seen' = seen \cup {Linux!Device(bluez')}
  BY DEF Linux!Observed, Linux!At
<1>2. /\ BondSeen => BondSeen'
      /\ GoneSeen => GoneSeen'
      /\ Linux!Device(bluez') \in seen'
      /\ ~ bluez'.known => GoneSeen'
      /\ bluez.bond # "none" => BondSeen
  <2>1. Linux!Device(bluez).bond = bluez.bond /\ Linux!Device(bluez) \in seen
    BY DEF LinuxInv, LinuxSeen, Linux!Device
  <2>2. Linux!Device(bluez').known = bluez'.known
    BY DEF Linux!Device
  <2>. QED
    BY <1>1, <2>1, <2>2 DEF BondSeen, GoneSeen
<1>3. LinuxSeen'
  BY <1>2 DEF LinuxInv, LinuxSeen, LinuxWalk
<1>. QED
  BY <1>3 DEF LinuxInv, LinuxWalk, Linux!NothingLeft, Linux!At

\* A call begins.
LEMMA LinuxBegins ==
  ASSUME LinuxInv, Linux!Observed,
         \/ \E passkey \in {"right", "wrong", "malformed"} : Linux!PairCalled(passkey)
         \/ Linux!RemoveCalled
  PROVE  LinuxInv' /\ linuxClient.pc = "idle"
<1>. USE DEF LinuxInv
<1>1. linuxClient.pc = "idle" /\ bluez' = bluez
  BY DEF Linux!PairCalled, Linux!RemoveCalled, Linux!At
<1>2. /\ Linux!TypeOK' /\ LinuxPlaces'
      /\ linuxClient'.pc \in {"idle", "connect1", "connect"} /\ linuxClient'.bus = linuxClient.bus
  <2>1. CASE linuxClient' = [linuxClient EXCEPT !.outcome = "error"]
    BY <1>1, <2>1 DEF Linux!TypeOK, Linux!Clients, LinuxPlaces, PairPcs, RemovePcs
  <2>2. ASSUME NEW passkey \in {"right", "wrong"}, linuxClient' =
                 [linuxClient EXCEPT !.pc = "connect1", !.call = "pair", !.outcome = Nothing,
                                     !.passkey = passkey]
        PROVE  /\ Linux!TypeOK' /\ LinuxPlaces'
               /\ linuxClient'.pc = "connect1" /\ linuxClient'.bus = linuxClient.bus
    <3>1. "connect1" \in Linux!Pcs
      BY LinuxPcs DEF PairPcs
    <3>2. /\ linuxClient' \in Linux!Clients
          /\ linuxClient'.pc = "connect1" /\ linuxClient'.bus = linuxClient.bus
          /\ linuxClient'.call = "pair"
      BY <2>2, <3>1 DEF Linux!TypeOK, Linux!Clients
    <3>. QED
      BY <1>1, <3>2 DEF Linux!TypeOK, LinuxPlaces, PairPcs, RemovePcs
  <2>3. CASE linuxClient' = [linuxClient EXCEPT !.pc = "connect", !.call = "remove",
                                                !.outcome = Nothing]
    <3>1. "connect" \in Linux!Pcs
      BY LinuxPcs DEF RemovePcs
    <3>2. /\ linuxClient' \in Linux!Clients
          /\ linuxClient'.pc = "connect" /\ linuxClient'.bus = linuxClient.bus
          /\ linuxClient'.call = "remove"
      BY <2>3, <3>1 DEF Linux!TypeOK, Linux!Clients
    <3>. QED
      BY <1>1, <3>2 DEF Linux!TypeOK, LinuxPlaces, PairPcs, RemovePcs
  <2>. QED
    BY <2>1, <2>2, <2>3 DEF Linux!PairCalled, Linux!RemoveCalled
<1>5. DiscoveryBounded' /\ Linux!NothingLeft'
  BY <1>1, <1>2 DEF DiscoveryBounded, Linux!NothingLeft, Linux!At
<1>6. linuxClient'.pc # "idle" => seen' = {Linux!Device(bluez')}
  BY <1>1 DEF Linux!Observed, Linux!At
<1>8. LinuxSeen'
  BY <1>1, <1>2, <1>6, PairingAssumption DEF LinuxSeen, Linux!LinuxPairingAssumption
<1>. QED
  BY <1>1, <1>2, <1>5, <1>8

\* What BlueZ had when a call looked, it had during the call.
LEMMA LinuxLooks ==
  ASSUME LinuxInv, linuxClient.pc # "idle"
  PROVE  /\ bluez.bond # "none" => BondSeen
         /\ ~ bluez.known => GoneSeen
<1>1. /\ Linux!Device(bluez).bond = bluez.bond /\ Linux!Device(bluez).known = bluez.known
      /\ Linux!Device(bluez) \in seen
  BY DEF LinuxInv, LinuxSeen, Linux!Device
<1>. QED
  BY <1>1 DEF BondSeen, GoneSeen

\* The client goes on to another place, and BlueZ stays as it is.
LEMMA LinuxGoes ==
  ASSUME LinuxInv, NEW from \in PairPcs \cup RemovePcs, NEW to, linuxClient.pc = from,
         \/ from \in PairPcs /\ to \in PairPcs \ {"stop", "unregister"}
         \/ from \in RemovePcs /\ to \in RemovePcs \ {"removed"},
         linuxClient' = [linuxClient EXCEPT !.pc = to]
           \/ (\E b \in BOOLEAN : linuxClient' = [linuxClient EXCEPT !.pc = to, !.bus = b])
           \/ linuxClient' = [linuxClient EXCEPT !.pc = to, !.then = Nothing],
         UNCHANGED bluez, bluez.discovering => to = "poll"
  PROVE  LinuxWalk
<1>1. to \in Linux!Pcs /\ to # "idle" /\ from # "idle"
  BY LinuxPcs DEF PairPcs, RemovePcs
<1>2. /\ linuxClient' \in Linux!Clients /\ linuxClient'.pc = to
      /\ linuxClient'.call = linuxClient.call
  <2>. USE DEF LinuxInv, Linux!TypeOK, Linux!Clients
  <2>1. CASE linuxClient' = [linuxClient EXCEPT !.pc = to]
    BY <1>1, <2>1
  <2>2. CASE \E b \in BOOLEAN : linuxClient' = [linuxClient EXCEPT !.pc = to, !.bus = b]
    BY <1>1, <2>2
  <2>3. CASE linuxClient' = [linuxClient EXCEPT !.pc = to, !.then = Nothing]
    BY <1>1, <2>3
  <2>. QED
    BY <2>1, <2>2, <2>3
<1>3. LinuxPlaces'
  BY <1>1, <1>2 DEF LinuxInv, LinuxPlaces, PairPcs, RemovePcs
<1>4. to # "unregister" /\ to # "removed"
  BY DEF PairPcs, RemovePcs
<1>. QED
  BY <1>1, <1>2, <1>3, <1>4 DEF LinuxWalk, LinuxInv, Linux!TypeOK, DiscoveryBounded

\* The client goes to a cleanup, and from there to where that leads.
LEMMA LinuxCleansUp ==
  ASSUME LinuxInv, NEW to \in {"stop", "unregister"}, linuxClient.pc \in PairPcs,
         NEW next, linuxClient'.then = next, linuxClient' \in Linux!Clients,
         linuxClient'.pc = to, linuxClient'.call = linuxClient.call,
         next \in IF to = "stop" THEN {"lookup3", "error", "cancelled"}
                  ELSE {"paired3", "ok", "error", "cancelled"},
         to = "unregister" => ~ bluez'.discovering,
         next = "ok" => bluez.reply = "exists",
         Linux!TypeOK',
         bluez'.reply = "exists" => bluez.reply = "exists" \/ bluez.bond # "none"
  PROVE  LinuxWalk
<1>1. LinuxPlaces'
  BY DEF LinuxInv, LinuxPlaces, PairPcs, RemovePcs
<1>2. DiscoveryBounded'
  BY DEF DiscoveryBounded
<1>. QED
  BY <1>1, <1>2 DEF LinuxWalk

\* To end a call: with an error whenever, with success on what was seen.
LEMMA LinuxFails ==
  ASSUME NEW r \in {"error", "cancelled"}, Linux!Ends(r)
  PROVE  LinuxStop
BY DEF LinuxStop, LinuxOutcomes

\* A call that ends well has seen what it reports.
LEMMA LinuxSucceeds ==
  ASSUME LinuxInv, linuxClient.pc # "idle", Linux!Ends("ok"),
         \/ linuxClient.pc \in PairPcs /\ (BondSeen \/ bluez.bond # "none")
         \/ linuxClient.pc \in RemovePcs /\ (GoneSeen \/ ~ bluez.known)
  PROVE  LinuxStop
<1>1. (linuxClient.call = "pair" /\ BondSeen) \/ (linuxClient.call = "remove" /\ GoneSeen)
  BY LinuxLooks DEF LinuxInv, LinuxPlaces
<1>2. "ok" \in LinuxOutcomes
  BY DEF LinuxOutcomes
<1>. QED
  BY <1>1, <1>2 DEF LinuxStop

\* A ceremony that stops its discovery will go on to what is next.
LEMMA LinuxStopThen ==
  ASSUME LinuxInv, NEW next \in {"lookup3", "error", "cancelled"}, Linux!StopThen(next)
  PROVE  /\ linuxClient' \in Linux!Clients /\ linuxClient'.pc = "stop"
         /\ linuxClient'.then = next /\ linuxClient'.call = linuxClient.call
<1>1. "stop" \in Linux!Pcs /\ 0 \in 0..(Polls - 1) /\ linuxClient \in Linux!Clients
  BY LinuxPcs, PairingAssumption
     DEF PairPcs, Linux!LinuxPairingAssumption, LinuxInv, Linux!TypeOK
<1>2. linuxClient' = [linuxClient EXCEPT !.pc = "stop", !.polls = 0, !.then = next]
  BY DEF Linux!StopThen
<1>. QED
  BY <1>1, <1>2 DEF Linux!Clients

\* A ceremony that unregisters its agent will go on to what is next.
LEMMA LinuxUnregisterThen ==
  ASSUME LinuxInv, NEW next \in {"paired3", "ok", "error", "cancelled"},
         Linux!UnregisterThen(next)
  PROVE  /\ linuxClient' \in Linux!Clients /\ linuxClient'.pc = "unregister"
         /\ linuxClient'.then = next /\ linuxClient'.call = linuxClient.call
<1>1. "unregister" \in Linux!Pcs /\ linuxClient \in Linux!Clients
  BY LinuxPcs DEF PairPcs, LinuxInv, Linux!TypeOK
<1>2. linuxClient' = [linuxClient EXCEPT !.pc = "unregister", !.then = next]
  BY DEF Linux!UnregisterThen
<1>. QED
  BY <1>1, <1>2 DEF Linux!Clients

\* The steps of pair up to the ceremony.
LEMMA LinuxLooksUp ==
  ASSUME LinuxInv,
         \/ Linux!BusConnected("connect1", "lookup1") \/ Linux!IsPaired
         \/ Linux!BusConnected("connect2", "lookup2") \/ Linux!Looked \/ Linux!FilterSet
         \/ Linux!DiscoveryStarted \/ Linux!Polled \/ Linux!DiscoveryStopped
         \/ Linux!Relooked \/ Linux!Checked
  PROVE  linuxClient.pc # "idle" /\ (LinuxWalk \/ LinuxStop)
<1>. USE DEF Linux!At, Linux!To
<1>1. /\ linuxClient.pc \notin {"poll", "stop"} => ~ bluez.discovering
      /\ linuxClient \in Linux!Clients
  BY DEF LinuxInv, DiscoveryBounded, Linux!TypeOK
<1>2. CASE Linux!BusConnected("connect1", "lookup1") \/ Linux!BusConnected("connect2", "lookup2")
  BY <1>1, <1>2, LinuxGoes DEF Linux!BusConnected, PairPcs
<1>3. CASE Linux!IsPaired
  <2>1. ASSUME linuxClient.pc \in {"lookup1", "paired1"}, Linux!Unpaired PROVE LinuxWalk
    BY <1>1, <2>1, LinuxGoes DEF Linux!Unpaired, PairPcs
  <2>2. ASSUME linuxClient.pc = "lookup1",
               linuxClient' = [linuxClient EXCEPT !.pc = "paired1"], bluez' = bluez
        PROVE  LinuxWalk
    BY <1>1, <2>2, LinuxGoes DEF PairPcs
  <2>3. ASSUME linuxClient.pc = "paired1", bluez.bond # "none", Linux!Ends("ok")
        PROVE  LinuxStop
    BY <2>3, LinuxSucceeds DEF PairPcs
  <2>. QED
    BY <1>3, <2>1, <2>2, <2>3 DEF Linux!IsPaired
<1>4. CASE Linux!Looked
  BY <1>1, <1>4, LinuxGoes DEF Linux!Looked, PairPcs
<1>5. CASE Linux!FilterSet
  BY <1>1, <1>5, LinuxGoes DEF Linux!FilterSet, PairPcs
<1>6. CASE Linux!DiscoveryStarted
  <2>1. /\ linuxClient.pc = "start" /\ linuxClient' = [linuxClient EXCEPT !.pc = "poll"]
        /\ bluez' = [bluez EXCEPT !.discovering = TRUE]
    BY <1>6 DEF Linux!DiscoveryStarted
  <2>2. /\ linuxClient' \in Linux!Clients /\ linuxClient'.pc = "poll"
        /\ linuxClient'.call = linuxClient.call
    BY <1>1, <2>1, LinuxPcs DEF Linux!Clients, PairPcs
  <2>3. Linux!TypeOK' /\ bluez'.reply = bluez.reply
    BY <2>1, <2>2 DEF LinuxInv, Linux!TypeOK
  <2>4. LinuxPlaces'
    BY <2>1, <2>2 DEF LinuxInv, LinuxPlaces, PairPcs, RemovePcs
  <2>. QED
    BY <2>1, <2>2, <2>3, <2>4 DEF LinuxWalk, DiscoveryBounded
<1>7. CASE Linux!Polled
  <2>1. linuxClient.pc = "poll" /\ bluez' = bluez
    BY <1>7 DEF Linux!Polled
  <2>2. CASE Linux!StopThen("lookup3")
    <3>1. /\ linuxClient' \in Linux!Clients /\ linuxClient'.pc = "stop"
          /\ linuxClient'.then = "lookup3" /\ linuxClient'.call = linuxClient.call
      BY <2>2, LinuxStopThen
    <3>2. Linux!TypeOK'
      BY <2>1, <3>1 DEF LinuxInv, Linux!TypeOK
    <3>3. linuxClient.pc \in PairPcs
      BY <2>1 DEF PairPcs
    <3>. QED
      BY <2>1, <3>1, <3>2, <3>3, LinuxCleansUp
  <2>3. CASE linuxClient.polls + 1 < Polls
             /\ linuxClient' = [linuxClient EXCEPT !.polls = linuxClient.polls + 1]
    <3>1. linuxClient.polls + 1 \in 0..(Polls - 1)
      BY <1>1, <2>3, PairingAssumption DEF Linux!Clients, Linux!LinuxPairingAssumption
    <3>2. /\ linuxClient' \in Linux!Clients /\ linuxClient'.pc = "poll"
          /\ linuxClient'.call = linuxClient.call
      BY <1>1, <2>1, <2>3, <3>1 DEF Linux!Clients
    <3>3. LinuxPlaces'
      BY <2>1, <3>2 DEF LinuxInv, LinuxPlaces, PairPcs, RemovePcs
    <3>. QED
      BY <2>1, <3>2, <3>3 DEF LinuxWalk, LinuxInv, Linux!TypeOK, DiscoveryBounded
  <2>. QED
    BY <1>7, <2>1, <2>2, <2>3 DEF Linux!Polled, Linux!Found
<1>8. CASE Linux!DiscoveryStopped
  <2>1. linuxClient.pc = "stop" /\ linuxClient.then \in {"lookup3", "error", "cancelled"}
    BY <1>8 DEF Linux!DiscoveryStopped, LinuxInv, LinuxPlaces
  <2>2. CASE linuxClient.then \in {"error", "cancelled"} /\ Linux!Ends(linuxClient.then)
    BY <2>1, <2>2, LinuxFails
  <2>3. CASE /\ linuxClient.then = "lookup3"
             /\ linuxClient' = [linuxClient EXCEPT !.pc = linuxClient.then, !.then = Nothing]
             /\ bluez' = [bluez EXCEPT !.discovering = FALSE]
    <3>1. /\ linuxClient' \in Linux!Clients /\ linuxClient'.pc = "lookup3"
          /\ linuxClient'.call = linuxClient.call
      BY <1>1, <2>3, LinuxPcs DEF Linux!Clients, PairPcs
    <3>2. Linux!TypeOK' /\ bluez'.reply = bluez.reply /\ ~ bluez'.discovering
      BY <2>3, <3>1 DEF LinuxInv, Linux!TypeOK
    <3>3. LinuxPlaces'
      BY <2>1, <3>1 DEF LinuxInv, LinuxPlaces, PairPcs, RemovePcs
    <3>. QED
      BY <2>1, <3>1, <3>2, <3>3 DEF LinuxWalk, DiscoveryBounded
  <2>. QED
    BY <1>8, <2>1, <2>2, <2>3 DEF Linux!DiscoveryStopped
<1>9. CASE Linux!Relooked
  <2>1. CASE linuxClient' = [linuxClient EXCEPT !.pc = "paired2"] /\ bluez' = bluez
    BY <1>1, <1>9, <2>1, LinuxGoes DEF Linux!Relooked, PairPcs
  <2>. QED
    BY <1>9, <2>1, LinuxFails DEF Linux!Relooked
<1>10. CASE Linux!Checked
  <2>1. CASE linuxClient' = [linuxClient EXCEPT !.pc = "register"] /\ bluez' = bluez
    BY <1>1, <1>10, <2>1, LinuxGoes DEF Linux!Checked, PairPcs
  <2>2. CASE bluez.bond # "none" /\ Linux!Ends("ok")
    BY <1>10, <2>2, LinuxSucceeds DEF Linux!Checked, PairPcs
  <2>. QED
    BY <1>10, <2>1, <2>2 DEF Linux!Checked
<1>. QED
  BY <1>2, <1>3, <1>4, <1>5, <1>6, <1>7, <1>8, <1>9, <1>10 DEF Linux!BusConnected,
     Linux!IsPaired, Linux!Looked, Linux!FilterSet, Linux!DiscoveryStarted, Linux!Polled,
     Linux!DiscoveryStopped, Linux!Relooked, Linux!Checked

\* The ceremony, from the agent to the last look at the bond.
LEMMA LinuxPairs ==
  ASSUME LinuxInv,
         \/ Linux!Registered \/ Linux!Requested \/ Linux!Replied \/ Linux!Unregistered
         \/ Linux!Retained \/ Linux!TimesOut \/ Linux!SwallowedCleanup
  PROVE  linuxClient.pc # "idle" /\ (LinuxWalk \/ LinuxStop)
<1>. USE DEF Linux!At, Linux!To
<1>1. /\ linuxClient.pc \notin {"poll", "stop"} => ~ bluez.discovering
      /\ linuxClient \in Linux!Clients
  BY DEF LinuxInv, DiscoveryBounded, Linux!TypeOK
<1>2. CASE Linux!Registered
  <2>1. /\ linuxClient.pc = "register" /\ linuxClient' = [linuxClient EXCEPT !.pc = "default"]
        /\ bluez' = [bluez EXCEPT !.agent = TRUE]
    BY <1>2 DEF Linux!Registered
  <2>2. /\ linuxClient' \in Linux!Clients /\ linuxClient'.pc = "default"
        /\ linuxClient'.call = linuxClient.call
    BY <1>1, <2>1, LinuxPcs DEF Linux!Clients, PairPcs
  <2>3. Linux!TypeOK' /\ bluez'.reply = bluez.reply /\ bluez'.discovering = bluez.discovering
    BY <2>1, <2>2 DEF LinuxInv, Linux!TypeOK
  <2>4. LinuxPlaces'
    BY <2>1, <2>2 DEF LinuxInv, LinuxPlaces, PairPcs, RemovePcs
  <2>. QED
    BY <1>1, <2>1, <2>2, <2>3, <2>4 DEF LinuxWalk, DiscoveryBounded
<1>3. CASE Linux!Requested
  <2>1. linuxClient.pc = "default" /\ linuxClient' = [linuxClient EXCEPT !.pc = "call"]
    BY <1>3 DEF Linux!Requested
  <2>2. \/ bluez.bond # "none" /\ bluez' = [bluez EXCEPT !.reply = "exists"]
        \/ bluez' = [bluez EXCEPT !.reply = "failed"]
        \/ bluez' = [bluez EXCEPT !.ceremony = "asked"]
    BY <1>3 DEF Linux!Requested
  <2>3. /\ linuxClient' \in Linux!Clients /\ linuxClient'.pc = "call"
        /\ linuxClient'.call = linuxClient.call
    BY <1>1, <2>1, LinuxPcs DEF Linux!Clients, PairPcs
  <2>4. /\ Linux!TypeOK' /\ bluez'.discovering = bluez.discovering
        /\ bluez'.reply = "exists" => bluez.reply = "exists" \/ bluez.bond # "none"
    <3>1. CASE bluez.bond # "none" /\ bluez' = [bluez EXCEPT !.reply = "exists"]
      BY <2>3, <3>1 DEF LinuxInv, Linux!TypeOK
    <3>2. CASE bluez' = [bluez EXCEPT !.reply = "failed"]
      BY <2>3, <3>2 DEF LinuxInv, Linux!TypeOK
    <3>3. CASE bluez' = [bluez EXCEPT !.ceremony = "asked"]
      BY <2>3, <3>3 DEF LinuxInv, Linux!TypeOK
    <3>. QED
      BY <2>2, <3>1, <3>2, <3>3
  <2>5. LinuxPlaces'
    BY <2>1, <2>3 DEF LinuxInv, LinuxPlaces, PairPcs, RemovePcs
  <2>. QED
    BY <1>1, <2>1, <2>3, <2>4, <2>5 DEF LinuxWalk, DiscoveryBounded
<1>4. CASE Linux!Replied
  <2>1. /\ linuxClient.pc = "call" /\ bluez.reply # Nothing
        /\ bluez' = [bluez EXCEPT !.reply = Nothing]
    BY <1>4 DEF Linux!Replied
  <2>2. bluez.reply \in {"done", "exists", "failed"}
    BY <2>1 DEF LinuxInv, Linux!TypeOK
  <2>3. PICK next \in {"paired3", "ok", "error"} :
          Linux!UnregisterThen(next) /\ (next = "ok" => bluez.reply = "exists")
    BY <1>4, <2>2 DEF Linux!Replied
  <2>4. /\ linuxClient' \in Linux!Clients /\ linuxClient'.pc = "unregister"
        /\ linuxClient'.then = next /\ linuxClient'.call = linuxClient.call
    BY <2>3, LinuxUnregisterThen
  <2>5. /\ Linux!TypeOK' /\ bluez'.reply = Nothing /\ bluez'.discovering = bluez.discovering
    BY <2>1, <2>4 DEF LinuxInv, Linux!TypeOK
  <2>6. bluez'.reply # "exists" /\ linuxClient.pc \in PairPcs
    BY <2>1, <2>5, PairingAssumption DEF Linux!LinuxPairingAssumption, PairPcs
  <2>. QED
    BY <1>1, <2>1, <2>3, <2>4, <2>5, <2>6, LinuxCleansUp
<1>5. CASE Linux!Unregistered \/ Linux!SwallowedCleanup
  <2>1. linuxClient.pc = "unregister" /\ linuxClient.then \in {"paired3", "ok", "error", "cancelled"}
    BY <1>5 DEF Linux!Unregistered, Linux!SwallowedCleanup, LinuxInv, LinuxPlaces
  <2>2. \/ linuxClient.then # "paired3" /\ Linux!Ends(linuxClient.then)
        \/ /\ linuxClient.then = "paired3"
           /\ linuxClient' = [linuxClient EXCEPT !.pc = "paired3", !.then = Nothing]
           /\ bluez' = bluez \/ bluez' = [bluez EXCEPT !.agent = FALSE]
    BY <1>5, <2>1 DEF Linux!Unregistered, Linux!SwallowedCleanup, Linux!Resume
  <2>3. CASE linuxClient.then = "ok" /\ Linux!Ends("ok")
    <3>1. BondSeen /\ linuxClient.pc \in PairPcs
      BY <2>1, <2>3 DEF LinuxInv, LinuxSeen, PairPcs
    <3>. QED
      BY <2>1, <2>3, <3>1, LinuxSucceeds
  <2>4. CASE linuxClient.then \in {"error", "cancelled"} /\ Linux!Ends(linuxClient.then)
    BY <2>1, <2>4, LinuxFails
  <2>5. CASE /\ linuxClient' = [linuxClient EXCEPT !.pc = "paired3", !.then = Nothing]
             /\ bluez' = bluez \/ bluez' = [bluez EXCEPT !.agent = FALSE]
    <3>1. /\ linuxClient' \in Linux!Clients /\ linuxClient'.pc = "paired3"
          /\ linuxClient'.call = linuxClient.call
      BY <1>1, <2>5, LinuxPcs DEF Linux!Clients, PairPcs
    <3>2. /\ Linux!TypeOK' /\ bluez'.reply = bluez.reply
          /\ bluez'.discovering = bluez.discovering
      <4>1. CASE bluez' = bluez
        BY <3>1, <4>1 DEF LinuxInv, Linux!TypeOK
      <4>2. CASE bluez' = [bluez EXCEPT !.agent = FALSE]
        BY <3>1, <4>2 DEF LinuxInv, Linux!TypeOK
      <4>. QED
        BY <2>5, <4>1, <4>2
    <3>3. LinuxPlaces'
      BY <2>1, <3>1 DEF LinuxInv, LinuxPlaces, PairPcs, RemovePcs
    <3>. QED
      BY <1>1, <2>1, <3>1, <3>2, <3>3 DEF LinuxWalk, DiscoveryBounded
  <2>. QED
    BY <2>1, <2>2, <2>3, <2>4, <2>5
<1>6. CASE Linux!Retained
  <2>1. linuxClient.pc = "paired3" /\ \/ bluez.bond # "none" /\ Linux!Ends("ok")
                                      \/ Linux!Ends("error")
    BY <1>6 DEF Linux!Retained
  <2>2. "paired3" \in PairPcs
    BY DEF PairPcs
  <2>. QED
    BY <2>1, <2>2, LinuxSucceeds, LinuxFails
<1>7. CASE Linux!TimesOut
  <2>1. linuxClient.pc = "call" /\ Linux!UnregisterThen("error") /\ bluez' = bluez
    BY <1>7 DEF Linux!TimesOut
  <2>2. /\ linuxClient' \in Linux!Clients /\ linuxClient'.pc = "unregister"
        /\ linuxClient'.then = "error" /\ linuxClient'.call = linuxClient.call
    BY <2>1, LinuxUnregisterThen
  <2>3. Linux!TypeOK' /\ linuxClient.pc \in PairPcs
    BY <2>1, <2>2 DEF LinuxInv, Linux!TypeOK, PairPcs
  <2>. QED
    BY <1>1, <2>1, <2>2, <2>3, LinuxCleansUp
<1>. QED
  BY <1>2, <1>3, <1>4, <1>5, <1>6, <1>7 DEF Linux!Registered, Linux!Requested, Linux!Replied,
     Linux!Unregistered, Linux!Retained, Linux!TimesOut, Linux!SwallowedCleanup

\* remove.
LEMMA LinuxRemoves ==
  ASSUME LinuxInv,
         \/ Linux!BusConnected("connect", "objects") \/ Linux!Listed \/ Linux!Disconnected
         \/ Linux!Removed \/ Linux!RemovalAnswered
  PROVE  linuxClient.pc # "idle" /\ (LinuxWalk \/ LinuxStop)
<1>. USE DEF Linux!At, Linux!To
<1>1. /\ linuxClient.pc \notin {"poll", "stop"} => ~ bluez.discovering
      /\ linuxClient \in Linux!Clients
  BY DEF LinuxInv, DiscoveryBounded, Linux!TypeOK
<1>2. CASE Linux!BusConnected("connect", "objects")
  BY <1>1, <1>2, LinuxGoes DEF Linux!BusConnected, RemovePcs
<1>3. CASE Linux!Listed
  <2>1. CASE linuxClient' = [linuxClient EXCEPT !.pc = "disconnect"] /\ bluez' = bluez
    BY <1>1, <1>3, <2>1, LinuxGoes DEF Linux!Listed, RemovePcs
  <2>2. CASE ~ bluez.known /\ Linux!Ends("ok")
    BY <1>3, <2>2, LinuxSucceeds DEF Linux!Listed, RemovePcs
  <2>. QED
    BY <1>3, <2>1, <2>2 DEF Linux!Listed
<1>4. CASE Linux!Disconnected
  BY <1>1, <1>4, LinuxGoes DEF Linux!Disconnected, RemovePcs
<1>5. CASE Linux!Removed
  <2>1. CASE ~ bluez.known /\ Linux!Ends("ok")
    BY <1>5, <2>1, LinuxSucceeds DEF Linux!Removed, RemovePcs
  <2>2. CASE /\ linuxClient' = [linuxClient EXCEPT !.pc = "removed"]
             /\ bluez' = [bluez EXCEPT !.known = FALSE, !.bond = "none", !.ceremony = "none"]
    <3>1. linuxClient.pc = "remove"
      BY <1>5 DEF Linux!Removed
    <3>2. /\ linuxClient' \in Linux!Clients /\ linuxClient'.pc = "removed"
          /\ linuxClient'.call = linuxClient.call
      BY <1>1, <2>2, LinuxPcs DEF Linux!Clients, RemovePcs
    <3>3. /\ Linux!TypeOK' /\ bluez'.reply = bluez.reply /\ ~ bluez'.known
          /\ bluez'.discovering = bluez.discovering
      BY <2>2, <3>2 DEF LinuxInv, Linux!TypeOK, Linux!Bonds
    <3>4. LinuxPlaces'
      BY <3>1, <3>2 DEF LinuxInv, LinuxPlaces, PairPcs, RemovePcs
    <3>. QED
      BY <1>1, <3>1, <3>2, <3>3, <3>4 DEF LinuxWalk, DiscoveryBounded
  <2>. QED
    BY <1>5, <2>1, <2>2 DEF Linux!Removed
<1>6. CASE Linux!RemovalAnswered
  <2>1. linuxClient.pc = "removed" /\ Linux!Ends("ok")
    BY <1>6 DEF Linux!RemovalAnswered
  <2>2. GoneSeen /\ linuxClient.pc \in RemovePcs
    BY <2>1 DEF LinuxInv, LinuxSeen, RemovePcs
  <2>. QED
    BY <2>1, <2>2, LinuxSucceeds
<1>. QED
  BY <1>2, <1>3, <1>4, <1>5, <1>6 DEF Linux!BusConnected, Linux!Listed, Linux!Disconnected,
     Linux!Removed, Linux!RemovalAnswered

\* Every await may raise, and be cancelled.
LEMMA LinuxInterrupted ==
  ASSUME LinuxInv, Linux!Raises \/ Linux!Cancelled
  PROVE  linuxClient.pc # "idle" /\ (LinuxWalk \/ LinuxStop)
<1>. USE DEF Linux!At, Linux!To
<1>1. /\ linuxClient.pc \notin {"poll", "stop"} => ~ bluez.discovering
      /\ linuxClient \in Linux!Clients
  BY DEF LinuxInv, DiscoveryBounded, Linux!TypeOK
<1>2. ASSUME linuxClient.pc \in {"start", "poll"}, NEW next \in {"error", "cancelled"},
             Linux!StopThen(next),
             bluez' = bluez \/ \E b \in BOOLEAN : bluez' = [bluez EXCEPT !.discovering = b]
      PROVE  LinuxWalk
  <2>1. /\ linuxClient' \in Linux!Clients /\ linuxClient'.pc = "stop"
        /\ linuxClient'.then = next /\ linuxClient'.call = linuxClient.call
    BY <1>2, LinuxStopThen
  <2>2. Linux!TypeOK' /\ bluez'.reply = bluez.reply
    <3>1. CASE bluez' = bluez
      BY <2>1, <3>1 DEF LinuxInv, Linux!TypeOK
    <3>2. ASSUME NEW b \in BOOLEAN, bluez' = [bluez EXCEPT !.discovering = b]
          PROVE  Linux!TypeOK' /\ bluez'.reply = bluez.reply
      BY <2>1, <3>2 DEF LinuxInv, Linux!TypeOK
    <3>. QED
      BY <1>2, <3>1, <3>2
  <2>3. linuxClient.pc \in PairPcs
    BY <1>2 DEF PairPcs
  <2>. QED
    BY <2>1, <2>2, <2>3, LinuxCleansUp
<1>3. CASE Linux!Swallowed
  <2>1. CASE linuxClient.pc = "filter" /\ linuxClient' = [linuxClient EXCEPT !.pc = "start"]
    BY <1>1, <1>3, <2>1, LinuxGoes DEF Linux!Swallowed, PairPcs
  <2>2. CASE linuxClient.pc = "disconnect" /\ linuxClient' = [linuxClient EXCEPT !.pc = "remove"]
    BY <1>1, <1>3, <2>2, LinuxGoes DEF Linux!Swallowed, RemovePcs
  <2>. QED
    BY <1>3, <2>1, <2>2 DEF Linux!Swallowed
<1>4. CASE \E at \in Linux!CallErrors : linuxClient.pc = at /\ Linux!Failed(at)
  <2>1. linuxClient.pc # "idle" /\ Linux!Ends("error")
    BY <1>4 DEF Linux!CallErrors, Linux!Failed
  <2>. QED
    BY <2>1, LinuxFails
<1>5. CASE (linuxClient.pc = "start" \/ linuxClient.pc = "poll")
           /\ Linux!StopThen("error") /\ UNCHANGED bluez
  BY <1>2, <1>5
<1>6. CASE Linux!SwallowedCleanup
  BY <1>6, LinuxPairs
<1>7. CASE Linux!Cancelled
  <2>1. CASE linuxClient.pc \in {"start", "poll"}
    <3>1. /\ Linux!StopThen("cancelled")
          /\ bluez' = bluez \/ \E b \in BOOLEAN : bluez' = [bluez EXCEPT !.discovering = b]
      BY <1>7, <2>1 DEF Linux!Cancelled
    <3>. QED
      BY <1>2, <2>1, <3>1
  <2>2. CASE linuxClient.pc = "call"
    <3>1. Linux!UnregisterThen("cancelled") /\ bluez' = bluez
      BY <1>7, <2>2 DEF Linux!Cancelled
    <3>2. /\ linuxClient' \in Linux!Clients /\ linuxClient'.pc = "unregister"
          /\ linuxClient'.then = "cancelled" /\ linuxClient'.call = linuxClient.call
      BY <3>1, LinuxUnregisterThen
    <3>3. Linux!TypeOK' /\ linuxClient.pc \in PairPcs
      BY <2>2, <3>1, <3>2 DEF LinuxInv, Linux!TypeOK, PairPcs
    <3>. QED
      BY <1>1, <2>2, <3>1, <3>2, <3>3, LinuxCleansUp
  <2>3. CASE linuxClient.pc \notin {"start", "poll", "call"}
    <3>1. linuxClient.pc # "idle" /\ Linux!Ends("cancelled")
      BY <1>7, <2>3 DEF Linux!Cancelled
    <3>. QED
      BY <3>1, LinuxFails
  <2>. QED
    BY <1>7, <2>1, <2>2, <2>3 DEF Linux!Cancelled
<1>. QED
  BY <1>3, <1>4, <1>5, <1>6, <1>7 DEF Linux!Raises

\* BlueZ and its other clients go on whether or not a call is under way.
LEMMA LinuxOutside ==
  ASSUME LinuxInv, Linux!Outside, Linux!Observed
  PROVE  LinuxInv'
<1>. USE DEF Linux!At
<1>1. /\ linuxClient' = linuxClient
      /\ bluez'.discovering = bluez.discovering /\ bluez'.agent = bluez.agent
      /\ Linux!TypeOK'
      /\ \/ bluez'.reply = bluez.reply
         \/ bluez'.reply \in {"done", "failed"} /\ linuxClient.pc = "call"
  <2>. USE DEF LinuxInv, Linux!TypeOK, Linux!Bonds
  <2>1. linuxClient' = linuxClient
    BY DEF Linux!Outside
  <2>2. CASE Linux!Advertised \/ Linux!Forgotten
    <3>1. \E k \in BOOLEAN : bluez' = [bluez EXCEPT !.known = k] /\ (k \/ bluez.bond = "none")
      BY <2>2 DEF Linux!Advertised, Linux!Forgotten
    <3>. QED
      BY <2>1, <3>1
  <2>3. CASE Linux!AgentAnswers
    <3>1. \E c \in {"answered", "mistyped"} : bluez' = [bluez EXCEPT !.ceremony = c]
      BY <2>3 DEF Linux!AgentAnswers
    <3>. QED
      BY <2>1, <3>1
  <2>4. CASE Linux!Ceremony
    <3>1. PICK b \in {"authenticated", "none"}, r \in {"done", "failed"} :
            Linux!CeremonyEnds(b, r)
      BY <2>4 DEF Linux!Ceremony
    <3>2. PICK k \in BOOLEAN, a \in {bluez.reply, r} :
            /\ bluez' = [bluez EXCEPT !.ceremony = "none", !.bond = b, !.known = k, !.reply = a]
            /\ b # "none" => k
            /\ a = bluez.reply \/ linuxClient.pc = "call"
      <4>1. /\ (b # "none" \/ bluez.known) \in BOOLEAN
            /\ (IF linuxClient.pc = "call" /\ bluez.reply = Nothing THEN r ELSE bluez.reply)
                 \in {bluez.reply, r}
        OBVIOUS
      <4>. QED
        BY <3>1, <4>1 DEF Linux!CeremonyEnds
    <3>3. /\ bluez'.known = k /\ bluez'.bond = b /\ bluez'.ceremony = "none"
          /\ bluez'.reply = a /\ bluez'.agent = bluez.agent
          /\ bluez'.discovering = bluez.discovering
      BY <3>2
    <3>4. a \in {Nothing, "done", "exists", "failed"}
      BY <3>2
    <3>. QED
      BY <2>1, <3>2, <3>3, <3>4
  <2>5. CASE Linux!Others
    <3>1. \/ bluez' = [bluez EXCEPT !.known = TRUE, !.bond = "unauthenticated"]
          \/ bluez' = [bluez EXCEPT !.known = FALSE, !.bond = "none"]
      BY <2>5 DEF Linux!Others
    <3>2. CASE bluez' = [bluez EXCEPT !.known = TRUE, !.bond = "unauthenticated"]
      BY <2>1, <3>2
    <3>3. CASE bluez' = [bluez EXCEPT !.known = FALSE, !.bond = "none"]
      BY <2>1, <3>3
    <3>. QED
      BY <3>1, <3>2, <3>3
  <2>. QED
    BY <2>2, <2>3, <2>4, <2>5 DEF Linux!Outside
<1>2. LinuxPlaces' /\ DiscoveryBounded' /\ Linux!NothingLeft'
  BY <1>1 DEF LinuxInv, LinuxPlaces, DiscoveryBounded, Linux!NothingLeft
<1>3. CASE linuxClient.pc = "idle"
  BY <1>1, <1>2, <1>3, PairingAssumption
     DEF LinuxInv, LinuxSeen, Linux!LinuxPairingAssumption
<1>4. CASE linuxClient.pc # "idle"
  <2>1. seen' = seen \cup {Linux!Device(bluez')}
    BY <1>1, <1>4 DEF Linux!Observed
  <2>2. Linux!Device(bluez') \in seen' /\ (BondSeen => BondSeen') /\ (GoneSeen => GoneSeen')
    BY <2>1 DEF BondSeen, GoneSeen
  <2>3. bluez'.reply = "exists" => bluez.reply = "exists"
    BY <1>1
  <2>. QED
    BY <1>1, <1>2, <1>4, <2>2, <2>3 DEF LinuxInv, LinuxSeen
<1>. QED
  BY <1>3, <1>4

\* Every step of the Linux client keeps its invariant.
LEMMA LinuxKept ==
  ASSUME LinuxInv, Linux!Next \/ UNCHANGED linuxVars
  PROVE  /\ LinuxInv'
         /\ LinuxReturns("pair") => BondSeen
         /\ LinuxReturns("remove") => GoneSeen
<1>. USE DEF LinuxReturns
<1>1. Nothing \notin {"pair", "remove"}
  BY PairingAssumption DEF Linux!LinuxPairingAssumption
<1>2. linuxClient.pc = "idle" => linuxClient.call = Nothing
  BY DEF LinuxInv, LinuxPlaces
<1>3. ASSUME Linux!Observed, linuxClient.pc # "idle", LinuxWalk \/ LinuxStop
      PROVE  /\ LinuxInv'
             /\ LinuxReturns("pair") => BondSeen
             /\ LinuxReturns("remove") => GoneSeen
  <2>1. CASE LinuxWalk
    BY <1>3, <2>1, LinuxWalks DEF LinuxWalk
  <2>2. CASE LinuxStop
    BY <1>3, <2>2, LinuxEnds DEF LinuxStop
  <2>. QED
    BY <1>3, <2>1, <2>2
<1>4. CASE UNCHANGED linuxVars
  BY <1>1, <1>2, <1>4 DEF linuxVars, LinuxInv, Linux!TypeOK, LinuxPlaces, DiscoveryBounded,
     LinuxSeen, BondSeen, GoneSeen, Linux!NothingLeft, Linux!At, Linux!Device
<1>5. CASE /\ \/ \E passkey \in {"right", "wrong", "malformed"} : Linux!PairCalled(passkey)
              \/ Linux!RemoveCalled
           /\ Linux!Observed
  BY <1>1, <1>2, <1>5, LinuxBegins
<1>6. CASE Linux!Outside /\ Linux!Observed
  <2>1. LinuxInv' /\ linuxClient' = linuxClient
    BY <1>6, LinuxOutside DEF Linux!Outside
  <2>. QED
    BY <1>1, <1>2, <2>1
<1>7. CASE (Linux!Answer \/ Linux!Raises \/ Linux!TimesOut \/ Linux!Cancelled) /\ Linux!Observed
  BY <1>3, <1>7, LinuxLooksUp, LinuxPairs, LinuxRemoves, LinuxInterrupted DEF Linux!Answer
<1>. QED
  BY <1>4, <1>5, <1>6, <1>7 DEF Linux!Next

\* The Linux invariant holds at first.
LEMMA LinuxInitially == Linux!Init => LinuxInv
<1>. SUFFICES ASSUME Linux!Init PROVE LinuxInv
  OBVIOUS
<1>1. 0 \in 0..(Polls - 1) /\ "idle" \in Linux!Pcs /\ Nothing # "exists"
  BY LinuxPcs, PairingAssumption DEF Linux!LinuxPairingAssumption
<1>2. linuxClient \in Linux!Clients /\ linuxClient.pc = "idle" /\ linuxClient.call = Nothing
      /\ ~ linuxClient.bus
  BY <1>1 DEF Linux!Init, Linux!Clients
<1>3. Linux!TypeOK /\ ~ bluez.discovering /\ ~ bluez.agent /\ bluez.reply = Nothing
  BY <1>2 DEF Linux!Init, Linux!TypeOK, Linux!Bonds
<1>. QED
  BY <1>1, <1>2, <1>3 DEF LinuxInv, LinuxPlaces, DiscoveryBounded, LinuxSeen,
     Linux!NothingLeft, Linux!At, PairPcs, RemovePcs

-----------------------------------------------------------------------------
(* Pairing through WinRT. *)

\* Which call is where, and that no ceremony goes on by consent alone.
WindowsPlaces ==
  /\ windowsClient.run.pc = "idle" => windowsClient.run.call = Nothing
  /\ windowsClient.run.pc \in {"endpoint", "pairing", "verify"} => windowsClient.run.call = "pair"
  /\ windowsClient.run.pc \in {"bonded", "unpair"} => windowsClient.run.call = "forget"
  /\ windowsClient.run.pc = "open" => windowsClient.run.call \in {"pair", "forget"}
  /\ windows.ceremony # "consent"

WindowsInv == Windows!TypeOK /\ WindowsPlaces

WindowsReturns(call) ==
  /\ windowsClient.run.call = call
  /\ windowsClient'.run.pc = "idle" /\ windowsClient'.outcome = "ok"
\* A ceremony this program answered ends in a bond that was not there.
WindowsBonds ==
  /\ windows.ceremony # "none" /\ windows'.ceremony = "none"
  /\ windows'.bond \notin {"none", windows.bond}
WindowsTrue ==
  /\ WindowsReturns("pair") => windows'.bond = "authenticated"
  /\ WindowsReturns("forget") => windows'.bond = "none"
  /\ WindowsBonds => windows'.bond = "authenticated"

WindowsStates == [bond : Windows!Bonds,
                  ceremony : {"none", "asked", "pin", "wrong pin", "consent"},
                  status : {Nothing, "paired", "failed"}]

\* A call ends, whatever its outcome, and cleans up at once.
LEMMA WindowsEnds ==
  ASSUME WindowsInv, NEW r \in {"ok", "error", "cancelled"}, Windows!Ends(r),
         windows' \in WindowsStates, windows'.ceremony # "consent",
         ~ WindowsBonds,
         r = "ok" => \/ windowsClient.run.call = "pair" /\ windows'.bond = "authenticated"
                     \/ windowsClient.run.call = "forget" /\ windows'.bond = "none"
  PROVE  WindowsInv' /\ WindowsTrue
<1>1. windowsClient' = [run |-> Windows!Idle, outcome |-> r]
  BY DEF Windows!Ends, Windows!Cleaned
<1>2. /\ windowsClient'.run = Windows!Idle /\ windowsClient'.outcome = r
      /\ Windows!Idle \in Windows!Runs /\ Windows!Idle.pc = "idle"
      /\ Windows!Idle.call = Nothing /\ Windows!Idle.handle = FALSE
      /\ Windows!Idle.handler = FALSE
  BY <1>1 DEF Windows!Idle, Windows!Runs
<1>3. windowsClient' \in [run : Windows!Runs, outcome : {Nothing, "ok", "error", "cancelled"}]
  BY <1>1, <1>2
<1>. HIDE DEF Windows!Idle
<1>4. Windows!TypeOK'
  BY <1>2, <1>3 DEF Windows!TypeOK, Windows!At, WindowsStates
<1>5. WindowsPlaces'
  BY <1>2 DEF WindowsPlaces
<1>6. WindowsTrue
  BY <1>2 DEF WindowsTrue, WindowsReturns
<1>. QED
  BY <1>4, <1>5, <1>6 DEF WindowsInv

\* A step of WinRT, or of a call that does not end there.
LEMMA WindowsGoes ==
  ASSUME WindowsInv, NEW to, NEW call,
         windowsClient' \in [run : Windows!Runs,
                             outcome : {Nothing, "ok", "error", "cancelled"}],
         windowsClient'.run.pc = to, windowsClient'.run.call = call, to # "idle",
         windowsClient'.run.handler <=> to = "pairing",
         windowsClient'.run.handle <=> to # "open",
         \/ to \in {"endpoint", "pairing", "verify"} /\ call = "pair"
         \/ to \in {"bonded", "unpair"} /\ call = "forget"
         \/ to = "open" /\ call \in {"pair", "forget"},
         windows' \in WindowsStates, windows'.ceremony # "consent",
         WindowsBonds => windows'.bond = "authenticated"
  PROVE  WindowsInv' /\ WindowsTrue
<1>1. Windows!TypeOK'
  BY DEF Windows!TypeOK, Windows!At, WindowsStates
<1>2. WindowsPlaces' /\ WindowsTrue
  BY DEF WindowsPlaces, WindowsTrue, WindowsReturns
<1>. QED
  BY <1>1, <1>2 DEF WindowsInv

\* The states of Windows, its client's runs, and those without consent.
LEMMA WindowsStateFacts ==
  ASSUME WindowsInv
  PROVE  /\ windows \in WindowsStates /\ windows.ceremony # "consent"
         /\ windowsClient.run \in Windows!Runs
         /\ windowsClient \in [run : Windows!Runs,
                               outcome : {Nothing, "ok", "error", "cancelled"}]
         /\ UNCHANGED windows => ~ WindowsBonds
         /\ \A w \in Windows!Abandoned :
              /\ w \in WindowsStates /\ w.ceremony # "consent" /\ w.bond = windows.bond
              /\ windows' = w => ~ WindowsBonds
<1>1. windows \in WindowsStates /\ windows.ceremony # "consent"
  BY DEF WindowsInv, WindowsPlaces, Windows!TypeOK, WindowsStates
<1>2. ASSUME NEW c \in {"none", windows.ceremony},
             NEW w, w = [windows EXCEPT !.status = Nothing, !.ceremony = c]
      PROVE  /\ w \in WindowsStates /\ w.ceremony # "consent" /\ w.bond = windows.bond
             /\ windows' = w => ~ WindowsBonds
  <2>1. w \in WindowsStates /\ w.ceremony = c /\ w.bond = windows.bond
    BY <1>1, <1>2 DEF WindowsStates
  <2>. QED
    BY <1>1, <2>1 DEF WindowsBonds
<1>3. UNCHANGED windows => ~ WindowsBonds
  BY DEF WindowsBonds
<1>4. /\ windowsClient.run \in Windows!Runs
      /\ windowsClient \in [run : Windows!Runs, outcome : {Nothing, "ok", "error", "cancelled"}]
  BY DEF WindowsInv, Windows!TypeOK
<1>. QED
  BY <1>1, <1>2, <1>3, <1>4 DEF Windows!Abandoned

\* A new call begins a run with nothing open.
LEMMA WindowsCalled ==
  ASSUME WindowsInv,
         \/ \E passkey \in {"right", "wrong", "malformed"} : Windows!PairCalled(passkey)
         \/ Windows!ForgetCalled
  PROVE  WindowsInv' /\ WindowsTrue
<1>1. /\ windowsClient.run.pc = "idle" /\ windows' = windows
      /\ windowsClient.run.call = Nothing /\ Nothing \notin {"pair", "forget"}
  BY PairingAssumption DEF Windows!PairCalled, Windows!ForgetCalled, Windows!At,
     Windows!WindowsPairingAssumption, WindowsInv, WindowsPlaces
<1>2. CASE windowsClient' = [windowsClient EXCEPT !.outcome = "error"]
  <2>1. /\ windowsClient'.run = windowsClient.run
        /\ windowsClient' \in [run : Windows!Runs, outcome : {Nothing, "ok", "error", "cancelled"}]
    BY <1>2, WindowsStateFacts
  <2>2. Windows!TypeOK' /\ WindowsPlaces'
    BY <1>1, <2>1 DEF WindowsInv, Windows!TypeOK, Windows!At, WindowsPlaces
  <2>. QED
    BY <1>1, <2>2, WindowsStateFacts DEF WindowsInv, WindowsTrue, WindowsReturns
<1>3. ASSUME NEW run \in Windows!Runs, run.pc = "open", run.call \in {"pair", "forget"},
             ~ run.handle, ~ run.handler,
             windowsClient' = [windowsClient EXCEPT !.run = run]
      PROVE  WindowsInv' /\ WindowsTrue
  <2>1. /\ windowsClient' \in [run : Windows!Runs, outcome : {Nothing, "ok", "error", "cancelled"}]
        /\ windowsClient'.run = run
    BY <1>3, WindowsStateFacts
  <2>. QED
    BY <1>1, <1>3, <2>1, WindowsGoes, WindowsStateFacts
<1>4. Windows!Idle \in Windows!Runs /\ ~ Windows!Idle.handle /\ ~ Windows!Idle.handler
  BY DEF Windows!Idle, Windows!Runs
<1>5. ASSUME NEW passkey \in {"right", "wrong"},
             windowsClient' = [windowsClient EXCEPT !.run =
               [Windows!Idle EXCEPT !.pc = "open", !.call = "pair", !.passkey = passkey]]
      PROVE  WindowsInv' /\ WindowsTrue
  <2> DEFINE run == [Windows!Idle EXCEPT !.pc = "open", !.call = "pair", !.passkey = passkey]
  <2>1. /\ run \in Windows!Runs /\ run.pc = "open" /\ run.call = "pair"
        /\ ~ run.handle /\ ~ run.handler
    BY <1>4 DEF Windows!Runs
  <2>. QED
    BY <1>3, <1>5, <2>1
<1>6. CASE Windows!ForgetCalled
  <2> DEFINE run == [Windows!Idle EXCEPT !.pc = "open", !.call = "forget"]
  <2>1. /\ run \in Windows!Runs /\ run.pc = "open" /\ run.call = "forget"
        /\ ~ run.handle /\ ~ run.handler
    BY <1>4 DEF Windows!Runs
  <2>. QED
    BY <1>3, <1>6, <2>1 DEF Windows!ForgetCalled
<1>. QED
  BY <1>2, <1>5, <1>6 DEF Windows!PairCalled

\* A call that ends closes what it opened.
LEMMA WindowsAnswer ==
  ASSUME WindowsInv, Windows!Answer
  PROVE  WindowsInv' /\ WindowsTrue
<1>. USE DEF Windows!At, Windows!To
<1> DEFINE run == windowsClient.run
<1>0. /\ run \in Windows!Runs
      /\ run.handler <=> run.pc = "pairing"
      /\ run.handle <=> ~ (run.pc = "idle" \/ run.pc = "open")
      /\ run.pc \in {"endpoint", "pairing", "verify"} => run.call = "pair"
      /\ run.pc \in {"bonded", "unpair"} => run.call = "forget"
      /\ run.pc = "open" => run.call \in {"pair", "forget"}
  BY WindowsStateFacts DEF WindowsInv, Windows!TypeOK, WindowsPlaces
<1>1. CASE Windows!Opened
  <2>1. run.pc = "open" /\ windows' = windows
    BY <1>1 DEF Windows!Opened
  <2>2. CASE Windows!Ends("error")
    BY <2>1, <2>2, WindowsEnds, WindowsStateFacts
  <2>3. CASE windowsClient' = [windowsClient EXCEPT !.run.handle = TRUE,
               !.run.pc = IF run.call = "pair" THEN "endpoint" ELSE "bonded"]
    <3>1. PICK to \in {"endpoint", "bonded"} :
            /\ windowsClient' = [windowsClient EXCEPT !.run.handle = TRUE, !.run.pc = to]
            /\ to = "endpoint" <=> run.call = "pair"
      BY <2>3
    <3>2. /\ windowsClient' \in [run : Windows!Runs,
                                 outcome : {Nothing, "ok", "error", "cancelled"}]
          /\ windowsClient'.run.pc = to /\ windowsClient'.run.call = run.call
          /\ windowsClient'.run.handle /\ windowsClient'.run.handler = run.handler
      BY <3>1, WindowsStateFacts DEF Windows!Runs
    <3>. QED
      BY <1>0, <2>1, <3>1, <3>2, WindowsGoes, WindowsStateFacts
  <2>. QED
    BY <1>1, <2>2, <2>3 DEF Windows!Opened
<1>2. ASSUME NEW canPair \in BOOLEAN, Windows!Endpoint(canPair)
      PROVE  WindowsInv' /\ WindowsTrue
  <2>1. run.pc = "endpoint"
    BY <1>2 DEF Windows!Endpoint
  <2>2. CASE Windows!_require_authenticated_bond /\ UNCHANGED windows
    BY <1>0, <2>1, <2>2, WindowsEnds, WindowsStateFacts DEF Windows!_require_authenticated_bond
  <2>3. CASE Windows!Ends("error") /\ UNCHANGED windows
    BY <1>0, <2>1, <2>3, WindowsEnds, WindowsStateFacts
  <2>4. CASE /\ windowsClient' = [windowsClient EXCEPT !.run.pc = "pairing", !.run.handler = TRUE]
             /\ windows' = IF windows.ceremony # "none"
                           THEN [windows EXCEPT !.status = "failed"]
                           ELSE [windows EXCEPT !.ceremony = "asked"]
    <3>1. /\ windowsClient' \in [run : Windows!Runs,
                                 outcome : {Nothing, "ok", "error", "cancelled"}]
          /\ windowsClient'.run.pc = "pairing" /\ windowsClient'.run.call = run.call
          /\ windowsClient'.run.handle = run.handle /\ windowsClient'.run.handler
      BY <2>4, WindowsStateFacts DEF Windows!Runs
    <3>2. windows' \in WindowsStates /\ windows'.ceremony # "consent" /\ ~ WindowsBonds
      <4>1. CASE windows' = [windows EXCEPT !.status = "failed"]
        BY <4>1, WindowsStateFacts DEF WindowsStates, WindowsBonds
      <4>2. CASE windows' = [windows EXCEPT !.ceremony = "asked"]
        BY <4>2, WindowsStateFacts DEF WindowsStates, WindowsBonds
      <4>. QED
        BY <2>4, <4>1, <4>2
    <3>. QED
      BY <1>0, <2>1, <3>1, <3>2, WindowsGoes
  <2>. QED
    BY <1>2, <2>2, <2>3, <2>4 DEF Windows!Endpoint
<1>3. CASE Windows!Paired
  <2>1. run.pc = "pairing" /\ windows' = [windows EXCEPT !.status = Nothing]
    BY <1>3 DEF Windows!Paired
  <2>2. windows' \in WindowsStates /\ windows'.ceremony # "consent" /\ ~ WindowsBonds
    BY <2>1, WindowsStateFacts DEF WindowsStates, WindowsBonds
  <2>3. CASE windowsClient' = [windowsClient EXCEPT !.run.pc = "verify", !.run.handler = FALSE]
    <3>1. /\ windowsClient' \in [run : Windows!Runs,
                                 outcome : {Nothing, "ok", "error", "cancelled"}]
          /\ windowsClient'.run.pc = "verify" /\ windowsClient'.run.call = run.call
          /\ windowsClient'.run.handle = run.handle /\ ~ windowsClient'.run.handler
      BY <2>3, WindowsStateFacts DEF Windows!Runs
    <3>. QED
      BY <1>0, <2>1, <2>2, <3>1, WindowsGoes
  <2>4. CASE Windows!Ends("error")
    BY <2>2, <2>4, WindowsEnds
  <2>. QED
    BY <1>3, <2>3, <2>4 DEF Windows!Paired
<1>4. CASE Windows!Verified
  <2>1. run.pc = "verify" /\ Windows!_require_authenticated_bond /\ windows' = windows
    BY <1>4 DEF Windows!Verified
  <2>. QED
    BY <1>0, <2>1, WindowsEnds, WindowsStateFacts DEF Windows!_require_authenticated_bond
<1>5. CASE Windows!Bonded
  <2>1. run.pc = "bonded" /\ windows' = windows
    BY <1>5 DEF Windows!Bonded
  <2>2. CASE windowsClient' = [windowsClient EXCEPT !.run.pc = "unpair"]
    <3>1. /\ windowsClient' \in [run : Windows!Runs,
                                 outcome : {Nothing, "ok", "error", "cancelled"}]
          /\ windowsClient'.run.pc = "unpair" /\ windowsClient'.run.call = run.call
          /\ windowsClient'.run.handle = run.handle /\ windowsClient'.run.handler = run.handler
      BY <2>2, WindowsStateFacts DEF Windows!Runs
    <3>. QED
      BY <1>0, <2>1, <3>1, WindowsGoes, WindowsStateFacts
  <2>3. CASE windows.bond = "none" /\ Windows!Ends("ok")
    BY <1>0, <2>1, <2>3, WindowsEnds, WindowsStateFacts
  <2>. QED
    BY <1>5, <2>2, <2>3 DEF Windows!Bonded
<1>6. ASSUME NEW status \in Windows!Unpairs, Windows!Unpaired(status)
      PROVE  WindowsInv' /\ WindowsTrue
  <2>1. /\ run.pc = "unpair" /\ run.call = "forget"
        /\ windows' = IF status = "unpaired" THEN [windows EXCEPT !.bond = "none"] ELSE windows
        /\ Windows!Ends(IF status = "unpaired" THEN "ok" ELSE "error")
    BY <1>0, <1>6 DEF Windows!Unpaired, Windows!Reported
  <2>2. CASE status = "unpaired"
    <3>1. windows' \in WindowsStates /\ windows'.bond = "none" /\ windows'.ceremony # "consent"
      BY <2>1, <2>2, WindowsStateFacts DEF WindowsStates, Windows!Bonds
    <3>2. ~ WindowsBonds
      BY <3>1 DEF WindowsBonds
    <3>. QED
      BY <2>1, <2>2, <3>1, <3>2, WindowsEnds
  <2>3. CASE status # "unpaired"
    BY <2>1, <2>3, WindowsEnds, WindowsStateFacts
  <2>. QED
    BY <2>2, <2>3
<1>. QED
  BY <1>1, <1>2, <1>3, <1>4, <1>5, <1>6 DEF Windows!Answer

\* WinRT goes on: only a ceremony with the PIN makes an authenticated bond, and
\* none by consent was ever accepted.
LEMMA WindowsOutside ==
  ASSUME WindowsInv, Windows!Outside
  PROVE  WindowsInv' /\ WindowsTrue
<1>1. windowsClient' = windowsClient
  BY DEF Windows!Outside
<1>2. ASSUME windows' \in WindowsStates, windows'.ceremony # "consent",
             WindowsBonds => windows'.bond = "authenticated"
      PROVE  WindowsInv' /\ WindowsTrue
  <2>1. Windows!TypeOK' /\ WindowsPlaces'
    BY <1>1, <1>2 DEF WindowsInv, Windows!TypeOK, WindowsPlaces, WindowsStates, Windows!At
  <2>2. /\ windowsClient.run.pc = "idle" => windowsClient.run.call = Nothing
        /\ Nothing \notin {"pair", "forget"}
    BY PairingAssumption DEF WindowsInv, WindowsPlaces, Windows!WindowsPairingAssumption
  <2>. QED
    BY <1>1, <1>2, <2>1, <2>2 DEF WindowsInv, WindowsTrue, WindowsReturns
<1>3. CASE Windows!Asked
  <2>1. PICK c \in {"pin", "wrong pin", "none"}, s \in {windows.status, "failed"} :
          windows' = [windows EXCEPT !.ceremony = c, !.status = s]
    <3>1. windows = [windows EXCEPT !.status = windows.status]
      BY WindowsStateFacts DEF WindowsStates
    <3>2. PICK kind \in {"pin", "consent"} : Windows!handle_pairing_request(kind)
      BY <1>3 DEF Windows!Asked
    <3>3. CASE kind # "pin"
      BY <3>2, <3>3 DEF Windows!handle_pairing_request
    <3>4. CASE kind = "pin"
      <4>1. PICK c \in {"pin", "wrong pin"} : windows' = [windows EXCEPT !.ceremony = c]
        BY <3>2, <3>4 DEF Windows!handle_pairing_request
      <4>2. windows' = [windows EXCEPT !.ceremony = c, !.status = windows.status]
        BY <4>1, WindowsStateFacts DEF WindowsStates
      <4>. QED
        BY <4>2
    <3>. QED
      BY <3>3, <3>4
  <2>2. windows' \in WindowsStates /\ windows'.ceremony = c /\ windows'.bond = windows.bond
    BY <2>1, WindowsStateFacts DEF WindowsStates
  <2>. QED
    BY <1>2, <2>2 DEF WindowsBonds
<1>4. CASE Windows!Ceremony
  <2>1. PICK bond \in Windows!Bonds, status \in {"paired", "failed"} :
          /\ Windows!CeremonyEnds(bond, status)
          /\ bond \in {"authenticated", "none", windows.bond}
    BY <1>4, WindowsStateFacts DEF Windows!Ceremony, Windows!Bonds, WindowsStates
  <2>2. PICK s \in {status, windows.status} :
          windows' = [bond |-> bond, ceremony |-> "none", status |-> s]
    BY <2>1 DEF Windows!CeremonyEnds
  <2>3. s \in {Nothing, "paired", "failed"}
    BY <2>1, <2>2, WindowsStateFacts DEF WindowsStates
  <2>4. windows' \in WindowsStates /\ windows'.ceremony = "none" /\ windows'.bond = bond
    BY <2>2, <2>3 DEF WindowsStates
  <2>. QED
    BY <1>2, <2>1, <2>4 DEF WindowsBonds
<1>5. CASE Windows!Others
  <2>1. PICK b \in {"none", "unauthenticated"} : windows' = [windows EXCEPT !.bond = b]
    BY <1>5 DEF Windows!Others
  <2>2. windows' \in WindowsStates /\ windows'.ceremony = windows.ceremony
    BY <2>1, WindowsStateFacts DEF WindowsStates, Windows!Bonds
  <2>. QED
    BY <1>2, <2>2, WindowsStateFacts DEF WindowsBonds
<1>. QED
  BY <1>3, <1>4, <1>5 DEF Windows!Outside

\* Every step of the Windows client keeps its invariant.
LEMMA WindowsKept ==
  ASSUME WindowsInv, Windows!Next \/ UNCHANGED windowsVars
  PROVE  WindowsInv' /\ WindowsTrue
<1>1. CASE \E r \in {"error", "cancelled"} :
             Windows!Ends(r) /\ windows' \in Windows!Abandoned
  BY <1>1, WindowsEnds, WindowsStateFacts
<1>2. CASE UNCHANGED windowsVars
  <2>1. windowsClient' = windowsClient /\ windows' = windows
    BY <1>2 DEF windowsVars
  <2>2. /\ windowsClient.run.pc = "idle" => windowsClient.run.call = Nothing
        /\ Nothing \notin {"pair", "forget"}
    BY PairingAssumption DEF WindowsInv, WindowsPlaces, Windows!WindowsPairingAssumption
  <2>. QED
    BY <2>1, <2>2 DEF WindowsInv, Windows!TypeOK, WindowsPlaces, WindowsTrue, WindowsReturns,
       WindowsBonds, Windows!At
<1>. QED
  BY <1>1, <1>2, WindowsCalled, WindowsAnswer, WindowsOutside DEF Windows!Next,
     Windows!Raises, Windows!TimesOut, Windows!Cancelled

\* The Windows invariant holds at first.
LEMMA WindowsInitially == Windows!Init => WindowsInv
<1>. SUFFICES ASSUME Windows!Init PROVE WindowsInv
  OBVIOUS
<1>1. /\ Windows!Idle \in Windows!Runs /\ Windows!Idle.pc = "idle" /\ ~ Windows!Idle.handle
      /\ ~ Windows!Idle.handler /\ Windows!Idle.call = Nothing
  BY DEF Windows!Idle, Windows!Runs
<1>2. /\ windowsClient \in [run : Windows!Runs, outcome : {Nothing, "ok", "error", "cancelled"}]
      /\ windowsClient.run = Windows!Idle
  <2>. HIDE DEF Windows!Idle
  <2>. QED
    BY <1>1 DEF Windows!Init
<1>3. windows \in WindowsStates /\ windows.ceremony = "none"
  BY DEF Windows!Init, WindowsStates, Windows!Bonds
<1>. QED
  BY <1>1, <1>2, <1>3 DEF WindowsInv, Windows!TypeOK, WindowsPlaces, WindowsStates, Windows!At

-----------------------------------------------------------------------------
(* The composition: one part steps, the others rest. *)

PairingInv == SchedulerInv /\ IInv /\ LinuxInv /\ WindowsInv
pairingVars == <<part, schedulerVars, vars, linuxVars, windowsVars>>

\* A step of the composition is one of its parts', the others unchanged.
LEMMA PairingStep ==
  ASSUME [MCNext]_pairingVars
  PROVE  /\ Scheduler!Next \/ UNCHANGED schedulerVars
         /\ [Next]_vars
         /\ Linux!Next \/ UNCHANGED linuxVars
         /\ Windows!Next \/ UNCHANGED windowsVars
BY DEF MCNext, SchedulerRuns, ExchangeRuns, LinuxRuns, WindowsRuns, pairingVars

\* The invariants of all four parts hold together.
LEMMA PairingInvariance == MCSpec => []PairingInv
<1>1. MCInit => PairingInv
  BY SchedulerInitially, Initially, LinuxInitially, WindowsInitially DEF MCInit, PairingInv
<1>2. PairingInv /\ [MCNext]_pairingVars => PairingInv'
  BY PairingStep, SchedulerKept, ExchangeKept, LinuxKept, WindowsKept DEF PairingInv
<1>. QED
  BY <1>1, <1>2, PTL DEF MCSpec, pairingVars

\* Through give-ups, resubmissions, link changes and stop, every future that is
\* pending belongs to one request, queued or under way, for any callers with any
\* priorities (submit, _run, fail_pending, stop).
THEOREM FuturesKept == MCSpec => []NobodyForgotten
<1>1. PairingInv => NobodyForgotten
  BY NobodyOrphaned DEF PairingInv, SchedulerInv, IInv, NobodyForgotten
<1>. QED
  BY <1>1, PairingInvariance, PTL

\* However a call of pairing or of removal ends, answered, refused or cancelled
\* at any await, no agent, discovery or bus connection is left (the async with
\* blocks of linux_pairing.py, the finally clauses of windows_pairing.py).
THEOREM CleanedUp == MCSpec => []NothingLeft
<1>1. PairingInv => NothingLeft
  BY DEF PairingInv, LinuxInv, WindowsInv, NothingLeft
<1>. QED
  BY <1>1, PairingInvariance, PTL

\* A pairing that is reported made a bond, a removal left none, no ceremony that
\* Windows asks about is accepted without its PIN, and none begins on Linux during
\* a discovery of this program (pair_device, forget_device, handle_pairing_request).
THEOREM CallsKeepTheirWord == MCSpec => BondsTrue
<1>1. PairingInv /\ [MCNext]_pairingVars =>
        /\ [Linux!Requested => ~ bluez.discovering]_(Linux!vars)
        /\ [Linux!Returned("pair") => \E d \in seen : d.bond # "none"]_(Linux!vars)
        /\ [Linux!Returned("remove") => \E d \in seen : ~ d.known]_(Linux!vars)
        /\ [Windows!Returned("pair") => windows'.bond = "authenticated"]_(Windows!vars)
        /\ [Windows!Returned("forget") => windows'.bond = "none"]_(Windows!vars)
        /\ [/\ windows.ceremony # "none" /\ windows'.ceremony = "none"
            /\ windows'.bond \notin {"none", windows.bond}
            => windows'.bond = "authenticated"]_(Windows!vars)
  <2>. SUFFICES ASSUME PairingInv, [MCNext]_pairingVars
                PROVE  /\ Linux!Requested => ~ bluez.discovering
                       /\ Linux!Returned("pair") => \E d \in seen : d.bond # "none"
                       /\ Linux!Returned("remove") => \E d \in seen : ~ d.known
                       /\ Windows!Returned("pair") => windows'.bond = "authenticated"
                       /\ Windows!Returned("forget") => windows'.bond = "none"
                       /\ /\ windows.ceremony # "none" /\ windows'.ceremony = "none"
                          /\ windows'.bond \notin {"none", windows.bond}
                          => windows'.bond = "authenticated"
    OBVIOUS
  <2>1. Linux!Requested => ~ bluez.discovering
    BY DEF PairingInv, LinuxInv, DiscoveryBounded, Linux!Requested, Linux!At
  <2>2. /\ Linux!Returned("pair") => \E d \in seen : d.bond # "none"
        /\ Linux!Returned("remove") => \E d \in seen : ~ d.known
    BY PairingStep, LinuxKept DEF PairingInv, LinuxReturns, BondSeen, GoneSeen,
       Linux!Returned, Linux!At
  <2>3. WindowsTrue
    BY PairingStep, WindowsKept DEF PairingInv
  <2>. QED
    BY <2>1, <2>2, <2>3 DEF WindowsTrue, WindowsReturns, WindowsBonds, Windows!Returned,
       Windows!At
<1>. QED
  BY <1>1, PairingInvariance, PTL DEF MCSpec, pairingVars, BondsTrue, Linux!QuietCeremony,
     Linux!PairedReturnsBond, Linux!RemovedIsGone, Windows!PairEnsuresAuthenticated,
     Windows!ForgottenIsGone, Windows!OnlyPinnedBonds

\* The worker begins no request that was given up, and none while a live one of
\* higher priority waits (_run, _ScheduledRequest's order).
THEOREM UrgentFirst == MCSpec => Scheduler!PriorityOrder
<1>1. PairingInv /\ [MCNext]_pairingVars =>
        [worker = "idle" /\ worker' = "busy" =>
           /\ current'.live
           /\ \A r \in Scheduler!ToSet(queue') :
                r.live => Priority[current'.caller] <= Priority[r.caller]]_(Scheduler!vars)
  BY PairingStep, SchedulerKept DEF PairingInv, Scheduler!ToSet
<1>. QED
  BY <1>1, PairingInvariance, PTL DEF MCSpec, pairingVars, Scheduler!PriorityOrder
=============================================================================
