--------------------------- MODULE SamplesProofs ---------------------------
(***************************************************************************)
(* The way of a sample to the database, for any devices, rings, clocks and *)
(* bounds: nothing is lost without a trace, what is recorded happened and  *)
(* is never taken back, and transfers of the history are followed by their *)
(* operations.  First the poll, then the database, then one transfer, then *)
(* when transfers run; each with its invariant, its steps and what it      *)
(* shows.                                                                  *)
(***************************************************************************)
EXTENDS MCSamples, FiniteSetTheorems, SequenceTheorems, TLAPS
-----------------------------------------------------------------------------
(* The poll and the display commands. *)

CmdPcs == {"idle", "sent", "confirm", "persist", "ok", "failed"}
Cmds == [pc : CmdPcs, dev : Devices \cup {NoDevice}]
SlotKinds == {"LIVE", "PROVISIONAL"}
Caches == [available : {TRUE}, dev : Devices, shows : BOOLEAN]
Results == [dev : Devices, shows : BOOLEAN]

PollTyped == Poll!TypeOK /\ shown \in [Commands -> BOOLEAN] /\ faults \in Nat /\ switches \in Nat

\* A slot is asked for once, when it is due.
Polling ==
  /\ next <= now + 1 /\ (poll = "asked" => next <= now)
  /\ Poll!PollRequest \in queue => wire.req.kind # "poll"
  /\ Poll!PollRequest \in queue \/ wire.req.kind = "poll" => poll = "asked"

\* A ready connection has a client of the target, which serves the exchange.
Wired ==
  /\ pollTarget \in Devices /\ (pollReady => pollClient = pollTarget)
  /\ pollReady /\ wire # Poll!Idle => wire.dev = pollTarget

\* A command that waits has its request in the queue or in the exchange, for
\* the device it was given to.
Requested ==
  \A c \in Commands :
    /\ cmd[c].pc = "sent" => Poll!SetRequest(c) \in queue \cup {wire.req}
    /\ cmd[c].pc = "confirm" => Poll!ConfirmRequest(c) \in queue \cup {wire.req}
    /\ Poll!SetRequest(c) \in queue => cmd[c].pc = "sent" /\ wire.req # Poll!SetRequest(c)
    /\ Poll!ConfirmRequest(c) \in queue => cmd[c].pc = "confirm" /\ wire.req # Poll!ConfirmRequest(c)
    /\ wire.req = Poll!SetRequest(c) => cmd[c].pc \in {"sent", "confirm", "failed"}
    /\ wire.req = Poll!ConfirmRequest(c) => cmd[c].pc \in {"confirm", "failed"}
    /\ wire.req \in {Poll!SetRequest(c), Poll!ConfirmRequest(c)} => wire.dev = cmd[c].dev
    /\ pollReady /\ {Poll!SetRequest(c), Poll!ConfirmRequest(c)} \cap queue # {} =>
         cmd[c].dev = pollTarget

\* A display that shows what a command wants has shown it.
ShownTrue ==
  \A c \in Commands :
    /\ cmd[c].pc \in {"sent", "confirm", "persist"} => cmd[c].dev \in Devices
    /\ cmd[c].pc \in {"sent", "confirm", "persist"} /\ display[cmd[c].dev] = Wanted[c] => shown[c]

\* Undisturbed, only a command that timed out can have left the last result behind.
Undisturbed == faults = 0 /\ switches = 0
LogFollows ==
  Undisturbed =>
    /\ pollReady
    /\ log # <<>> =>
         /\ log[Len(log)].dev = pollTarget
         /\ \/ log[Len(log)].shows = display[pollTarget]
            \/ \E c \in Commands : cmd[c].pc \in {"confirm", "failed"}

PollInv ==
  /\ PollTyped /\ Poll!SlotsAccounted /\ Poll!ConfirmedWasShown
  /\ Polling /\ Wired /\ Requested /\ ShownTrue /\ LogFollows

\* What is assumed of the poll, in its own names.
LEMMA PollFacts ==
  /\ Unenrolled \subseteq Devices /\ NoDevice \notin Devices
  /\ Wanted \in [Commands -> BOOLEAN]
  /\ MaxSlot \in Nat /\ MaxFaults \in Nat /\ MaxSwitches \in Nat
BY SamplesAssumption DEF Poll!SampleAssumption

\* The three kinds of requests are three.
LEMMA PollRequests ==
  /\ Poll!PollRequest.kind = "poll" /\ Poll!Idle.req.kind = "none"
  /\ \A c \in Commands : Poll!SetRequest(c).kind = "set" /\ Poll!SetRequest(c).of = c
  /\ \A c \in Commands : Poll!ConfirmRequest(c).kind = "confirm" /\ Poll!ConfirmRequest(c).of = c
  /\ \A r \in Poll!Requests :
       \/ r = Poll!PollRequest /\ r.kind = "poll"
       \/ r.kind = "set" /\ r.of \in Commands /\ r = Poll!SetRequest(r.of)
       \/ r.kind = "confirm" /\ r.of \in Commands /\ r = Poll!ConfirmRequest(r.of)
  /\ Poll!PollRequest \in Poll!Requests
  /\ \A c \in Commands : Poll!SetRequest(c) \in Poll!Requests /\ Poll!ConfirmRequest(c) \in Poll!Requests
<1>. USE DEF Poll!PollRequest, Poll!SetRequest, Poll!ConfirmRequest, Poll!Idle
<1>1. Poll!PollRequest.kind = "poll" /\ Poll!Idle.req.kind = "none"
  OBVIOUS
<1>2. \A c \in Commands : Poll!SetRequest(c).kind = "set" /\ Poll!SetRequest(c).of = c
  OBVIOUS
<1>3. \A c \in Commands : Poll!ConfirmRequest(c).kind = "confirm" /\ Poll!ConfirmRequest(c).of = c
  OBVIOUS
<1>. HIDE DEF Poll!PollRequest, Poll!SetRequest, Poll!ConfirmRequest, Poll!Idle
<1>4. \A r \in Poll!Requests :
       \/ r = Poll!PollRequest /\ r.kind = "poll"
       \/ r.kind = "set" /\ r.of \in Commands /\ r = Poll!SetRequest(r.of)
       \/ r.kind = "confirm" /\ r.of \in Commands /\ r = Poll!ConfirmRequest(r.of)
  BY <1>1, <1>2, <1>3 DEF Poll!Requests
<1>5. /\ Poll!PollRequest \in Poll!Requests
      /\ \A c \in Commands : Poll!SetRequest(c) \in Poll!Requests
                             /\ Poll!ConfirmRequest(c) \in Poll!Requests
  BY DEF Poll!Requests
<1>. QED
  BY <1>1, <1>2, <1>3, <1>4, <1>5

\* One more result for the slots in question.
LEMMA Publishing ==
  ASSUME NEW X, NEW D, NEW r \in [D -> Seq(X)], NEW ks, NEW kind \in X
  PROVE  /\ Poll!Publish(r, ks, kind) \in [D -> Seq(X)]
         /\ \A k \in D :
              /\ k \in ks => Len(Poll!Publish(r, ks, kind)[k]) = Len(r[k]) + 1
              /\ k \notin ks => Len(Poll!Publish(r, ks, kind)[k]) = Len(r[k])
<1>1. \A s \in Seq(X) : Append(s, kind) \in Seq(X) /\ Len(Append(s, kind)) = Len(s) + 1
  BY AppendProperties
<1>. QED
  BY <1>1 DEF Poll!Publish

\* Two publications of different slots: each gets its row once.
LEMMA PublishingTwice ==
  ASSUME NEW X, NEW D, NEW r \in [D -> Seq(X)], NEW ks, NEW due, NEW kind \in X,
         ks \cap due = {}
  PROVE  /\ Poll!Publish(Poll!Publish(r, ks, kind), due, kind) \in [D -> Seq(X)]
         /\ \A k \in D :
              /\ k \in ks \cup due =>
                   Len(Poll!Publish(Poll!Publish(r, ks, kind), due, kind)[k]) = Len(r[k]) + 1
              /\ k \notin ks \cup due =>
                   Len(Poll!Publish(Poll!Publish(r, ks, kind), due, kind)[k]) = Len(r[k])
<1>1. \A s \in Seq(X) : Append(s, kind) \in Seq(X) /\ Len(Append(s, kind)) = Len(s) + 1
  BY AppendProperties
<1>2. PICK q \in [D -> Seq(X)] : q = Poll!Publish(r, ks, kind)
  BY Publishing
<1>3. \A k \in D : q[k] = IF k \in ks THEN Append(r[k], kind) ELSE r[k]
  BY <1>2 DEF Poll!Publish
<1>4. PICK t : t = Poll!Publish(q, due, kind)
  OBVIOUS
<1>5. /\ t \in [D -> Seq(X)]
      /\ \A k \in D : t[k] = IF k \in due THEN Append(q[k], kind) ELSE q[k]
  BY <1>1, <1>4 DEF Poll!Publish
<1>6. \A k \in D : t[k] = IF k \in ks \cup due THEN Append(r[k], kind) ELSE r[k]
  BY <1>3, <1>5
<1>. QED
  BY <1>1, <1>2, <1>4, <1>5, <1>6

\* Types of the poll's variables, by name.
PollTypes ==
  /\ now \in 0..MaxSlot /\ next \in 1..MaxSlot + 1 /\ poll \in {"sleep", "asked"}
  /\ rows \in [1..MaxSlot -> Seq(SlotKinds)]
  /\ pollReady \in BOOLEAN /\ pollTarget \in Devices \cup {NoDevice}
  /\ pollClient \in Devices \cup {NoDevice}
  /\ queue \subseteq Poll!Requests
  /\ wire = Poll!Idle \/ wire \in [req : Poll!Requests, dev : Devices]
  /\ display \in [Devices -> BOOLEAN]
  /\ cache = Poll!Unavailable \/ cache \in Caches
  /\ cmd \in [Commands -> Cmds]
  /\ log \in Seq(Results)
  /\ shown \in [Commands -> BOOLEAN] /\ faults \in Nat /\ switches \in Nat

\* The types, written out.
LEMMA PollTypesAre == PollTyped <=> PollTypes
BY DEF PollTyped, PollTypes, Poll!TypeOK, SlotKinds, Caches, Cmds, CmdPcs, Results

\* The poll starts with its invariant.
LEMMA PollInitially == Poll!Init => PollInv
<1>. SUFFICES ASSUME Poll!Init PROVE PollInv
  OBVIOUS
<1>1. PollTypes
  <2>1. [k \in 1..MaxSlot |-> <<>>] \in [1..MaxSlot -> Seq(SlotKinds)] /\ <<>> \in Seq(Results)
    BY DEF SlotKinds
  <2>2. [c \in Commands |-> [pc |-> "idle", dev |-> NoDevice]] \in [Commands -> Cmds]
    BY DEF Cmds, CmdPcs
  <2>. QED
    BY <2>1, <2>2, PollFacts DEF Poll!Init, PollTypes, Caches
<1>2. wire = Poll!Idle /\ queue = {} /\ \A c \in Commands : cmd[c].pc = "idle"
  BY DEF Poll!Init
<1>3. Polling /\ Wired /\ LogFollows
  BY <1>1, <1>2, PollFacts, PollRequests DEF Poll!Init, PollTypes, Polling, Wired, LogFollows
<1>5. Requested /\ ShownTrue
  <2>1. \A c \in Commands : wire.req # Poll!SetRequest(c) /\ wire.req # Poll!ConfirmRequest(c)
    BY <1>2, PollRequests
  <2>. QED
    BY <1>2, <2>1 DEF Requested, ShownTrue
<1>4. Poll!SlotsAccounted /\ Poll!ConfirmedWasShown
  BY <1>1, <1>2 DEF Poll!Init, PollTypes, Poll!SlotsAccounted, Poll!ConfirmedWasShown
<1>. QED
  BY <1>1, <1>3, <1>4, <1>5, PollTypesAre DEF PollInv

\* A request in the exchange is one of the requests.
LEMMA Exchanging ==
  ASSUME PollTypes, wire # Poll!Idle
  PROVE  wire \in [req : Poll!Requests, dev : Devices] /\ wire.req \in Poll!Requests
         /\ wire.dev \in Devices
BY DEF PollTypes

\* What a slot that is answered leaves.
LEMMA SlotsDone ==
  ASSUME PollTypes, NEW kind \in SlotKinds, Poll!SlotDone(kind)
  PROVE  /\ rows' \in [1..MaxSlot -> Seq(SlotKinds)] /\ now' = now /\ next' = next + 1 /\ poll' = "sleep"
         /\ \A k \in 1..MaxSlot : Len(rows'[k]) = IF k = next THEN Len(rows[k]) + 1 ELSE Len(rows[k])
<1>1. PICK D, ks : D = 1..MaxSlot /\ ks = {next}
  OBVIOUS
<1>2. PICK r \in [D -> Seq(SlotKinds)] : r = rows
  BY <1>1 DEF PollTypes
<1>3. /\ Poll!Publish(r, ks, kind) \in [D -> Seq(SlotKinds)]
      /\ \A k \in D : /\ k \in ks => Len(Poll!Publish(r, ks, kind)[k]) = Len(r[k]) + 1
                      /\ k \notin ks => Len(Poll!Publish(r, ks, kind)[k]) = Len(r[k])
  BY Publishing
<1>4. rows' = Poll!Publish(r, ks, kind)
  BY <1>1, <1>2 DEF Poll!SlotDone
<1>. QED
  BY <1>1, <1>2, <1>3, <1>4 DEF Poll!SlotDone

TimeTyped ==
  /\ now \in 0..MaxSlot /\ next \in 1..MaxSlot + 1 /\ poll \in {"sleep", "asked"}
  /\ rows \in [1..MaxSlot -> Seq(SlotKinds)]

\* What has been asked for of the slots.
Asks == Poll!PollRequest \in queue
Reads == wire.req.kind = "poll"

\* The slot asked for is answered once, and its request is gone.
LEMMA AnsweredOnce ==
  ASSUME PollInv, NEW kind \in SlotKinds, Poll!SlotDone(kind), poll = "asked", ~Asks', ~Reads'
  PROVE  TimeTyped' /\ Polling' /\ Poll!SlotsAccounted'
<1>1. PollTypes /\ next <= now /\ MaxSlot \in Nat
  BY PollTypesAre, PollFacts DEF PollInv, Polling
<1>2. /\ rows' \in [1..MaxSlot -> Seq(SlotKinds)] /\ now' = now /\ next' = next + 1 /\ poll' = "sleep"
      /\ \A k \in 1..MaxSlot : Len(rows'[k]) = IF k = next THEN Len(rows[k]) + 1 ELSE Len(rows[k])
  BY <1>1, SlotsDone
<1>3. TimeTyped'
  BY <1>1, <1>2 DEF PollTypes, TimeTyped
<1>4. Polling'
  BY <1>1, <1>2 DEF PollTypes, Polling, Asks, Reads
<1>5. Poll!SlotsAccounted'
  <2>. SUFFICES ASSUME NEW k \in 1..MaxSlot PROVE Len(rows'[k]) = IF k < next' THEN 1 ELSE 0
    BY DEF Poll!SlotsAccounted
  <2>1. Len(rows[k]) = IF k < next THEN 1 ELSE 0
    BY DEF PollInv, Poll!SlotsAccounted
  <2>2. Len(rows'[k]) = IF k = next THEN Len(rows[k]) + 1 ELSE Len(rows[k])
    BY <1>2
  <2>. QED
    BY <1>1, <1>2, <2>1, <2>2 DEF PollTypes
<1>. QED
  BY <1>3, <1>4, <1>5

\* The poller wakes: what was missed is published, and what is due is asked for.
LEMMA WakesOnce ==
  ASSUME PollInv, Poll!PollWakes
  PROVE  TimeTyped' /\ Polling' /\ Poll!SlotsAccounted'
<1>1. PollTypes /\ MaxSlot \in Nat /\ next <= now /\ poll = "sleep" /\ ~Asks /\ ~Reads
  BY PollTypesAre, PollFacts DEF PollInv, Polling, Poll!PollWakes, Asks, Reads
<1>2. PICK D, ks, due : D = 1..MaxSlot /\ ks = next..now - 1 /\ due = {now}
  OBVIOUS
<1>3. PICK r \in [D -> Seq(SlotKinds)] : r = rows
  BY <1>1, <1>2 DEF PollTypes
<1>4. PICK kind \in SlotKinds : kind = "PROVISIONAL"
  BY DEF SlotKinds
<1>9. \A k \in 1..MaxSlot : Len(r[k]) = IF k < next THEN 1 ELSE 0
  BY <1>3 DEF PollInv, Poll!SlotsAccounted
<1>10. CASE pollReady
  <2>5. PICK late \in [D -> Seq(SlotKinds)] : late = Poll!Publish(r, ks, kind)
    BY Publishing
  <2>6. \A k \in D : /\ k \in ks => Len(late[k]) = Len(r[k]) + 1
                     /\ k \notin ks => Len(late[k]) = Len(r[k])
    BY <2>5, Publishing
  <2>1. /\ rows' = late /\ next' = now /\ now' = now /\ poll' = "asked" /\ wire' = wire
    BY <1>2, <1>3, <1>4, <2>5, <1>10 DEF Poll!PollWakes, Poll!Missed
  <2>2. TimeTyped'
    BY <1>1, <1>2, <2>6, <2>1 DEF PollTypes, TimeTyped
  <2>3. Polling'
    BY <1>1, <2>1 DEF PollTypes, Polling, Reads
  <2>4. Poll!SlotsAccounted'
    <3>. SUFFICES ASSUME NEW k \in 1..MaxSlot PROVE Len(rows'[k]) = IF k < next' THEN 1 ELSE 0
      BY DEF Poll!SlotsAccounted
    <3>1. k \in D /\ Len(r[k]) = IF k < next THEN 1 ELSE 0
      BY <1>2, <1>9
    <3>2. k \in ks <=> next <= k /\ k < now
      BY <1>1, <1>2 DEF PollTypes
    <3>3. k \in ks => Len(late[k]) = Len(r[k]) + 1
      BY <2>6, <3>1
    <3>4. k \notin ks => Len(late[k]) = Len(r[k])
      BY <2>6, <3>1
    <3>5. Len(late[k]) = IF k < now THEN 1 ELSE 0
      BY <1>1, <3>1, <3>2, <3>3, <3>4 DEF PollTypes
    <3>. QED
      BY <1>1, <2>1, <3>5 DEF PollTypes
  <2>. QED
    BY <2>2, <2>3, <2>4
<1>11. CASE ~pollReady
  <2>5. ks \cap due = {}
    BY <1>1, <1>2 DEF PollTypes
  <2>7. /\ Poll!Publish(Poll!Publish(r, ks, kind), due, kind) \in [D -> Seq(SlotKinds)]
        /\ \A k \in D :
             /\ k \in ks \cup due =>
                  Len(Poll!Publish(Poll!Publish(r, ks, kind), due, kind)[k]) = Len(r[k]) + 1
             /\ k \notin ks \cup due =>
                  Len(Poll!Publish(Poll!Publish(r, ks, kind), due, kind)[k]) = Len(r[k])
    BY <2>5, PublishingTwice
  <2>6. PICK all \in [D -> Seq(SlotKinds)] :
          /\ all = Poll!Publish(Poll!Publish(r, ks, kind), due, kind)
          /\ \A k \in D : /\ k \in ks \cup due => Len(all[k]) = Len(r[k]) + 1
                          /\ k \notin ks \cup due => Len(all[k]) = Len(r[k])
    BY <2>7
  <2>1. /\ rows' = all /\ next' = now + 1 /\ now' = now /\ poll' = "sleep"
        /\ wire' = wire /\ queue' = queue
    BY <1>1, <1>2, <1>3, <1>4, <2>6, <1>11 DEF Poll!PollWakes, Poll!Missed
  <2>2. TimeTyped'
    <3>1. rows' \in [1..MaxSlot -> Seq(SlotKinds)]
      BY <1>2, <2>1
    <3>. QED
      BY <1>1, <2>1, <3>1 DEF PollTypes, TimeTyped
  <2>3. Polling'
    BY <1>1, <2>1 DEF PollTypes, Polling, Asks, Reads
  <2>4. Poll!SlotsAccounted'
    <3>. SUFFICES ASSUME NEW k \in 1..MaxSlot PROVE Len(rows'[k]) = IF k < next' THEN 1 ELSE 0
      BY DEF Poll!SlotsAccounted
    <3>1. k \in D /\ Len(r[k]) = IF k < next THEN 1 ELSE 0
      BY <1>2, <1>9
    <3>2. k \in ks \cup due <=> next <= k /\ k <= now
      BY <1>1, <1>2 DEF PollTypes
    <3>3. k \in ks \cup due => Len(all[k]) = Len(r[k]) + 1
      BY <2>6, <3>1
    <3>4. k \notin ks \cup due => Len(all[k]) = Len(r[k])
      BY <2>6, <3>1
    <3>. QED
      BY <1>1, <2>1, <3>1, <3>2, <3>3, <3>4 DEF PollTypes
  <2>. QED
    BY <2>2, <2>3, <2>4
<1>. QED
  BY <1>10, <1>11

\* A request that raises is the poll's, and answers its slot, or leaves time alone.
LEMMA RaisesOnce ==
  ASSUME PollInv, NEW r \in Poll!Requests, Poll!Raises(r), r.kind = "poll" => poll = "asked",
         ~Reads', Asks' => Asks /\ r.kind # "poll"
  PROVE  TimeTyped' /\ Polling' /\ Poll!SlotsAccounted'
<1>1. CASE r.kind = "poll"
  <2>1. PICK kind \in SlotKinds : Poll!SlotDone(kind)
    BY <1>1 DEF Poll!Raises, SlotKinds
  <2>. QED
    BY <1>1, <2>1, AnsweredOnce
<1>2. CASE r.kind # "poll"
  <2>1. UNCHANGED <<now, next, poll, rows>>
    BY <1>2 DEF Poll!Raises, Poll!time
  <2>2. TimeTyped' /\ Poll!SlotsAccounted'
    BY <2>1, PollTypesAre DEF PollInv, PollTypes, TimeTyped, Poll!SlotsAccounted
  <2>. QED
    BY <2>1, <2>2 DEF PollInv, Polling, Asks, Reads
<1>. QED
  BY <1>1, <1>2

\* Every step accounts for the slots.
LEMMA SlotsKept ==
  ASSUME PollInv, Poll!Next
  PROVE  TimeTyped' /\ Polling' /\ Poll!SlotsAccounted'
<1>0. PollTypes /\ MaxSlot \in Nat
  BY PollTypesAre, PollFacts DEF PollInv
<1>1. ASSUME UNCHANGED <<now, next, poll, rows>>, Asks' => Asks, Reads' => Reads
      PROVE  TimeTyped' /\ Polling' /\ Poll!SlotsAccounted'
  BY <1>0, <1>1 DEF PollInv, PollTypes, TimeTyped, Polling, Poll!SlotsAccounted, Asks, Reads
<1>2. CASE Poll!Tick
  BY <1>0, <1>2 DEF PollInv, PollTypes, TimeTyped, Polling, Poll!SlotsAccounted, Poll!Tick
<1>3. CASE Poll!PollWakes
  BY <1>3, WakesOnce
<1>4. ASSUME NEW r \in queue, Poll!Take(r) PROVE TimeTyped' /\ Polling' /\ Poll!SlotsAccounted'
  <2>1. r \in Poll!Requests /\ wire = Poll!Idle /\ queue' = queue \ {r}
    BY <1>0, <1>4 DEF PollTypes, Poll!Take
  <2>2. r.kind = "poll" <=> r = Poll!PollRequest
    BY <2>1, PollRequests
  <2>3. r.kind = "poll" => poll = "asked"
    BY <1>4, <2>2 DEF PollInv, Polling
  <2>4. CASE Poll!Raises(r) /\ UNCHANGED wire
    <3>1. ~Reads' /\ (Asks' => Asks /\ r.kind # "poll")
      BY <2>1, <2>2, <2>4, PollRequests DEF Asks, Reads
    <3>. QED
      BY <2>1, <2>3, <2>4, <3>1, RaisesOnce
  <2>5. CASE wire' = [req |-> r, dev |-> pollClient] /\ UNCHANGED Poll!time
    <3>1. wire'.req = r /\ UNCHANGED <<now, next, poll, rows>>
      BY <2>5 DEF Poll!time
    <3>2. Polling'
      BY <1>0, <2>1, <2>2, <2>3, <3>1 DEF PollInv, Polling
    <3>. QED
      BY <1>0, <3>1, <3>2 DEF PollInv, PollTypes, TimeTyped, Poll!SlotsAccounted
  <2>. QED
    BY <1>4, <2>4, <2>5 DEF Poll!Take
<1>5. CASE Poll!ExchangeFails
  <2>1. wire.req \in Poll!Requests /\ wire' = Poll!Idle /\ queue' = queue /\ Poll!Raises(wire.req)
    BY <1>0, <1>5, Exchanging DEF Poll!ExchangeFails
  <2>2. PICK r \in Poll!Requests : r = wire.req /\ Poll!Raises(r)
    BY <2>1
  <2>3. ~Reads' /\ (r.kind = "poll" => poll = "asked") /\ (Asks' => Asks /\ r.kind # "poll")
    BY <2>1, <2>2, PollRequests DEF PollInv, Polling, Asks, Reads
  <2>. QED
    BY <2>2, <2>3, RaisesOnce
<1>6. CASE Poll!CurrentAnswered
  <2>1. PICK kind \in SlotKinds : Poll!SlotDone(kind)
    BY <1>6 DEF Poll!CurrentAnswered, SlotKinds
  <2>2. ~Reads' /\ ~Asks' /\ poll = "asked"
    BY <1>6, PollRequests DEF Poll!CurrentAnswered, PollInv, Polling, Asks, Reads
  <2>. QED
    BY <2>1, <2>2, AnsweredOnce
<1>7. CASE Poll!DisplaySet \/ Poll!Confirmed
  BY <1>1, <1>7, PollRequests DEF Poll!DisplaySet, Poll!Confirmed, Poll!time, Asks, Reads
<1>8. ASSUME NEW c \in Commands, Poll!SetDisplay(c) \/ Poll!CommandTimeout(c)
             \/ Poll!ConfirmTimeout(c) \/ Poll!CommandReturns(c)
      PROVE  TimeTyped' /\ Polling' /\ Poll!SlotsAccounted'
  <2>1. UNCHANGED <<now, next, poll, rows, wire>>
    BY <1>8 DEF Poll!SetDisplay, Poll!CommandTimeout, Poll!ConfirmTimeout, Poll!CommandReturns,
       Poll!time
  <2>2. queue' \subseteq queue \cup {Poll!SetRequest(c), Poll!ConfirmRequest(c)}
    BY <1>8 DEF Poll!SetDisplay, Poll!CommandTimeout, Poll!ConfirmTimeout, Poll!CommandReturns
  <2>. QED
    BY <1>1, <2>1, <2>2, PollRequests DEF Asks, Reads
<1>9. ASSUME NEW d \in Devices, Poll!Button(d) \/ Poll!Select(d) \/ Poll!SelectUnenrolled(d)
      PROVE  TimeTyped' /\ Polling' /\ Poll!SlotsAccounted'
  BY <1>1, <1>9 DEF Poll!Button, Poll!Select, Poll!SelectUnenrolled, Poll!time, Asks, Reads
<1>10. CASE Poll!Lost \/ Poll!Ready
  BY <1>1, <1>10 DEF Poll!Lost, Poll!Ready, Poll!time, Asks, Reads
<1>. QED
  BY <1>2, <1>3, <1>4, <1>5, <1>6, <1>7, <1>8, <1>9, <1>10 DEF Poll!Next

\* A command goes on; the others stay.
Goes(c, to) ==
  /\ cmd' \in [Commands -> Cmds] /\ cmd'[c].pc = to /\ cmd'[c].dev = cmd[c].dev
  /\ \A k \in Commands \ {c} : cmd'[k] = cmd[k]

\* That is what one assignment to a command does.
LEMMA CommandGoes ==
  ASSUME PollTypes, NEW c \in Commands, NEW to \in CmdPcs, cmd' = [cmd EXCEPT ![c].pc = to]
  PROVE  Goes(c, to)
BY DEF PollTypes, Cmds, Goes

\* What a request that raises does to its command.
LEMMA RaisesCommand ==
  ASSUME PollTypes, NEW r \in Poll!Requests, Poll!Raises(r)
  PROVE  /\ \/ UNCHANGED cmd
            \/ \E c \in Commands : Goes(c, "failed") /\ \/ r = Poll!SetRequest(c) /\ cmd[c].pc = "sent"
                                                        \/ r = Poll!ConfirmRequest(c) /\ cmd[c].pc = "confirm"
         /\ \A c \in Commands : /\ r = Poll!SetRequest(c) => cmd'[c].pc # "sent"
                                /\ r = Poll!ConfirmRequest(c) => cmd'[c].pc # "confirm"
         /\ cache' \in {cache, Poll!Unavailable}
<1>0. "failed" \in CmdPcs
  BY DEF CmdPcs
<1>1. CASE r = Poll!PollRequest /\ r.kind = "poll"
  <2>1. UNCHANGED cmd /\ cache' = Poll!Unavailable
    BY <1>1 DEF Poll!Raises
  <2>. QED
    BY <1>1, <2>1, PollRequests
<1>2. CASE r.kind = "set" /\ r.of \in Commands /\ r = Poll!SetRequest(r.of)
  <2>1. /\ IF cmd[r.of].pc = "sent" THEN cmd' = [cmd EXCEPT ![r.of].pc = "failed"] ELSE UNCHANGED cmd
        /\ cache' = cache
    BY <1>2 DEF Poll!Raises, Poll!CommandFails
  <2>2. cmd[r.of].pc = "sent" => Goes(r.of, "failed")
    BY <1>0, <1>2, <2>1, CommandGoes
  <2>3. \A c \in Commands : r # Poll!ConfirmRequest(c) /\ (r = Poll!SetRequest(c) => c = r.of)
    BY <1>2, PollRequests
  <2>. QED
    BY <1>2, <2>1, <2>2, <2>3 DEF Goes
<1>3. CASE r.kind = "confirm" /\ r.of \in Commands /\ r = Poll!ConfirmRequest(r.of)
  <2>1. /\ IF cmd[r.of].pc = "confirm" THEN cmd' = [cmd EXCEPT ![r.of].pc = "failed"] ELSE UNCHANGED cmd
        /\ cache' = cache
    BY <1>3 DEF Poll!Raises, Poll!CommandFails
  <2>2. cmd[r.of].pc = "confirm" => Goes(r.of, "failed")
    BY <1>0, <1>3, <2>1, CommandGoes
  <2>3. \A c \in Commands : r # Poll!SetRequest(c) /\ (r = Poll!ConfirmRequest(c) => c = r.of)
    BY <1>3, PollRequests
  <2>. QED
    BY <1>3, <2>1, <2>2, <2>3 DEF Goes
<1>. QED
  BY <1>1, <1>2, <1>3, PollRequests

\* What a step of the poll does to commands, requests and displays, by its kind.
SameCommands == UNCHANGED <<cmd, display, log, shown>>
SameLink == UNCHANGED <<pollReady, pollTarget, pollClient>>
Failed(r) ==
  /\ \/ UNCHANGED cmd
     \/ \E c \in Commands : Goes(c, "failed") /\ \/ r = Poll!SetRequest(c) /\ cmd[c].pc = "sent"
                                                 \/ r = Poll!ConfirmRequest(c) /\ cmd[c].pc = "confirm"
  /\ \A c \in Commands : /\ r = Poll!SetRequest(c) => cmd'[c].pc # "sent"
                         /\ r = Poll!ConfirmRequest(c) => cmd'[c].pc # "confirm"
  /\ UNCHANGED <<display, log, shown, pollReady, pollTarget, pollClient, switches>>
Passes ==       \* the clock, the poller
  /\ SameCommands /\ SameLink /\ UNCHANGED <<wire, faults, switches>>
  /\ queue \subseteq queue' /\ queue' \subseteq queue \cup {Poll!PollRequest}
Taken(r) ==     \* the worker takes a request
  /\ r \in queue /\ wire = Poll!Idle /\ queue' = queue \ {r} /\ UNCHANGED <<faults, switches>>
  /\ \/ /\ pollReady /\ pollClient # NoDevice /\ wire' = [req |-> r, dev |-> pollClient]
        /\ SameCommands /\ SameLink
     \/ /\ ~(pollReady /\ pollClient # NoDevice) /\ wire' = wire /\ Failed(r)
Broken ==       \* the exchange fails
  /\ wire # Poll!Idle /\ wire' = Poll!Idle /\ queue' = queue /\ faults' = faults + 1
  /\ Failed(wire.req)
Read ==         \* the poll is answered
  /\ wire # Poll!Idle /\ wire.req.kind = "poll" /\ wire' = Poll!Idle /\ queue' = queue
  /\ SameCommands /\ SameLink /\ UNCHANGED <<faults, switches>>
Carried(c) ==   \* a display is set
  /\ wire # Poll!Idle /\ wire.req = Poll!SetRequest(c) /\ wire' = Poll!Idle /\ queue' = queue
  /\ display' = [display EXCEPT ![wire.dev] = Wanted[c]] /\ shown' = Poll!Shows(wire.dev, Wanted[c])
  /\ SameLink /\ UNCHANGED <<faults, switches>>
  /\ \/ cmd[c].pc = "sent" /\ Goes(c, "persist") /\ log' = Poll!Logged(pollTarget, Wanted[c])
     \/ cmd[c].pc # "sent" /\ UNCHANGED <<cmd, log>>
Checked(c) ==   \* the state is asked for after a timeout
  /\ wire # Poll!Idle /\ wire.req = Poll!ConfirmRequest(c) /\ wire' = Poll!Idle /\ queue' = queue
  /\ UNCHANGED <<display, shown>> /\ SameLink /\ UNCHANGED <<faults, switches>>
  /\ \/ cmd[c].pc # "confirm" /\ UNCHANGED <<cmd, log>>
     \/ /\ cmd[c].pc = "confirm" /\ Wanted[c] = display[wire.dev] /\ Goes(c, "persist")
        /\ log' = Poll!Logged(pollTarget, display[wire.dev])
     \/ cmd[c].pc = "confirm" /\ Goes(c, "failed") /\ log' = log
Given(c) ==     \* a command is given
  /\ cmd[c].pc = "idle" /\ pollReady /\ queue' = queue \cup {Poll!SetRequest(c)}
  /\ cmd' = [cmd EXCEPT ![c] = [pc |-> "sent", dev |-> pollTarget]]
  /\ shown' = [shown EXCEPT ![c] = display[pollTarget] = Wanted[c]]
  /\ SameLink /\ UNCHANGED <<wire, display, log, faults, switches>>
Waited(c) ==    \* a command times out, or its confirmation
  /\ SameLink /\ UNCHANGED <<wire, display, log, shown, faults, switches>>
  /\ \/ /\ cmd[c].pc = "sent" /\ pollReady /\ Goes(c, "confirm")
        /\ queue' = (queue \ {Poll!SetRequest(c)}) \cup {Poll!ConfirmRequest(c)}
     \/ /\ cmd[c].pc = "sent" /\ ~pollReady /\ Goes(c, "failed")
        /\ queue' = queue \ {Poll!SetRequest(c)}
     \/ /\ cmd[c].pc = "confirm" /\ Goes(c, "failed") /\ queue' = queue \ {Poll!ConfirmRequest(c)}
     \/ cmd[c].pc = "persist" /\ Goes(c, "ok") /\ queue' = queue
Pressed(d) ==   \* the button
  /\ faults' = faults + 1 /\ display' = [display EXCEPT ![d] = ~@]
  /\ shown' = Poll!Shows(d, ~display[d])
  /\ SameLink /\ UNCHANGED <<queue, wire, cmd, log, switches>>
Relinked ==     \* the link is lost, another device selected, or it is ready
  /\ SameCommands /\ UNCHANGED <<queue, wire>>
  /\ \/ pollReady' = FALSE /\ pollTarget' = pollTarget /\ faults' = faults + 1 /\ pollClient' = NoDevice
        /\ UNCHANGED switches
     \/ /\ pollReady' = FALSE /\ pollTarget' \in Devices /\ pollClient' \in {pollClient, NoDevice}
        /\ switches' = switches + 1 /\ UNCHANGED faults
     \/ /\ ~pollReady /\ pollReady' = TRUE /\ pollTarget' = pollTarget /\ pollClient' = pollTarget
        /\ queue = {} /\ wire = Poll!Idle /\ UNCHANGED <<faults, switches>>

\* Every step of the poll is one of these.
LEMMA PollSteps ==
  ASSUME PollInv, Poll!Next
  PROVE  \/ Passes \/ Broken \/ Read \/ Relinked
         \/ \E r \in queue : Taken(r)
         \/ \E c \in Commands : Carried(c) \/ Checked(c) \/ Given(c) \/ Waited(c)
         \/ \E d \in Devices : Pressed(d)
<1> DEFINE Goal == \/ Passes \/ Broken \/ Read \/ Relinked
                   \/ \E r \in queue : Taken(r)
                   \/ \E c \in Commands : Carried(c) \/ Checked(c) \/ Given(c) \/ Waited(c)
                   \/ \E d \in Devices : Pressed(d)
<1>0. PollTypes
  BY PollTypesAre DEF PollInv
<1>. USE DEF SameCommands, SameLink, Poll!connection, Poll!time
<1>1. CASE Poll!Tick
  BY <1>1 DEF Poll!Tick, Passes
<1>2. CASE Poll!PollWakes
  <2>1. queue' \in {queue, queue \cup {Poll!PollRequest}}
    BY <1>2 DEF Poll!PollWakes
  <2>2. SameCommands /\ SameLink /\ UNCHANGED <<wire, faults, switches>>
    BY <1>2 DEF Poll!PollWakes
  <2>. QED
    BY <2>1, <2>2 DEF Passes
<1>3. ASSUME NEW r \in queue, Poll!Take(r) PROVE Goal
  <2>1. r \in Poll!Requests /\ wire = Poll!Idle /\ queue' = queue \ {r} /\ SameLink
        /\ UNCHANGED <<display, log, shown, faults, switches>>
    BY <1>0, <1>3 DEF PollTypes, Poll!Take
  <2>2. CASE pollReady /\ pollClient # NoDevice
    BY <1>3, <2>1, <2>2 DEF Poll!Take, Taken
  <2>3. CASE ~(pollReady /\ pollClient # NoDevice)
    <3>1. Poll!Raises(r) /\ wire' = wire
      BY <1>3, <2>3 DEF Poll!Take
    <3>2. Failed(r)
      BY <1>0, <2>1, <3>1, RaisesCommand DEF Failed
    <3>. QED
      BY <2>1, <2>3, <3>1, <3>2 DEF Taken
  <2>. QED
    BY <2>2, <2>3
<1>4. CASE Poll!ExchangeFails
  <2>1. wire.req \in Poll!Requests /\ wire # Poll!Idle /\ wire' = Poll!Idle /\ queue' = queue
        /\ faults' = faults + 1 /\ Poll!Raises(wire.req)
        /\ SameLink /\ UNCHANGED <<display, log, shown, switches>>
    BY <1>0, <1>4, Exchanging DEF Poll!ExchangeFails, Poll!Fault
  <2>2. PICK r \in Poll!Requests : r = wire.req /\ Poll!Raises(r)
    BY <2>1
  <2>3. Failed(r)
    BY <1>0, <2>1, <2>2, RaisesCommand DEF Failed
  <2>. QED
    BY <2>1, <2>2, <2>3 DEF Broken, Failed
<1>5. CASE Poll!CurrentAnswered
  BY <1>5 DEF Poll!CurrentAnswered, Read
<1>6. CASE Poll!DisplaySet
  <2>1. wire # Poll!Idle /\ wire.req.kind = "set"
    BY <1>6 DEF Poll!DisplaySet
  <2>2. PICK c \in Commands : c = wire.req.of /\ wire.req = Poll!SetRequest(c)
    BY <1>0, <2>1, Exchanging, PollRequests
  <2>3. "persist" \in CmdPcs
    BY DEF CmdPcs
  <2>4. cmd[c].pc = "sent" => Goes(c, "persist")
    BY <1>0, <1>6, <2>2, <2>3, CommandGoes DEF Poll!DisplaySet
  <2>. QED
    BY <1>6, <2>1, <2>2, <2>4 DEF Poll!DisplaySet, Carried
<1>7. CASE Poll!Confirmed
  <2>1. wire # Poll!Idle /\ wire.req.kind = "confirm"
    BY <1>7 DEF Poll!Confirmed
  <2>2. PICK c \in Commands : c = wire.req.of /\ wire.req = Poll!ConfirmRequest(c)
    BY <1>0, <2>1, Exchanging, PollRequests
  <2>3. "persist" \in CmdPcs /\ "failed" \in CmdPcs
    BY DEF CmdPcs
  <2>4. CASE cmd[c].pc # "confirm"
    BY <1>7, <2>1, <2>2, <2>4 DEF Poll!Confirmed, Checked
  <2>5. CASE cmd[c].pc = "confirm" /\ Poll!Matches(c, display[wire.dev])
    <3>1. Goes(c, "persist")
      BY <1>0, <1>7, <2>2, <2>3, <2>5, CommandGoes DEF Poll!Confirmed
    <3>. QED
      BY <1>7, <2>1, <2>2, <2>5, <3>1 DEF Poll!Confirmed, Checked, Poll!Matches
  <2>6. CASE cmd[c].pc = "confirm" /\ ~Poll!Matches(c, display[wire.dev])
    <3>1. Goes(c, "failed")
      BY <1>0, <1>7, <2>2, <2>3, <2>6, CommandGoes DEF Poll!Confirmed, Poll!CommandFails
    <3>. QED
      BY <1>7, <2>1, <2>2, <2>6, <3>1 DEF Poll!Confirmed, Checked
  <2>. QED
    BY <2>4, <2>5, <2>6
<1>8. ASSUME NEW c \in Commands, Poll!SetDisplay(c) PROVE Goal
  BY <1>8 DEF Poll!SetDisplay, Given
<1>9. ASSUME NEW c \in Commands,
             Poll!CommandTimeout(c) \/ Poll!ConfirmTimeout(c) \/ Poll!CommandReturns(c)
      PROVE  Goal
  <2>1. "confirm" \in CmdPcs /\ "failed" \in CmdPcs /\ "ok" \in CmdPcs
    BY DEF CmdPcs
  <2>2. SameLink /\ UNCHANGED <<wire, display, log, shown, faults, switches>>
    BY <1>9 DEF Poll!CommandTimeout, Poll!ConfirmTimeout, Poll!CommandReturns
  <2>3. CASE Poll!CommandTimeout(c) /\ pollReady
    <3>1. Goes(c, "confirm")
      BY <1>0, <2>1, <2>3, CommandGoes DEF Poll!CommandTimeout
    <3>. QED
      BY <2>2, <2>3, <3>1 DEF Poll!CommandTimeout, Waited
  <2>4. CASE Poll!CommandTimeout(c) /\ ~pollReady
    <3>1. Goes(c, "failed")
      BY <1>0, <2>1, <2>4, CommandGoes DEF Poll!CommandTimeout, Poll!CommandFails
    <3>. QED
      BY <2>2, <2>4, <3>1 DEF Poll!CommandTimeout, Waited
  <2>5. CASE Poll!ConfirmTimeout(c)
    <3>1. Goes(c, "failed")
      BY <1>0, <2>1, <2>5, CommandGoes DEF Poll!ConfirmTimeout, Poll!CommandFails
    <3>. QED
      BY <2>2, <2>5, <3>1 DEF Poll!ConfirmTimeout, Waited
  <2>6. CASE Poll!CommandReturns(c)
    <3>1. Goes(c, "ok")
      BY <1>0, <2>1, <2>6, CommandGoes DEF Poll!CommandReturns
    <3>. QED
      BY <2>2, <2>6, <3>1 DEF Poll!CommandReturns, Waited
  <2>. QED
    BY <1>9, <2>3, <2>4, <2>5, <2>6
<1>10. ASSUME NEW d \in Devices, Poll!Button(d) PROVE Goal
  BY <1>10 DEF Poll!Button, Poll!Fault, Pressed
<1>11. ASSUME NEW d \in Devices, Poll!Select(d) \/ Poll!SelectUnenrolled(d) PROVE Goal
  BY <1>11 DEF Poll!Select, Poll!SelectUnenrolled, Relinked
<1>12. CASE Poll!Lost
  BY <1>12 DEF Poll!Lost, Poll!Fault, Relinked
<1>13. CASE Poll!Ready
  BY <1>13 DEF Poll!Ready, Relinked
<1>. QED
  BY <1>1, <1>2, <1>3, <1>4, <1>5, <1>6, <1>7, <1>8, <1>9, <1>10, <1>11, <1>12, <1>13
     DEF Poll!Next

\* The rest of the poll's state, and what is claimed of it.
CommandTypes ==
  /\ pollReady \in BOOLEAN /\ pollTarget \in Devices \cup {NoDevice}
  /\ pollClient \in Devices \cup {NoDevice} /\ queue \subseteq Poll!Requests
  /\ wire = Poll!Idle \/ wire \in [req : Poll!Requests, dev : Devices]
  /\ display \in [Devices -> BOOLEAN] /\ cmd \in [Commands -> Cmds]
  /\ log \in Seq(Results)
  /\ shown \in [Commands -> BOOLEAN] /\ faults \in Nat /\ switches \in Nat
CommandsInv ==
  /\ CommandTypes /\ Wired /\ Requested /\ ShownTrue /\ Poll!ConfirmedWasShown /\ LogFollows

\* No two requests are alike.
LEMMA RequestsApart ==
  /\ \A c, d \in Commands :
       /\ Poll!SetRequest(c) = Poll!SetRequest(d) => c = d
       /\ Poll!ConfirmRequest(c) = Poll!ConfirmRequest(d) => c = d
       /\ Poll!SetRequest(c) # Poll!ConfirmRequest(d)
  /\ \A c \in Commands :
       /\ Poll!PollRequest # Poll!SetRequest(c) /\ Poll!PollRequest # Poll!ConfirmRequest(c)
       /\ Poll!Idle.req # Poll!SetRequest(c) /\ Poll!Idle.req # Poll!ConfirmRequest(c)
BY PollRequests

\* One command at a time.
Asked(c) ==
  /\ cmd[c].pc = "sent" => Poll!SetRequest(c) \in queue \cup {wire.req}
  /\ cmd[c].pc = "confirm" => Poll!ConfirmRequest(c) \in queue \cup {wire.req}
  /\ Poll!SetRequest(c) \in queue => cmd[c].pc = "sent" /\ wire.req # Poll!SetRequest(c)
  /\ Poll!ConfirmRequest(c) \in queue => cmd[c].pc = "confirm" /\ wire.req # Poll!ConfirmRequest(c)
  /\ wire.req = Poll!SetRequest(c) => cmd[c].pc \in {"sent", "confirm", "failed"}
  /\ wire.req = Poll!ConfirmRequest(c) => cmd[c].pc \in {"confirm", "failed"}
  /\ wire.req \in {Poll!SetRequest(c), Poll!ConfirmRequest(c)} => wire.dev = cmd[c].dev
  /\ pollReady /\ {Poll!SetRequest(c), Poll!ConfirmRequest(c)} \cap queue # {} =>
       cmd[c].dev = pollTarget
Displayed(c) ==
  /\ cmd[c].pc \in {"sent", "confirm", "persist"} => cmd[c].dev \in Devices
  /\ cmd[c].pc \in {"sent", "confirm", "persist"} /\ display[cmd[c].dev] = Wanted[c] => shown[c]
  /\ cmd[c].pc \in {"persist", "ok"} => shown[c]

\* The invariant is what each command says of itself.
LEMMA OneByOne ==
  /\ Requested <=> \A c \in Commands : Asked(c)
  /\ ShownTrue /\ Poll!ConfirmedWasShown <=> \A c \in Commands : Displayed(c)
BY DEF Requested, Asked, ShownTrue, Poll!ConfirmedWasShown, Displayed

\* The clock and the poller leave the commands alone.
LEMMA PassesKeeps == CommandsInv /\ Passes => CommandsInv'
<1>. SUFFICES ASSUME CommandsInv, Passes PROVE CommandsInv'
  OBVIOUS
<1>1. UNCHANGED <<cmd, display, log, shown, pollReady, pollTarget, pollClient, wire, faults, switches>>
  BY DEF Passes, SameCommands, SameLink
<1>2. queue' \subseteq Poll!Requests
  BY PollRequests DEF Passes, CommandsInv, CommandTypes
<1>3. \A c \in Commands : /\ Poll!SetRequest(c) \in queue' <=> Poll!SetRequest(c) \in queue
                          /\ Poll!ConfirmRequest(c) \in queue' <=> Poll!ConfirmRequest(c) \in queue
  BY RequestsApart DEF Passes
<1>4. CommandTypes' /\ Wired' /\ LogFollows'
  BY <1>1, <1>2 DEF CommandsInv, CommandTypes, Wired, LogFollows, Undisturbed
<1>5. \A c \in Commands : Asked(c)'
  BY <1>1, <1>3, OneByOne DEF CommandsInv, Asked
<1>6. \A c \in Commands : Displayed(c)'
  BY <1>1, OneByOne DEF CommandsInv, Displayed
<1>. QED
  BY <1>4, <1>5, <1>6, OneByOne DEF CommandsInv, Requested, Asked, ShownTrue, Poll!ConfirmedWasShown,
     Displayed

\* The poll's answer.
LEMMA ReadKeeps == CommandsInv /\ Read => CommandsInv'
<1>. SUFFICES ASSUME CommandsInv, Read PROVE CommandsInv'
  OBVIOUS
<1>1. UNCHANGED <<cmd, display, log, shown, pollReady, pollTarget, pollClient, queue, faults, switches>>
  BY DEF Read, SameCommands, SameLink
<1>2. wire' = Poll!Idle /\ \A c \in Commands : wire.req # Poll!SetRequest(c)
                                            /\ wire.req # Poll!ConfirmRequest(c)
  BY PollRequests DEF Read
<1>4. CommandTypes' /\ Wired' /\ LogFollows'
  BY <1>1, <1>2 DEF CommandsInv, CommandTypes, Wired, LogFollows, Undisturbed
<1>5. \A c \in Commands : Asked(c)'
  BY <1>1, <1>2, OneByOne, RequestsApart DEF CommandsInv, Asked
<1>6. \A c \in Commands : Displayed(c)'
  BY <1>1, OneByOne DEF CommandsInv, Displayed
<1>. QED
  BY <1>4, <1>5, <1>6 DEF CommandsInv, Requested, Asked, ShownTrue, Poll!ConfirmedWasShown, Displayed

\* A request that fails, in the queue or in the exchange.
LEMMA FailedKeeps ==
  ASSUME CommandsInv, NEW r, Failed(r)
  PROVE  /\ cmd' \in [Commands -> Cmds]
         /\ \A c \in Commands :
              /\ cmd'[c].dev = cmd[c].dev
              /\ cmd'[c].pc = cmd[c].pc \/ cmd'[c].pc = "failed"
              /\ r # Poll!SetRequest(c) /\ r # Poll!ConfirmRequest(c) => cmd'[c].pc = cmd[c].pc
              /\ r = Poll!SetRequest(c) /\ cmd[c].pc # "sent" => cmd'[c].pc = cmd[c].pc
              /\ r = Poll!ConfirmRequest(c) /\ cmd[c].pc # "confirm" => cmd'[c].pc = cmd[c].pc
              /\ r = Poll!SetRequest(c) => cmd'[c].pc # "sent"
              /\ r = Poll!ConfirmRequest(c) => cmd'[c].pc # "confirm"
<1>1. \A c \in Commands : /\ r = Poll!SetRequest(c) => cmd'[c].pc # "sent"
                          /\ r = Poll!ConfirmRequest(c) => cmd'[c].pc # "confirm"
  BY DEF Failed
<1>2. CASE UNCHANGED cmd
  BY <1>1, <1>2 DEF CommandsInv, CommandTypes
<1>3. ASSUME NEW c \in Commands, Goes(c, "failed"),
             \/ r = Poll!SetRequest(c) /\ cmd[c].pc = "sent"
             \/ r = Poll!ConfirmRequest(c) /\ cmd[c].pc = "confirm"
      PROVE  /\ cmd' \in [Commands -> Cmds]
             /\ \A k \in Commands :
                  /\ cmd'[k].dev = cmd[k].dev
                  /\ k # c => cmd'[k].pc = cmd[k].pc
                  /\ k = c => cmd'[k].pc = "failed"
  BY <1>3 DEF Goes
<1>4. CASE \E c \in Commands : Goes(c, "failed") /\ \/ r = Poll!SetRequest(c) /\ cmd[c].pc = "sent"
                                                    \/ r = Poll!ConfirmRequest(c) /\ cmd[c].pc = "confirm"
  <2>1. PICK c \in Commands : Goes(c, "failed") /\ \/ r = Poll!SetRequest(c) /\ cmd[c].pc = "sent"
                                                   \/ r = Poll!ConfirmRequest(c) /\ cmd[c].pc = "confirm"
    BY <1>4
  <2>2. /\ cmd' \in [Commands -> Cmds]
        /\ \A k \in Commands :
             /\ cmd'[k].dev = cmd[k].dev
             /\ k # c => cmd'[k].pc = cmd[k].pc
             /\ k = c => cmd'[k].pc = "failed"
    BY <1>3, <2>1
  <2>3. r = Poll!SetRequest(c) \/ r = Poll!ConfirmRequest(c)
    BY <2>1
  <2>4. \A k \in Commands : r = Poll!SetRequest(k) \/ r = Poll!ConfirmRequest(k) => k = c
    BY <2>3, RequestsApart
  <2>5. r = Poll!SetRequest(c) => cmd[c].pc = "sent"
    BY <2>1, RequestsApart
  <2>6. r = Poll!ConfirmRequest(c) => cmd[c].pc = "confirm"
    BY <2>1, RequestsApart
  <2>7. \A k \in Commands : cmd'[k].pc = cmd[k].pc \/ cmd'[k].pc = "failed"
    BY <2>2
  <2>8. \A k \in Commands : r # Poll!SetRequest(k) /\ r # Poll!ConfirmRequest(k) => k # c
    BY <2>3
  <2>. QED
    BY <1>1, <2>2, <2>4, <2>5, <2>6, <2>7, <2>8
<1>. QED
  BY <1>2, <1>4 DEF Failed

\* What a failure keeps of the displays and of the log.
LEMMA FailedDisplays ==
  ASSUME CommandsInv, NEW r, Failed(r), faults' = faults \/ faults' = faults + 1
  PROVE  /\ \A c \in Commands : Displayed(c)'
         /\ LogFollows'
<1>1. /\ cmd' \in [Commands -> Cmds]
      /\ \A c \in Commands : cmd'[c].dev = cmd[c].dev /\ (cmd'[c].pc = cmd[c].pc \/ cmd'[c].pc = "failed")
  BY FailedKeeps
<1>2. UNCHANGED <<display, log, shown, pollReady, pollTarget, pollClient, switches>>
  BY DEF Failed
<1>3. \A c \in Commands : Displayed(c)
  BY OneByOne DEF CommandsInv
<1>4. \A c \in Commands : Displayed(c)'
  BY <1>1, <1>2, <1>3 DEF Displayed
<1>5. Undisturbed' => Undisturbed
  BY <1>2 DEF Undisturbed, CommandsInv, CommandTypes
<1>6. LogFollows'
  BY <1>1, <1>2, <1>5 DEF LogFollows, CommandsInv
<1>. QED
  BY <1>4, <1>6

\* The conjuncts of the commands' invariant, put together again.
LEMMA Together ==
  ASSUME CommandTypes', Wired', LogFollows', \A c \in Commands : Asked(c)',
         \A c \in Commands : Displayed(c)'
  PROVE  CommandsInv'
BY DEF CommandsInv, Requested, Asked, ShownTrue, Poll!ConfirmedWasShown, Displayed

\* The invariant, taken apart.
LEMMA Apart ==
  ASSUME CommandsInv
  PROVE  /\ CommandTypes /\ Wired /\ LogFollows
         /\ \A c \in Commands : Asked(c)
         /\ \A c \in Commands : Displayed(c)
BY OneByOne DEF CommandsInv

\* An exchange that fails fails its own command only.
LEMMA BrokenKeeps == CommandsInv /\ Broken => CommandsInv'
<1>. SUFFICES ASSUME CommandsInv, Broken PROVE CommandsInv'
  OBVIOUS
<1>0. CommandTypes /\ Wired /\ \A c \in Commands : Asked(c)
  BY Apart
<1>1. wire' = Poll!Idle /\ queue' = queue /\ faults' = faults + 1 /\ Failed(wire.req)
  BY DEF Broken
<1>2. PICK r : r = wire.req /\ Failed(r)
  BY <1>1
<1>3. (\A c \in Commands : Displayed(c)') /\ LogFollows'
  BY <1>1, <1>2, FailedDisplays
<1>4. /\ cmd' \in [Commands -> Cmds]
      /\ \A c \in Commands :
              /\ cmd'[c].dev = cmd[c].dev
              /\ cmd'[c].pc = cmd[c].pc \/ cmd'[c].pc = "failed"
              /\ r # Poll!SetRequest(c) /\ r # Poll!ConfirmRequest(c) => cmd'[c].pc = cmd[c].pc
              /\ r = Poll!SetRequest(c) /\ cmd[c].pc # "sent" => cmd'[c].pc = cmd[c].pc
              /\ r = Poll!ConfirmRequest(c) /\ cmd[c].pc # "confirm" => cmd'[c].pc = cmd[c].pc
              /\ r = Poll!SetRequest(c) => cmd'[c].pc # "sent"
              /\ r = Poll!ConfirmRequest(c) => cmd'[c].pc # "confirm"
  BY <1>2, FailedKeeps
<1>5. UNCHANGED <<display, log, shown, pollReady, pollTarget, pollClient, switches>>
  BY <1>2 DEF Failed
<1>6. CommandTypes'
  BY <1>0, <1>1, <1>4, <1>5 DEF CommandTypes
<1>7. Wired'
  BY <1>0, <1>1, <1>5 DEF Wired
<1>8. \A c \in Commands : Asked(c)'
  <2>. SUFFICES ASSUME NEW c \in Commands PROVE Asked(c)'
    OBVIOUS
  <2>1. Asked(c) /\ Poll!SetRequest(c) # Poll!ConfirmRequest(c)
        /\ Poll!Idle.req # Poll!SetRequest(c) /\ Poll!Idle.req # Poll!ConfirmRequest(c)
    BY <1>0, RequestsApart
  <2>2. wire'.req # Poll!SetRequest(c) /\ wire'.req # Poll!ConfirmRequest(c)
    BY <1>1, <2>1
  <2>3. /\ cmd'[c].dev = cmd[c].dev
        /\ r = Poll!SetRequest(c) /\ cmd[c].pc # "sent" => cmd'[c].pc = cmd[c].pc
        /\ (cmd'[c].pc = cmd[c].pc \/ cmd'[c].pc = "failed")
        /\ r # Poll!SetRequest(c) /\ r # Poll!ConfirmRequest(c) => cmd'[c].pc = cmd[c].pc
        /\ r = Poll!ConfirmRequest(c) /\ cmd[c].pc # "confirm" => cmd'[c].pc = cmd[c].pc
        /\ r = Poll!SetRequest(c) => cmd'[c].pc # "sent"
        /\ r = Poll!ConfirmRequest(c) => cmd'[c].pc # "confirm"
    BY <1>4
  <2>4. CASE r = Poll!SetRequest(c)
    BY <1>1, <1>2, <1>5, <2>1, <2>2, <2>3, <2>4 DEF Asked
  <2>5. CASE r = Poll!ConfirmRequest(c)
    BY <1>1, <1>2, <1>5, <2>1, <2>2, <2>3, <2>5 DEF Asked
  <2>6. CASE r # Poll!SetRequest(c) /\ r # Poll!ConfirmRequest(c)
    BY <1>1, <1>2, <1>5, <2>1, <2>2, <2>3, <2>6 DEF Asked
  <2>. QED
    BY <2>4, <2>5, <2>6
<1>. QED
  BY <1>3, <1>6, <1>7, <1>8, Together

\* A request leaves the queue for the exchange, or fails there.
LEMMA TakenKeeps == ASSUME CommandsInv, NEW r \in queue, Taken(r) PROVE CommandsInv'
<1>0. /\ CommandTypes /\ Wired /\ LogFollows /\ \A c \in Commands : Asked(c)
      /\ \A c \in Commands : Displayed(c)
  BY Apart
<1>1. wire = Poll!Idle /\ queue' = queue \ {r} /\ UNCHANGED <<faults, switches>> /\ r \in Poll!Requests
  BY <1>0 DEF Taken, CommandTypes
<1>2. CASE /\ pollReady /\ pollClient # NoDevice /\ wire' = [req |-> r, dev |-> pollClient]
           /\ SameCommands /\ SameLink
  <2>1. UNCHANGED <<cmd, display, log, shown, pollReady, pollTarget, pollClient>>
        /\ pollClient = pollTarget /\ pollTarget \in Devices
    BY <1>0, <1>2 DEF SameCommands, SameLink, Wired
  <2>2. wire'.req = r /\ wire'.dev = pollTarget /\ wire' \in [req : Poll!Requests, dev : Devices]
    BY <1>1, <1>2, <2>1
  <2>3. CommandTypes' /\ Wired' /\ LogFollows'
    BY <1>0, <1>1, <2>1, <2>2 DEF CommandTypes, Wired, LogFollows, Undisturbed
  <2>4. \A c \in Commands : Asked(c)'
    <3>. SUFFICES ASSUME NEW c \in Commands PROVE Asked(c)'
      OBVIOUS
    <3>1. Asked(c) /\ Poll!SetRequest(c) # Poll!ConfirmRequest(c)
          /\ wire.req # Poll!SetRequest(c) /\ wire.req # Poll!ConfirmRequest(c)
      BY <1>0, <1>1, RequestsApart
    <3>. QED
      BY <1>1, <1>2, <2>1, <2>2, <3>1 DEF Asked
  <2>5. \A c \in Commands : Displayed(c)'
    BY <1>0, <2>1 DEF Displayed
  <2>. QED
    BY <2>3, <2>4, <2>5, Together
<1>3. CASE wire' = wire /\ Failed(r)
  <2>1. (\A c \in Commands : Displayed(c)') /\ LogFollows'
    BY <1>1, <1>3, FailedDisplays
  <2>2. /\ cmd' \in [Commands -> Cmds]
        /\ \A c \in Commands :
              /\ cmd'[c].dev = cmd[c].dev
              /\ cmd'[c].pc = cmd[c].pc \/ cmd'[c].pc = "failed"
              /\ r # Poll!SetRequest(c) /\ r # Poll!ConfirmRequest(c) => cmd'[c].pc = cmd[c].pc
              /\ r = Poll!SetRequest(c) /\ cmd[c].pc # "sent" => cmd'[c].pc = cmd[c].pc
              /\ r = Poll!ConfirmRequest(c) /\ cmd[c].pc # "confirm" => cmd'[c].pc = cmd[c].pc
              /\ r = Poll!SetRequest(c) => cmd'[c].pc # "sent"
              /\ r = Poll!ConfirmRequest(c) => cmd'[c].pc # "confirm"
    BY <1>3, FailedKeeps
  <2>3. UNCHANGED <<display, log, shown, pollReady, pollTarget, pollClient, switches>>
    BY <1>3 DEF Failed
  <2>4. CommandTypes' /\ Wired'
    BY <1>0, <1>1, <1>3, <2>2, <2>3 DEF CommandTypes, Wired
  <2>5. \A c \in Commands : Asked(c)'
    <3>. SUFFICES ASSUME NEW c \in Commands PROVE Asked(c)'
      OBVIOUS
    <3>1. Asked(c) /\ Poll!SetRequest(c) # Poll!ConfirmRequest(c)
          /\ wire.req # Poll!SetRequest(c) /\ wire.req # Poll!ConfirmRequest(c)
      BY <1>0, <1>1, RequestsApart
    <3>. QED
      BY <1>1, <1>3, <2>2, <2>3, <3>1 DEF Asked
  <2>. QED
    BY <2>1, <2>4, <2>5, Together
<1>. QED
  BY <1>2, <1>3 DEF Taken

\* A display shows something else, and every command that waits for that has
\* seen it.
LEMMA DisplayChanges ==
  ASSUME CommandsInv, NEW d \in Devices, NEW e \in BOOLEAN,
         display' = [display EXCEPT ![d] = e], shown' = Poll!Shows(d, e),
         \A c \in Commands : cmd'[c].dev = cmd[c].dev,
         \A c \in Commands : \/ cmd'[c].pc = cmd[c].pc
                             \/ cmd[c].pc = "sent" /\ cmd[c].dev = d /\ Wanted[c] = e
  PROVE  /\ display' \in [Devices -> BOOLEAN] /\ shown' \in [Commands -> BOOLEAN]
         /\ display'[d] = e
         /\ \A c \in Commands : Displayed(c)'
<1>0. CommandTypes /\ \A c \in Commands : Displayed(c)
  BY Apart
<1>1. display' \in [Devices -> BOOLEAN] /\ display'[d] = e
      /\ \A k \in Devices \ {d} : display'[k] = display[k]
  BY <1>0 DEF CommandTypes
<1>2. shown' \in [Commands -> BOOLEAN]
      /\ \A c \in Commands : shown'[c] <=> \/ shown[c]
                                           \/ /\ cmd[c].pc \notin {"idle", "ok", "failed"}
                                              /\ cmd[c].dev = d /\ Wanted[c] = e
  BY <1>0 DEF CommandTypes, Poll!Shows
<1>3. ASSUME NEW c \in Commands PROVE Displayed(c)'
  <2>1. Displayed(c) /\ cmd'[c].dev = cmd[c].dev
    BY <1>0
  <2>2. cmd'[c].pc = cmd[c].pc \/ (cmd[c].pc = "sent" /\ cmd[c].dev = d /\ Wanted[c] = e)
    OBVIOUS
  <2>3. shown'[c] <=> \/ shown[c]
                      \/ /\ cmd[c].pc \notin {"idle", "ok", "failed"}
                         /\ cmd[c].dev = d /\ Wanted[c] = e
    BY <1>2
  <2>4. CASE cmd'[c].pc = cmd[c].pc
    BY <1>1, <2>1, <2>3, <2>4 DEF Displayed
  <2>5. CASE cmd[c].pc = "sent" /\ cmd[c].dev = d /\ Wanted[c] = e
    BY <2>1, <2>3, <2>5 DEF Displayed
  <2>. QED
    BY <2>2, <2>4, <2>5
<1>. QED
  BY <1>1, <1>2, <1>3

\* A result is logged last.
LEMMA LoggedLast ==
  ASSUME CommandsInv, NEW d \in Devices, NEW e \in BOOLEAN, log' = Poll!Logged(d, e)
  PROVE  log' \in Seq(Results) /\ log'[Len(log')].dev = d /\ log'[Len(log')].shows = e
<1>1. PICK r \in Results : r = [dev |-> d, shows |-> e]
  BY DEF Results
<1>2. log \in Seq(Results) /\ log' = Append(log, r)
  BY <1>1 DEF CommandsInv, CommandTypes, Poll!Logged
<1>3. log' \in Seq(Results) /\ log'[Len(log')] = r
  BY <1>2
<1>. QED
  BY <1>1, <1>3

\* The device carries a command out and its confirmation is asked for.
LEMMA CarriedKeeps == ASSUME CommandsInv, NEW c \in Commands, Carried(c) PROVE CommandsInv'
<1>0. /\ CommandTypes /\ Wired /\ LogFollows /\ \A k \in Commands : Asked(k)
      /\ \A k \in Commands : Displayed(k)
  BY Apart
<1>1. wire.req = Poll!SetRequest(c) /\ wire # Poll!Idle /\ wire' = Poll!Idle /\ queue' = queue
      /\ UNCHANGED <<faults, switches, pollReady, pollTarget, pollClient>>
  BY DEF Carried, SameLink
<1>2. PICK d \in Devices : d = wire.dev
  BY <1>0, <1>1 DEF CommandTypes
<1>3. PICK e \in BOOLEAN : e = Wanted[c]
  BY PollFacts
<1>4. display' = [display EXCEPT ![d] = e] /\ shown' = Poll!Shows(d, e)
  BY <1>2, <1>3 DEF Carried
<1>5. cmd[c].dev = d
  BY <1>0, <1>1, <1>2 DEF Asked
<1>6. cmd' \in [Commands -> Cmds] /\ \A k \in Commands : cmd'[k].dev = cmd[k].dev
  BY <1>0 DEF Carried, Goes, CommandTypes
<1>13. (cmd[c].pc = "sent" /\ Goes(c, "persist")) \/ UNCHANGED cmd
  BY DEF Carried
<1>7. \A k \in Commands : cmd'[k].pc = cmd[k].pc
                          \/ (cmd[k].pc = "sent" /\ k = c /\ cmd'[k].pc = "persist")
  BY <1>13 DEF Goes
<1>14. \A k \in Commands : \/ cmd'[k].pc = cmd[k].pc
                           \/ cmd[k].pc = "sent" /\ cmd[k].dev = d /\ Wanted[k] = e
  BY <1>3, <1>5, <1>7
<1>8. /\ display' \in [Devices -> BOOLEAN] /\ shown' \in [Commands -> BOOLEAN] /\ display'[d] = e
      /\ \A k \in Commands : Displayed(k)'
  BY <1>4, <1>6, <1>14, DisplayChanges
<1>9. /\ log' \in Seq(Results)
      /\ \/ log'[Len(log')].dev = pollTarget /\ log'[Len(log')].shows = e
         \/ UNCHANGED <<cmd, log>> /\ cmd[c].pc \in {"confirm", "failed"}
  <2>1. CASE log' = Poll!Logged(pollTarget, Wanted[c])
    <3>1. PICK t \in Devices : t = pollTarget
      BY <1>0 DEF Wired
    <3>. QED
      BY <2>1, <3>1, <1>3, LoggedLast
  <2>2. CASE cmd[c].pc # "sent" /\ UNCHANGED <<cmd, log>>
    BY <1>0, <1>1, <2>2 DEF CommandTypes, Asked
  <2>. QED
    BY <2>1, <2>2 DEF Carried
<1>10. CommandTypes' /\ Wired'
  BY <1>0, <1>1, <1>6, <1>8, <1>9 DEF CommandTypes, Wired
<1>11. LogFollows'
  <2>1. SUFFICES ASSUME Undisturbed', log' # <<>>
                 PROVE  /\ log'[Len(log')].dev = pollTarget'
                        /\ \/ log'[Len(log')].shows = display'[pollTarget']
                           \/ \E k \in Commands : cmd'[k].pc \in {"confirm", "failed"}
    BY <1>0, <1>1 DEF LogFollows, Undisturbed
  <2>2. Undisturbed /\ pollReady /\ d = pollTarget
    BY <1>0, <1>1, <1>2, <2>1 DEF Undisturbed, LogFollows, Wired
  <2>. QED
    BY <1>0, <1>1, <1>8, <1>9, <2>1, <2>2 DEF LogFollows
<1>12. \A k \in Commands : Asked(k)'
  <2>. SUFFICES ASSUME NEW k \in Commands PROVE Asked(k)'
    OBVIOUS
  <2>1. Asked(k) /\ Poll!Idle.req # Poll!SetRequest(k) /\ Poll!Idle.req # Poll!ConfirmRequest(k)
        /\ wire.req # Poll!ConfirmRequest(k) /\ (wire.req = Poll!SetRequest(k) => k = c)
    BY <1>0, <1>1, RequestsApart
  <2>2. cmd'[k].dev = cmd[k].dev /\ (cmd'[k].pc = cmd[k].pc
                          \/ (cmd[k].pc = "sent" /\ k = c /\ cmd'[k].pc = "persist"))
    BY <1>6, <1>7
  <2>3. k = c => cmd'[k].pc # "sent"
    BY DEF Carried, Goes
  <2>. QED
    BY <1>1, <2>1, <2>2, <2>3 DEF Asked
<1>. QED
  BY <1>8, <1>10, <1>11, <1>12, Together

\* The state is asked for after a timeout.
LEMMA CheckedKeeps == ASSUME CommandsInv, NEW c \in Commands, Checked(c) PROVE CommandsInv'
<1>0. /\ CommandTypes /\ Wired /\ LogFollows /\ \A k \in Commands : Asked(k)
      /\ \A k \in Commands : Displayed(k)
  BY Apart
<1>1. wire.req = Poll!ConfirmRequest(c) /\ wire # Poll!Idle /\ wire' = Poll!Idle /\ queue' = queue
      /\ UNCHANGED <<display, shown, faults, switches, pollReady, pollTarget, pollClient>>
  BY DEF Checked, SameLink
<1>2. PICK d \in Devices : d = wire.dev
  BY <1>0, <1>1 DEF CommandTypes
<1>3. PICK e \in BOOLEAN : e = display[d]
  BY <1>0 DEF CommandTypes
<1>4. cmd[c].dev = d
  BY <1>0, <1>1, <1>2 DEF Asked
<1>5. \/ UNCHANGED cmd /\ cmd[c].pc # "confirm"
      \/ cmd[c].pc = "confirm" /\ Goes(c, "persist") /\ Wanted[c] = display[d]
      \/ cmd[c].pc = "confirm" /\ Goes(c, "failed")
  BY <1>2 DEF Checked
<1>6. cmd' \in [Commands -> Cmds] /\ \A k \in Commands : cmd'[k].dev = cmd[k].dev
  BY <1>0, <1>5 DEF Goes, CommandTypes
<1>7. \A k \in Commands : \/ cmd'[k].pc = cmd[k].pc
                          \/ k = c /\ cmd[k].pc = "confirm" /\ cmd'[k].pc = "failed"
                          \/ /\ k = c /\ cmd[k].pc = "confirm" /\ cmd'[k].pc = "persist"
                             /\ Wanted[k] = display[d]
  BY <1>5 DEF Goes
<1>8. \A k \in Commands : Displayed(k)'
  <2>. SUFFICES ASSUME NEW k \in Commands PROVE Displayed(k)'
    OBVIOUS
  <2>1. Displayed(k) /\ cmd'[k].dev = cmd[k].dev
    BY <1>0, <1>6
  <2>2. CASE cmd'[k].pc = cmd[k].pc
    BY <1>1, <2>1, <2>2 DEF Displayed
  <2>3. CASE k = c /\ cmd[k].pc = "confirm" /\ cmd'[k].pc = "failed"
    BY <2>3 DEF Displayed
  <2>4. CASE k = c /\ cmd[k].pc = "confirm" /\ cmd'[k].pc = "persist" /\ Wanted[k] = display[d]
    BY <1>1, <1>4, <2>1, <2>4 DEF Displayed
  <2>. QED
    BY <1>7, <2>2, <2>3, <2>4
<1>9. /\ log' \in Seq(Results)
      /\ \/ log'[Len(log')].dev = pollTarget /\ log'[Len(log')].shows = e
         \/ log' = log /\ UNCHANGED cmd
         \/ log' = log /\ cmd'[c].pc = "failed"
  <2>1. CASE log' = Poll!Logged(pollTarget, display[wire.dev])
    <3>1. PICK t \in Devices : t = pollTarget
      BY <1>0 DEF Wired
    <3>2. log' = Poll!Logged(t, e)
      BY <1>2, <1>3, <2>1, <3>1
    <3>3. log' \in Seq(Results) /\ log'[Len(log')].dev = t /\ log'[Len(log')].shows = e
      BY <3>2, LoggedLast
    <3>. QED
      BY <3>1, <3>3
  <2>2. CASE log' = log /\ (UNCHANGED cmd \/ Goes(c, "failed"))
    BY <1>0, <2>2 DEF CommandTypes, Goes
  <2>. QED
    BY <2>1, <2>2 DEF Checked
<1>10. CommandTypes' /\ Wired'
  BY <1>0, <1>1, <1>6, <1>9 DEF CommandTypes, Wired
<1>11. LogFollows'
  <2>1. SUFFICES ASSUME Undisturbed', log' # <<>>
                 PROVE  /\ log'[Len(log')].dev = pollTarget'
                        /\ \/ log'[Len(log')].shows = display'[pollTarget']
                           \/ \E k \in Commands : cmd'[k].pc \in {"confirm", "failed"}
    BY <1>0, <1>1 DEF LogFollows, Undisturbed
  <2>2. Undisturbed /\ pollReady /\ d = pollTarget
    BY <1>0, <1>1, <1>2, <2>1 DEF Undisturbed, LogFollows, Wired
  <2>. QED
    BY <1>0, <1>1, <1>3, <1>9, <2>1, <2>2 DEF LogFollows
<1>12. \A k \in Commands : Asked(k)'
  <2>. SUFFICES ASSUME NEW k \in Commands PROVE Asked(k)'
    OBVIOUS
  <2>1. Asked(k) /\ Poll!Idle.req # Poll!SetRequest(k) /\ Poll!Idle.req # Poll!ConfirmRequest(k)
        /\ wire.req # Poll!SetRequest(k) /\ (wire.req = Poll!ConfirmRequest(k) => k = c)
    BY <1>0, <1>1, RequestsApart
  <2>2. cmd'[k].dev = cmd[k].dev
    BY <1>6
  <2>3. k = c => cmd'[k].pc # "confirm"
    BY <1>5 DEF Goes
  <2>4. k # c => cmd'[k].pc = cmd[k].pc
    BY <1>7
  <2>5. CASE k # c
    BY <1>1, <2>1, <2>2, <2>4, <2>5 DEF Asked
  <2>6. CASE k = c
    <3>1. cmd[k].pc \in {"confirm", "failed"} /\ cmd'[k].pc # "sent"
      BY <1>1, <1>7, <2>1, <2>6 DEF Asked
    <3>. QED
      BY <1>1, <2>1, <2>2, <2>3, <2>6, <3>1 DEF Asked
  <2>. QED
    BY <2>5, <2>6
<1>. QED
  BY <1>8, <1>10, <1>11, <1>12, Together

\* A command is given to the device the link is open to.
LEMMA GivenKeeps == ASSUME CommandsInv, NEW c \in Commands, Given(c) PROVE CommandsInv'
<1>0. /\ CommandTypes /\ Wired /\ LogFollows /\ \A k \in Commands : Asked(k)
      /\ \A k \in Commands : Displayed(k)
  BY Apart
<1>1. /\ cmd[c].pc = "idle" /\ pollReady /\ queue' = queue \cup {Poll!SetRequest(c)}
      /\ UNCHANGED <<wire, display, log, faults, switches, pollReady, pollTarget, pollClient>>
  BY DEF Given, SameLink
<1>2. PICK sent \in Cmds : sent = [pc |-> "sent", dev |-> pollTarget]
  BY <1>0 DEF CommandTypes, Cmds, CmdPcs
<1>3. cmd' = [cmd EXCEPT ![c] = sent] /\ sent.pc = "sent" /\ sent.dev = pollTarget
  BY <1>2 DEF Given
<1>4. cmd' \in [Commands -> Cmds] /\ cmd'[c].pc = "sent" /\ cmd'[c].dev = pollTarget
      /\ \A k \in Commands \ {c} : cmd'[k] = cmd[k]
  BY <1>0, <1>3 DEF CommandTypes
<1>5. PICK b \in BOOLEAN : b = (display[pollTarget] = Wanted[c])
  OBVIOUS
<1>6. shown' = [shown EXCEPT ![c] = b]
  BY <1>5 DEF Given
<1>7. shown' \in [Commands -> BOOLEAN] /\ shown'[c] = b /\ \A k \in Commands \ {c} : shown'[k] = shown[k]
  BY <1>0, <1>6 DEF CommandTypes
<1>8. queue' \subseteq Poll!Requests
  BY <1>0, <1>1, PollRequests DEF CommandTypes
<1>9. CommandTypes' /\ Wired'
  BY <1>0, <1>1, <1>4, <1>7, <1>8 DEF CommandTypes, Wired
<1>10. LogFollows'
  <2>1. \A k \in Commands : cmd[k].pc \in {"confirm", "failed"} => cmd'[k].pc \in {"confirm", "failed"}
    BY <1>1, <1>4
  <2>. QED
    BY <1>0, <1>1, <2>1 DEF LogFollows, Undisturbed
<1>11. \A k \in Commands : Asked(k)'
  <2>. SUFFICES ASSUME NEW k \in Commands PROVE Asked(k)'
    OBVIOUS
  <2>1. Asked(k) /\ Asked(c) /\ Poll!SetRequest(c) # Poll!ConfirmRequest(k)
        /\ (Poll!SetRequest(c) = Poll!SetRequest(k) => k = c)
    BY <1>0, RequestsApart
  <2>2. CASE k # c
    BY <1>1, <1>4, <2>1, <2>2 DEF Asked
  <2>3. CASE k = c
    BY <1>1, <1>4, <2>1, <2>3 DEF Asked
  <2>. QED
    BY <2>2, <2>3
<1>12. \A k \in Commands : Displayed(k)'
  <2>. SUFFICES ASSUME NEW k \in Commands PROVE Displayed(k)'
    OBVIOUS
  <2>1. CASE k # c
    BY <1>0, <1>1, <1>4, <1>7, <2>1 DEF Displayed
  <2>2. CASE k = c
    <3>1. display'[cmd'[c].dev] = Wanted[c] => shown'[c]
      BY <1>1, <1>4, <1>5, <1>7
    <3>2. cmd'[c].dev \in Devices
      BY <1>0, <1>4 DEF Wired
    <3>. QED
      BY <1>4, <2>2, <3>1, <3>2 DEF Displayed
  <2>. QED
    BY <2>1, <2>2
<1>. QED
  BY <1>9, <1>10, <1>11, <1>12, Together

\* A command or its confirmation times out, or its caller is answered.
LEMMA WaitedKeeps == ASSUME CommandsInv, NEW c \in Commands, Waited(c) PROVE CommandsInv'
<1>0. /\ CommandTypes /\ Wired /\ LogFollows /\ \A k \in Commands : Asked(k)
      /\ \A k \in Commands : Displayed(k)
  BY Apart
<1>1. UNCHANGED <<wire, display, log, shown, faults, switches, pollReady, pollTarget, pollClient>>
  BY DEF Waited, SameLink
<1>2. /\ cmd' \in [Commands -> Cmds] /\ cmd'[c].dev = cmd[c].dev
      /\ \A k \in Commands \ {c} : cmd'[k] = cmd[k]
  BY DEF Waited, Goes
<1>3. queue' \subseteq queue \cup {Poll!ConfirmRequest(c)}
      /\ \A k \in Commands \ {c} : /\ Poll!SetRequest(k) \in queue' <=> Poll!SetRequest(k) \in queue
                                   /\ Poll!ConfirmRequest(k) \in queue' <=> Poll!ConfirmRequest(k) \in queue
  BY RequestsApart DEF Waited
<1>4. CommandTypes' /\ Wired'
  BY <1>0, <1>1, <1>2, <1>3, PollRequests DEF CommandTypes, Wired
<1>5. cmd[c].pc \in {"confirm", "failed"} => cmd'[c].pc \in {"confirm", "failed"}
  BY DEF Waited, Goes
<1>6. LogFollows'
  <2>1. \A k \in Commands : cmd[k].pc \in {"confirm", "failed"} => cmd'[k].pc \in {"confirm", "failed"}
    BY <1>2, <1>5
  <2>. QED
    BY <1>0, <1>1, <2>1 DEF LogFollows, Undisturbed
<1>7. \A k \in Commands \ {c} : Asked(k)' /\ Displayed(k)'
  BY <1>0, <1>1, <1>2, <1>3 DEF Asked, Displayed
<1>8. Asked(c) /\ Displayed(c) /\ Poll!SetRequest(c) # Poll!ConfirmRequest(c)
  BY <1>0, RequestsApart
<1>9. CASE /\ cmd[c].pc = "sent" /\ pollReady /\ cmd'[c].pc = "confirm"
           /\ queue' = (queue \ {Poll!SetRequest(c)}) \cup {Poll!ConfirmRequest(c)}
  <2>1. Displayed(c)'
    BY <1>1, <1>2, <1>8, <1>9 DEF Displayed
  <2>2. Poll!SetRequest(c) \notin queue' /\ Poll!ConfirmRequest(c) \in queue'
    BY <1>8, <1>9
  <2>3. wire.req # Poll!ConfirmRequest(c)
    BY <1>8, <1>9 DEF Asked
  <2>4. cmd[c].dev = pollTarget
    BY <1>0, <1>8, <1>9, RequestsApart DEF Asked, Wired
  <2>5. Asked(c)'
    BY <1>1, <1>2, <1>8, <1>9, <2>2, <2>3, <2>4 DEF Asked
  <2>. QED
    BY <1>4, <1>6, <1>7, <2>1, <2>5, Together
<1>10. CASE cmd[c].pc = "sent" /\ cmd'[c].pc = "failed" /\ queue' = queue \ {Poll!SetRequest(c)}
  <2>1. Displayed(c)'
    BY <1>10 DEF Displayed
  <2>2. Poll!SetRequest(c) \notin queue' /\ Poll!ConfirmRequest(c) \notin queue'
    BY <1>8, <1>10 DEF Asked
  <2>3. Asked(c)'
    BY <1>1, <1>2, <1>8, <1>10, <2>2 DEF Asked
  <2>. QED
    BY <1>4, <1>6, <1>7, <2>1, <2>3, Together
<1>11. CASE cmd[c].pc = "confirm" /\ cmd'[c].pc = "failed" /\ queue' = queue \ {Poll!ConfirmRequest(c)}
  <2>1. Displayed(c)'
    BY <1>11 DEF Displayed
  <2>2. Poll!SetRequest(c) \notin queue' /\ Poll!ConfirmRequest(c) \notin queue'
    BY <1>8, <1>11 DEF Asked
  <2>3. Asked(c)'
    BY <1>1, <1>2, <1>8, <1>11, <2>2 DEF Asked
  <2>. QED
    BY <1>4, <1>6, <1>7, <2>1, <2>3, Together
<1>12. CASE cmd[c].pc = "persist" /\ cmd'[c].pc = "ok" /\ queue' = queue
  <2>1. Displayed(c)'
    BY <1>1, <1>8, <1>12 DEF Displayed
  <2>2. Asked(c)'
    BY <1>1, <1>2, <1>8, <1>12 DEF Asked
  <2>. QED
    BY <1>4, <1>6, <1>7, <2>1, <2>2, Together
<1>. QED
  BY <1>9, <1>10, <1>11, <1>12 DEF Waited, Goes

\* The button.
LEMMA PressedKeeps == ASSUME CommandsInv, NEW d \in Devices, Pressed(d) PROVE CommandsInv'
<1>0. /\ CommandTypes /\ Wired /\ LogFollows /\ \A k \in Commands : Asked(k)
      /\ \A k \in Commands : Displayed(k)
  BY Apart
<1>1. UNCHANGED <<wire, queue, cmd, log, switches, pollReady, pollTarget, pollClient>>
      /\ faults' = faults + 1
  BY DEF Pressed, SameLink
<1>2. PICK e \in BOOLEAN : e = ~display[d]
  OBVIOUS
<1>3. display' = [display EXCEPT ![d] = e] /\ shown' = Poll!Shows(d, e)
  BY <1>2 DEF Pressed
<1>4. /\ display' \in [Devices -> BOOLEAN] /\ shown' \in [Commands -> BOOLEAN]
      /\ \A c \in Commands : Displayed(c)'
  BY <1>1, <1>3, DisplayChanges
<1>5. CommandTypes' /\ Wired' /\ LogFollows'
  BY <1>0, <1>1, <1>4 DEF CommandTypes, Wired, LogFollows, Undisturbed
<1>6. \A c \in Commands : Asked(c)'
  BY <1>0, <1>1 DEF Asked
<1>. QED
  BY <1>4, <1>5, <1>6, Together

\* The link.
LEMMA RelinkedKeeps == ASSUME CommandsInv, Relinked PROVE CommandsInv'
<1>0. /\ CommandTypes /\ Wired /\ LogFollows /\ \A k \in Commands : Asked(k)
      /\ \A k \in Commands : Displayed(k)
  BY Apart
<1>1. UNCHANGED <<wire, queue, cmd, log, display, shown>>
  BY DEF Relinked, SameCommands
<1>2. \A c \in Commands : Displayed(c)'
  BY <1>0, <1>1 DEF Displayed
<1>3. CASE pollReady' = FALSE
  <2>1. pollTarget' \in Devices /\ pollClient' \in Devices \cup {NoDevice} /\ faults' \in Nat /\ switches' \in Nat
        /\ ~Undisturbed'
    BY <1>0, <1>3 DEF Relinked, CommandTypes, Wired, Undisturbed
  <2>2. pollReady' \in BOOLEAN
    BY <1>0, <1>3 DEF Relinked, CommandTypes
  <2>3. CommandTypes' /\ Wired' /\ LogFollows'
    BY <1>0, <1>1, <1>3, <2>1, <2>2 DEF CommandTypes, Wired, LogFollows
  <2>4. \A c \in Commands : Asked(c)'
    BY <1>0, <1>1, <1>3 DEF Asked
  <2>. QED
    BY <1>2, <2>3, <2>4, Together
<1>4. CASE /\ ~pollReady /\ pollReady' = TRUE /\ pollTarget' = pollTarget /\ pollClient' = pollTarget
           /\ queue = {} /\ wire = Poll!Idle /\ UNCHANGED <<faults, switches>>
  <2>1. CommandTypes' /\ Wired' /\ LogFollows'
    BY <1>0, <1>1, <1>4 DEF CommandTypes, Wired, LogFollows, Undisturbed
  <2>2. \A c \in Commands : Asked(c)'
    BY <1>0, <1>1, <1>4 DEF Asked
  <2>. QED
    BY <1>2, <2>1, <2>2, Together
<1>. QED
  BY <1>3, <1>4 DEF Relinked

\* The cached snapshot is a device's.
LEMMA CacheTyped ==
  ASSUME PollInv, Poll!Next
  PROVE  cache' = Poll!Unavailable \/ cache' \in Caches
<1> DEFINE Fine == cache' = Poll!Unavailable \/ cache' \in Caches
<1>0. PollTypes /\ pollTarget \in Devices
  BY PollTypesAre DEF PollInv, Wired
<1>1. ASSUME cache' \in {cache, Poll!Unavailable} PROVE Fine
  BY <1>0, <1>1 DEF PollTypes
<1>2. ASSUME NEW d \in Devices, cache' = Poll!Snapshot(d) PROVE Fine
  BY <1>0, <1>2 DEF PollTypes, Poll!Snapshot, Caches
<1>3. CASE Poll!Tick \/ Poll!PollWakes
  BY <1>1, <1>3 DEF Poll!Tick, Poll!PollWakes
<1>4. ASSUME NEW r \in queue, Poll!Take(r) PROVE Fine
  <2>1. r \in Poll!Requests
    BY <1>0 DEF PollTypes
  <2>2. cache' = cache \/ Poll!Raises(r)
    BY <1>4 DEF Poll!Take
  <2>. QED
    BY <1>0, <1>1, <2>1, <2>2, RaisesCommand
<1>5. CASE Poll!ExchangeFails
  <2>1. PICK r \in Poll!Requests : r = wire.req /\ Poll!Raises(r)
    BY <1>0, <1>5, Exchanging DEF Poll!ExchangeFails
  <2>. QED
    BY <1>0, <1>1, <2>1, RaisesCommand
<1>6. CASE Poll!CurrentAnswered
  <2>1. PICK d \in Devices : d = wire.dev
    BY <1>0, <1>6, Exchanging DEF Poll!CurrentAnswered
  <2>. QED
    BY <1>2, <1>6, <2>1 DEF Poll!CurrentAnswered
<1>7. CASE Poll!DisplaySet
  BY <1>1, <1>7 DEF Poll!DisplaySet
<1>8. CASE Poll!Confirmed
  <2>1. PICK d \in Devices : d = wire.dev
    BY <1>0, <1>8, Exchanging DEF Poll!Confirmed
  <2>2. cache' = cache \/ cache' = Poll!Snapshot(d)
    BY <1>8, <2>1 DEF Poll!Confirmed
  <2>. QED
    BY <1>1, <1>2, <2>1, <2>2
<1>9. ASSUME NEW c \in Commands, Poll!SetDisplay(c) \/ Poll!CommandTimeout(c) \/ Poll!ConfirmTimeout(c)
      PROVE  Fine
  BY <1>1, <1>9 DEF Poll!SetDisplay, Poll!CommandTimeout, Poll!ConfirmTimeout
<1>10. ASSUME NEW c \in Commands, Poll!CommandReturns(c) PROVE Fine
  <2>1. PICK e \in BOOLEAN : e = Wanted[c]
    BY PollFacts
  <2>2. cache' = IF cache.available THEN [cache EXCEPT !.shows = e] ELSE cache
    BY <1>10, <2>1 DEF Poll!CommandReturns
  <2>3. CASE cache \in Caches
    BY <2>2, <2>3 DEF Caches
  <2>4. CASE cache = Poll!Unavailable
    BY <2>2, <2>4 DEF Poll!Unavailable
  <2>. QED
    BY <1>0, <2>3, <2>4 DEF PollTypes
<1>11. ASSUME NEW d \in Devices, Poll!Button(d) \/ Poll!Select(d) \/ Poll!SelectUnenrolled(d) PROVE Fine
  BY <1>1, <1>11 DEF Poll!Button, Poll!Select, Poll!SelectUnenrolled
<1>12. CASE Poll!Lost
  BY <1>12 DEF Poll!Lost
<1>13. CASE Poll!Ready
  <2>1. PICK d \in Devices : d = pollTarget
    BY <1>0
  <2>. QED
    BY <1>2, <1>13, <2>1 DEF Poll!Ready
<1>. QED
  BY <1>3, <1>4, <1>5, <1>6, <1>7, <1>8, <1>9, <1>10, <1>11, <1>12, <1>13 DEF Poll!Next

\* Every step of the poll, and no step of it, keeps what is claimed.
LEMMA PollKept == PollInv /\ (Poll!Next \/ UNCHANGED pollVars) => PollInv'
<1>1. ASSUME PollInv, Poll!Next PROVE PollInv'
  <2>1. CommandsInv
    BY <1>1, PollTypesAre DEF PollInv, PollTypes, CommandsInv, CommandTypes
  <2>2. CommandsInv'
    <3>1. CASE Passes
      BY <2>1, <3>1, PassesKeeps
    <3>2. CASE Broken
      BY <2>1, <3>2, BrokenKeeps
    <3>3. CASE Read
      BY <2>1, <3>3, ReadKeeps
    <3>4. CASE Relinked
      BY <2>1, <3>4, RelinkedKeeps
    <3>5. CASE \E r \in queue : Taken(r)
      <4>1. PICK r \in queue : Taken(r)
        BY <3>5
      <4>. QED
        BY <2>1, <4>1, TakenKeeps
    <3>6. CASE \E c \in Commands : Carried(c) \/ Checked(c) \/ Given(c) \/ Waited(c)
      <4>1. PICK c \in Commands : Carried(c) \/ Checked(c) \/ Given(c) \/ Waited(c)
        BY <3>6
      <4>. QED
        BY <2>1, <4>1, CarriedKeeps, CheckedKeeps, GivenKeeps, WaitedKeeps
    <3>7. CASE \E d \in Devices : Pressed(d)
      <4>1. PICK d \in Devices : Pressed(d)
        BY <3>7
      <4>. QED
        BY <2>1, <4>1, PressedKeeps
    <3>. QED
      BY <1>1, <3>1, <3>2, <3>3, <3>4, <3>5, <3>6, <3>7, PollSteps
  <2>3. TimeTyped' /\ Polling' /\ Poll!SlotsAccounted'
    BY <1>1, SlotsKept
  <2>4. cache' = Poll!Unavailable \/ cache' \in Caches
    BY <1>1, CacheTyped
  <2>5. PollTypes'
    BY <2>2, <2>3, <2>4 DEF CommandsInv, CommandTypes, TimeTyped, PollTypes
  <2>6. PollTyped'
    BY <2>5 DEF PollTyped, PollTypes, Poll!TypeOK, SlotKinds, Caches, Cmds, CmdPcs, Results
  <2>. QED
    BY <2>2, <2>3, <2>6 DEF PollInv, CommandsInv
<1>2. ASSUME PollInv, UNCHANGED pollVars PROVE PollInv'
  BY <1>2 DEF pollVars, PollInv, PollTyped, Poll!TypeOK, Poll!SlotsAccounted, Poll!ConfirmedWasShown,
     Polling, Wired, Requested, ShownTrue, LogFollows, Undisturbed
<1>. QED
  BY <1>1, <1>2

\* What the invariant shows of the poll.
LEMMA PollShows ==
  PollInv => Poll!TypeOK /\ Poll!SlotsAccounted /\ Poll!ConfirmedWasShown /\ Poll!LogFollowsDevice
<1>. SUFFICES ASSUME PollInv PROVE Poll!LogFollowsDevice
  BY DEF PollInv, PollTyped
<1>1. SUFFICES ASSUME faults = 0, log # <<>>, switches = 0,
                      \A c \in Commands : cmd[c].pc \in {"idle", "persist", "ok"}
               PROVE  log[Len(log)].shows = display[log[Len(log)].dev]
  BY DEF Poll!LogFollowsDevice, Poll!Last
<1>. QED
  BY <1>1 DEF PollInv, LogFollows, Undisturbed

-----------------------------------------------------------------------------
(* What the adapter makes of the records. *)

Provisional == "PROVISIONAL"
Probes == {1, 2}

\* A reading is the device's own, or not retrieved.
Readings(p, n, r) == \A s \in Probes : r[s] \in {truth[n][s], Store(p)!NotRetrieved}

\* A row of a sample is keyed by its second; a placeholder has no key.
RowFine(p, row) ==
  /\ row \in Store(p)!Rows /\ row.n <= second
  /\ row.average = Store(p)!BothValid(row.r)
  /\ row.source # Provisional => row.seq = row.n /\ Readings(p, row.n, row.r)
  /\ row.source = Provisional => row.seq = 0 /\ row.at = Store(p)!Stored(Store(p)!PollTime(row.n))

\* A sample of a batch, one for each second.
SampleFine(p, x) ==
  x \in Store(p)!Samples /\ x.seq <= second /\ Readings(p, x.seq, x.r)
BatchFine(p, samples) ==
  /\ \A x \in samples : SampleFine(p, x)
  /\ \A x, y \in samples : x.seq = y.seq => x = y
Reported(p, kind, n) == IF kind = "current" THEN Store(p)!Whole(n) ELSE Store(p)!Placeholder(n)
JobFine(p, job) ==
  /\ job.kind \in Store(p)!Kinds /\ job.samples \subseteq Store(p)!Samples
  /\ job.kind \in {"upsert", "reconcile"} => BatchFine(p, job.samples)
  /\ job.kind \in {"current", "missing"} =>
       \E n \in 1..second : job.samples = {Reported(p, job.kind, n)}

StoreTypes(p) ==
  /\ second \in 0..Stores[p].seconds
  /\ truth \in [1..Stores[p].seconds -> [Probes -> {"VALID", "DISCONNECTED"}]]
  /\ work \in Seq([kind : Store(p)!Kinds, samples : SUBSET Store(p)!Samples])
  /\ syncs \in 0..Stores[p].syncs /\ failures \in 0..Stores[p].failures

RowsAre(p, held) ==
  /\ \A row \in held : RowFine(p, row)
  /\ \A row, other \in held : row.seq = other.seq /\ row.seq # 0 => row = other
RowsFine(p) == RowsAre(p, table)
WorkFine(p) == \A job : (\E i \in DOMAIN work : job = work[i]) => JobFine(p, job)

\* While no call failed, a reconciliation comes after the batch it is about,
\* and every second is still to be applied, or has its row, or a sample of an
\* adjacent second has.
Announces(i, n) ==
  work[i].kind \in {"current", "missing"} /\ \E x \in work[i].samples : x.seq = n
Held(row, n) == row.n = n \/ (row.source # Provisional /\ row.n - n \in -1..1)
Follows(p) ==
  \A i \in DOMAIN work : work[i].kind = "reconcile" =>
    /\ i = 1 => \A x \in work[i].samples : \E row \in table : row.seq = x.seq
    /\ i # 1 => work[i - 1].kind = "upsert" /\ work[i - 1].samples = work[i].samples
Covered ==
  \A n \in 1..second : (\E i \in DOMAIN work : Announces(i, n)) \/ (\E row \in table : Held(row, n))

StoreInv(p) ==
  /\ StoreTypes(p) /\ RowsFine(p) /\ WorkFine(p)
  /\ failures = 0 => Follows(p) /\ Covered
StoresInv == \A p \in DOMAIN Stores : part = p => StoreInv(p)

\* What is assumed of the database's clock, for every set of bounds.
LEMMA StoreFacts ==
  ASSUME NEW p \in DOMAIN Stores
  PROVE  /\ Second \in Nat \ {0} /\ PollPhase \in 0..Second - 1 /\ HistoryPhase \in 0..Second - 1
         /\ Stores[p].seconds \in Nat /\ Stores[p].syncs \in Nat /\ Stores[p].failures \in Nat
BY SamplesAssumption DEF Store!TimeAssumption

\* Multiples keep their order.
LEMMA Multiples ==
  ASSUME NEW i \in Int, NEW j \in Int, NEW m \in Nat, i <= j
  PROVE  i * m <= j * m
<1>1. (j - i) * m >= 0 /\ (j - i) * m = j * m - i * m
  OBVIOUS
<1>. QED
  BY <1>1

\* A quotient lies between two multiples.
LEMMA Quotient ==
  ASSUME NEW a \in Int, NEW b \in Nat \ {0}, NEW q \in Int, q * b <= a, a < q * b + b
  PROVE  a \div b = q
<1>1. PICK d \in Int : d = a \div b
  OBVIOUS
<1>2. d * b <= a /\ a < d * b + b
  BY <1>1
<1>3. CASE d < q
  <2>1. (d + 1) * b <= q * b /\ (d + 1) * b = d * b + b
    BY <1>3, Multiples
  <2>. QED
    BY <1>2, <2>1
<1>4. CASE q < d
  <2>1. (q + 1) * b <= d * b /\ (q + 1) * b = q * b + b
    BY <1>4, Multiples
  <2>. QED
    BY <1>2, <2>1
<1>. QED
  BY <1>1, <1>3, <1>4

\* A poll is stored at its own second or at the next.
LEMMA StoredAt ==
  ASSUME NEW p \in DOMAIN Stores, NEW n \in Nat
  PROVE  \E e \in 0..1 : Store(p)!Stored(Store(p)!PollTime(n)) = (n + e) * Second
<1>1. Second \in Nat \ {0} /\ PollPhase \in 0..Second - 1
  BY StoreFacts
<1>2. PICK b \in Nat \ {0} : b = 2 * Second
  BY <1>1
<1>3. PICK N \in Nat : N = n * Second
  BY <1>1
<1>4. PICK a \in Nat : a = 2 * (n * Second + PollPhase) + Second
  BY <1>1, <1>3
<1>5. n * b = 2 * N /\ (n + 1) * b = 2 * N + 2 * Second
  BY <1>1, <1>2, <1>3
<1>6. a = 2 * N + 2 * PollPhase + Second
  BY <1>1, <1>3, <1>4
<1>7. \E e \in 0..1 : a \div b = n + e
  <2>1. CASE 2 * PollPhase < Second
    <3>1. n * b <= a /\ a < n * b + b
      BY <1>1, <1>2, <1>5, <1>6, <2>1
    <3>2. a \div b = n
      BY <3>1, Quotient
    <3>. QED
      BY <3>2
  <2>2. CASE 2 * PollPhase >= Second
    <3>1. (n + 1) * b <= a /\ a < (n + 1) * b + b
      BY <1>1, <1>2, <1>5, <1>6, <2>2
    <3>2. n + 1 \in Int
      OBVIOUS
    <3>3. a \div b = n + 1
      BY <3>1, <3>2, Quotient
    <3>. QED
      BY <3>3
  <2>. QED
    BY <1>1, <2>1, <2>2
<1>. QED
  BY <1>2, <1>4, <1>7 DEF Store!Stored, Store!PollTime

\* A placeholder is near samples of adjacent seconds only.
LEMMA NearIsAdjacent ==
  ASSUME NEW p \in DOMAIN Stores, NEW n \in Nat, NEW q \in Nat,
         2 * (Store(p)!Stored(Store(p)!PollTime(n)) - Store(p)!SampleTime(q)) \in -Second..Second
  PROVE  q - n \in -1..1
<1>1. Second \in Nat \ {0} /\ HistoryPhase \in 0..Second - 1
  BY StoreFacts
<1>2. PICK e \in 0..1 : Store(p)!Stored(Store(p)!PollTime(n)) = (n + e) * Second
  BY StoredAt
<1>3. PICK k \in Int : k = n + e - q
  OBVIOUS
<1>4. (n + e) * Second - q * Second = k * Second
  BY <1>1, <1>3
<1>5. 2 * (k * Second - HistoryPhase) \in -Second..Second
  <2>1. Store(p)!SampleTime(q) = q * Second + HistoryPhase
    BY DEF Store!SampleTime
  <2>2. (n + e) * Second - (q * Second + HistoryPhase) = k * Second - HistoryPhase
    BY <1>1, <1>4
  <2>. QED
    BY <1>2, <2>1, <2>2
<1>6. PICK K \in Int : K = k * Second
  BY <1>1
<1>7. 2 * K <= Second + 2 * HistoryPhase /\ 2 * K >= 2 * HistoryPhase - Second
  BY <1>1, <1>5, <1>6
<1>8. k <= 1
  <2>1. SUFFICES ASSUME 2 <= k PROVE FALSE
    OBVIOUS
  <2>2. 2 * Second <= k * Second
    BY <1>1, <2>1, Multiples
  <2>. QED
    BY <1>1, <1>6, <1>7, <2>2
<1>9. k >= 0
  <2>1. SUFFICES ASSUME k <= -1 PROVE FALSE
    OBVIOUS
  <2>2. k * Second <= (-1) * Second
    BY <1>1, <2>1, Multiples
  <2>. QED
    BY <1>1, <1>6, <1>7, <2>2
<1>. QED
  BY <1>3, <1>8, <1>9

\* Two fields of a row are written together.
LEMMA TwoFields ==
  ASSUME NEW A, NEW B, NEW C, NEW D, NEW E, NEW F,
         NEW row \in [seq : A, n : B, r : C, source : D, average : E, at : F],
         NEW r \in C, NEW b \in E
  PROVE  /\ [row EXCEPT !.r = r, !.average = b] \in
               [seq : A, n : B, r : C, source : D, average : E, at : F]
         /\ [row EXCEPT !.r = r, !.average = b].seq = row.seq
         /\ [row EXCEPT !.r = r, !.average = b].n = row.n
         /\ [row EXCEPT !.r = r, !.average = b].source = row.source
         /\ [row EXCEPT !.r = r, !.average = b].at = row.at
         /\ [row EXCEPT !.r = r, !.average = b].r = r
         /\ [row EXCEPT !.r = r, !.average = b].average = b
OBVIOUS

\* A row says no less than another.
Gains(p, row, new) ==
  /\ new.seq = row.seq /\ new.n = row.n /\ new.source = row.source
  /\ \A s \in Probes : row.r[s] # Store(p)!NotRetrieved => new.r[s] = row.r[s]

\* A merged row stays a row of its sample, and gains what it lacked.
LEMMA MergeFine ==
  ASSUME NEW p \in DOMAIN Stores, NEW row, NEW x, RowFine(p, row), SampleFine(p, x), x.seq = row.seq
  PROVE  /\ RowFine(p, Store(p)!Merge(row, x))
         /\ Gains(p, row, Store(p)!Merge(row, x))
<1>1. PICK r : r = [s \in Probes |-> IF row.r[s] = Store(p)!NotRetrieved THEN x.r[s] ELSE row.r[s]]
  OBVIOUS
<1>2. PICK b : b = (row.average \/ Store(p)!BothValid(r))
  OBVIOUS
<1>3. CASE row.source # "HISTORY"
  <2>1. Store(p)!Merge(row, x) = row
    BY <1>3 DEF Store!Merge
  <2>. QED
    BY <2>1 DEF Gains
<1>4. CASE row.source = "HISTORY"
  <2>1. Store(p)!Merge(row, x) = [row EXCEPT !.r = r, !.average = b]
    <3>1. Store(p)!Probes = Probes
      BY DEF Store!Probes, Probes
    <3>2. Store(p)!Merge(row, x) = [row EXCEPT !.r = r, !.average = @ \/ Store(p)!BothValid(r)]
      BY <1>1, <1>4, <3>1 DEF Store!Merge
    <3>. QED
      BY <1>2, <3>2, Zenon
  <2>2. PICK A, B, C, D, G, F : /\ G = BOOLEAN /\ A = 0..Stores[p].seconds /\ B = 1..Stores[p].seconds
                             /\ C = [Probes -> Store(p)!Statuses]
                             /\ D = {"LIVE", "HISTORY", "PROVISIONAL"} /\ F = Int
    OBVIOUS
  <2>3. Store(p)!Rows = [seq : A, n : B, r : C, source : D, average : G, at : F]
    BY <2>2 DEF Store!Rows, Store!Probes, Probes
  <2>4. row \in [seq : A, n : B, r : C, source : D, average : G, at : F]
    BY <2>3 DEF RowFine
  <2>5. r \in C /\ b \in BOOLEAN
    <3>1. row.r \in [Probes -> Store(p)!Statuses]
      BY <2>2, <2>4
    <3>2. x.r \in [Probes -> Store(p)!Statuses]
      BY DEF SampleFine, Store!Samples, Store!Probes, Probes
    <3>. QED
      BY <1>1, <1>2, <2>2, <3>1, <3>2
  <2>6. PICK new : new = [row EXCEPT !.r = r, !.average = b]
    OBVIOUS
  <2>13. b \in G
    BY <2>2, <2>5
  <2>14. /\ [row EXCEPT !.r = r, !.average = b] \in
               [seq : A, n : B, r : C, source : D, average : G, at : F]
         /\ [row EXCEPT !.r = r, !.average = b].seq = row.seq
         /\ [row EXCEPT !.r = r, !.average = b].n = row.n
         /\ [row EXCEPT !.r = r, !.average = b].source = row.source
         /\ [row EXCEPT !.r = r, !.average = b].at = row.at
         /\ [row EXCEPT !.r = r, !.average = b].r = r
         /\ [row EXCEPT !.r = r, !.average = b].average = b
    BY <2>4, <2>5, <2>13, TwoFields
  <2>7. /\ new \in Store(p)!Rows /\ new.seq = row.seq /\ new.n = row.n /\ new.source = row.source
        /\ new.at = row.at /\ new.r = r /\ new.average = b
    BY <2>3, <2>6, <2>14
  <2>8. row.n <= second /\ row.average = Store(p)!BothValid(row.r) /\ row.seq = row.n
        /\ Readings(p, row.n, row.r) /\ Readings(p, row.n, x.r)
    BY <1>4 DEF RowFine, SampleFine, Provisional
  <2>9. Readings(p, row.n, r)
    BY <1>1, <2>8 DEF Readings
  <2>10. b = Store(p)!BothValid(r)
    <3>1. Store(p)!BothValid(row.r) => Store(p)!BothValid(r)
      BY <1>1 DEF Store!BothValid, Store!Probes, Probes, Store!Valid, Store!NotRetrieved
    <3>2. Store(p)!BothValid(r) \in BOOLEAN /\ Store(p)!BothValid(row.r) \in BOOLEAN
      BY DEF Store!BothValid
    <3>. QED
      BY <1>2, <2>8, <3>1, <3>2
  <2>11. RowFine(p, new)
    BY <1>4, <2>7, <2>8, <2>9, <2>10 DEF RowFine, Provisional
  <2>12. Gains(p, row, new)
    BY <1>1, <2>7 DEF Gains
  <2>. QED
    BY <2>1, <2>6, <2>11, <2>12
<1>. QED
  BY <1>3, <1>4

\* A row that is made.
LEMMA RowMade ==
  ASSUME NEW p \in DOMAIN Stores, NEW seq, NEW n \in 1..Stores[p].seconds, NEW source, NEW r, NEW at,
         seq \in {0, n}, source \in {"LIVE", "HISTORY", "PROVISIONAL"},
         r \in [Probes -> Store(p)!Statuses], Store(p)!Stored(at) \in Int
  PROVE  /\ Store(p)!Row(seq, n, source, r, at) \in Store(p)!Rows
         /\ Store(p)!Row(seq, n, source, r, at).seq = seq
         /\ Store(p)!Row(seq, n, source, r, at).n = n
         /\ Store(p)!Row(seq, n, source, r, at).source = source
         /\ Store(p)!Row(seq, n, source, r, at).r = r
         /\ Store(p)!Row(seq, n, source, r, at).at = Store(p)!Stored(at)
         /\ Store(p)!Row(seq, n, source, r, at).average = Store(p)!BothValid(r)
<1>1. PICK b, t : b = Store(p)!BothValid(r) /\ t = Store(p)!Stored(at)
  OBVIOUS
<1>2. b \in BOOLEAN
  BY <1>1 DEF Store!BothValid
<1>3. seq \in 0..Stores[p].seconds
  BY StoreFacts
<1>4. PICK new : new = [seq |-> seq, n |-> n, source |-> source, r |-> r, average |-> b, at |-> t]
  OBVIOUS
<1>5. Store(p)!Row(seq, n, source, r, at) = new
  BY <1>1, <1>4 DEF Store!Row
<1>6. new \in Store(p)!Rows
  BY <1>1, <1>2, <1>3, <1>4 DEF Store!Rows, Store!Probes, Probes
<1>. QED
  BY <1>1, <1>4, <1>5, <1>6

\* Times are stored as integers.
LEMMA StoredInt ==
  ASSUME NEW p \in DOMAIN Stores, NEW n \in Nat
  PROVE  /\ Store(p)!Stored(Store(p)!PollTime(n)) \in Int
         /\ Store(p)!Stored(Store(p)!SampleTime(n)) \in Int
<1>1. Second \in Nat \ {0} /\ PollPhase \in Int /\ HistoryPhase \in Int
  BY StoreFacts
<1>2. \A t \in Int : Store(p)!Stored(t) \in Int
  <2>. SUFFICES ASSUME NEW t \in Int PROVE Store(p)!Stored(t) \in Int
    OBVIOUS
  <2>1. PICK a \in Int, b \in Nat \ {0} : a = 2 * t + Second /\ b = 2 * Second
    BY <1>1
  <2>2. PICK q \in Int : q = a \div b
    BY <2>1
  <2>3. q * Second \in Int
    BY <1>1
  <2>. QED
    BY <2>1, <2>2, <2>3 DEF Store!Stored
<1>3. n * Second \in Int
  BY <1>1
<1>. QED
  BY <1>1, <1>2, <1>3 DEF Store!PollTime, Store!SampleTime

\* The row of a sample nobody stored before.
Fresh(p, x) == Store(p)!Row(x.seq, x.seq, "HISTORY", x.r, Store(p)!SampleTime(x.seq))

\* It is a row of its second, with the readings of the sample.
LEMMA FreshFine ==
  ASSUME NEW p \in DOMAIN Stores, NEW x, SampleFine(p, x), StoreTypes(p)
  PROVE  RowFine(p, Fresh(p, x)) /\ Fresh(p, x).seq = x.seq
<1>1. x.seq \in 1..Stores[p].seconds /\ x.r \in [Probes -> Store(p)!Statuses]
      /\ x.seq <= second /\ Readings(p, x.seq, x.r)
  BY DEF SampleFine, Store!Samples, Store!Probes, Probes
<1>0. PICK n \in 1..Stores[p].seconds : n = x.seq
  BY <1>1
<1>2. PICK r, at : n = x.seq /\ r = x.r /\ at = Store(p)!SampleTime(n)
  BY <1>0
<1>3. Stores[p].seconds \in Nat
  BY StoreFacts
<1>4. Store(p)!Stored(at) \in Int
  BY <1>2, <1>3, StoredInt
<1>5. PICK new : new = Store(p)!Row(n, n, "HISTORY", r, at)
  OBVIOUS
<1>6. /\ new \in Store(p)!Rows /\ new.seq = n /\ new.n = n /\ new.source = "HISTORY"
      /\ new.r = r /\ new.average = Store(p)!BothValid(r)
  BY <1>1, <1>2, <1>4, <1>5, RowMade
<1>7. Fresh(p, x) = new
  BY <1>2, <1>5 DEF Fresh
<1>. QED
  BY <1>1, <1>2, <1>6, <1>7 DEF RowFine, Provisional

\* What an upsert leaves: the rows it does not concern, the merged ones, the fresh ones.
LEMMA Upserted ==
  ASSUME NEW p \in DOMAIN Stores, NEW held, NEW X, NEW new
  PROVE  new \in Store(p)!Upsert(held, X) <=>
           \/ new \in held /\ \A x \in X : x.seq # new.seq
           \/ \E row \in held : \E x \in X : x.seq = row.seq /\ new = Store(p)!Merge(row, x)
           \/ \E x \in X : (\A row \in held : row.seq # x.seq) /\ new = Fresh(p, x)
<1>1. \A x : Store(p)!Keyed(held, x.seq) = {} <=> \A row \in held : row.seq # x.seq
  BY DEF Store!Keyed
<1>2. new \in {row \in held : row.seq \notin {x.seq : x \in X}}
        <=> new \in held /\ \A x \in X : x.seq # new.seq
  OBVIOUS
<1>3. new \in UNION {{Store(p)!Merge(row, x) : x \in {y \in X : y.seq = row.seq}} : row \in held}
        <=> \E row \in held : \E x \in X : x.seq = row.seq /\ new = Store(p)!Merge(row, x)
  OBVIOUS
<1>4. new \in {Store(p)!Row(x.seq, x.seq, "HISTORY", x.r, Store(p)!SampleTime(x.seq)) :
                 x \in {y \in X : Store(p)!Keyed(held, y.seq) = {}}}
        <=> \E x \in X : (\A row \in held : row.seq # x.seq) /\ new = Fresh(p, x)
  <2>1. \A x \in X : x \in {y \in X : Store(p)!Keyed(held, y.seq) = {}}
                       <=> \A row \in held : row.seq # x.seq
    BY <1>1
  <2>2. PICK Y : Y = {y \in X : Store(p)!Keyed(held, y.seq) = {}}
    OBVIOUS
  <2>3. \A x : x \in Y <=> x \in X /\ \A row \in held : row.seq # x.seq
    BY <2>1, <2>2
  <2>4. new \in {Fresh(p, x) : x \in Y}
          <=> \E x \in X : (\A row \in held : row.seq # x.seq) /\ new = Fresh(p, x)
    BY <2>3
  <2>. QED
    BY <2>2, <2>4 DEF Fresh
<1>5. PICK K, M, F :
        /\ K = {row \in held : row.seq \notin {x.seq : x \in X}}
        /\ M = UNION {{Store(p)!Merge(row, x) : x \in {y \in X : y.seq = row.seq}} : row \in held}
        /\ F = {Store(p)!Row(x.seq, x.seq, "HISTORY", x.r, Store(p)!SampleTime(x.seq)) :
                  x \in {y \in X : Store(p)!Keyed(held, y.seq) = {}}}
  OBVIOUS
<1>6. Store(p)!Upsert(held, X) = K \cup M \cup F
  BY <1>5, Zenon DEF Store!Upsert
<1>7. new \in Store(p)!Upsert(held, X) <=> new \in K \/ new \in M \/ new \in F
  BY <1>6
<1>. QED
  BY <1>2, <1>3, <1>4, <1>5, <1>7, Zenon

\* An upsert leaves true rows, takes no reading back and has a row for every sample.
LEMMA UpsertFine ==
  ASSUME NEW p \in DOMAIN Stores, StoreTypes(p), NEW held, NEW X, RowsAre(p, held), BatchFine(p, X)
  PROVE  /\ RowsAre(p, Store(p)!Upsert(held, X))
         /\ \A row \in held : \E new \in Store(p)!Upsert(held, X) : Gains(p, row, new)
         /\ \A x \in X : \E new \in Store(p)!Upsert(held, X) : new.seq = x.seq
<1>1. PICK T : T = Store(p)!Upsert(held, X)
  OBVIOUS
<1>2. \A new : new \in T <=>
           \/ new \in held /\ \A x \in X : x.seq # new.seq
           \/ \E row \in held : \E x \in X : x.seq = row.seq /\ new = Store(p)!Merge(row, x)
           \/ \E x \in X : (\A row \in held : row.seq # x.seq) /\ new = Fresh(p, x)
  BY <1>1, Upserted
<1>3. \A row \in held, x \in X : x.seq = row.seq =>
        RowFine(p, Store(p)!Merge(row, x)) /\ Gains(p, row, Store(p)!Merge(row, x))
  <2>. SUFFICES ASSUME NEW row \in held, NEW x \in X, x.seq = row.seq
                PROVE  RowFine(p, Store(p)!Merge(row, x)) /\ Gains(p, row, Store(p)!Merge(row, x))
    OBVIOUS
  <2>1. RowFine(p, row) /\ SampleFine(p, x)
    BY DEF RowsAre, BatchFine
  <2>. QED
    BY <2>1, MergeFine
<1>4. \A x \in X : RowFine(p, Fresh(p, x)) /\ Fresh(p, x).seq = x.seq
  <2>. SUFFICES ASSUME NEW x \in X PROVE RowFine(p, Fresh(p, x)) /\ Fresh(p, x).seq = x.seq
    OBVIOUS
  <2>1. SampleFine(p, x)
    BY DEF BatchFine
  <2>. QED
    BY <2>1, FreshFine
<1>5. \A row \in held : RowFine(p, row)
  BY DEF RowsAre
<1>6. \A new \in T : RowFine(p, new)
  BY <1>2, <1>3, <1>4, <1>5
<1>7. \A row \in held, x \in X : x.seq = row.seq => Store(p)!Merge(row, x).seq = row.seq
  BY <1>3 DEF Gains
<1>8. ASSUME NEW new \in T, NEW other \in T, new.seq = other.seq, new.seq # 0 PROVE new = other
  <2>1. \A row, old \in held : row.seq = old.seq /\ row.seq # 0 => row = old
    BY DEF RowsAre
  <2>2. \A x, y \in X : x.seq = y.seq => x = y
    BY DEF BatchFine
  <2>3. CASE new \in held /\ \A x \in X : x.seq # new.seq
    <3>1. other \in held
      BY <1>2, <1>4, <1>7, <1>8, <2>3
    <3>. QED
      BY <1>8, <2>1, <2>3, <3>1
  <2>4. CASE \E row \in held : \E x \in X : x.seq = row.seq /\ new = Store(p)!Merge(row, x)
    <3>1. PICK row \in held, x \in X : x.seq = row.seq /\ new = Store(p)!Merge(row, x)
      BY <2>4
    <3>2. new.seq = x.seq /\ other.seq = x.seq
      BY <1>7, <1>8, <3>1
    <3>3. \E old \in held : \E y \in X : y.seq = old.seq /\ other = Store(p)!Merge(old, y)
      BY <1>2, <1>4, <1>7, <3>1, <3>2
    <3>4. PICK old \in held, y \in X : y.seq = old.seq /\ other = Store(p)!Merge(old, y)
      BY <3>3
    <3>5. old.seq = x.seq /\ y.seq = x.seq
      BY <1>7, <3>2, <3>4
    <3>. QED
      BY <1>8, <2>1, <2>2, <3>1, <3>2, <3>4, <3>5
  <2>5. CASE \E x \in X : (\A row \in held : row.seq # x.seq) /\ new = Fresh(p, x)
    <3>1. PICK x \in X : (\A row \in held : row.seq # x.seq) /\ new = Fresh(p, x)
      BY <2>5
    <3>2. other.seq = x.seq
      BY <1>4, <1>8, <3>1
    <3>3. \E y \in X : other = Fresh(p, y)
      BY <1>2, <1>7, <3>1, <3>2
    <3>4. PICK y \in X : other = Fresh(p, y)
      BY <3>3
    <3>5. y = x
      BY <1>4, <2>2, <3>2, <3>4
    <3>. QED
      BY <3>1, <3>4, <3>5
  <2>. QED
    BY <1>2, <2>3, <2>4, <2>5
<1>9. ASSUME NEW row \in held PROVE \E new \in T : Gains(p, row, new)
  <2>1. CASE \A x \in X : x.seq # row.seq
    <3>1. row \in T /\ Gains(p, row, row)
      BY <1>2, <2>1 DEF Gains
    <3>. QED
      BY <3>1
  <2>2. CASE \E x \in X : x.seq = row.seq
    <3>1. PICK x \in X : x.seq = row.seq
      BY <2>2
    <3>2. Store(p)!Merge(row, x) \in T /\ Gains(p, row, Store(p)!Merge(row, x))
      BY <1>2, <1>3, <3>1
    <3>. QED
      BY <3>2
  <2>. QED
    BY <2>1, <2>2
<1>10. ASSUME NEW x \in X PROVE \E new \in T : new.seq = x.seq
  <2>1. CASE \A row \in held : row.seq # x.seq
    BY <1>2, <1>4, <2>1
  <2>2. CASE \E row \in held : row.seq = x.seq
    <3>1. PICK row \in held : row.seq = x.seq
      BY <2>2
    <3>2. PICK new \in T : Gains(p, row, new)
      BY <1>9
    <3>. QED
      BY <3>1, <3>2 DEF Gains
  <2>. QED
    BY <2>1, <2>2
<1>11. RowsAre(p, T)
  BY <1>6, <1>8 DEF RowsAre
<1>. QED
  BY <1>1, <1>9, <1>10, <1>11

\* What is fine stays fine while seconds pass.
LEMMA FineStays ==
  ASSUME NEW p \in DOMAIN Stores, StoreTypes(p), truth' = truth, second' \in Int, second <= second'
  PROVE  /\ \A row : RowFine(p, row) => RowFine(p, row)'
         /\ \A job : JobFine(p, job) => JobFine(p, job)'
<1>0. Stores[p].seconds \in Nat /\ second \in Int
  BY StoreFacts DEF StoreTypes
<1>1. \A n, r : Readings(p, n, r) => Readings(p, n, r)'
  BY DEF Readings, Store!NotRetrieved
<1>2. ASSUME NEW row, RowFine(p, row) PROVE RowFine(p, row)'
  <2>1. row.n \in Int
    BY <1>0, <1>2 DEF RowFine, Store!Rows
  <2>2. row.n <= second'
    BY <1>0, <1>2, <2>1 DEF RowFine
  <2>. QED
    BY <1>1, <1>2, <2>2 DEF RowFine, Store!Rows, Store!BothValid, Store!Stored, Store!PollTime,
       Store!Probes, Store!Statuses, Store!Valid, Store!NotRetrieved, Store!Missing
<1>3. ASSUME NEW x, SampleFine(p, x) PROVE SampleFine(p, x)'
  <2>1. x.seq \in Int
    BY <1>0, <1>3 DEF SampleFine, Store!Samples
  <2>2. x.seq <= second'
    BY <1>0, <1>3, <2>1 DEF SampleFine
  <2>. QED
    BY <1>1, <1>3, <2>2 DEF SampleFine, Store!Samples, Store!Probes, Store!Statuses, Store!Valid,
       Store!NotRetrieved, Store!Missing
<1>4. ASSUME NEW job, JobFine(p, job) PROVE JobFine(p, job)'
  <2>1. job.kind \in {"upsert", "reconcile"} => BatchFine(p, job.samples)'
    BY <1>3, <1>4 DEF JobFine, BatchFine
  <2>2. job.kind \in {"current", "missing"} =>
          \E n \in 1..second' : job.samples = {Reported(p, job.kind, n)'}
    BY <1>0, <1>4 DEF JobFine, Store!Whole, Store!Placeholder, Reported
  <2>3. job.kind \in Store(p)!Kinds' /\ job.samples \subseteq Store(p)!Samples'
    BY <1>4 DEF JobFine, Store!Kinds, Store!Samples, Store!Probes, Store!Statuses, Store!Valid,
       Store!NotRetrieved, Store!Missing
  <2>. QED
    BY <2>1, <2>2, <2>3 DEF JobFine
<1>. QED
  BY <1>2, <1>4

\* A row is inserted unless its sample is stored.
LEMMA InsertFine ==
  ASSUME NEW p \in DOMAIN Stores, NEW held, RowsAre(p, held), NEW seq, NEW n, NEW source, NEW r, NEW at,
         NEW new, new = Store(p)!Row(seq, n, source, r, at), RowFine(p, new), new.seq = seq, new.n = n,
         seq # 0 => seq = n
  PROVE  /\ RowsAre(p, Store(p)!Insert(held, seq, n, source, r, at))
         /\ held \subseteq Store(p)!Insert(held, seq, n, source, r, at)
         /\ \E row \in Store(p)!Insert(held, seq, n, source, r, at) : row.n = n
<1>1. CASE seq # 0 /\ Store(p)!Keyed(held, seq) # {}
  <2>1. Store(p)!Insert(held, seq, n, source, r, at) = held
    BY <1>1 DEF Store!Insert
  <2>2. PICK row \in held : row.seq = seq
    BY <1>1 DEF Store!Keyed
  <2>3. row.n = n
    BY <1>1, <2>2 DEF RowsAre, RowFine
  <2>. QED
    BY <2>1, <2>2, <2>3
<1>2. CASE ~(seq # 0 /\ Store(p)!Keyed(held, seq) # {})
  <2>1. Store(p)!Insert(held, seq, n, source, r, at) = held \cup {new}
    BY <1>2 DEF Store!Insert
  <2>2. seq = 0 \/ \A row \in held : row.seq # seq
    BY <1>2 DEF Store!Keyed
  <2>3. RowsAre(p, held \cup {new})
    BY <2>2 DEF RowsAre
  <2>. QED
    BY <2>1, <2>3
<1>. QED
  BY <1>1, <1>2

\* A polled second, or a missing one, is in the table once applied.
LEMMA OneApplied ==
  ASSUME NEW p \in DOMAIN Stores, StoreTypes(p), RowsFine(p), NEW job, JobFine(p, job),
         job.kind \in {"current", "missing"}
  PROVE  /\ RowsAre(p, Store(p)!Applied(job)) /\ table \subseteq Store(p)!Applied(job)
         /\ \A x \in job.samples : \E row \in Store(p)!Applied(job) : row.n = x.seq
<1>1. PICK n \in 1..second : job.samples = {Reported(p, job.kind, n)}
  BY DEF JobFine
<1>2. PICK held : held = table
  OBVIOUS
<1>3. RowsAre(p, held)
  BY <1>2 DEF RowsFine
<1>4. Stores[p].seconds \in Nat /\ n \in 1..Stores[p].seconds /\ n \in Nat /\ n <= second /\ n # 0
  BY StoreFacts DEF StoreTypes
<1>5. PICK at : at = Store(p)!PollTime(n)
  OBVIOUS
<1>6. Store(p)!Stored(at) \in Int
  BY <1>4, <1>5, StoredInt
<1>7. CASE job.kind = "current"
  <2>1. PICK r : r = truth[n]
    OBVIOUS
  <2>2. r \in [Probes -> Store(p)!Statuses] /\ Readings(p, n, r)
    <3>1. r \in [Probes -> {"VALID", "DISCONNECTED"}]
      BY <1>4, <2>1 DEF StoreTypes
    <3>. QED
      BY <2>1, <3>1 DEF Store!Statuses, Store!Valid, Readings
  <2>3. PICK new : new = Store(p)!Row(n, n, "LIVE", r, at)
    OBVIOUS
  <2>4. /\ new \in Store(p)!Rows /\ new.seq = n /\ new.n = n /\ new.source = "LIVE" /\ new.r = r
        /\ new.average = Store(p)!BothValid(r)
    BY <1>4, <1>6, <2>2, <2>3, RowMade
  <2>5. RowFine(p, new)
    BY <1>4, <2>2, <2>4 DEF RowFine, Provisional
  <2>6. job.samples = {[seq |-> n, r |-> r]}
    BY <1>1, <1>7, <2>1 DEF Store!Whole, Reported
  <2>7. Store(p)!Applied(job) = Store(p)!Insert(held, n, n, "LIVE", r, at)
    <3>1. PICK one : one = CHOOSE x \in job.samples : TRUE
      OBVIOUS
    <3>2. one = [seq |-> n, r |-> r]
      BY <2>6, <3>1
    <3>3. Store(p)!Applied(job)
            = Store(p)!Insert(table, one.seq, one.seq, "LIVE", one.r, Store(p)!PollTime(one.seq))
      BY <1>7, <3>1 DEF Store!Applied
    <3>4. one.seq = n /\ one.r = r
      BY <3>2
    <3>. QED
      BY <1>2, <1>5, <3>3, <3>4
  <2>8. /\ RowsAre(p, Store(p)!Insert(held, n, n, "LIVE", r, at))
        /\ held \subseteq Store(p)!Insert(held, n, n, "LIVE", r, at)
        /\ \E row \in Store(p)!Insert(held, n, n, "LIVE", r, at) : row.n = n
    BY <1>3, <2>3, <2>4, <2>5, InsertFine
  <2>9. \A x \in job.samples : x.seq = n
    BY <2>6
  <2>. QED
    BY <1>2, <2>7, <2>8, <2>9
<1>8. CASE job.kind = "missing"
  <2>1. PICK r : r = [s \in Probes |-> Store(p)!Missing]
    OBVIOUS
  <2>2. r \in [Probes -> Store(p)!Statuses]
    BY <2>1 DEF Store!Statuses
  <2>3. PICK new : new = Store(p)!Row(0, n, "PROVISIONAL", r, at)
    OBVIOUS
  <2>4. /\ new \in Store(p)!Rows /\ new.seq = 0 /\ new.n = n /\ new.source = "PROVISIONAL" /\ new.r = r
        /\ new.average = Store(p)!BothValid(r) /\ new.at = Store(p)!Stored(at)
    BY <1>4, <1>6, <2>2, <2>3, RowMade
  <2>5. RowFine(p, new)
    BY <1>4, <1>5, <2>4 DEF RowFine, Provisional
  <2>6. job.samples = {[seq |-> n, r |-> r]}
    BY <1>1, <1>8, <2>1 DEF Store!Placeholder, Reported, Store!Probes, Probes
  <2>7. Store(p)!Applied(job) = Store(p)!Insert(held, 0, n, "PROVISIONAL", r, at)
    <3>1. PICK one : one = CHOOSE x \in job.samples : TRUE
      OBVIOUS
    <3>2. one = [seq |-> n, r |-> r]
      BY <2>6, <3>1
    <3>3. Store(p)!Applied(job)
            = Store(p)!Insert(table, 0, one.seq, "PROVISIONAL", one.r, Store(p)!PollTime(one.seq))
      BY <1>8, <3>1 DEF Store!Applied
    <3>4. one.seq = n /\ one.r = r
      BY <3>2
    <3>. QED
      BY <1>2, <1>5, <3>3, <3>4
  <2>8. /\ RowsAre(p, Store(p)!Insert(held, 0, n, "PROVISIONAL", r, at))
        /\ held \subseteq Store(p)!Insert(held, 0, n, "PROVISIONAL", r, at)
        /\ \E row \in Store(p)!Insert(held, 0, n, "PROVISIONAL", r, at) : row.n = n
    BY <1>3, <2>3, <2>4, <2>5, InsertFine
  <2>9. \A x \in job.samples : x.seq = n
    BY <2>6
  <2>. QED
    BY <1>2, <2>7, <2>8, <2>9
<1>. QED
  BY <1>7, <1>8

Jobs(p) == [kind : Store(p)!Kinds, samples : SUBSET Store(p)!Samples]

\* The queue without its head.
LEMMA QueueAdvances ==
  ASSUME NEW J, NEW q \in Seq(J), q # <<>>
  PROVE  /\ Tail(q) \in Seq(J) /\ Head(q) = q[1] /\ q[1] \in J /\ 1 \in DOMAIN q
         /\ \A i \in DOMAIN Tail(q) : i \in Int /\ i >= 1 /\ i + 1 \in DOMAIN q /\ Tail(q)[i] = q[i + 1]
         /\ \A i \in DOMAIN q : i \in Int /\ i >= 1 /\ (i # 1 => i - 1 \in DOMAIN Tail(q) /\ Tail(q)[i - 1] = q[i])
<1>1. Len(q) \in Nat /\ Len(q) >= 1 /\ DOMAIN q = 1..Len(q)
  BY EmptySeq
<1>2. Tail(q) \in Seq(J) /\ Len(Tail(q)) = Len(q) - 1 /\ DOMAIN Tail(q) = 1..Len(q) - 1
  BY <1>1
<1>3. \A i \in 1..Len(q) - 1 : Tail(q)[i] = q[i + 1]
  BY <1>1
<1>4. Head(q) = q[1] /\ q[1] \in J
  BY <1>1
<1>. QED
  BY <1>1, <1>2, <1>3, <1>4

\* The queue with more behind it.
LEMMA QueueGrows ==
  ASSUME NEW J, NEW q \in Seq(J), NEW m \in Seq(J)
  PROVE  /\ q \o m \in Seq(J) /\ DOMAIN q = 1..Len(q) /\ Len(q) \in Nat
         /\ DOMAIN (q \o m) = 1..Len(q) + Len(m)
         /\ \A i \in DOMAIN q : (q \o m)[i] = q[i]
         /\ \A i \in 1..Len(m) : (q \o m)[Len(q) + i] = m[i]
OBVIOUS

\* The seconds a step leaves as they are.
LEMMA StepFine ==
  ASSUME NEW p \in DOMAIN Stores, StoreInv(p), truth' = truth, second' \in 0..Stores[p].seconds,
         second <= second'
  PROVE  /\ \A row : RowFine(p, row) => RowFine(p, row)'
         /\ \A job : JobFine(p, job) => JobFine(p, job)'
         /\ \A held : RowsAre(p, held) => RowsAre(p, held)'
<1>1. second' \in Int
  BY StoreFacts
<1>2. /\ \A row : RowFine(p, row) => RowFine(p, row)'
      /\ \A job : JobFine(p, job) => JobFine(p, job)'
  BY <1>1, FineStays DEF StoreInv
<1>. QED
  BY <1>2 DEF RowsAre

\* Jobs join the queue behind the others.
LEMMA Offered ==
  ASSUME NEW p \in DOMAIN Stores, StoreInv(p), NEW jobs \in Seq(Jobs(p)), work' = work \o jobs,
         truth' = truth, table' = table, failures' = failures,
         second' \in 0..Stores[p].seconds, second <= second', syncs' \in 0..Stores[p].syncs,
         \A i \in 1..Len(jobs) : JobFine(p, jobs[i])',
         \A i \in 1..Len(jobs) : jobs[i].kind = "reconcile" =>
           i # 1 /\ jobs[i - 1].kind = "upsert" /\ jobs[i - 1].samples = jobs[i].samples,
         \A n \in 1..second' : n > second =>
           \E i \in 1..Len(jobs) : jobs[i].kind \in {"current", "missing"}
                                   /\ \E x \in jobs[i].samples : x.seq = n
  PROVE  StoreInv(p)'
<1>0. StoreTypes(p) /\ RowsFine(p) /\ WorkFine(p) /\ (failures = 0 => Follows(p) /\ Covered)
  BY DEF StoreInv
<1>11. PICK J : J = Jobs(p)
  OBVIOUS
<1>12. PICK q \in Seq(J) : q = work
  BY <1>0, <1>11 DEF StoreTypes, Jobs
<1>1. J = Jobs(p) /\ q = work
  BY <1>11, <1>12
<1>2. PICK L, M : L = Len(q) /\ M = Len(jobs)
  OBVIOUS
<1>3. jobs \in Seq(J) /\ M \in Nat
  BY <1>1, <1>2
<1>4. /\ work' \in Seq(J) /\ DOMAIN work = 1..L /\ L \in Nat /\ DOMAIN work' = 1..L + M
      /\ \A i \in 1..L : work'[i] = work[i]
      /\ \A i \in 1..M : work'[L + i] = jobs[i]
  BY <1>1, <1>2, <1>3, QueueGrows
<1>5. StoreTypes(p)'
  BY <1>0, <1>1, <1>4 DEF StoreTypes, Jobs, Store!Kinds, Store!Samples, Store!Probes, Store!Statuses,
     Store!Valid, Store!NotRetrieved, Store!Missing
<1>6. RowsFine(p)'
  BY <1>0, StepFine DEF RowsFine
<1>7. ASSUME NEW i \in 1..L + M PROVE i \in 1..L \/ \E j \in 1..M : i = L + j
  <2>1. i \in 1..L \/ i - L \in 1..M
    BY <1>3, <1>4
  <2>2. i = L + (i - L)
    BY <1>4
  <2>. QED
    BY <2>1, <2>2
<1>8. WorkFine(p)'
  <2>1. SUFFICES ASSUME NEW job, NEW i \in 1..L + M, job = work'[i] PROVE JobFine(p, job)'
    BY <1>4 DEF WorkFine
  <2>2. CASE i \in 1..L
    <3>1. JobFine(p, job)
      BY <1>0, <1>4, <2>1, <2>2 DEF WorkFine
    <3>. QED
      BY <3>1, StepFine
  <2>3. ASSUME NEW j \in 1..M, i = L + j PROVE JobFine(p, job)'
    <3>1. job = jobs[j] /\ j \in 1..Len(jobs)
      BY <1>2, <1>4, <2>1, <2>3
    <3>2. JobFine(p, jobs[j])'
      BY <3>1
    <3>. QED
      BY <3>1, <3>2
  <2>. QED
    BY <1>7, <2>2, <2>3
<1>9. ASSUME failures' = 0 PROVE Follows(p)'
  <2>1. SUFFICES ASSUME NEW i \in 1..L + M, work'[i].kind = "reconcile"
                 PROVE  /\ i = 1 => \A x \in work'[i].samples : \E row \in table' : row.seq = x.seq
                        /\ i # 1 => /\ work'[i - 1].kind = "upsert"
                                   /\ work'[i - 1].samples = work'[i].samples
    BY <1>4 DEF Follows
  <2>2. Follows(p)
    BY <1>0, <1>9
  <2>3. CASE i \in 1..L
    <3>1. i # 1 => i - 1 \in 1..L
      BY <1>4, <2>3
    <3>2. work[i].kind = "reconcile" /\ i \in DOMAIN work /\ work'[i] = work[i]
      BY <1>4, <2>1, <2>3
    <3>3. i = 1 => \A x \in work[i].samples : \E row \in table : row.seq = x.seq
      BY <2>2, <3>2 DEF Follows
    <3>4. i # 1 => work[i - 1].kind = "upsert" /\ work[i - 1].samples = work[i].samples
      BY <2>2, <3>2 DEF Follows
    <3>5. i # 1 => work'[i - 1] = work[i - 1]
      BY <1>4, <3>1
    <3>. QED
      BY <3>2, <3>3, <3>4, <3>5
  <2>4. ASSUME NEW j \in 1..M, i = L + j
        PROVE  i # 1 /\ work'[i - 1].kind = "upsert" /\ work'[i - 1].samples = work'[i].samples
    <3>1. j # 1 /\ jobs[j - 1].kind = "upsert" /\ jobs[j - 1].samples = jobs[j].samples
          /\ jobs[j] = work'[i]
      BY <1>2, <1>4, <2>1, <2>4
    <3>2. j - 1 \in 1..M /\ i - 1 = L + (j - 1) /\ i # 1
      BY <1>3, <1>4, <2>4, <3>1
    <3>3. work'[i - 1] = jobs[j - 1]
      BY <1>4, <3>2
    <3>. QED
      BY <3>1, <3>2, <3>3
  <2>5. i \in 1..L \/ \E j \in 1..M : i = L + j
    BY <1>7
  <2>6. CASE \E j \in 1..M : i = L + j
    <3>1. PICK j \in 1..M : i = L + j
      BY <2>6
    <3>. QED
      BY <2>4, <3>1
  <2>. QED
    BY <2>3, <2>5, <2>6
<1>10. ASSUME failures' = 0 PROVE Covered'
  <2>1. SUFFICES ASSUME NEW n \in 1..second'
                 PROVE  \/ \E i \in 1..L + M : Announces(i, n)'
                        \/ \E row \in table' : Held(row, n)
    BY <1>4 DEF Covered, Held
  <2>2. Covered /\ second \in Int /\ Stores[p].seconds \in Nat
    BY <1>0, <1>10, StoreFacts DEF StoreTypes
  <2>3. CASE n <= second
    <3>1. n \in 1..second
      BY <2>2, <2>3
    <3>2. (\E i \in 1..L : Announces(i, n)) \/ (\E row \in table : Held(row, n))
      BY <1>4, <2>2, <3>1 DEF Covered
    <3>3. ASSUME NEW i \in 1..L, Announces(i, n) PROVE i \in 1..L + M /\ Announces(i, n)'
      BY <1>3, <1>4, <3>3 DEF Announces
    <3>. QED
      BY <3>2, <3>3
  <2>4. CASE n > second
    <3>1. PICK j \in 1..M : jobs[j].kind \in {"current", "missing"} /\ \E x \in jobs[j].samples : x.seq = n
      BY <1>2, <2>4
    <3>2. L + j \in 1..L + M /\ work'[L + j] = jobs[j]
      <4>1. L \in Nat /\ M \in Nat
        BY <1>3, <1>4
      <4>2. L + j \in 1..L + M
        BY <4>1
      <4>3. work'[L + j] = jobs[j]
        BY <1>4
      <4>. QED
        BY <4>2, <4>3
    <3>3. Announces(L + j, n)'
      BY <3>1, <3>2 DEF Announces
    <3>. QED
      BY <3>2, <3>3
  <2>. QED
    BY <2>2, <2>3, <2>4
<1>. QED
  BY <1>5, <1>6, <1>8, <1>9, <1>10 DEF StoreInv

\* The poll offers the second that passed.
LEMMA PollOffers == ASSUME NEW p \in DOMAIN Stores, StoreInv(p), Store(p)!Poll PROVE StoreInv(p)'
<1>0. StoreTypes(p) /\ Stores[p].seconds \in Nat
  BY StoreFacts DEF StoreInv
<1>1. second' = second + 1 /\ second < Stores[p].seconds /\ UNCHANGED <<truth, table, syncs, failures>>
  BY DEF Store!Poll
<1>2. PICK n \in 1..Stores[p].seconds : n = second + 1
  BY <1>0, <1>1 DEF StoreTypes
<1>16. \/ work' = work \o <<[kind |-> "current", samples |-> {Store(p)!Whole(n)}]>>
       \/ work' = work \o <<[kind |-> "missing", samples |-> {Store(p)!Placeholder(n)}]>>
  BY <1>2 DEF Store!Poll, Store!Offer
<1>17. PICK kind \in {"current", "missing"} :
         work' = work \o <<[kind |-> kind, samples |-> {Reported(p, kind, n)}]>>
  BY <1>16 DEF Reported
<1>3. PICK x : work' = work \o <<[kind |-> kind, samples |-> {x}]>> /\ x = Reported(p, kind, n)
  BY <1>17
<1>4. x.seq = n /\ x \in Store(p)!Samples
  <2>1. CASE kind = "current"
    <3>1. truth[n] \in [Probes -> Store(p)!Statuses]
      BY <1>0, <1>2 DEF StoreTypes, Store!Statuses, Store!Valid
    <3>2. x = [seq |-> n, r |-> truth[n]]
      BY <1>3, <2>1 DEF Store!Whole, Reported
    <3>. QED
      BY <1>2, <3>1, <3>2 DEF Store!Samples, Store!Probes, Probes
  <2>2. CASE kind = "missing"
    <3>1. PICK r : r = [s \in Probes |-> Store(p)!Missing]
      OBVIOUS
    <3>2. r \in [Probes -> Store(p)!Statuses]
      BY <3>1 DEF Store!Statuses
    <3>3. x = [seq |-> n, r |-> r]
      BY <1>3, <2>2, <3>1 DEF Store!Placeholder, Store!Probes, Probes, Reported
    <3>. QED
      BY <1>2, <3>2, <3>3 DEF Store!Samples, Store!Probes, Probes
  <2>. QED
    BY <1>3, <2>1, <2>2
<1>5. PICK job : job = [kind |-> kind, samples |-> {x}]
  OBVIOUS
<1>6. job.kind = kind /\ job.samples = {x}
  BY <1>5
<1>7. job \in Jobs(p)
  <2>1. kind \in Store(p)!Kinds /\ {x} \in SUBSET Store(p)!Samples
    BY <1>4 DEF Store!Kinds
  <2>. QED
    BY <1>5, <2>1 DEF Jobs
<1>8. PICK jobs \in Seq(Jobs(p)) : jobs = <<job>>
  <2>1. \A J : \A j \in J : <<j>> \in Seq(J)
    OBVIOUS
  <2>. QED
    BY <1>7, <2>1
<1>9. Len(jobs) = 1 /\ jobs[1] = job
  BY <1>8
<1>10. JobFine(p, job)'
  <2>1. n \in 1..second'
    BY <1>0, <1>1, <1>2 DEF StoreTypes
  <2>2. job.samples = {Reported(p, job.kind, n)'}
    BY <1>1, <1>3, <1>6 DEF Store!Whole, Store!Placeholder, Reported
  <2>3. job.kind \in Store(p)!Kinds' /\ job.samples \subseteq Store(p)!Samples'
    BY <1>3, <1>4, <1>6 DEF Store!Kinds, Store!Samples, Store!Probes, Store!Statuses, Store!Valid,
       Store!NotRetrieved, Store!Missing
  <2>. QED
    BY <1>3, <1>6, <2>1, <2>2, <2>3 DEF JobFine
<1>11. \A i \in 1..Len(jobs) : JobFine(p, jobs[i])'
  BY <1>9, <1>10
<1>12. \A i \in 1..Len(jobs) : jobs[i].kind # "reconcile"
  BY <1>3, <1>6, <1>9
<1>13. \A m \in 1..second' : m > second =>
         \E i \in 1..Len(jobs) : jobs[i].kind \in {"current", "missing"}
                                 /\ \E y \in jobs[i].samples : y.seq = m
  <2>. SUFFICES ASSUME NEW m \in 1..second', m > second
                PROVE  \E i \in 1..Len(jobs) : jobs[i].kind \in {"current", "missing"}
                                 /\ \E y \in jobs[i].samples : y.seq = m
    OBVIOUS
  <2>1. m = n
    BY <1>0, <1>1, <1>2 DEF StoreTypes
  <2>2. 1 \in 1..Len(jobs)
    BY <1>9
  <2>. QED
    BY <1>3, <1>4, <1>6, <1>9, <2>1, <2>2
<1>14. second' \in 0..Stores[p].seconds /\ second <= second' /\ syncs' \in 0..Stores[p].syncs
  BY <1>0, <1>1 DEF StoreTypes
<1>15. work' = work \o jobs
  BY <1>3, <1>5, <1>8
<1>. QED
  BY <1>1, <1>11, <1>12, <1>13, <1>14, <1>15, Offered

\* What a transfer has of a second.
Retrieved(p, got, n) ==
  [s \in Probes |-> IF n \in got[s] THEN truth[n][s] ELSE Store(p)!NotRetrieved]

\* A batch has one true sample for each second that was retrieved.
LEMMA BatchMade ==
  ASSUME NEW p \in DOMAIN Stores, StoreTypes(p), NEW got \in [Store(p)!Probes -> SUBSET (1..second)]
  PROVE  BatchFine(p, Store(p)!Batch(got)) /\ Store(p)!Batch(got) \subseteq Store(p)!Samples
<1>0. Stores[p].seconds \in Nat /\ Store(p)!Probes = Probes
  BY StoreFacts DEF Store!Probes, Probes
<1>2. PICK N : N = UNION {got[s] : s \in Probes}
  OBVIOUS
<1>3. N \subseteq 1..second /\ \A n \in N : n \in 1..Stores[p].seconds /\ n <= second
  <2>1. \A s \in Probes : got[s] \subseteq 1..second
    BY <1>0
  <2>2. N \subseteq 1..second
    BY <1>2, <2>1
  <2>3. ASSUME NEW n \in N PROVE n \in 1..Stores[p].seconds /\ n <= second
    <3>1. n \in 1..second /\ second \in 0..Stores[p].seconds
      BY <2>2 DEF StoreTypes
    <3>. QED
      BY <1>0, <3>1
  <2>. QED
    BY <2>2, <2>3
<1>4. Store(p)!Batch(got) = {[seq |-> n, r |-> Retrieved(p, got, n)] : n \in N}
  BY <1>2, Zenon DEF Store!Batch, Store!Probes, Probes, Retrieved
<1>5. \A n \in N : Retrieved(p, got, n) \in [Probes -> Store(p)!Statuses] /\ Readings(p, n, Retrieved(p, got, n))
  <2>. SUFFICES ASSUME NEW n \in N
                PROVE  Retrieved(p, got, n) \in [Probes -> Store(p)!Statuses] /\ Readings(p, n, Retrieved(p, got, n))
    OBVIOUS
  <2>1. Retrieved(p, got, n) = [s \in Probes |-> IF n \in got[s] THEN truth[n][s] ELSE Store(p)!NotRetrieved]
    BY DEF Retrieved
  <2>2. truth[n] \in [Probes -> {"VALID", "DISCONNECTED"}]
    BY <1>3 DEF StoreTypes
  <2>. QED
    BY <2>1, <2>2 DEF Store!Statuses, Store!Valid, Readings
<1>6. PICK X : X = {[seq |-> n, r |-> Retrieved(p, got, n)] : n \in N}
  OBVIOUS
<1>7. \A x \in X : \E n \in N : x.seq = n /\ x.r = Retrieved(p, got, n) /\ x = [seq |-> n, r |-> Retrieved(p, got, n)]
  BY <1>6
<1>8. \A x \in X : x \in Store(p)!Samples /\ SampleFine(p, x)
  <2>. SUFFICES ASSUME NEW x \in X PROVE x \in Store(p)!Samples /\ SampleFine(p, x)
    OBVIOUS
  <2>1. PICK n \in N : x.seq = n /\ x.r = Retrieved(p, got, n) /\ x = [seq |-> n, r |-> Retrieved(p, got, n)]
    BY <1>7
  <2>2. n \in 1..Stores[p].seconds /\ n <= second /\ Retrieved(p, got, n) \in [Probes -> Store(p)!Statuses]
        /\ Readings(p, n, Retrieved(p, got, n))
    BY <1>3, <1>5
  <2>3. x \in Store(p)!Samples
    BY <1>0, <2>1, <2>2 DEF Store!Samples
  <2>. QED
    BY <2>1, <2>2, <2>3 DEF SampleFine
<1>9. \A x, y \in X : x.seq = y.seq => x = y
  BY <1>7
<1>. QED
  BY <1>4, <1>6, <1>8, <1>9 DEF BatchFine

\* A transfer offers its batch and then the reconciliation.
LEMMA SyncOffers == ASSUME NEW p \in DOMAIN Stores, StoreInv(p), Store(p)!Synchronize PROVE StoreInv(p)'
<1>0. StoreTypes(p) /\ Stores[p].seconds \in Nat /\ Stores[p].syncs \in Nat
  BY StoreFacts DEF StoreInv
<1>1. UNCHANGED <<second, truth, table, failures>> /\ syncs' = syncs + 1 /\ syncs < Stores[p].syncs
  BY DEF Store!Synchronize
<1>2. PICK got \in [Store(p)!Probes -> SUBSET (1..second)] :
        work' = work \o <<[kind |-> "upsert", samples |-> Store(p)!Batch(got)],
                          [kind |-> "reconcile", samples |-> Store(p)!Batch(got)]>>
  BY DEF Store!Synchronize, Store!Offer
<1>3. PICK X : X = Store(p)!Batch(got)
  OBVIOUS
<1>4. BatchFine(p, X) /\ X \subseteq Store(p)!Samples
  BY <1>0, <1>3, BatchMade
<1>5. PICK u, c : u = [kind |-> "upsert", samples |-> X] /\ c = [kind |-> "reconcile", samples |-> X]
  OBVIOUS
<1>6. u.kind = "upsert" /\ u.samples = X /\ c.kind = "reconcile" /\ c.samples = X
  BY <1>5
<1>7. u \in Jobs(p) /\ c \in Jobs(p)
  <2>1. {"upsert", "reconcile"} \subseteq Store(p)!Kinds /\ X \in SUBSET Store(p)!Samples
    BY <1>4 DEF Store!Kinds
  <2>. QED
    BY <1>5, <2>1 DEF Jobs
<1>8. PICK jobs \in Seq(Jobs(p)) : jobs = <<u, c>>
  <2>1. \A J : \A i, j \in J : <<i, j>> \in Seq(J)
    OBVIOUS
  <2>. QED
    BY <1>7, <2>1
<1>9. Len(jobs) = 2 /\ jobs[1] = u /\ jobs[2] = c
  BY <1>8
<1>10. second' \in 0..Stores[p].seconds /\ second <= second' /\ syncs' \in 0..Stores[p].syncs
  BY <1>0, <1>1 DEF StoreTypes
<1>11. JobFine(p, u)' /\ JobFine(p, c)'
  <2>1. JobFine(p, u) /\ JobFine(p, c)
    BY <1>4, <1>6 DEF JobFine, Store!Kinds
  <2>. QED
    BY <1>1, <1>10, <2>1, StepFine
<1>12. \A i \in 1..Len(jobs) : JobFine(p, jobs[i])'
  BY <1>9, <1>11
<1>13. \A i \in 1..Len(jobs) : jobs[i].kind = "reconcile" =>
         i # 1 /\ jobs[i - 1].kind = "upsert" /\ jobs[i - 1].samples = jobs[i].samples
  BY <1>6, <1>9
<1>14. \A m \in 1..second' : ~(m > second)
  BY <1>0, <1>1 DEF StoreTypes
<1>15. work' = work \o jobs
  BY <1>2, <1>3, <1>5, <1>8
<1>. QED
  BY <1>1, <1>10, <1>12, <1>13, <1>14, <1>15, Offered

\* The oldest job leaves the queue; what is in the table now is fine.
LEMMA Leaves ==
  ASSUME NEW p \in DOMAIN Stores, StoreInv(p), work # <<>>, work' = Tail(work),
         UNCHANGED <<second, truth, syncs>>, failures' \in 0..Stores[p].failures,
         RowsAre(p, table')
  PROVE  /\ JobFine(p, work[1]) /\ Head(work) = work[1] /\ 1 \in DOMAIN work
         /\ StoreTypes(p)' /\ RowsFine(p)' /\ WorkFine(p)'
         /\ \A i \in DOMAIN work' : i \in Int /\ i >= 1 /\ i + 1 \in DOMAIN work /\ work'[i] = work[i + 1]
         /\ \A i \in DOMAIN work : /\ i \in Int /\ i >= 1
                                   /\ i # 1 => i - 1 \in DOMAIN work' /\ work'[i - 1] = work[i]
<1>0. StoreTypes(p) /\ RowsFine(p) /\ WorkFine(p)
  BY DEF StoreInv
<1>1. PICK J : J = Jobs(p)
  OBVIOUS
<1>2. PICK q \in Seq(J) : q = work
  BY <1>0, <1>1 DEF StoreTypes, Jobs
<1>3. /\ work' \in Seq(J) /\ Head(work) = work[1] /\ 1 \in DOMAIN work
      /\ \A i \in DOMAIN work' : i \in Int /\ i >= 1 /\ i + 1 \in DOMAIN work /\ work'[i] = work[i + 1]
      /\ \A i \in DOMAIN work : /\ i \in Int /\ i >= 1
                                /\ i # 1 => i - 1 \in DOMAIN work' /\ work'[i - 1] = work[i]
  BY <1>2, QueueAdvances
<1>4. JobFine(p, work[1])
  BY <1>0, <1>3 DEF WorkFine
<1>5. StoreTypes(p)'
  BY <1>0, <1>1, <1>3 DEF StoreTypes, Jobs, Store!Kinds, Store!Samples, Store!Probes, Store!Statuses,
     Store!Valid, Store!NotRetrieved, Store!Missing
<1>6. second' \in 0..Stores[p].seconds /\ second <= second'
  BY <1>0, StoreFacts DEF StoreTypes
<1>7. RowsFine(p)'
  <2>1. PICK held : held = table'
    OBVIOUS
  <2>2. RowsAre(p, held)
    BY <2>1
  <2>3. RowsAre(p, held)'
    BY <1>6, <2>2, StepFine
  <2>. QED
    BY <2>1, <2>3 DEF RowsFine, RowsAre
<1>8. WorkFine(p)'
  <2>1. SUFFICES ASSUME NEW job, NEW i \in DOMAIN work', job = work'[i] PROVE JobFine(p, job)'
    BY DEF WorkFine
  <2>2. JobFine(p, job)
    BY <1>0, <1>3, <2>1 DEF WorkFine
  <2>. QED
    BY <1>6, <2>2, StepFine
<1>. QED
  BY <1>3, <1>4, <1>5, <1>7, <1>8

\* What becomes of a job in the table.
Becomes(p, job, T) ==
  /\ RowsAre(p, T)
  /\ \A row \in table : row.source # Provisional => \E new \in T : Gains(p, row, new)
  /\ job.kind # "reconcile" => \A row \in table : \E new \in T : Gains(p, row, new)
  /\ job.kind \in {"current", "missing"} => \A x \in job.samples : \E new \in T : new.n = x.seq
  /\ job.kind = "upsert" => \A x \in job.samples : \E new \in T : new.seq = x.seq
  /\ job.kind = "reconcile" =>
       T = {row \in table : ~(row.source = Provisional /\ Store(p)!Near(row.at, job.samples))}

\* Every job makes that of the table.
LEMMA Applying ==
  ASSUME NEW p \in DOMAIN Stores, StoreTypes(p), RowsFine(p), NEW job, JobFine(p, job)
  PROVE  Becomes(p, job, Store(p)!Applied(job))
<1>0. PICK T : T = Store(p)!Applied(job)
  OBVIOUS
<1>1. \A row : Gains(p, row, row)
  BY DEF Gains
<1>2. CASE job.kind \in {"current", "missing"}
  <2>1. /\ RowsAre(p, T) /\ table \subseteq T
        /\ \A x \in job.samples : \E row \in T : row.n = x.seq
    BY <1>0, <1>2, OneApplied
  <2>. QED
    BY <1>0, <1>1, <1>2, <2>1 DEF Becomes
<1>3. CASE job.kind = "upsert"
  <2>1. PICK held, X : held = table /\ X = job.samples
    OBVIOUS
  <2>2. RowsAre(p, held) /\ BatchFine(p, X)
    BY <1>3, <2>1 DEF RowsFine, JobFine
  <2>3. T = Store(p)!Upsert(held, X)
    BY <1>0, <1>3, <2>1 DEF Store!Applied
  <2>4. /\ RowsAre(p, T)
        /\ \A row \in held : \E new \in T : Gains(p, row, new)
        /\ \A x \in X : \E new \in T : new.seq = x.seq
    BY <2>2, <2>3, UpsertFine
  <2>. QED
    BY <1>0, <1>3, <2>1, <2>4 DEF Becomes
<1>4. CASE job.kind = "reconcile"
  <2>1. T = table \ {row \in table : row.source = "PROVISIONAL" /\ Store(p)!Near(row.at, job.samples)}
    BY <1>0, <1>4 DEF Store!Applied, Store!Reconcile
  <2>2. T = {row \in table : ~(row.source = Provisional /\ Store(p)!Near(row.at, job.samples))}
    BY <2>1 DEF Provisional
  <2>3. T \subseteq table /\ \A row \in table : row.source # Provisional => row \in T
    BY <2>2
  <2>4. RowsAre(p, T)
    BY <2>3 DEF RowsFine, RowsAre
  <2>. QED
    BY <1>0, <1>1, <1>4, <2>2, <2>3, <2>4 DEF Becomes
<1>. QED
  BY <1>2, <1>3, <1>4 DEF JobFine, Store!Kinds

\* A job is applied and leaves the queue.
LEMMA ApplyKeeps == ASSUME NEW p \in DOMAIN Stores, StoreInv(p), Store(p)!Apply PROVE StoreInv(p)'
<1>0. StoreTypes(p) /\ RowsFine(p) /\ WorkFine(p) /\ (failures = 0 => Follows(p) /\ Covered)
  BY DEF StoreInv
<1>1. work # <<>> /\ work' = Tail(work) /\ UNCHANGED <<second, truth, syncs, failures>>
      /\ table' = Store(p)!Applied(Head(work))
  BY DEF Store!Apply
<1>2. PICK job : job = work[1]
  OBVIOUS
<1>3. PICK J : J = Jobs(p)
  OBVIOUS
<1>4. PICK q \in Seq(J) : q = work
  BY <1>0, <1>3 DEF StoreTypes, Jobs
<1>5. Head(work) = job /\ 1 \in DOMAIN work
  BY <1>1, <1>2, <1>4, QueueAdvances
<1>6. JobFine(p, job)
  BY <1>0, <1>2, <1>5 DEF WorkFine
<1>7. PICK T : T = table'
  OBVIOUS
<1>8. Becomes(p, job, T)
  BY <1>0, <1>1, <1>5, <1>6, <1>7, Applying
<1>9. failures' \in 0..Stores[p].failures
  BY <1>0, <1>1 DEF StoreTypes
<1>10. RowsAre(p, table')
  BY <1>7, <1>8 DEF Becomes
<1>11. /\ StoreTypes(p)' /\ RowsFine(p)' /\ WorkFine(p)'
       /\ \A i \in DOMAIN work' : i \in Int /\ i >= 1 /\ i + 1 \in DOMAIN work /\ work'[i] = work[i + 1]
       /\ \A i \in DOMAIN work : /\ i \in Int /\ i >= 1
                                 /\ i # 1 => i - 1 \in DOMAIN work' /\ work'[i - 1] = work[i]
  BY <1>1, <1>9, <1>10, Leaves
<1>12. ASSUME failures' = 0 PROVE Follows(p)'
  <2>1. SUFFICES ASSUME NEW i \in DOMAIN work', work'[i].kind = "reconcile"
                 PROVE  /\ i = 1 => \A x \in work'[i].samples : \E row \in T : row.seq = x.seq
                        /\ i # 1 => /\ work'[i - 1].kind = "upsert"
                                   /\ work'[i - 1].samples = work'[i].samples
    BY <1>7 DEF Follows
  <2>2. Follows(p)
    BY <1>0, <1>1, <1>12
  <2>3. i \in Int /\ i >= 1 /\ i + 1 \in DOMAIN work /\ work'[i] = work[i + 1] /\ i + 1 # 1 /\ (i + 1) - 1 = i
    BY <1>11
  <2>4. work[i].kind = "upsert" /\ work[i].samples = work'[i].samples
    BY <2>1, <2>2, <2>3 DEF Follows
  <2>5. CASE i = 1
    BY <1>2, <1>8, <2>4, <2>5 DEF Becomes
  <2>6. CASE i # 1
    <3>1. (i - 1) + 1 = i /\ i \in DOMAIN work
      <4>1. PICK L \in Nat : DOMAIN work = 1..L
        BY <1>4
      <4>. QED
        BY <2>3, <4>1
    <3>2. work'[i - 1] = work[i]
      BY <1>11, <2>6, <3>1
    <3>. QED
      BY <2>4, <2>6, <3>2
  <2>. QED
    BY <2>5, <2>6
<1>13. ASSUME failures' = 0 PROVE Covered'
  <2>1. SUFFICES ASSUME NEW n \in 1..second
                 PROVE  (\E i \in DOMAIN work' : Announces(i, n)') \/ (\E row \in T : Held(row, n))
    BY <1>1, <1>7 DEF Covered, Held
  <2>2. Covered /\ Follows(p)
    BY <1>0, <1>1, <1>13
  <2>3. ASSUME NEW i \in DOMAIN work, Announces(i, n)
        PROVE  (\E j \in DOMAIN work' : Announces(j, n)') \/ (\E row \in T : Held(row, n))
    <3>1. CASE i = 1
      <4>1. job.kind \in {"current", "missing"} /\ \E x \in job.samples : x.seq = n
        BY <1>2, <2>3, <3>1 DEF Announces
      <4>2. \E row \in T : row.n = n
        BY <1>8, <4>1 DEF Becomes
      <4>. QED
        BY <4>2 DEF Held
    <3>2. CASE i # 1
      <4>1. i - 1 \in DOMAIN work' /\ work'[i - 1] = work[i]
        BY <1>11, <3>2
      <4>2. Announces(i - 1, n)'
        BY <2>3, <4>1 DEF Announces
      <4>. QED
        BY <4>1, <4>2
    <3>. QED
      BY <3>1, <3>2
  <2>4. ASSUME NEW row \in table, Held(row, n) PROVE \E new \in T : Held(new, n)
    <3>1. ASSUME \E new \in T : Gains(p, row, new) PROVE \E new \in T : Held(new, n)
      <4>1. PICK new \in T : Gains(p, row, new)
        BY <3>1
      <4>2. new.n = row.n /\ new.source = row.source
        BY <4>1 DEF Gains
      <4>3. Held(new, n)
        BY <2>4, <4>2 DEF Held
      <4>. QED
        BY <4>3
    <3>2. CASE job.kind # "reconcile"
      BY <1>8, <3>1, <3>2 DEF Becomes
    <3>3. CASE job.kind = "reconcile"
      <4>1. T = {r \in table : ~(r.source = Provisional /\ Store(p)!Near(r.at, job.samples))}
        BY <1>8, <3>3 DEF Becomes
      <4>2. CASE row \in T
        BY <2>4, <4>2
      <4>3. CASE row \notin T
        <5>1. row.source = Provisional /\ Store(p)!Near(row.at, job.samples)
          BY <4>1, <4>3
        <5>2. RowFine(p, row) /\ row.n = n
          BY <1>0, <2>4, <5>1 DEF RowsFine, RowsAre, Held
        <5>3. row.at = Store(p)!Stored(Store(p)!PollTime(n)) /\ n \in Nat
          BY <5>1, <5>2 DEF RowFine
        <5>4. PICK x \in job.samples : 2 * (row.at - Store(p)!SampleTime(x.seq)) \in -Second..Second
          BY <5>1 DEF Store!Near
        <5>5. x.seq \in 1..Stores[p].seconds
          BY <1>6, <3>3 DEF JobFine, BatchFine, SampleFine, Store!Samples
        <5>6. PICK k \in Nat : k = x.seq /\ k # 0
          BY <5>5, StoreFacts
        <5>7. k - n \in -1..1
          BY <5>3, <5>4, <5>6, NearIsAdjacent
        <5>8. PICK new \in table : new.seq = x.seq
          BY <1>2, <1>5, <2>2, <3>3 DEF Follows
        <5>9. RowFine(p, new)
          BY <1>0 DEF RowsFine, RowsAre
        <5>10. new.source # Provisional /\ new.n = k
          BY <5>6, <5>8, <5>9 DEF RowFine
        <5>11. new \in T /\ Held(new, n)
          BY <4>1, <5>7, <5>10 DEF Held
        <5>. QED
          BY <5>11
      <4>. QED
        BY <4>2, <4>3
    <3>. QED
      BY <3>2, <3>3
  <2>. QED
    BY <2>2, <2>3, <2>4 DEF Covered
<1>. QED
  BY <1>11, <1>12, <1>13 DEF StoreInv

\* A call that fails leaves the batches it committed, and claims nothing more.
LEMMA FailBecomes ==
  ASSUME NEW p \in DOMAIN Stores, StoreInv(p), Store(p)!ApplyFails
  PROVE  /\ RowsAre(p, table') /\ \A row \in table : \E new \in table' : Gains(p, row, new)
<1>0. StoreTypes(p) /\ RowsFine(p) /\ WorkFine(p)
  BY DEF StoreInv
<1>1. CASE Head(work).kind = "upsert"
  <2>1. PICK X \in Store(p)!Committed(Head(work).samples) : table' = Store(p)!Upsert(table, X)
    BY <1>1 DEF Store!ApplyFails
  <2>2. X \subseteq Head(work).samples
    BY <2>1 DEF Store!Committed
  <2>3. PICK J : J = Jobs(p)
    OBVIOUS
  <2>4. PICK q \in Seq(J) : q = work
    BY <1>0, <2>3 DEF StoreTypes, Jobs
  <2>5. PICK job : job = work[1]
    OBVIOUS
  <2>6. work # <<>>
    BY DEF Store!ApplyFails
  <2>7. Head(work) = job /\ 1 \in DOMAIN work
    BY <2>4, <2>5, <2>6, QueueAdvances
  <2>8. JobFine(p, job)
    BY <1>0, <2>5, <2>7 DEF WorkFine
  <2>9. BatchFine(p, X)
    BY <1>1, <2>2, <2>7, <2>8 DEF JobFine, BatchFine
  <2>10. PICK held : held = table
    OBVIOUS
  <2>11. RowsAre(p, held)
    BY <1>0, <2>10 DEF RowsFine
  <2>12. PICK T : T = Store(p)!Upsert(held, X)
    OBVIOUS
  <2>13. RowsAre(p, T) /\ \A row \in held : \E new \in T : Gains(p, row, new)
    BY <1>0, <2>9, <2>11, <2>12, UpsertFine
  <2>. QED
    BY <2>1, <2>10, <2>12, <2>13
<1>2. CASE Head(work).kind # "upsert"
  <2>1. table' = table
    BY <1>2 DEF Store!ApplyFails
  <2>. QED
    BY <1>0, <2>1 DEF RowsFine, Gains
<1>. QED
  BY <1>1, <1>2

\* A job whose database call failed leaves the queue.
LEMMA FailKeeps == ASSUME NEW p \in DOMAIN Stores, StoreInv(p), Store(p)!ApplyFails PROVE StoreInv(p)'
<1>1. work # <<>> /\ work' = Tail(work) /\ UNCHANGED <<second, truth, syncs>>
      /\ failures' = failures + 1 /\ failures < Stores[p].failures
  BY DEF Store!ApplyFails
<1>2. RowsAre(p, table')
  BY FailBecomes
<1>3. failures' \in 0..Stores[p].failures /\ failures' # 0
  BY <1>1, StoreFacts DEF StoreInv, StoreTypes
<1>4. StoreTypes(p)' /\ RowsFine(p)' /\ WorkFine(p)'
  BY <1>1, <1>2, <1>3, Leaves
<1>. QED
  BY <1>3, <1>4 DEF StoreInv

\* The database starts with its invariant.
LEMMA StoreInitially == ASSUME NEW p \in DOMAIN Stores, Store(p)!Init PROVE StoreInv(p)
<1>0. Stores[p].seconds \in Nat /\ Stores[p].syncs \in Nat /\ Stores[p].failures \in Nat
  BY StoreFacts
<1>1. second = 0 /\ work = <<>> /\ table = {} /\ syncs = 0 /\ failures = 0
  BY DEF Store!Init
<1>2. truth \in [1..Stores[p].seconds -> [Probes -> {"VALID", "DISCONNECTED"}]]
  <2>1. PICK A, B : /\ A = [s \in Probes |-> Store(p)!Valid]
                    /\ B = [s \in Probes |-> IF s = 2 THEN "DISCONNECTED" ELSE Store(p)!Valid]
    OBVIOUS
  <2>2. truth \in [1..Stores[p].seconds -> {A, B}]
    BY <2>1 DEF Store!Init, Store!Probes, Probes
  <2>3. A \in [Probes -> {"VALID", "DISCONNECTED"}] /\ B \in [Probes -> {"VALID", "DISCONNECTED"}]
    BY <2>1 DEF Store!Valid
  <2>. QED
    BY <2>2, <2>3
<1>3. StoreTypes(p)
  BY <1>0, <1>1, <1>2 DEF StoreTypes
<1>4. RowsFine(p) /\ WorkFine(p) /\ Follows(p) /\ Covered
  BY <1>1 DEF RowsFine, RowsAre, WorkFine, Follows, Covered
<1>. QED
  BY <1>3, <1>4 DEF StoreInv

\* Every step of the database keeps it.
LEMMA StoreKept ==
  ASSUME NEW p \in DOMAIN Stores, StoreInv(p), Store(p)!Next \/ UNCHANGED storeVars
  PROVE  StoreInv(p)'
<1>1. CASE UNCHANGED storeVars
  <2>0. UNCHANGED <<second, truth, work, table, syncs, failures>>
    BY <1>1 DEF storeVars
  <2>1. StoreTypes(p)'
    BY <2>0 DEF StoreInv, StoreTypes, Store!Kinds, Store!Samples, Store!Probes, Store!Statuses,
       Store!Valid, Store!NotRetrieved, Store!Missing
  <2>2. second' \in 0..Stores[p].seconds /\ second <= second'
    BY <2>0, StoreFacts DEF StoreInv, StoreTypes
  <2>3. RowsFine(p)'
    <3>1. PICK held : held = table
      OBVIOUS
    <3>2. RowsAre(p, held)'
      BY <2>0, <2>2, <3>1, StepFine DEF StoreInv, RowsFine
    <3>. QED
      BY <2>0, <3>1, <3>2 DEF RowsFine
  <2>4. WorkFine(p)'
    BY <2>0, <2>2, StepFine DEF StoreInv, WorkFine
  <2>5. failures' = 0 => Follows(p)' /\ Covered'
    BY <2>0 DEF StoreInv, Follows, Covered, Announces, Held
  <2>. QED
    BY <2>1, <2>3, <2>4, <2>5 DEF StoreInv
<1>. QED
  BY <1>1, PollOffers, SyncOffers, ApplyKeeps, FailKeeps DEF Store!Next

\* What the invariant says of the table.
LEMMA StoreShows ==
  ASSUME NEW p \in DOMAIN Stores, StoreInv(p)
  PROVE  Store(p)!TypeOK /\ Store(p)!RowsTrue /\ Store(p)!NoHole
<1>0. StoreTypes(p) /\ RowsFine(p) /\ WorkFine(p) /\ (failures = 0 => Follows(p) /\ Covered)
  BY DEF StoreInv
<1>1. Store(p)!TypeOK
  <2>1. \A i \in DOMAIN work : work[i].kind \in Store(p)!Kinds /\ work[i].samples \subseteq Store(p)!Samples
    BY <1>0 DEF WorkFine, JobFine
  <2>2. table \subseteq Store(p)!Rows
    BY <1>0 DEF RowsFine, RowsAre, RowFine
  <2>3. truth \in [1..Stores[p].seconds -> [Store(p)!Probes -> {Store(p)!Valid, "DISCONNECTED"}]]
    BY <1>0 DEF StoreTypes, Store!Probes, Store!Valid, Probes
  <2>. QED
    BY <1>0, <2>1, <2>2, <2>3 DEF StoreTypes, Store!TypeOK
<1>2. Store(p)!RowsTrue
  <2>1. SUFFICES ASSUME NEW row \in table
                 PROVE  /\ row.seq # 0 => Store(p)!Keyed(table, row.seq) = {row}
                        /\ row.average = Store(p)!BothValid(row.r)
                        /\ row.source # "PROVISIONAL" => \A s \in Store(p)!Probes :
                             row.r[s] \in {truth[row.seq][s], Store(p)!NotRetrieved}
    BY DEF Store!RowsTrue
  <2>2. RowFine(p, row) /\ \A other \in table : row.seq = other.seq /\ row.seq # 0 => row = other
    BY <1>0 DEF RowsFine, RowsAre
  <2>3. row.seq # 0 => Store(p)!Keyed(table, row.seq) = {row}
    BY <2>2 DEF Store!Keyed
  <2>. QED
    BY <2>2, <2>3 DEF RowFine, Readings, Provisional, Store!Probes, Probes
<1>3. Store(p)!NoHole
  <2>1. SUFFICES ASSUME work = <<>>, failures = 0, NEW n \in 1..second
                 PROVE  \E row \in table : row.n - n \in -1..1
    BY DEF Store!NoHole
  <2>2. PICK row \in table : Held(row, n)
    BY <1>0, <2>1 DEF Covered
  <2>3. row.n \in 1..Stores[p].seconds
    BY <1>0 DEF RowsFine, RowsAre, RowFine, Store!Rows
  <2>4. row.n - n \in -1..1
    BY <2>2, <2>3, StoreFacts DEF Held
  <2>. QED
    BY <2>4
<1>. QED
  BY <1>1, <1>2, <1>3

\* No step takes a stored reading back.
LEMMA StoreGains ==
  ASSUME NEW p \in DOMAIN Stores, StoreInv(p), Store(p)!Next
  PROVE  Store(AnyStore)!OnlyGain
<1>0. StoreTypes(p) /\ RowsFine(p) /\ WorkFine(p)
  BY DEF StoreInv
<1>1. ASSUME NEW row \in table, row.seq # 0 PROVE \E new \in table' : Gains(p, row, new)
  <2>1. row.source # Provisional
    BY <1>0, <1>1 DEF RowsFine, RowsAre, RowFine
  <2>2. CASE Store(p)!Poll \/ Store(p)!Synchronize
    <3>1. table' = table
      BY <2>2 DEF Store!Poll, Store!Synchronize
    <3>. QED
      BY <3>1 DEF Gains
  <2>3. CASE Store(p)!Apply
    <3>1. work # <<>> /\ table' = Store(p)!Applied(Head(work))
      BY <2>3 DEF Store!Apply
    <3>2. PICK job, T : job = work[1] /\ T = table'
      OBVIOUS
    <3>3. PICK J : J = Jobs(p)
      OBVIOUS
    <3>4. PICK q \in Seq(J) : q = work
      BY <1>0, <3>3 DEF StoreTypes, Jobs
    <3>5. Head(work) = job /\ 1 \in DOMAIN work
      BY <3>1, <3>2, <3>4, QueueAdvances
    <3>6. JobFine(p, job)
      BY <1>0, <3>2, <3>5 DEF WorkFine
    <3>7. Becomes(p, job, T)
      BY <1>0, <3>1, <3>2, <3>5, <3>6, Applying
    <3>. QED
      BY <1>1, <2>1, <3>2, <3>7 DEF Becomes
  <2>4. CASE Store(p)!ApplyFails
    BY <2>4, FailBecomes
  <2>. QED
    BY <2>2, <2>3, <2>4 DEF Store!Next
<1>. QED
  BY <1>1 DEF Store!OnlyGain, Gains, Store!Probes, Probes, Store!NotRetrieved

-----------------------------------------------------------------------------
(* Sequence numbers. *)

\* A number is a multiple and its remainder, and the remainder is the only one.
LEMMA Remainder ==
  ASSUME NEW m \in Nat \ {0}, NEW x \in Int
  PROVE  x % m \in 0..m - 1 /\ \E q \in Int : x = q * m + (x % m)
<1>1. PICK q \in Int : q = x \div m
  OBVIOUS
<1>2. x = q * m + (x % m) /\ x % m \in 0..m - 1
  BY <1>1
<1>. QED
  BY <1>2

\* No other remainder fits.
LEMMA OneRemainder ==
  ASSUME NEW m \in Nat \ {0}, NEW x \in Int, NEW q \in Int, NEW r \in 0..m - 1, x = q * m + r
  PROVE  x % m = r
<1>1. PICK k \in Int : x = k * m + (x % m) /\ x % m \in 0..m - 1
  BY Remainder
<1>2. PICK t \in 0..m - 1 : t = x % m
  BY <1>1
<1>3. PICK Q \in Int, K \in Int : Q = q * m /\ K = k * m
  OBVIOUS
<1>4. Q + r = K + t
  BY <1>1, <1>2, <1>3
<1>5. CASE q < k
  <2>1. (q + 1) * m <= k * m /\ (q + 1) * m = q * m + m
    BY <1>5, Multiples
  <2>. QED
    BY <1>3, <1>4, <2>1
<1>6. CASE k < q
  <2>1. (k + 1) * m <= q * m /\ (k + 1) * m = k * m + m
    BY <1>6, Multiples
  <2>. QED
    BY <1>3, <1>4, <2>1
<1>7. CASE k = q
  BY <1>2, <1>3, <1>4, <1>7
<1>. QED
  BY <1>5, <1>6, <1>7

\* Going on from a remainder.
LEMMA GoesOn ==
  ASSUME NEW m \in Nat \ {0}, NEW x \in Int, NEW n \in 0..m - 1
  PROVE  ((x % m) + n) % m = (x + n) % m
<1>1. PICK q \in Int : x = q * m + (x % m) /\ x % m \in 0..m - 1
  BY Remainder
<1>2. PICK r \in 0..m - 1 : r = x % m
  BY <1>1
<1>3. (q + 1) * m = q * m + m /\ 0 * m = 0 /\ 1 * m = m
  OBVIOUS
<1>4. CASE r + n < m
  <2>1. x + n = q * m + (r + n) /\ r + n = 0 * m + (r + n) /\ r + n \in 0..m - 1
    BY <1>1, <1>2, <1>3, <1>4
  <2>0. PICK y \in Int : y = x + n
    OBVIOUS
  <2>2. (x + n) % m = r + n
    BY <2>0, <2>1, OneRemainder
  <2>3. (r + n) % m = r + n
    BY <2>1, OneRemainder
  <2>. QED
    BY <1>2, <2>2, <2>3
<1>5. CASE r + n >= m
  <2>1. x + n = (q + 1) * m + (r + n - m) /\ r + n = 1 * m + (r + n - m) /\ r + n - m \in 0..m - 1
    BY <1>1, <1>2, <1>3, <1>5
  <2>0. PICK y \in Int, Q \in Int : y = x + n /\ Q = q + 1
    OBVIOUS
  <2>2. (x + n) % m = r + n - m
    BY <2>0, <2>1, OneRemainder
  <2>3. (r + n) % m = r + n - m
    BY <2>1, OneRemainder
  <2>. QED
    BY <1>2, <2>2, <2>3
<1>. QED
  BY <1>4, <1>5

\* The distance of two remainders, back and forth.
LEMMA Distance ==
  ASSUME NEW m \in Nat \ {0}, NEW x \in Int, NEW d \in 0..m - 1
  PROVE  /\ (((x + d) % m) - (x % m)) % m = d
         /\ d # 0 => ((x % m) - ((x + d) % m)) % m = m - d
<1>1. PICK r \in 0..m - 1 : r = x % m
  BY Remainder
<1>2. PICK t \in 0..m - 1 : t = (x + d) % m
  BY Remainder
<1>3. t = (r + d) % m
  BY <1>1, <1>2, GoesOn
<1>4. 0 * m = 0 /\ 1 * m = m /\ (-1) * m = -m
  OBVIOUS
<1>5. CASE r + d < m
  <2>1. r + d = 0 * m + (r + d) /\ r + d \in 0..m - 1
    BY <1>4, <1>5
  <2>2. t = r + d
    BY <1>3, <2>1, OneRemainder
  <2>3. t - r = 0 * m + d
    BY <1>4, <2>2
  <2>4. (t - r) % m = d
    BY <2>3, OneRemainder
  <2>5. ASSUME d # 0 PROVE (r - t) % m = m - d
    <3>1. r - t = (-1) * m + (m - d) /\ m - d \in 0..m - 1
      BY <1>4, <2>2, <2>5
    <3>. QED
      BY <3>1, OneRemainder
  <2>. QED
    BY <1>1, <1>2, <2>4, <2>5
<1>6. CASE r + d >= m
  <2>1. r + d = 1 * m + (r + d - m) /\ r + d - m \in 0..m - 1
    BY <1>4, <1>6
  <2>2. t = r + d - m
    BY <1>3, <2>1, OneRemainder
  <2>3. t - r = (-1) * m + d
    BY <1>4, <2>2
  <2>4. (t - r) % m = d
    BY <2>3, OneRemainder
  <2>5. ASSUME d # 0 PROVE (r - t) % m = m - d
    <3>1. r - t = 0 * m + (m - d) /\ m - d \in 0..m - 1
      BY <1>4, <2>2, <2>5
    <3>. QED
      BY <3>1, OneRemainder
  <2>. QED
    BY <1>1, <1>2, <2>4, <2>5
<1>. QED
  BY <1>5, <1>6

Parts == DOMAIN Firmware

\* What is assumed of the device and the transfer.
LEMMA TransferFacts ==
  ASSUME NEW p \in Parts
  PROVE  /\ IsFiniteSet(Sensors) /\ Sensors = 1..Cardinality(Sensors)
         /\ Capacity \in Nat \ {0} /\ ChunkSize \in Nat \ {0} /\ SeqSpace \in Nat \ {0}
         /\ FirstSeq \in Nat /\ Retries \in Nat /\ MaxCount \in Nat /\ MaxBroken \in Nat
         /\ InitialCount \in 1..MaxCount /\ 2 * MaxCount < SeqSpace
         /\ Firmware[p] \in BOOLEAN
<1>1. Transfer(p)!SizeAssumption
  BY SamplesAssumption DEF Parts
<1>2. Transfer(p)!IsFiniteSet(Sensors) = IsFiniteSet(Sensors)
  BY Zenon DEF Transfer!IsFiniteSet, IsFiniteSet
<1>3. Transfer(p)!Cardinality(Sensors) = Cardinality(Sensors)
  BY Zenon DEF Transfer!Cardinality, Cardinality
<1>4. IsFiniteSet(Sensors) /\ Sensors = 1..Cardinality(Sensors)
  BY <1>1, <1>2, <1>3 DEF Transfer!SizeAssumption
<1>. QED
  BY <1>1, <1>4 DEF Transfer!SizeAssumption

\* The sequence numbers of the records written: their range, their distances,
\* and that no two are alike.
LEMMA Numbers ==
  ASSUME NEW p \in Parts, NEW k \in 0..MaxCount + 1, NEW d \in 0..MaxCount
  PROVE  /\ Transfer(p)!Seqn(k) \in 0..SeqSpace - 1
         /\ (Transfer(p)!Seqn(k + d) - Transfer(p)!Seqn(k)) % SeqSpace = d
         /\ d # 0 => (Transfer(p)!Seqn(k) - Transfer(p)!Seqn(k + d)) % SeqSpace = SeqSpace - d
         /\ (Transfer(p)!Seqn(k) + d) % SeqSpace = Transfer(p)!Seqn(k + d)
<1>1. SeqSpace \in Nat \ {0} /\ MaxCount \in Nat /\ FirstSeq \in Nat /\ 2 * MaxCount < SeqSpace
  BY TransferFacts
<1>2. PICK x \in Int : x = FirstSeq + k - 1
  BY <1>1
<1>3. d \in 0..SeqSpace - 1 /\ FirstSeq + (k + d) - 1 = x + d
  BY <1>1, <1>2
<1>4. Transfer(p)!Seqn(k) = x % SeqSpace /\ Transfer(p)!Seqn(k + d) = (x + d) % SeqSpace
  BY <1>2, <1>3 DEF Transfer!Seqn
<1>5. x % SeqSpace \in 0..SeqSpace - 1
  BY <1>1, Remainder
<1>6. /\ (((x + d) % SeqSpace) - (x % SeqSpace)) % SeqSpace = d
      /\ d # 0 => ((x % SeqSpace) - ((x + d) % SeqSpace)) % SeqSpace = SeqSpace - d
  BY <1>1, <1>3, Distance
<1>7. ((x % SeqSpace) + d) % SeqSpace = (x + d) % SeqSpace
  BY <1>1, <1>3, GoesOn
<1>. QED
  BY <1>4, <1>5, <1>6, <1>7

\* No two records in reach have the same number.
LEMMA NumbersDiffer ==
  ASSUME NEW p \in Parts, NEW j \in 0..MaxCount + 1, NEW k \in 0..MaxCount + 1, j # 0 \/ k # MaxCount + 1,
         k # 0 \/ j # MaxCount + 1, Transfer(p)!Seqn(j) = Transfer(p)!Seqn(k)
  PROVE  j = k
<1>1. SeqSpace \in Nat \ {0} /\ MaxCount \in Nat
  BY TransferFacts
<1>2. ASSUME NEW a \in 0..MaxCount + 1, NEW b \in 0..MaxCount + 1, a <= b, a # 0 \/ b # MaxCount + 1,
             Transfer(p)!Seqn(a) = Transfer(p)!Seqn(b)
      PROVE  a = b
  <2>1. PICK d \in 0..MaxCount : d = b - a
    BY <1>1, <1>2
  <2>2. a + d = b
    BY <2>1
  <2>3. (Transfer(p)!Seqn(a + d) - Transfer(p)!Seqn(a)) % SeqSpace = d
        /\ Transfer(p)!Seqn(a) \in 0..SeqSpace - 1
    BY Numbers
  <2>4. Transfer(p)!Seqn(a + d) - Transfer(p)!Seqn(a) = 0
    BY <1>1, <1>2, <2>2, <2>3
  <2>5. 0 % SeqSpace = 0
    BY <1>1
  <2>. QED
    BY <2>1, <2>3, <2>4, <2>5
<1>. QED
  BY <1>1, <1>2

-----------------------------------------------------------------------------
(* The transfer's invariant.  E is the record that was the newest when the  *)
(* metadata were read: what is left of a sensor ends with it.               *)

Distinct(q) == \A i, j \in DOMAIN q : q[i] = q[j] => i = j
Holds(q, s) == \E i \in DOMAIN q : q[i] = s
Got(s) == {r \in records : r.sensor = s}

Anchored(p) == \E a \in 1..count : anchor = [seq |-> Transfer(p)!Seqn(a), time |-> a]

NotBegun(p) ==
  /\ pc \in {"metadata", "raised"} /\ frozen = 0 /\ pending = <<>>
  /\ expected = Transfer(p)!Nothing /\ remaining = Transfer(p)!Nothing
  /\ retrieved = Transfer(p)!Nothing /\ records = {} /\ reported = {}

\* The rings served are those announced, or move on.
Freezing(p, E) ==
  /\ Firmware[p] => frozen = E /\ pc # "refresh" /\ "overwritten" \notin reported
  /\ ~Firmware[p] => frozen = 0

\* What is left of a sensor starts with the number asked for next.
Ahead(p, E) ==
  \A s \in Sensors : remaining[s] <= E /\ nextSeq[s] = Transfer(p)!Seqn(E + 1 - remaining[s])

\* What was received comes before it, and is counted.
Behind(p, E) ==
  \A r \in records : \E i \in 1..E - remaining[r.sensor] : r.seq = Transfer(p)!Seqn(i)
Counted ==
  /\ IsFiniteSet(records)
  /\ \A s \in Sensors : retrieved[s] = Cardinality(Got(s))
  /\ \A s \in Sensors : retrieved[s] + remaining[s] <= expected[s]

\* A sensor is waiting only if something is left of it; without a report,
\* always then, and nothing was skipped.
Waiting == \A i \in DOMAIN pending : remaining[pending[i]] > 0
Unreported ==
  reported = {} => /\ \A s \in Sensors : retrieved[s] + remaining[s] = expected[s]
                   /\ \A s \in Sensors : Holds(pending, s) \/ remaining[s] = 0
                   /\ pc = "done" => pending = <<>>
Missing ==
  \/ \E s \in Sensors : retrieved[s] + remaining[s] < expected[s]
  \/ \E s \in Sensors : remaining[s] > 0 /\ ~Holds(pending, s)
  \/ pc = "done" /\ pending # <<>>

\* The metadata are only read again when records were overwritten.
Refreshing(p, E) ==
  pc = "refresh" => pending # <<>> /\ E + 1 - remaining[Head(pending)] < Transfer(p)!RingOldest(count)

Begun(p, E) ==
  /\ pc # "metadata"
  /\ Freezing(p, E) /\ Ahead(p, E) /\ Behind(p, E) /\ Counted
  /\ Waiting /\ Unreported /\ (reported # {} => Missing) /\ Refreshing(p, E)

TransferInv(p) ==
  /\ Transfer(p)!TypeOK /\ Anchored(p)
  /\ NotBegun(p) \/ \E E \in 1..count : Begun(p, E)
TransfersInv == \A p \in Parts : part = p => TransferInv(p)

\* A sensor whose turn it was leaves, or goes to the end.
LEMMA HeadDropped ==
  ASSUME NEW S, NEW q \in Seq(S), q # <<>>, Distinct(q)
  PROVE  /\ Head(q) \in S /\ Holds(q, Head(q)) /\ Head(q) = q[1]
         /\ Tail(q) \in Seq(S) /\ Distinct(Tail(q)) /\ ~Holds(Tail(q), Head(q))
         /\ \A s : Holds(Tail(q), s) <=> Holds(q, s) /\ s # Head(q)
<1>1. PICK n \in Nat \ {0} : n = Len(q)
  OBVIOUS
<1>2. DOMAIN q = 1..n /\ Head(q) = q[1] /\ 1 \in 1..n /\ q[1] \in S
  BY <1>1
<1>3. Tail(q) \in Seq(S) /\ DOMAIN Tail(q) = 1..n - 1 /\ \A i \in 1..n - 1 : Tail(q)[i] = q[i + 1]
  BY <1>1
<1>4. PICK t \in Seq(S) : t = Tail(q)
  BY <1>3
<1>5. DOMAIN t = 1..n - 1 /\ \A i \in 1..n - 1 : t[i] = q[i + 1] /\ i + 1 \in 1..n
  BY <1>3, <1>4
<1>6. Distinct(t)
  <2>1. \A i, j \in 1..n : q[i] = q[j] => i = j
    BY <1>2 DEF Distinct
  <2>2. \A i, j \in 1..n - 1 : t[i] = t[j] => i + 1 = j + 1
    BY <1>5, <2>1
  <2>. QED
    BY <1>5, <2>2 DEF Distinct
<1>7. ASSUME NEW s PROVE Holds(t, s) <=> Holds(q, s) /\ s # q[1]
  <2>1. ASSUME Holds(t, s) PROVE Holds(q, s) /\ s # q[1]
    <3>1. PICK i \in 1..n - 1 : t[i] = s
      BY <1>5, <2>1 DEF Holds
    <3>2. i + 1 \in 1..n /\ q[i + 1] = s /\ i + 1 # 1
      BY <1>5, <3>1
    <3>. QED
      BY <1>2, <3>2 DEF Holds, Distinct
  <2>2. ASSUME Holds(q, s), s # q[1] PROVE Holds(t, s)
    <3>1. PICK i \in 1..n : q[i] = s
      BY <1>2, <2>2 DEF Holds
    <3>2. i - 1 \in 1..n - 1 /\ (i - 1) + 1 = i
      BY <2>2, <3>1
    <3>3. t[i - 1] = s
      BY <1>5, <3>1, <3>2
    <3>. QED
      BY <1>5, <3>2, <3>3 DEF Holds
  <2>. QED
    BY <2>1, <2>2
<1>8. Holds(q, q[1])
  BY <1>2 DEF Holds
<1>9. ~Holds(t, q[1])
  BY <1>7
<1>. QED
  BY <1>2, <1>4, <1>6, <1>7, <1>8, <1>9

\* A sensor joins behind the others.
LEMMA HeadTurned ==
  ASSUME NEW S, NEW t \in Seq(S), NEW h \in S, Distinct(t), ~Holds(t, h)
  PROVE  /\ Append(t, h) \in Seq(S) /\ Distinct(Append(t, h)) /\ Append(t, h) # <<>>
         /\ \A s : Holds(Append(t, h), s) <=> Holds(t, s) \/ s = h
<1>1. PICK n \in Nat : n = Len(t)
  OBVIOUS
<1>2. PICK a \in Seq(S) : a = Append(t, h)
  <2>1. Append(t, h) \in Seq(S)
    BY AppendProperties
  <2>. QED
    BY <2>1
<1>3. DOMAIN t = 1..n /\ DOMAIN a = 1..n + 1 /\ a[n + 1] = h /\ \A i \in 1..n : a[i] = t[i]
  BY <1>1, <1>2
<1>4. \A i \in 1..n : t[i] # h
  BY <1>3 DEF Holds
<1>5. \A i, j \in 1..n : t[i] = t[j] => i = j
  BY <1>3 DEF Distinct
<1>6. \A i \in 1..n + 1 : i = n + 1 \/ i \in 1..n
  OBVIOUS
<1>7. \A i, j \in 1..n + 1 : a[i] = a[j] => i = j
  BY <1>3, <1>4, <1>5, <1>6
<1>8. Distinct(a)
  BY <1>3, <1>7 DEF Distinct
<1>9. ASSUME NEW s PROVE Holds(a, s) <=> Holds(t, s) \/ s = h
  <2>1. Holds(a, s) <=> \E i \in 1..n + 1 : a[i] = s
    BY <1>3 DEF Holds
  <2>2. Holds(t, s) <=> \E i \in 1..n : t[i] = s
    BY <1>3 DEF Holds
  <2>3. n + 1 \in 1..n + 1 /\ \A i \in 1..n : i \in 1..n + 1
    OBVIOUS
  <2>. QED
    BY <1>3, <1>6, <2>1, <2>2, <2>3
<1>10. a # <<>>
  BY <1>1, <1>2
<1>. QED
  BY <1>2, <1>8, <1>9, <1>10

\* What the rings hold.
LEMMA Ring ==
  ASSUME NEW p \in Parts, NEW n \in 1..MaxCount
  PROVE  /\ Transfer(p)!RingCount(n) \in 1..Capacity /\ Transfer(p)!RingCount(n) <= n
         /\ Transfer(p)!RingOldest(n) \in 1..n
         /\ Transfer(p)!RingOldest(n) = n - Transfer(p)!RingCount(n) + 1
         /\ \A r \in 0..Capacity : r <= n => n + 1 - r >= Transfer(p)!RingOldest(n)
         /\ \A m \in n..MaxCount : Transfer(p)!RingOldest(n) <= Transfer(p)!RingOldest(m)
<1>1. Capacity \in Nat \ {0} /\ MaxCount \in Nat
  BY TransferFacts
<1>. QED
  BY <1>1 DEF Transfer!RingCount, Transfer!RingOldest, Transfer!Lesser

\* The record asked for is found if it is still held.
LEMMA Found ==
  ASSUME NEW p \in Parts, NEW n \in 1..MaxCount, Transfer(p)!Served = n, NEW k \in 1..n
  PROVE  Transfer(p)!Find(Transfer(p)!Seqn(k)) = IF k >= Transfer(p)!RingOldest(n) THEN k ELSE 0
<1>1. PICK o \in 1..n : o = Transfer(p)!RingOldest(n)
  BY Ring
<1>2. MaxCount \in Nat
  BY TransferFacts
<1>3. ASSUME NEW j \in o..n, Transfer(p)!Seqn(j) = Transfer(p)!Seqn(k) PROVE j = k
  BY <1>2, <1>3, NumbersDiffer
<1>4. PICK held : held = {j \in o..n : Transfer(p)!Seqn(j) = Transfer(p)!Seqn(k)}
  OBVIOUS
<1>5. Transfer(p)!Find(Transfer(p)!Seqn(k)) = IF held = {} THEN 0 ELSE CHOOSE j \in held : \A i \in held : i <= j
  BY <1>1, <1>4 DEF Transfer!Find
<1>6. CASE k >= o
  <2>1. held = {k}
    BY <1>3, <1>4, <1>6
  <2>2. (CHOOSE j \in {k} : \A i \in {k} : i <= j) = k
    OBVIOUS
  <2>. QED
    BY <1>1, <1>5, <1>6, <2>1, <2>2
<1>7. CASE ~(k >= o)
  <2>1. held = {}
    BY <1>3, <1>4, <1>7
  <2>. QED
    BY <1>1, <1>5, <1>7, <2>1
<1>. QED
  BY <1>6, <1>7

\* What is served and what is asked for, in the middle of a transfer.
LEMMA NextAsked ==
  ASSUME NEW p \in Parts, Transfer(p)!TypeOK, NEW E \in 1..count, Begun(p, E), pending # <<>>
  PROVE  /\ Transfer(p)!Served \in E..count
         /\ Firmware[p] => Transfer(p)!Served = E
         /\ ~Firmware[p] => Transfer(p)!Served = count
         /\ Head(pending) \in Sensors /\ Head(pending) = pending[1]
         /\ remaining[Head(pending)] \in 1..E /\ remaining[Head(pending)] <= Capacity
         /\ nextSeq[Head(pending)] = Transfer(p)!Seqn(E + 1 - remaining[Head(pending)])
         /\ LET k == E + 1 - remaining[Head(pending)]
            IN  /\ k \in 1..E
                /\ Transfer(p)!Find(nextSeq[Head(pending)])
                     = IF k >= Transfer(p)!RingOldest(Transfer(p)!Served) THEN k ELSE 0
<1>1. /\ Capacity \in Nat \ {0} /\ MaxCount \in Nat /\ Firmware[p] \in BOOLEAN
      /\ count \in 0..MaxCount /\ remaining \in [Sensors -> 0..Capacity] /\ pending \in Seq(Sensors)
  BY TransferFacts DEF Transfer!TypeOK
<1>2. /\ Transfer(p)!Served \in E..count
      /\ Firmware[p] => Transfer(p)!Served = E
      /\ ~Firmware[p] => Transfer(p)!Served = count
  BY <1>1 DEF Begun, Freezing, Transfer!Served
<1>3. PICK h \in Sensors : h = Head(pending) /\ h = pending[1] /\ 1 \in DOMAIN pending
  BY <1>1
<1>4. PICK r \in 1..E : r = remaining[h] /\ r <= Capacity
  BY <1>1, <1>3 DEF Begun, Ahead, Waiting
<1>5. nextSeq[h] = Transfer(p)!Seqn(E + 1 - r)
  BY <1>4 DEF Begun, Ahead
<1>6. PICK k \in 1..E : k = E + 1 - r
  BY <1>4
<1>7. PICK n \in 1..MaxCount : n = Transfer(p)!Served /\ k \in 1..n
  BY <1>1, <1>2
<1>8. Transfer(p)!Find(nextSeq[h]) = IF k >= Transfer(p)!RingOldest(n) THEN k ELSE 0
  BY <1>5, <1>6, <1>7, Found
<1>. QED
  BY <1>2, <1>3, <1>4, <1>5, <1>6, <1>7, <1>8

-----------------------------------------------------------------------------
(* The transfer's first state, and what its invariant shows. *)

\* A transfer starts with its invariant.
LEMMA TransferInitially ==
  ASSUME NEW p \in Parts, Transfer("old")!Init
  PROVE  TransferInv(p)
<1>1. Transfer(p)!Init
  BY DEF Transfer!Init, Transfer!Nothing, Transfer!Seqn
<1>2. /\ Capacity \in Nat \ {0} /\ SeqSpace \in Nat \ {0} /\ Retries \in Nat /\ MaxCount \in Nat
      /\ MaxBroken \in Nat /\ InitialCount \in 1..MaxCount
  BY TransferFacts
<1>3. PICK k \in 1..InitialCount : anchor = [seq |-> Transfer(p)!Seqn(k), time |-> k]
  BY <1>1 DEF Transfer!Init
<1>4. Transfer(p)!Seqn(k) \in 0..SeqSpace - 1
  <2>1. k \in 0..MaxCount + 1 /\ 0 \in 0..MaxCount
    BY <1>2
  <2>. QED
    BY <2>1, Numbers
<1>5. anchor \in [seq : Transfer(p)!Seqs, time : Nat]
  BY <1>2, <1>3, <1>4 DEF Transfer!Seqs
<1>6. \A m \in Nat : Transfer(p)!Nothing \in [Sensors -> 0..m]
  BY DEF Transfer!Nothing
<1>7. Transfer(p)!Nothing \in [Sensors -> 0..Capacity]
  BY <1>2, <1>6
<1>8. nextSeq \in [Sensors -> Transfer(p)!Seqs]
  BY <1>1, <1>2, <1>6 DEF Transfer!Init, Transfer!Seqs
<1>9. pending \in Seq(Sensors) /\ \A i, j \in DOMAIN pending : pending[i] = pending[j] => i = j
  <2>1. pending = <<>> /\ DOMAIN <<>> = {}
    BY <1>1 DEF Transfer!Init
  <2>. QED
    BY <2>1
<1>10. Transfer(p)!TypeOK
  <2>0. count = InitialCount /\ frozen = 0 /\ attempt = 0 /\ broken = 0 /\ linkUp = TRUE /\ expired = FALSE
    BY <1>1 DEF Transfer!Init
  <2>1. count \in 0..MaxCount /\ frozen \in 0..MaxCount /\ attempt \in 0..Retries /\ broken \in 0..MaxBroken
    BY <1>2, <2>0
  <2>3. linkUp \in BOOLEAN /\ expired \in BOOLEAN
    BY <2>0
  <2>2. /\ pc = "metadata" /\ records = {} /\ reported = {}
        /\ expected \in [Sensors -> 0..Capacity] /\ remaining \in [Sensors -> 0..Capacity]
        /\ retrieved \in [Sensors -> 0..Capacity]
    BY <1>1, <1>7 DEF Transfer!Init
  <2>. QED
    BY <1>5, <1>8, <1>9, <2>1, <2>2, <2>3 DEF Transfer!TypeOK
<1>11. Anchored(p)
  BY <1>1, <1>3 DEF Anchored, Transfer!Init
<1>12. NotBegun(p)
  BY <1>1 DEF NotBegun, Transfer!Init
<1>. QED
  BY <1>10, <1>11, <1>12 DEF TransferInv

\* A record is dated by its distance from the anchor.
LEMMA Dated ==
  ASSUME NEW p \in Parts, NEW a \in 1..MaxCount, NEW i \in 1..MaxCount,
         anchor = [seq |-> Transfer(p)!Seqn(a), time |-> a]
  PROVE  Transfer(p)!Timestamp(Transfer(p)!Seqn(i)) = i
<1>1. SeqSpace \in Nat \ {0} /\ MaxCount \in Nat /\ 2 * MaxCount < SeqSpace
  BY TransferFacts
<1>2. PICK h \in Int : h = (SeqSpace - 1) \div 2
  BY <1>1
<1>3. MaxCount <= h /\ 2 * h < SeqSpace
  BY <1>1, <1>2
<1>4. anchor.seq = Transfer(p)!Seqn(a) /\ anchor.time = a
  OBVIOUS
<1>5. PICK b \in Int : b = (Transfer(p)!Seqn(a) - Transfer(p)!Seqn(i)) % SeqSpace
  <2>1. a \in 0..MaxCount + 1 /\ i \in 0..MaxCount + 1 /\ 0 \in 0..MaxCount
    BY <1>1
  <2>2. Transfer(p)!Seqn(a) \in 0..SeqSpace - 1 /\ Transfer(p)!Seqn(i) \in 0..SeqSpace - 1
    BY <2>1, Numbers
  <2>. QED
    BY <1>1, <2>2
<1>6. Transfer(p)!Backward(Transfer(p)!Seqn(i)) = b
  BY <1>4, <1>5 DEF Transfer!Backward
<1>7. CASE i <= a
  <2>1. PICK d \in 0..MaxCount : d = a - i
    BY <1>1, <1>7
  <2>2. i + d = a /\ i \in 0..MaxCount + 1
    BY <1>1, <2>1
  <2>3. b = d
    BY <1>5, <2>2, Numbers
  <2>4. b <= h /\ a - b = i
    BY <1>1, <1>3, <2>1, <2>3
  <2>. QED
    BY <1>2, <1>4, <1>6, <2>4 DEF Transfer!Timestamp
<1>8. CASE a < i
  <2>1. PICK d \in 0..MaxCount : d = i - a /\ d # 0
    BY <1>1, <1>8
  <2>2. a + d = i /\ a \in 0..MaxCount + 1
    BY <1>1, <2>1
  <2>3. /\ b = SeqSpace - d
        /\ (Transfer(p)!Seqn(i) - Transfer(p)!Seqn(a)) % SeqSpace = d
    BY <1>5, <2>1, <2>2, Numbers
  <2>4. ~(b <= h) /\ a + d = i
    BY <1>1, <1>3, <2>1, <2>2, <2>3
  <2>. QED
    BY <1>2, <1>4, <1>6, <2>3, <2>4 DEF Transfer!Timestamp
<1>. QED
  BY <1>7, <1>8

\* What the invariant shows of a transfer.
LEMMA TransferShows ==
  ASSUME NEW p \in Parts, TransferInv(p)
  PROVE  /\ Transfer(p)!TypeOK /\ Transfer(p)!NoSilentLoss
         /\ Transfer(p)!NothingOverwritten /\ Transfer(p)!DatesTrue
<1>1. Transfer(p)!TypeOK /\ Anchored(p)
  BY DEF TransferInv
<1>2. /\ count \in 0..MaxCount /\ MaxCount \in Nat /\ Capacity \in Nat /\ pending \in Seq(Sensors)
      /\ expected \in [Sensors -> 0..Capacity] /\ remaining \in [Sensors -> 0..Capacity]
      /\ retrieved \in [Sensors -> 0..Capacity] /\ Firmware[p] \in BOOLEAN
      /\ records \subseteq [sensor : Sensors, seq : Transfer(p)!Seqs]
  BY <1>1, TransferFacts DEF Transfer!TypeOK
<1>3. CASE NotBegun(p)
  BY <1>1, <1>3 DEF NotBegun, Transfer!NoSilentLoss, Transfer!NothingOverwritten, Transfer!DatesTrue
<1>4. ASSUME NEW E \in 1..count, Begun(p, E)
      PROVE  Transfer(p)!NoSilentLoss /\ Transfer(p)!NothingOverwritten /\ Transfer(p)!DatesTrue
  <2>1. Transfer(p)!NothingOverwritten
    BY <1>4 DEF Begun, Freezing, Transfer!NothingOverwritten
  <2>2. Transfer(p)!DatesTrue
    <3>1. SUFFICES ASSUME NEW r \in records
                   PROVE  \E k \in 1..count : Transfer(p)!Seqn(k) = r.seq /\ Transfer(p)!Timestamp(r.seq) = k
      BY DEF Transfer!DatesTrue
    <3>2. r.sensor \in Sensors
      BY <1>2
    <3>3. remaining[r.sensor] \in Nat
      BY <1>2, <3>2
    <3>4. PICK i \in 1..E - remaining[r.sensor] : r.seq = Transfer(p)!Seqn(i)
      BY <1>4 DEF Begun, Behind
    <3>5. i \in 1..count /\ i \in 1..MaxCount
      BY <1>2, <3>3, <3>4
    <3>6. PICK a \in 1..MaxCount : anchor = [seq |-> Transfer(p)!Seqn(a), time |-> a]
      BY <1>1, <1>2 DEF Anchored
    <3>7. Transfer(p)!Timestamp(Transfer(p)!Seqn(i)) = i
      BY <3>5, <3>6, Dated
    <3>. QED
      BY <3>4, <3>5, <3>7
  <2>3. ASSUME pc = "done" PROVE Transfer(p)!NoSilentLoss
    <3>1. \A s \in Sensors : /\ retrieved[s] \in Nat /\ remaining[s] \in Nat /\ expected[s] \in Nat
                             /\ retrieved[s] = Cardinality(Got(s)) /\ retrieved[s] + remaining[s] <= expected[s]
      BY <1>2, <1>4 DEF Begun, Counted
    <3>2. retrieved = expected <=> \A s \in Sensors : retrieved[s] = expected[s]
      BY <1>2
    <3>3. ASSUME reported = {} PROVE retrieved = expected
      <4>1. pending = <<>> /\ DOMAIN <<>> = {}
        BY <1>4, <2>3, <3>3 DEF Begun, Unreported
      <4>2. \A s \in Sensors : remaining[s] = 0 /\ retrieved[s] + remaining[s] = expected[s]
        BY <1>4, <3>3, <4>1 DEF Begun, Unreported, Holds
      <4>. QED
        BY <3>1, <3>2, <4>2
    <3>4. ASSUME reported # {} PROVE \E s \in Sensors : retrieved[s] < expected[s]
      <4>1. Missing
        BY <1>4, <3>4 DEF Begun
      <4>2. CASE pending # <<>>
        <5>1. 1 \in DOMAIN pending /\ pending[1] \in Sensors
          BY <1>2, <4>2
        <5>2. remaining[pending[1]] > 0
          BY <1>4, <5>1 DEF Begun, Waiting
        <5>. QED
          BY <3>1, <5>1, <5>2
      <4>. QED
        BY <3>1, <4>1, <4>2 DEF Missing
    <3>5. Transfer(p)!Complete <=> retrieved = expected /\ reported = {}
      BY DEF Transfer!Complete
    <3>6. Transfer(p)!Complete <=> \A s \in Sensors : retrieved[s] = expected[s]
      BY <3>1, <3>2, <3>3, <3>4, <3>5
    <3>7. \A S : Transfer(p)!Cardinality(S) = Cardinality(S)
      BY Zenon DEF Transfer!Cardinality, Cardinality
    <3>8. \A s \in Sensors : Transfer(p)!Cardinality({r \in records : r.sensor = s}) = retrieved[s]
      BY <3>1, <3>7 DEF Got
    <3>. QED
      BY <3>3, <3>5, <3>6, <3>8 DEF Transfer!NoSilentLoss
  <2>4. pc # "done" => Transfer(p)!NoSilentLoss
    BY DEF Transfer!NoSilentLoss
  <2>. QED
    BY <2>1, <2>2, <2>3, <2>4
<1>. QED
  BY <1>1, <1>3, <1>4 DEF TransferInv

-----------------------------------------------------------------------------
(* The transfer's steps. *)

\* What was asked for and received, when no chunk arrives.
LEMMA Untouched ==
  ASSUME NEW p \in Parts, NEW E, Begun(p, E), UNCHANGED <<expected, remaining, nextSeq, retrieved, records>>
  PROVE  Ahead(p, E)' /\ Behind(p, E)' /\ Counted'
<1>1. Ahead(p, E)'
  BY DEF Begun, Ahead, Transfer!Seqn
<1>2. Behind(p, E)'
  BY DEF Begun, Behind, Transfer!Seqn
<1>3. \A s : Got(s)' = Got(s)
  BY DEF Got
<1>4. Counted'
  BY <1>3 DEF Begun, Counted
<1>. QED
  BY <1>1, <1>2, <1>4

\* Nothing happens to what is asked for and received.
LEMMA Standing ==
  ASSUME NEW p \in Parts, Transfer(p)!TypeOK, NEW E \in 1..count, Begun(p, E),
         UNCHANGED <<frozen, expected, remaining, nextSeq, retrieved, records, pending>>,
         pc' # "metadata", count' \in count..MaxCount,
         \/ pc' = pc
         \/ pc' \in {"chunk", "raised"} /\ pc # "done"
         \/ pc' = "done" /\ pending = <<>>
         \/ pc' = "done" /\ reported' # {},
         \/ reported' = reported
         \/ /\ pc' = "done" /\ pending # <<>> /\ reported' # {}
            /\ "overwritten" \in reported' => "overwritten" \in reported
  PROVE  E \in 1..count' /\ Begun(p, E)'
<1>1. MaxCount \in Nat /\ count \in 0..MaxCount /\ Firmware[p] \in BOOLEAN
  BY TransferFacts DEF Transfer!TypeOK
<1>2. E \in 1..count'
  BY <1>1
<1>3. Freezing(p, E)'
  BY DEF Begun, Freezing
<1>4. Ahead(p, E)' /\ Behind(p, E)' /\ Counted'
  BY Untouched
<1>5. Waiting'
  BY DEF Begun, Waiting
<1>6. Unreported'
  BY DEF Begun, Unreported, Holds
<1>7. (reported # {} => Missing)'
  BY DEF Begun, Missing, Holds
<1>8. Refreshing(p, E)'
  <2>1. SUFFICES ASSUME pc' = "refresh" PROVE Refreshing(p, E)'
    BY DEF Refreshing
  <2>2. pc = "refresh"
    BY <2>1
  <2>3. pending # <<>> /\ E + 1 - remaining[Head(pending)] < Transfer(p)!RingOldest(count)
    BY <2>2 DEF Begun, Refreshing
  <2>4. Transfer(p)!RingOldest(count)' = Transfer(p)!RingOldest(count')
    BY DEF Transfer!RingOldest, Transfer!RingCount, Transfer!Lesser
  <2>5. PICK n \in 1..MaxCount, m \in 1..MaxCount : n = count /\ m = count' /\ m \in n..MaxCount
    BY <1>1
  <2>6. Transfer(p)!RingOldest(n) <= Transfer(p)!RingOldest(m)
        /\ Transfer(p)!RingOldest(n) \in Int /\ Transfer(p)!RingOldest(m) \in Int
    BY <2>5, Ring
  <2>7. remaining[Head(pending)] \in Int /\ E \in Int
    <3>1. Head(pending) \in Sensors /\ remaining \in [Sensors -> 0..Capacity]
      BY <2>3 DEF Transfer!TypeOK
    <3>. QED
      BY <1>1, <3>1
  <2>8. E + 1 - remaining[Head(pending)] < Transfer(p)!RingOldest(m)
    BY <2>3, <2>5, <2>6, <2>7
  <2>. QED
    BY <2>3, <2>4, <2>5, <2>8 DEF Refreshing
<1>. QED
  BY <1>2, <1>3, <1>4, <1>5, <1>6, <1>7, <1>8 DEF Begun

\* A sensor is given up.
LEMMA GivenUp ==
  ASSUME NEW p \in Parts, Transfer(p)!TypeOK, NEW E \in 1..count, Begun(p, E), pending # <<>>,
         UNCHANGED <<count, frozen, expected, remaining, nextSeq, retrieved, records>>,
         pending' = Tail(pending), pc' = "chunk",
         reported' # {}, "overwritten" \in reported' => "overwritten" \in reported
  PROVE  Begun(p, E)' /\ pending' \in Seq(Sensors) /\ Distinct(pending')
<1>1. PICK S : S = Sensors
  OBVIOUS
<1>2. PICK q \in Seq(S) : q = pending /\ q # <<>> /\ Distinct(q)
  BY <1>1 DEF Transfer!TypeOK, Distinct
<1>3. /\ Head(q) \in S /\ Holds(q, Head(q)) /\ Head(q) = q[1]
      /\ Tail(q) \in Seq(S) /\ Distinct(Tail(q)) /\ ~Holds(Tail(q), Head(q))
      /\ \A s : Holds(Tail(q), s) <=> Holds(q, s) /\ s # Head(q)
  BY <1>2, HeadDropped
<1>4. Freezing(p, E)'
  BY DEF Begun, Freezing
<1>5. Ahead(p, E)' /\ Behind(p, E)' /\ Counted'
  BY Untouched
<1>6. Waiting'
  <2>1. \A s : Holds(q, s) => remaining[s] > 0
    BY <1>2 DEF Begun, Waiting, Holds
  <2>2. \A s : Holds(Tail(q), s) => remaining[s] > 0
    BY <1>3, <2>1
  <2>3. \A i \in DOMAIN Tail(q) : Holds(Tail(q), Tail(q)[i])
    BY DEF Holds
  <2>. QED
    BY <1>2, <2>2, <2>3 DEF Waiting
<1>7. Unreported'
  BY DEF Unreported
<1>8. Missing'
  <2>1. remaining[Head(q)] > 0
    BY <1>2, <1>3 DEF Begun, Waiting, Holds
  <2>2. ~Holds(pending', Head(q))
    BY <1>2, <1>3
  <2>. QED
    BY <1>1, <1>3, <2>1, <2>2 DEF Missing, Holds
<1>9. Refreshing(p, E)'
  BY DEF Refreshing
<1>. QED
  BY <1>1, <1>2, <1>3, <1>4, <1>5, <1>6, <1>7, <1>8, <1>9 DEF Begun

\* The anchor stays one.
LEMMA AnchorKept ==
  ASSUME NEW p \in Parts, Transfer(p)!TypeOK, Anchored(p), anchor' = anchor, count' \in count..MaxCount
  PROVE  Anchored(p)'
<1>1. MaxCount \in Nat /\ count \in 0..MaxCount
  BY TransferFacts DEF Transfer!TypeOK
<1>2. PICK a \in 1..count : anchor = [seq |-> Transfer(p)!Seqn(a), time |-> a]
  BY DEF Anchored
<1>3. a \in 1..count'
  BY <1>1
<1>. QED
  BY <1>2, <1>3 DEF Anchored, Transfer!Seqn

\* Everything but a part of the state the types say little about.
LEMMA TypesStand ==
  ASSUME NEW p \in Parts, Transfer(p)!TypeOK,
         UNCHANGED <<anchor, expected, pending, remaining, nextSeq, retrieved, records>>,
         count' \in 0..MaxCount, frozen' \in 0..MaxCount, linkUp' \in BOOLEAN, expired' \in BOOLEAN,
         pc' \in {"metadata", "anchor", "chunk", "refresh", "done", "raised"}, attempt' \in 0..Retries,
         reported' \subseteq {"overwritten", "error", "refresh", "budget"}, broken' \in 0..MaxBroken
  PROVE  Transfer(p)!TypeOK'
BY DEF Transfer!TypeOK, Transfer!Seqs

\* The device samples, the link fails, the budget ends.
LEMMA SampleKeeps ==
  ASSUME NEW p \in Parts, TransferInv(p),
         \/ Transfer(p)!Sample \/ Transfer(p)!LinkLost \/ Transfer(p)!Expire
         \/ UNCHANGED transferVars
  PROVE  TransferInv(p)'
<1>1. Transfer(p)!TypeOK /\ Anchored(p)
  BY DEF TransferInv
<1>2. /\ MaxCount \in Nat /\ count \in 0..MaxCount /\ frozen \in 0..MaxCount
      /\ linkUp \in BOOLEAN /\ expired \in BOOLEAN /\ attempt \in 0..Retries /\ broken \in 0..MaxBroken
      /\ pc \in {"metadata", "anchor", "chunk", "refresh", "done", "raised"}
      /\ reported \subseteq {"overwritten", "error", "refresh", "budget"}
  BY <1>1, TransferFacts DEF Transfer!TypeOK
<1>3. /\ UNCHANGED <<frozen, anchor, expected, pending, remaining, nextSeq, retrieved, records>>
      /\ UNCHANGED <<pc, attempt, reported, broken>>
  BY DEF Transfer!Sample, Transfer!LinkLost, Transfer!Expire, transferVars, Transfer!transfer
<1>4. count' \in count..MaxCount /\ count' \in 0..MaxCount
  BY <1>2 DEF Transfer!Sample, Transfer!LinkLost, Transfer!Expire, transferVars
<1>5. linkUp' \in BOOLEAN /\ expired' \in BOOLEAN
  BY <1>2 DEF Transfer!Sample, Transfer!LinkLost, Transfer!Expire, transferVars
<1>6. Transfer(p)!TypeOK'
  BY <1>1, <1>2, <1>3, <1>4, <1>5, TypesStand
<1>7. Anchored(p)'
  BY <1>1, <1>3, <1>4, AnchorKept
<1>8. NotBegun(p) => NotBegun(p)'
  BY <1>3 DEF NotBegun, Transfer!Nothing
<1>9. ASSUME NEW E \in 1..count, Begun(p, E) PROVE E \in 1..count' /\ Begun(p, E)'
  <2>1. pc # "metadata"
    BY <1>9 DEF Begun
  <2>. QED
    BY <1>1, <1>3, <1>4, <1>9, <2>1, Standing
<1>. QED
  BY <1>6, <1>7, <1>8, <1>9 DEF TransferInv

\* A failed call is counted up to the bound.
LEMMA FaultCounted ==
  ASSUME NEW p \in Parts, Transfer(p)!TypeOK,
         \/ Transfer(p)!Raises /\ Transfer(p)!CountFault
         \/ UNCHANGED broken
  PROVE  broken' \in 0..MaxBroken
<1>1. MaxBroken \in Nat /\ broken \in 0..MaxBroken
  BY TransferFacts DEF Transfer!TypeOK
<1>. QED
  BY <1>1 DEF Transfer!Raises, Transfer!CountFault

\* The transfer ends, or finds its record overwritten: only in rings that move on.
LEMMA EndsEarlyKeeps ==
  ASSUME NEW p \in Parts, TransferInv(p),
         Transfer(p)!EndsEarly \/ Transfer(p)!Finish \/ Transfer(p)!ChunkNotAvailable
  PROVE  TransferInv(p)'
<1>1. Transfer(p)!TypeOK /\ Anchored(p)
  BY DEF TransferInv
<1>2. /\ MaxCount \in Nat /\ count \in 0..MaxCount /\ frozen \in 0..MaxCount /\ Retries \in Nat
      /\ linkUp \in BOOLEAN /\ expired \in BOOLEAN /\ attempt \in 0..Retries /\ broken \in 0..MaxBroken
      /\ pc \in {"metadata", "anchor", "chunk", "refresh", "done", "raised"}
      /\ reported \subseteq {"overwritten", "error", "refresh", "budget"}
  BY <1>1, TransferFacts DEF Transfer!TypeOK
<1>3. /\ UNCHANGED <<frozen, anchor, expected, pending, remaining, nextSeq, retrieved, records>>
      /\ UNCHANGED <<count, linkUp, expired>>
  BY DEF Transfer!EndsEarly, Transfer!Finish, Transfer!ChunkNotAvailable, Transfer!transfer, Transfer!device
<1>4. count' \in count..MaxCount /\ count' \in 0..MaxCount
  BY <1>2, <1>3
<1>5. Anchored(p)'
  BY <1>1, <1>3, <1>4, AnchorKept
<1>6. CASE Transfer(p)!EndsEarly
  <2>1. pc \in {"metadata", "anchor"} /\ pc' = "raised" /\ UNCHANGED <<attempt, reported>>
    BY <1>6 DEF Transfer!EndsEarly
  <2>2. broken' \in 0..MaxBroken
    BY <1>1, <1>6, FaultCounted DEF Transfer!EndsEarly
  <2>3. Transfer(p)!TypeOK'
    BY <1>1, <1>2, <1>3, <1>4, <2>1, <2>2, TypesStand
  <2>4. NotBegun(p) => NotBegun(p)'
    BY <1>3, <2>1 DEF NotBegun, Transfer!Nothing
  <2>5. ASSUME NEW E \in 1..count, Begun(p, E) PROVE E \in 1..count' /\ Begun(p, E)'
    BY <1>1, <1>3, <1>4, <2>1, <2>5, Standing
  <2>. QED
    BY <1>5, <2>3, <2>4, <2>5 DEF TransferInv
<1>7. CASE Transfer(p)!Finish
  <2>1. /\ pc = "chunk" /\ pc' = "done" /\ UNCHANGED <<attempt, broken>>
        /\ pending # <<>> => reported' = reported \cup {"budget"}
        /\ pending = <<>> => reported' = reported
    BY <1>7 DEF Transfer!Finish
  <2>2. reported' \subseteq {"overwritten", "error", "refresh", "budget"}
    BY <1>2, <2>1
  <2>3. Transfer(p)!TypeOK'
    BY <1>1, <1>2, <1>3, <1>4, <2>1, <2>2, TypesStand
  <2>4. ~NotBegun(p)
    BY <2>1 DEF NotBegun
  <2>5. ASSUME NEW E \in 1..count, Begun(p, E) PROVE E \in 1..count' /\ Begun(p, E)'
    <3>1. \/ pc' = "done" /\ pending = <<>> /\ reported' = reported
          \/ /\ pc' = "done" /\ pending # <<>> /\ reported' # {}
             /\ "overwritten" \in reported' => "overwritten" \in reported
      BY <2>1
    <3>. QED
      BY <1>1, <1>3, <1>4, <2>1, <2>5, <3>1, Standing
  <2>. QED
    BY <1>5, <2>3, <2>4, <2>5 DEF TransferInv
<1>8. CASE Transfer(p)!ChunkNotAvailable
  <2>1. /\ pc = "chunk" /\ pending # <<>> /\ pc' = "refresh" /\ attempt' = 0 /\ UNCHANGED <<broken, reported>>
        /\ Transfer(p)!Find(nextSeq[Head(pending)]) = 0
    BY <1>8 DEF Transfer!ChunkNotAvailable, Transfer!Reading, Transfer!Sensor
  <2>2. Transfer(p)!TypeOK'
    BY <1>1, <1>2, <1>3, <1>4, <2>1, TypesStand
  <2>3. ~NotBegun(p)
    BY <2>1 DEF NotBegun
  <2>4. ASSUME NEW E \in 1..count, Begun(p, E) PROVE E \in 1..count' /\ Begun(p, E)'
    <3>1. PICK k \in 1..E : k = E + 1 - remaining[Head(pending)]
      BY <1>1, <2>1, <2>4, NextAsked
    <3>2. /\ Transfer(p)!Find(nextSeq[Head(pending)]) = IF k >= Transfer(p)!RingOldest(Transfer(p)!Served) THEN k ELSE 0
          /\ Firmware[p] => Transfer(p)!Served = E
          /\ ~Firmware[p] => Transfer(p)!Served = count
          /\ remaining[Head(pending)] \in 1..E /\ remaining[Head(pending)] <= Capacity
      BY <1>1, <2>1, <2>4, <3>1, NextAsked
    <3>3. ~(k >= Transfer(p)!RingOldest(Transfer(p)!Served))
      BY <2>1, <3>1, <3>2
    <3>4. PICK n \in 1..MaxCount, e \in 1..MaxCount : n = count /\ e = E
      BY <1>2
    <3>5. /\ Transfer(p)!RingOldest(n) \in 1..n
          /\ \A r \in 0..Capacity : r <= e => e + 1 - r >= Transfer(p)!RingOldest(e)
      BY Ring
    <3>6. ~Firmware[p]
      <4>1. Capacity \in Nat
        BY TransferFacts
      <4>2. k >= Transfer(p)!RingOldest(E)
        BY <3>1, <3>2, <3>4, <3>5, <4>1
      <4>. QED
        BY <3>2, <3>3, <4>2
    <3>7. k < Transfer(p)!RingOldest(count)
      BY <3>2, <3>3, <3>4, <3>5, <3>6
    <3>8. Refreshing(p, E)'
      BY <1>3, <2>1, <3>1, <3>7 DEF Refreshing, Transfer!RingOldest, Transfer!RingCount, Transfer!Lesser
    <3>9. Freezing(p, E)'
      BY <1>3, <2>4, <3>6 DEF Begun, Freezing
    <3>10. Ahead(p, E)' /\ Behind(p, E)' /\ Counted'
      BY <1>3, <2>4, Untouched
    <3>11. Waiting' /\ Unreported' /\ (reported # {} => Missing)'
      BY <1>3, <2>1, <2>4 DEF Begun, Waiting, Unreported, Missing, Holds
    <3>. QED
      BY <1>3, <2>1, <3>8, <3>9, <3>10, <3>11 DEF Begun
  <2>. QED
    BY <1>5, <2>2, <2>3, <2>4 DEF TransferInv
<1>. QED
  BY <1>6, <1>7, <1>8

\* The metadata announce the whole ring.
LEMMA MetadataKeeps ==
  ASSUME NEW p \in Parts, TransferInv(p), Transfer(p)!Metadata
  PROVE  TransferInv(p)'
<1>1. Transfer(p)!TypeOK /\ Anchored(p) /\ pc = "metadata" /\ NotBegun(p)
  BY DEF TransferInv, Transfer!Metadata, Begun
<1>2. /\ MaxCount \in Nat /\ Capacity \in Nat \ {0} /\ SeqSpace \in Nat \ {0} /\ Firmware[p] \in BOOLEAN
      /\ Sensors = 1..Cardinality(Sensors) /\ IsFiniteSet(Sensors)
      /\ count \in 0..MaxCount /\ linkUp \in BOOLEAN /\ expired \in BOOLEAN
      /\ attempt \in 0..Retries /\ broken \in 0..MaxBroken
  BY <1>1, TransferFacts DEF Transfer!TypeOK
<1>3. PICK E \in 1..MaxCount : E = count /\ E \in 1..count
  BY <1>1, <1>2 DEF Anchored
<1>4. PICK n \in 1..Capacity : n = Transfer(p)!RingCount(E) /\ n <= E /\ Transfer(p)!RingOldest(E) = E - n + 1
  BY Ring
<1>5. PICK o \in 0..SeqSpace - 1 : o = Transfer(p)!Seqn(E + 1 - n)
  <2>1. PICK k \in 0..MaxCount + 1 : k = E + 1 - n
    BY <1>2, <1>4
  <2>2. 0 \in 0..MaxCount
    BY <1>2
  <2>. QED
    BY <2>1, <2>2, Numbers
<1>6. Transfer(p)!RingOldest(count) = E + 1 - n /\ Transfer(p)!RingCount(count) = n
  BY <1>2, <1>3, <1>4
<1>7. /\ expected' = [s \in Sensors |-> n] /\ remaining' = [s \in Sensors |-> n]
      /\ nextSeq' = [s \in Sensors |-> o] /\ pending' = [s \in Sensors |-> s]
  <2>1. n > 0
    BY <1>2
  <2>. QED
    BY <1>5, <1>6, <2>1 DEF Transfer!Metadata
<1>8. /\ pc' \in {"anchor", "chunk"} /\ frozen' = IF Firmware[p] THEN count ELSE 0
      /\ UNCHANGED <<count, linkUp, expired, anchor, retrieved, records, attempt, reported, broken>>
  BY DEF Transfer!Metadata, Transfer!Freeze
<1>9. pending' \in Seq(Sensors) /\ DOMAIN pending' = Sensors /\ \A s \in Sensors : pending'[s] = s
  <2>1. PICK N \in Nat : N = Cardinality(Sensors)
    BY <1>2, FS_CardinalityType
  <2>2. [s \in 1..N |-> s] \in Seq(1..N)
    OBVIOUS
  <2>3. pending' \in Seq(Sensors)
    BY <1>2, <1>7, <2>1, <2>2
  <2>. QED
    BY <1>7, <2>3
<1>10. /\ retrieved' \in [Sensors -> 0..Capacity] /\ \A s \in Sensors : retrieved'[s] = 0
       /\ records' = {} /\ reported' = {}
  BY <1>1, <1>2, <1>8 DEF NotBegun, Transfer!Nothing
<1>11. Transfer(p)!TypeOK'
  <2>1. count' \in 0..MaxCount /\ attempt' \in 0..Retries /\ broken' \in 0..MaxBroken
    BY <1>2, <1>8
  <2>2. linkUp' \in BOOLEAN /\ expired' \in BOOLEAN
    BY <1>2, <1>8
  <2>3. frozen' \in 0..MaxCount
    BY <1>2, <1>8
  <2>4. expected' \in [Sensors -> 0..Capacity] /\ remaining' \in [Sensors -> 0..Capacity]
    BY <1>2, <1>7
  <2>5. nextSeq' \in [Sensors -> Transfer(p)!Seqs']
    BY <1>2, <1>7 DEF Transfer!Seqs
  <2>6. anchor' \in [seq : Transfer(p)!Seqs', time : Nat]
    BY <1>1, <1>8 DEF Transfer!TypeOK, Transfer!Seqs
  <2>7. \A i, j \in DOMAIN pending' : pending'[i] = pending'[j] => i = j
    BY <1>9
  <2>8. pc' \in {"metadata", "anchor", "chunk", "refresh", "done", "raised"}
    BY <1>8
  <2>. QED
    BY <1>9, <1>10, <2>1, <2>2, <2>3, <2>4, <2>5, <2>6, <2>7, <2>8 DEF Transfer!TypeOK
<1>12. Anchored(p)'
  <2>1. count' \in count..MaxCount
    BY <1>2, <1>8
  <2>. QED
    BY <1>1, <1>8, <2>1, AnchorKept
<1>13. \A s \in Sensors : expected'[s] = n /\ remaining'[s] = n /\ nextSeq'[s] = o
  BY <1>7
<1>14. Ahead(p, E)'
  BY <1>4, <1>5, <1>13 DEF Ahead, Transfer!Seqn
<1>15. Behind(p, E)' /\ Freezing(p, E)'
  BY <1>3, <1>8, <1>10 DEF Behind, Freezing
<1>16. Counted'
  <2>1. \A s \in Sensors : Got(s)' = {}
    BY <1>10 DEF Got
  <2>2. IsFiniteSet({}) /\ Cardinality({}) = 0
    BY FS_EmptySet
  <2>3. \A s \in Sensors : retrieved'[s] + remaining'[s] <= expected'[s]
    BY <1>10, <1>13
  <2>. QED
    BY <1>10, <2>1, <2>2, <2>3 DEF Counted
<1>17. Waiting'
  BY <1>9, <1>13 DEF Waiting
<1>18. Unreported'
  <2>1. \A s \in Sensors : retrieved'[s] + remaining'[s] = expected'[s]
    BY <1>10, <1>13
  <2>2. \A s \in Sensors : Holds(pending, s)'
    BY <1>9 DEF Holds
  <2>. QED
    BY <1>8, <2>1, <2>2 DEF Unreported
<1>19. Begun(p, E)'
  BY <1>8, <1>10, <1>14, <1>15, <1>16, <1>17, <1>18 DEF Begun, Refreshing
<1>20. E \in 1..count'
  BY <1>3, <1>8
<1>. QED
  BY <1>11, <1>12, <1>19, <1>20 DEF TransferInv

\* A new anchor is the newest record and its second.
LEMMA AnchorKeeps ==
  ASSUME NEW p \in Parts, TransferInv(p), Transfer(p)!Anchor
  PROVE  TransferInv(p)'
<1>1. /\ Transfer(p)!TypeOK /\ Anchored(p) /\ pc = "anchor" /\ pc' = "chunk"
      /\ anchor' = [seq |-> Transfer(p)!Seqn(count), time |-> count]
      /\ UNCHANGED <<count, frozen, linkUp, expired, expected, pending, remaining, nextSeq, retrieved, records>>
      /\ UNCHANGED <<attempt, reported, broken>>
  BY DEF TransferInv, Transfer!Anchor, Transfer!device
<1>2. MaxCount \in Nat /\ SeqSpace \in Nat /\ count \in 0..MaxCount
  BY <1>1, TransferFacts DEF Transfer!TypeOK
<1>3. PICK a \in 1..MaxCount : a = count /\ a \in 1..count
  BY <1>1, <1>2 DEF Anchored
<1>4. Transfer(p)!Seqn(a) \in 0..SeqSpace - 1
  <2>1. a \in 0..MaxCount + 1 /\ 0 \in 0..MaxCount
    BY <1>2
  <2>. QED
    BY <2>1, Numbers
<1>5. anchor' = [seq |-> Transfer(p)!Seqn(a), time |-> a]
  BY <1>1, <1>3
<1>6. anchor' \in [seq : Transfer(p)!Seqs, time : Nat]
  BY <1>2, <1>4, <1>5 DEF Transfer!Seqs
<1>7. Transfer(p)!TypeOK'
  BY <1>1, <1>6 DEF Transfer!TypeOK, Transfer!Seqs
<1>8. Anchored(p)'
  BY <1>1, <1>3, <1>5 DEF Anchored, Transfer!Seqn
<1>9. PICK E \in 1..count : Begun(p, E)
  BY <1>1 DEF TransferInv, NotBegun
<1>10. E \in 1..count' /\ Begun(p, E)'
  <2>1. count' \in count..MaxCount
    BY <1>1, <1>2
  <2>. QED
    BY <1>1, <1>9, <2>1, Standing
<1>. QED
  BY <1>7, <1>8, <1>10 DEF TransferInv

\* A failed call is tried again, or its sensor is given up.
LEMMA RaisesKeeps ==
  ASSUME NEW p \in Parts, TransferInv(p), Transfer(p)!ChunkRaises \/ Transfer(p)!RefreshRaises
  PROVE  TransferInv(p)'
<1>1. /\ Transfer(p)!TypeOK /\ Anchored(p) /\ pc \in {"chunk", "refresh"} /\ pc' = "chunk"
      /\ UNCHANGED <<count, frozen, linkUp, expired, anchor, expected, remaining, nextSeq, retrieved, records>>
  BY DEF TransferInv, Transfer!ChunkRaises, Transfer!RefreshRaises, Transfer!Reading, Transfer!device
<1>2. /\ MaxCount \in Nat /\ Retries \in Nat /\ count \in 0..MaxCount /\ attempt \in 0..Retries
      /\ reported \subseteq {"overwritten", "error", "refresh", "budget"}
      /\ frozen \in 0..MaxCount /\ linkUp \in BOOLEAN /\ expired \in BOOLEAN
  BY <1>1, TransferFacts DEF Transfer!TypeOK
<1>3. PICK E \in 1..count : Begun(p, E)
  BY <1>1 DEF TransferInv, NotBegun
<1>4. count' \in count..MaxCount /\ count' \in 0..MaxCount
  BY <1>1, <1>2
<1>5. Anchored(p)'
  BY <1>1, <1>4, AnchorKept
<1>6. broken' \in 0..MaxBroken
  BY <1>1, FaultCounted DEF Transfer!ChunkRaises, Transfer!RefreshRaises
<1>7. pending # <<>>
  BY <1>3 DEF Begun, Refreshing, Transfer!ChunkRaises, Transfer!RefreshRaises, Transfer!Reading
<1>8. \/ pc = "chunk" /\ attempt' \in 0..Retries /\ UNCHANGED <<pending, reported>>
      \/ /\ attempt' \in 0..Retries /\ pending' = Tail(pending)
         /\ reported' = reported \cup {"error"} \/ reported' = reported \cup {"refresh", "error"}
  BY <1>2 DEF Transfer!ChunkRaises, Transfer!RefreshRaises, Transfer!Reading, Transfer!Drop
<1>9. CASE UNCHANGED <<pending, reported>> /\ attempt' \in 0..Retries /\ pc = "chunk"
  <2>1. Transfer(p)!TypeOK'
    BY <1>1, <1>2, <1>4, <1>6, <1>9, TypesStand
  <2>2. E \in 1..count' /\ Begun(p, E)'
    BY <1>1, <1>3, <1>4, <1>9, Standing
  <2>. QED
    BY <1>5, <2>1, <2>2 DEF TransferInv
<1>10. CASE /\ attempt' \in 0..Retries /\ pending' = Tail(pending)
            /\ reported' = reported \cup {"error"} \/ reported' = reported \cup {"refresh", "error"}
  <2>1. /\ reported' # {} /\ ("overwritten" \in reported' => "overwritten" \in reported)
        /\ reported' \subseteq {"overwritten", "error", "refresh", "budget"}
    BY <1>2, <1>10
  <2>2. Begun(p, E)' /\ pending' \in Seq(Sensors) /\ Distinct(pending')
    BY <1>1, <1>3, <1>7, <1>10, <2>1, GivenUp
  <2>3. Transfer(p)!TypeOK'
    BY <1>1, <1>4, <1>6, <1>10, <2>1, <2>2 DEF Transfer!TypeOK, Transfer!Seqs, Distinct
  <2>4. E \in 1..count'
    BY <1>1
  <2>. QED
    BY <1>5, <2>2, <2>3, <2>4 DEF TransferInv
<1>. QED
  BY <1>8, <1>9, <1>10

\* The records of a chunk.
ChunkRecords(p, h, k, n) == {[sensor |-> h, seq |-> Transfer(p)!Seqn(i)] : i \in k..k + n - 1}

\* They are as many as their numbers, since no two numbers are alike.
LEMMA ChunkCounted ==
  ASSUME NEW p \in Parts, NEW h, NEW k \in 1..MaxCount, NEW n \in 1..MaxCount, k + n - 1 <= MaxCount,
         NEW T, T = ChunkRecords(p, h, k, n)
  PROVE  IsFiniteSet(T) /\ Cardinality(T) = n
<1>1. MaxCount \in Nat
  BY TransferFacts
<1>2. PICK I : I = k..k + n - 1
  OBVIOUS
<1>3. IsFiniteSet(I) /\ Cardinality(I) = n
  <2>1. PICK b \in Int : b = k + n - 1
    BY <1>1
  <2>2. IsFiniteSet(k..b) /\ Cardinality(k..b) = IF k > b THEN 0 ELSE b - k + 1
    BY <1>1, FS_Interval
  <2>. QED
    BY <1>1, <1>2, <2>1, <2>2
<1>4. PICK f : f = [i \in I |-> [sensor |-> h, seq |-> Transfer(p)!Seqn(i)]]
  OBVIOUS
<1>5. DOMAIN f = I /\ \A i \in I : f[i] = [sensor |-> h, seq |-> Transfer(p)!Seqn(i)]
  BY <1>4
<1>6. f \in [I -> T] /\ \A t \in T : \E i \in I : f[i] = t
  BY <1>2, <1>4, <1>5 DEF ChunkRecords
<1>7. \A i, j \in I : f[i] = f[j] => i = j
  <2>1. SUFFICES ASSUME NEW i \in I, NEW j \in I, f[i] = f[j] PROVE i = j
    OBVIOUS
  <2>2. Transfer(p)!Seqn(i) = Transfer(p)!Seqn(j)
    <3>1. f[i].seq = Transfer(p)!Seqn(i) /\ f[j].seq = Transfer(p)!Seqn(j)
      BY <1>5
    <3>. QED
      BY <2>1, <3>1
  <2>3. i \in 1..MaxCount /\ j \in 1..MaxCount
    BY <1>1, <1>2
  <2>. QED
    BY <1>1, <2>2, <2>3, NumbersDiffer
<1>8. f \in Surjection(I, T) /\ f \in Injection(I, T)
  BY <1>6, <1>7 DEF Surjection, Injection, IsInjective
<1>9. IsFiniteSet(T) /\ Cardinality(T) = Cardinality(I)
  BY <1>3, <1>8, FS_Surjection
<1>. QED
  BY <1>3, <1>9

\* A chunk adds as many records as it takes from what is left.
LEMMA ChunkKeeps ==
  ASSUME NEW p \in Parts, TransferInv(p), Transfer(p)!Chunk
  PROVE  TransferInv(p)'
<1>1. /\ Transfer(p)!TypeOK /\ Anchored(p) /\ pc = "chunk" /\ pending # <<>> /\ attempt' = 0
      /\ UNCHANGED <<count, frozen, linkUp, expired, anchor, expected, pc, reported, broken>>
  BY DEF TransferInv, Transfer!Chunk, Transfer!Reading, Transfer!device
<1>2. /\ MaxCount \in Nat /\ Capacity \in Nat \ {0} /\ ChunkSize \in Nat \ {0} /\ SeqSpace \in Nat \ {0}
      /\ Retries \in Nat /\ count \in 0..MaxCount
      /\ expected \in [Sensors -> 0..Capacity] /\ remaining \in [Sensors -> 0..Capacity]
      /\ retrieved \in [Sensors -> 0..Capacity] /\ nextSeq \in [Sensors -> 0..SeqSpace - 1]
      /\ records \subseteq [sensor : Sensors, seq : 0..SeqSpace - 1]
  BY <1>1, TransferFacts DEF Transfer!TypeOK, Transfer!Seqs
<1>3. PICK E \in 1..count : Begun(p, E)
  BY <1>1 DEF TransferInv, NotBegun
<1>4. PICK h \in Sensors : h = Head(pending)
  BY <1>1, <1>3, NextAsked
<1>5. PICK r \in 1..E : r = remaining[h] /\ r <= Capacity /\ nextSeq[h] = Transfer(p)!Seqn(E + 1 - r)
  BY <1>1, <1>3, <1>4, NextAsked
<1>6. PICK k \in 1..E : k = E + 1 - r
  BY <1>5
<1>7. Transfer(p)!Find(nextSeq[h]) = k /\ Transfer(p)!Served \in E..count
  <2>1. Transfer(p)!Find(nextSeq[h]) # 0
    BY <1>4 DEF Transfer!Chunk, Transfer!Sensor
  <2>. QED
    BY <1>1, <1>3, <1>4, <1>5, <1>6, <2>1, NextAsked
<1>8. PICK n \in 1..r : n = Transfer(p)!Lesser(Transfer(p)!Accepted(r), Transfer(p)!Served - k + 1)
  BY <1>2, <1>5, <1>6, <1>7 DEF Transfer!Lesser, Transfer!Accepted
<1>9. PICK T : T = ChunkRecords(p, h, k, n)
  OBVIOUS
<1>10. /\ records' = records \cup T
       /\ retrieved' = [retrieved EXCEPT ![h] = @ + n]
       /\ remaining' = [remaining EXCEPT ![h] = @ - n]
       /\ nextSeq' = [nextSeq EXCEPT ![h] = Transfer(p)!Advance(@, n)]
       /\ remaining'[h] > 0 => pending' = Append(Tail(pending), h)
       /\ ~(remaining'[h] > 0) => pending' = Tail(pending)
  BY <1>4, <1>5, <1>7, <1>8, <1>9 DEF Transfer!Chunk, Transfer!Sensor, Transfer!Turn, Transfer!Keep, ChunkRecords
<1>11. /\ remaining'[h] = r - n /\ \A s \in Sensors \ {h} : remaining'[s] = remaining[s]
       /\ retrieved'[h] = retrieved[h] + n /\ \A s \in Sensors \ {h} : retrieved'[s] = retrieved[s]
       /\ nextSeq'[h] = Transfer(p)!Advance(nextSeq[h], n) /\ \A s \in Sensors \ {h} : nextSeq'[s] = nextSeq[s]
       /\ DOMAIN remaining' = Sensors
  BY <1>2, <1>5, <1>10
<1>12. nextSeq'[h] = Transfer(p)!Seqn(E + 1 - (r - n)) /\ nextSeq'[h] \in 0..SeqSpace - 1
  <2>1. n \in 0..MaxCount /\ k \in 0..MaxCount + 1 /\ k + n = E + 1 - (r - n)
        /\ k + n \in 0..MaxCount + 1 /\ 0 \in 0..MaxCount
    BY <1>2, <1>5, <1>6
  <2>2. (Transfer(p)!Seqn(k) + n) % SeqSpace = Transfer(p)!Seqn(k + n)
    BY <2>1, Numbers
  <2>3. Transfer(p)!Seqn(k + n) \in 0..SeqSpace - 1
    BY <2>1, Numbers
  <2>. QED
    BY <1>5, <1>6, <1>11, <2>1, <2>2, <2>3 DEF Transfer!Advance
<1>13. /\ \A t \in T : t \in [sensor : Sensors, seq : 0..SeqSpace - 1] /\ t.sensor = h
       /\ \A t \in T : \E i \in k..k + n - 1 : t.seq = Transfer(p)!Seqn(i)
  <2>1. \A i \in k..k + n - 1 : Transfer(p)!Seqn(i) \in 0..SeqSpace - 1
    <3>1. SUFFICES ASSUME NEW i \in k..k + n - 1 PROVE Transfer(p)!Seqn(i) \in 0..SeqSpace - 1
      OBVIOUS
    <3>2. i \in 0..MaxCount + 1 /\ 0 \in 0..MaxCount
      BY <1>2, <1>5, <1>6
    <3>. QED
      BY <3>2, Numbers
  <2>. QED
    BY <1>9, <2>1 DEF ChunkRecords
<1>14. IsFiniteSet(T) /\ Cardinality(T) = n
  <2>1. k \in 1..MaxCount /\ n \in 1..MaxCount /\ k + n - 1 <= MaxCount
    BY <1>2, <1>5, <1>6
  <2>. QED
    BY <1>9, <2>1, ChunkCounted
<1>15. Ahead(p, E)'
  <2>1. ASSUME NEW s \in Sensors
        PROVE  remaining'[s] <= E /\ nextSeq'[s] = Transfer(p)!Seqn(E + 1 - remaining'[s])
    <3>1. CASE s = h
      BY <1>5, <1>11, <1>12, <3>1
    <3>2. CASE s # h
      BY <1>3, <1>11, <3>2 DEF Begun, Ahead
    <3>. QED
      BY <3>1, <3>2
  <2>. QED
    BY <2>1 DEF Ahead, Transfer!Seqn
<1>16. Behind(p, E)'
  <2>1. ASSUME NEW x \in records' PROVE \E i \in 1..E - remaining'[x.sensor] : x.seq = Transfer(p)!Seqn(i)
    <3>1. CASE x \in T
      <4>1. PICK i \in k..k + n - 1 : x.seq = Transfer(p)!Seqn(i)
        BY <1>13, <3>1
      <4>2. i \in 1..E - (r - n) /\ x.sensor = h
        BY <1>5, <1>6, <1>13, <3>1
      <4>. QED
        BY <1>11, <4>1, <4>2
    <3>2. CASE x \in records
      <4>1. x.sensor \in Sensors
        BY <1>2, <3>2
      <4>2. PICK i \in 1..E - remaining[x.sensor] : x.seq = Transfer(p)!Seqn(i)
        BY <1>3, <3>2 DEF Begun, Behind
      <4>3. remaining[x.sensor] \in Nat /\ remaining'[x.sensor] \in Int /\ remaining'[x.sensor] <= remaining[x.sensor]
        BY <1>2, <1>5, <1>11, <4>1
      <4>4. i \in 1..E - remaining'[x.sensor]
        BY <4>3
      <4>. QED
        BY <4>2, <4>4
    <3>. QED
      BY <1>10, <3>1, <3>2
  <2>. QED
    BY <2>1 DEF Behind, Transfer!Seqn
<1>17. \A s \in Sensors : Cardinality(Got(s)') = retrieved'[s]
  <2>1. \A s \in Sensors : retrieved[s] = Cardinality(Got(s)) /\ retrieved[s] \in Nat
    BY <1>2, <1>3 DEF Begun, Counted
  <2>2. ASSUME NEW s \in Sensors, s # h PROVE Got(s)' = Got(s)
    BY <1>10, <1>13, <2>2 DEF Got
  <2>3. PICK G : G = Got(h)
    OBVIOUS
  <2>4. IsFiniteSet(G)
    <3>1. PICK R : R = records
      OBVIOUS
    <3>2. IsFiniteSet(R) /\ G \in SUBSET R
      BY <1>3, <2>3, <3>1 DEF Begun, Counted, Got
    <3>. QED
      BY <3>2, FS_Subset
  <2>5. Got(h)' = G \cup T
    BY <1>10, <1>13, <2>3 DEF Got
  <2>6. G \cap T = {}
    <3>1. SUFFICES ASSUME NEW x \in G, x \in T PROVE FALSE
      OBVIOUS
    <3>2. x \in records /\ x.sensor = h
      BY <2>3 DEF Got
    <3>3. PICK i \in 1..E - r : x.seq = Transfer(p)!Seqn(i)
      BY <1>3, <1>5, <3>2 DEF Begun, Behind
    <3>4. PICK j \in k..k + n - 1 : x.seq = Transfer(p)!Seqn(j)
      BY <1>13, <3>1
    <3>5. i \in 0..MaxCount + 1 /\ j \in 0..MaxCount + 1 /\ i # 0 /\ j # 0 /\ i # j
      BY <1>2, <1>5, <1>6
    <3>6. Transfer(p)!Seqn(i) = Transfer(p)!Seqn(j)
      BY <3>3, <3>4
    <3>. QED
      BY <3>5, <3>6, NumbersDiffer
  <2>7. Cardinality(G \cup T) = Cardinality(G) + Cardinality(T) - Cardinality(G \cap T)
    BY <1>14, <2>4, FS_Union
  <2>8. Cardinality({}) = 0
    BY FS_EmptySet
  <2>9. Cardinality(Got(h)') = retrieved[h] + n
    BY <1>14, <2>1, <2>3, <2>5, <2>6, <2>7, <2>8
  <2>. QED
    BY <1>11, <2>1, <2>2, <2>9
<1>18. \A s \in Sensors : /\ retrieved'[s] \in Nat /\ remaining'[s] \in Nat /\ expected'[s] = expected[s]
                          /\ retrieved'[s] + remaining'[s] = retrieved[s] + remaining[s]
                          /\ remaining'[s] <= remaining[s]
  <2>1. SUFFICES ASSUME NEW s \in Sensors
                 PROVE  /\ retrieved'[s] \in Nat /\ remaining'[s] \in Nat /\ expected'[s] = expected[s]
                        /\ retrieved'[s] + remaining'[s] = retrieved[s] + remaining[s]
                        /\ remaining'[s] <= remaining[s]
    OBVIOUS
  <2>2. PICK a \in Nat, b \in Nat : a = retrieved[s] /\ b = remaining[s]
    BY <1>2
  <2>3. expected' = expected
    BY <1>1
  <2>4. CASE s = h
    <3>1. retrieved'[s] = a + n /\ remaining'[s] = r - n /\ b = r
      BY <1>5, <1>11, <2>2, <2>4
    <3>. QED
      BY <2>2, <2>3, <3>1
  <2>5. CASE s # h
    BY <1>11, <2>2, <2>3, <2>5
  <2>. QED
    BY <2>4, <2>5
<1>19. Counted'
  <2>1. IsFiniteSet(records')
    <3>1. PICK R : R = records
      OBVIOUS
    <3>2. IsFiniteSet(R)
      BY <1>3, <3>1 DEF Begun, Counted
    <3>3. IsFiniteSet(R \cup T)
      BY <1>14, <3>2, FS_Union
    <3>. QED
      BY <1>10, <3>1, <3>3
  <2>2. \A s \in Sensors : retrieved'[s] + remaining'[s] <= expected'[s]
    BY <1>3, <1>18 DEF Begun, Counted
  <2>. QED
    BY <1>17, <2>1, <2>2 DEF Counted
<1>20. /\ pending' \in Seq(Sensors) /\ Distinct(pending')
       /\ \A s : Holds(pending', s) <=> Holds(pending, s) /\ (s = h => remaining'[h] > 0)
  <2>1. PICK S : S = Sensors
    OBVIOUS
  <2>2. PICK q \in Seq(S) : q = pending /\ q # <<>> /\ Distinct(q)
    BY <1>1, <2>1 DEF Transfer!TypeOK, Distinct
  <2>3. /\ Head(q) \in S /\ Holds(q, Head(q)) /\ Head(q) = h
        /\ Tail(q) \in Seq(S) /\ Distinct(Tail(q)) /\ ~Holds(Tail(q), Head(q))
        /\ \A s : Holds(Tail(q), s) <=> Holds(q, s) /\ s # Head(q)
    BY <1>4, <2>2, HeadDropped
  <2>4. PICK t \in Seq(S) : t = Tail(q)
    BY <2>3
  <2>5. CASE remaining'[h] > 0
    <3>1. /\ Append(t, h) \in Seq(S) /\ Distinct(Append(t, h))
          /\ \A s : Holds(Append(t, h), s) <=> Holds(t, s) \/ s = h
      BY <2>1, <2>3, <2>4, HeadTurned
    <3>2. pending' = Append(t, h)
      BY <1>10, <2>2, <2>4, <2>5
    <3>. QED
      BY <2>1, <2>2, <2>3, <2>4, <2>5, <3>1, <3>2
  <2>6. CASE ~(remaining'[h] > 0)
    <3>1. pending' = t
      BY <1>10, <2>2, <2>4, <2>6
    <3>. QED
      BY <2>1, <2>2, <2>3, <2>4, <2>6, <3>1
  <2>. QED
    BY <2>5, <2>6
<1>21. Waiting'
  <2>1. \A s : Holds(pending, s) => remaining[s] > 0
    BY <1>3 DEF Begun, Waiting, Holds
  <2>2. \A i \in DOMAIN pending' : Holds(pending', pending'[i]) /\ pending'[i] \in Sensors
    BY <1>20 DEF Holds
  <2>3. \A s \in Sensors : Holds(pending', s) => remaining'[s] > 0
    BY <1>11, <1>20, <2>1
  <2>. QED
    BY <2>2, <2>3 DEF Waiting
<1>22. \A s \in Sensors : (Holds(pending', s) \/ remaining'[s] = 0) <=> (Holds(pending, s) \/ remaining[s] = 0)
  <2>1. Holds(pending, h)
    BY <1>1, <1>3, <1>4, NextAsked DEF Holds, Transfer!TypeOK
  <2>2. remaining'[h] > 0 \/ remaining'[h] = 0
    BY <1>18
  <2>. QED
    BY <1>11, <1>20, <2>1, <2>2
<1>23. Unreported'
  <2>1. SUFFICES ASSUME reported = {}
                 PROVE  /\ \A s \in Sensors : retrieved'[s] + remaining'[s] = expected'[s]
                        /\ \A s \in Sensors : Holds(pending', s) \/ remaining'[s] = 0
    BY <1>1 DEF Unreported, Holds
  <2>. QED
    BY <1>3, <1>18, <1>22, <2>1 DEF Begun, Unreported
<1>24. (reported # {} => Missing)'
  <2>1. SUFFICES ASSUME reported # {} PROVE Missing'
    BY <1>1
  <2>2. Missing
    BY <1>3, <2>1 DEF Begun
  <2>3. \A s \in Sensors : remaining[s] \in Nat /\ remaining'[s] \in Nat
    BY <1>2, <1>18
  <2>4. \/ \E s \in Sensors : retrieved'[s] + remaining'[s] < expected'[s]
        \/ \E s \in Sensors : remaining'[s] > 0 /\ ~Holds(pending', s)
    BY <1>1, <1>18, <1>22, <2>2, <2>3 DEF Missing
  <2>. QED
    BY <2>4 DEF Missing, Holds
<1>25. Begun(p, E)'
  <2>1. Freezing(p, E)'
    BY <1>1, <1>3 DEF Begun, Freezing
  <2>. QED
    BY <1>1, <1>15, <1>16, <1>19, <1>21, <1>23, <1>24, <2>1 DEF Begun, Refreshing
<1>26. Transfer(p)!TypeOK'
  <2>1. remaining' \in [Sensors -> 0..Capacity] /\ retrieved' \in [Sensors -> 0..Capacity]
    <3>1. \A s \in Sensors : remaining'[s] \in 0..Capacity /\ retrieved'[s] \in 0..Capacity
      <4>1. SUFFICES ASSUME NEW s \in Sensors PROVE remaining'[s] \in 0..Capacity /\ retrieved'[s] \in 0..Capacity
        OBVIOUS
      <4>2. retrieved'[s] + remaining'[s] <= expected[s] /\ expected[s] \in 0..Capacity
        BY <1>2, <1>18, <1>19 DEF Counted
      <4>. QED
        BY <1>2, <1>18, <4>2
    <3>. QED
      BY <1>2, <1>10, <3>1
  <2>2. nextSeq' \in [Sensors -> 0..SeqSpace - 1]
    BY <1>2, <1>10, <1>11, <1>12
  <2>3. records' \subseteq [sensor : Sensors, seq : 0..SeqSpace - 1]
    BY <1>2, <1>10, <1>13
  <2>4. attempt' \in 0..Retries
    BY <1>1, <1>2
  <2>. QED
    BY <1>1, <1>20, <2>1, <2>2, <2>3, <2>4 DEF Transfer!TypeOK, Transfer!Seqs, Distinct
<1>27. Anchored(p)' /\ E \in 1..count'
  <2>1. count' \in count..MaxCount
    BY <1>1, <1>2
  <2>. QED
    BY <1>1, <2>1, AnchorKept
<1>. QED
  BY <1>25, <1>26, <1>27 DEF TransferInv

\* Refreshed metadata skip what was overwritten, or give the sensor up.
LEMMA RefreshKeeps ==
  ASSUME NEW p \in Parts, TransferInv(p), Transfer(p)!Refresh
  PROVE  TransferInv(p)'
<1>1. /\ Transfer(p)!TypeOK /\ Anchored(p) /\ pc = "refresh" /\ pc' = "chunk"
      /\ UNCHANGED <<count, linkUp, expired, anchor, expected, retrieved, records, attempt, broken>>
  BY DEF TransferInv, Transfer!Refresh
<1>2. /\ MaxCount \in Nat /\ Capacity \in Nat \ {0} /\ SeqSpace \in Nat \ {0}
      /\ count \in 0..MaxCount
      /\ expected \in [Sensors -> 0..Capacity] /\ remaining \in [Sensors -> 0..Capacity]
      /\ retrieved \in [Sensors -> 0..Capacity] /\ nextSeq \in [Sensors -> 0..SeqSpace - 1]
      /\ reported \subseteq {"overwritten", "error", "refresh", "budget"}
      /\ records \subseteq [sensor : Sensors, seq : Transfer(p)!Seqs]
  BY <1>1, TransferFacts DEF Transfer!TypeOK, Transfer!Seqs
<1>3. PICK E \in 1..count : Begun(p, E)
  BY <1>1 DEF TransferInv, NotBegun
<1>4. ~Firmware[p] /\ frozen = 0 /\ frozen' = 0 /\ pending # <<>>
  <2>1. ~Firmware[p] /\ frozen = 0 /\ pending # <<>>
    BY <1>1, <1>3 DEF Begun, Freezing, Refreshing
  <2>. QED
    BY <2>1 DEF Transfer!Refresh, Transfer!Freeze
<1>5. PICK h \in Sensors : h = Head(pending)
  BY <1>1, <1>3, <1>4, NextAsked
<1>6. PICK r \in 1..E : r = remaining[h] /\ r <= Capacity /\ nextSeq[h] = Transfer(p)!Seqn(E + 1 - r)
  BY <1>1, <1>3, <1>4, <1>5, NextAsked
<1>7. PICK k \in 1..E : k = E + 1 - r
  BY <1>6
<1>8. PICK c \in 1..MaxCount : c = count
  BY <1>2
<1>9. PICK o \in 1..c : o = Transfer(p)!RingOldest(c)
  BY Ring
<1>10. k < o
  BY <1>1, <1>3, <1>5, <1>6, <1>7, <1>8, <1>9 DEF Begun, Refreshing
<1>11. PICK d \in 1..MaxCount : d = o - k
  BY <1>2, <1>8, <1>10
<1>12. Transfer(p)!Lost(nextSeq[h]) = d /\ Transfer(p)!Seqn(o) \in 0..SeqSpace - 1
  <2>1. k \in 0..MaxCount + 1 /\ o \in 0..MaxCount + 1 /\ d \in 0..MaxCount /\ k + d = o /\ 0 \in 0..MaxCount
    BY <1>2, <1>8, <1>11
  <2>2. (Transfer(p)!Seqn(k + d) - Transfer(p)!Seqn(k)) % SeqSpace = d
    BY <2>1, Numbers
  <2>3. Transfer(p)!Seqn(o) \in 0..SeqSpace - 1
    BY <2>1, Numbers
  <2>. QED
    BY <1>6, <1>7, <1>8, <1>9, <2>1, <2>2, <2>3 DEF Transfer!Lost
<1>13. count' \in count..MaxCount /\ count' \in 0..MaxCount /\ E \in 1..count'
  BY <1>1, <1>2
<1>14. Anchored(p)'
  BY <1>1, <1>13, AnchorKept
<1>15. CASE ~(d < r)
  <2>1. /\ pending' = Tail(pending) /\ reported' = reported \cup {"error"}
        /\ UNCHANGED <<remaining, nextSeq>>
    BY <1>5, <1>6, <1>12, <1>15 DEF Transfer!Refresh, Transfer!Sensor, Transfer!Drop
  <2>2. /\ reported' # {} /\ ("overwritten" \in reported' => "overwritten" \in reported)
        /\ reported' \subseteq {"overwritten", "error", "refresh", "budget"}
    BY <1>2, <2>1
  <2>3. Begun(p, E)' /\ pending' \in Seq(Sensors) /\ Distinct(pending')
    BY <1>1, <1>3, <1>4, <2>1, <2>2, GivenUp
  <2>4. frozen' \in 0..MaxCount
    BY <1>2, <1>4
  <2>5. Transfer(p)!TypeOK'
    BY <1>1, <2>1, <2>2, <2>3, <2>4 DEF Transfer!TypeOK, Transfer!Seqs, Distinct
  <2>. QED
    BY <1>13, <1>14, <2>3, <2>5 DEF TransferInv
<1>16. CASE d < r
  <2>1. /\ remaining' = [remaining EXCEPT ![h] = @ - d]
        /\ nextSeq' = [nextSeq EXCEPT ![h] = Transfer(p)!Seqn(o)]
        /\ pending' = Append(Tail(pending), h)
        /\ reported' = reported \cup {"overwritten"}
    BY <1>5, <1>6, <1>8, <1>9, <1>11, <1>12, <1>16 DEF Transfer!Refresh, Transfer!Sensor, Transfer!Skip
  <2>2. /\ remaining'[h] = r - d /\ \A s \in Sensors \ {h} : remaining'[s] = remaining[s]
        /\ nextSeq'[h] = Transfer(p)!Seqn(o) /\ \A s \in Sensors \ {h} : nextSeq'[s] = nextSeq[s]
    BY <1>2, <1>6, <2>1
  <2>3. /\ reported' # {} /\ reported' \subseteq {"overwritten", "error", "refresh", "budget"}
    BY <1>2, <2>1
  <2>4. \A s \in Sensors : remaining'[s] \in 0..Capacity /\ remaining'[s] <= remaining[s] /\ remaining[s] \in 0..Capacity
    <3>1. SUFFICES ASSUME NEW s \in Sensors
                   PROVE  remaining'[s] \in 0..Capacity /\ remaining'[s] <= remaining[s] /\ remaining[s] \in 0..Capacity
      OBVIOUS
    <3>2. remaining[s] \in 0..Capacity
      BY <1>2
    <3>3. CASE s = h
      BY <1>2, <1>6, <1>16, <2>2, <3>2, <3>3
    <3>4. CASE s # h
      BY <1>2, <2>2, <3>2, <3>4
    <3>. QED
      BY <3>3, <3>4
  <2>5. /\ pending' \in Seq(Sensors) /\ Distinct(pending') /\ \A s : Holds(pending', s) <=> Holds(pending, s)
    <3>1. PICK S : S = Sensors
      OBVIOUS
    <3>2. PICK q \in Seq(S) : q = pending /\ q # <<>> /\ Distinct(q)
      BY <1>1, <1>4, <3>1 DEF Transfer!TypeOK, Distinct
    <3>3. /\ Head(q) \in S /\ Holds(q, Head(q)) /\ Head(q) = h
          /\ Tail(q) \in Seq(S) /\ Distinct(Tail(q)) /\ ~Holds(Tail(q), Head(q))
          /\ \A s : Holds(Tail(q), s) <=> Holds(q, s) /\ s # Head(q)
      BY <1>5, <3>2, HeadDropped
    <3>4. PICK t \in Seq(S) : t = Tail(q)
      BY <3>3
    <3>5. /\ Append(t, h) \in Seq(S) /\ Distinct(Append(t, h))
          /\ \A s : Holds(Append(t, h), s) <=> Holds(t, s) \/ s = h
      BY <3>1, <3>3, <3>4, HeadTurned
    <3>6. pending' = Append(t, h)
      BY <2>1, <3>2, <3>4
    <3>. QED
      BY <3>1, <3>2, <3>3, <3>4, <3>5, <3>6
  <2>6. Ahead(p, E)'
    <3>1. ASSUME NEW s \in Sensors
          PROVE  remaining'[s] <= E /\ nextSeq'[s] = Transfer(p)!Seqn(E + 1 - remaining'[s])
      <4>1. CASE s = h
        <5>1. r - d <= E /\ E + 1 - (r - d) = o
          BY <1>2, <1>6, <1>7, <1>11
        <5>. QED
          BY <2>2, <4>1, <5>1
      <4>2. CASE s # h
        BY <1>3, <2>2, <4>2 DEF Begun, Ahead
      <4>. QED
        BY <4>1, <4>2
    <3>. QED
      BY <3>1 DEF Ahead, Transfer!Seqn
  <2>7. Behind(p, E)'
    <3>1. ASSUME NEW x \in records PROVE \E i \in 1..E - remaining'[x.sensor] : x.seq = Transfer(p)!Seqn(i)
      <4>1. x.sensor \in Sensors
        BY <1>2
      <4>2. PICK i \in 1..E - remaining[x.sensor] : x.seq = Transfer(p)!Seqn(i)
        BY <1>3 DEF Begun, Behind
      <4>3. i \in 1..E - remaining'[x.sensor]
        BY <1>2, <2>4, <4>1
      <4>. QED
        BY <4>2, <4>3
    <3>. QED
      BY <1>1, <3>1 DEF Behind, Transfer!Seqn
  <2>8. \A s \in Sensors : /\ retrieved'[s] = retrieved[s] /\ retrieved[s] \in Nat /\ expected'[s] = expected[s]
                           /\ expected[s] \in Nat /\ retrieved[s] + remaining[s] <= expected[s]
                           /\ retrieved[s] = Cardinality(Got(s))
    BY <1>1, <1>2, <1>3 DEF Begun, Counted
  <2>9. Counted'
    <3>1. IsFiniteSet(records') /\ \A s : Got(s)' = Got(s)
      BY <1>1, <1>3 DEF Begun, Counted, Got
    <3>2. \A s \in Sensors : retrieved'[s] + remaining'[s] <= expected'[s]
      BY <1>2, <2>4, <2>8
    <3>. QED
      BY <2>8, <3>1, <3>2 DEF Counted
  <2>10. Waiting'
    <3>1. \A s : Holds(pending, s) => remaining[s] > 0
      BY <1>3 DEF Begun, Waiting, Holds
    <3>2. \A i \in DOMAIN pending' : Holds(pending', pending'[i]) /\ pending'[i] \in Sensors
      BY <2>5 DEF Holds
    <3>3. remaining'[h] > 0
      BY <1>2, <1>6, <1>11, <1>16, <2>2
    <3>4. \A s \in Sensors : Holds(pending', s) => remaining'[s] > 0
      BY <2>2, <2>5, <3>1, <3>3
    <3>. QED
      BY <3>2, <3>4 DEF Waiting
  <2>11. Missing'
    <3>1. PICK a \in Nat, b \in Nat : a = retrieved[h] /\ b = expected[h] /\ a + r <= b
      BY <1>6, <2>8
    <3>2. retrieved'[h] + remaining'[h] < expected'[h]
      <4>1. retrieved'[h] = a /\ expected'[h] = b /\ remaining'[h] = r - d
        BY <2>2, <2>8, <3>1
      <4>2. a + (r - d) < b
        BY <1>2, <1>6, <1>11, <3>1
      <4>. QED
        BY <4>1, <4>2
    <3>. QED
      BY <3>2 DEF Missing
  <2>12. Begun(p, E)'
    <3>1. Freezing(p, E)' /\ Unreported' /\ Refreshing(p, E)'
      BY <1>1, <1>4, <2>3 DEF Freezing, Unreported, Refreshing
    <3>. QED
      BY <1>1, <2>6, <2>7, <2>9, <2>10, <2>11, <3>1 DEF Begun
  <2>13. Transfer(p)!TypeOK'
    <3>1. remaining' \in [Sensors -> 0..Capacity]
      BY <1>2, <2>1, <2>4
    <3>2. nextSeq' \in [Sensors -> 0..SeqSpace - 1]
      BY <1>2, <1>12, <2>1
    <3>3. frozen' \in 0..MaxCount
      BY <1>2, <1>4
    <3>. QED
      BY <1>1, <2>3, <2>5, <3>1, <3>2, <3>3 DEF Transfer!TypeOK, Transfer!Seqs, Distinct
  <2>. QED
    BY <1>13, <1>14, <2>12, <2>13 DEF TransferInv
<1>. QED
  BY <1>15, <1>16

\* Every step of a transfer keeps its invariant.
LEMMA TransferKept ==
  ASSUME NEW p \in Parts, TransferInv(p), Transfer(p)!Next \/ UNCHANGED transferVars
  PROVE  TransferInv(p)'
BY SampleKeeps, EndsEarlyKeeps, MetadataKeeps, AnchorKeeps, RaisesKeeps, ChunkKeeps, RefreshKeeps
   DEF Transfer!Next

-----------------------------------------------------------------------------
(* When transfers run: one at a time, an operation RUNNING exactly while its *)
(* task is, a retry for every automatic transfer that needs one, and nothing *)
(* left by a stop.                                                           *)

USE BoundsAssumption DEF Ops, Callers, NoCall, NoTask

Used(o) == task[o].pc # "unused"

\* Every call counted moved the generation on at most once; a Switch moves it
\* when it goes on.
CallsCounted ==
  /\ gen <= calls
  /\ call["api"].pc = "select" => gen < calls

\* Operations are numbered in the order in which they started; the slot holds
\* the last of them or nothing.
Numbered ==
  /\ \A o, q \in Ops : Used(o) /\ q <= o => Used(q)
  /\ current # 0 => Used(current) /\ \A q \in Ops : Used(q) => q <= current

\* A task starts in the generation of its moment.
GenerationsPast == \A o \in Ops : Used(o) => task[o].gen <= gen

\* A running transfer is the one in the slot.
SlotHolds == \A o \in Ops : task[o].pc = "running" => current = o

\* The transfer a caller awaits is over but for its callback, no other was
\* started since, and none will be before the connection is ready again.
Awaited ==
  \A c \in Callers : call[c].waits # 0 =>
    /\ ~ready
    /\ task[call[c].waits].pc \in {"ended", "done"}
    /\ \A q \in Ops : Used(q) => q <= call[c].waits

\* What holds as long as no commit overtook a caller.
Tracked ==
  ~overtaken => SlotHolds /\ OperationFollowsTask /\ Awaited

\* Only a stop ends the service; when it returned, no attempt is left to
\* commit.
Stopping ==
  /\ call["api"].pc = "stop" => ~started
  /\ ~started => call["api"].pc \in {"stop", "idle"}
  /\ ~started /\ call["api"].pc = "idle" => verified = NoDevice
  /\ StoppedIsIdle

IInv ==
  /\ TypeOK /\ CallsCounted
  /\ Numbered /\ GenerationsPast
  /\ Tracked /\ RetryPending /\ Stopping

-----------------------------------------------------------------------------
\* What _start_history_sync does: share the task that runs, or start the
\* first that was not used.
LEMMA Started ==
  ASSUME TypeOK, Numbered, gen' = gen,
         NEW source \in {"manual", "automatic"}, StartHistorySync(source)
  PROVE  \/ Alive(current) /\ task' = task /\ op' = op /\ current' = current
         \/ /\ ~Alive(current) /\ task' \in [Ops -> Tasks]
            /\ op' \in [Ops -> {"none", "RUNNING", "SUCCEEDED", "FAILED", "CANCELLED"}]
            /\ \E n \in Ops :
                 /\ current' = n /\ task'[n].pc = "running" /\ task'[n].gen = gen
                 /\ op'[n] = "RUNNING"
                 /\ \A q \in Ops : (Used(q) <=> q < n) /\ (Used(q)' <=> q <= n)
                 /\ \A q \in Ops \ {n} : task'[q] = task[q] /\ op'[q] = op[q]
<1>1. CASE Alive(current)
  BY <1>1 DEF StartHistorySync
<1>2. CASE ~Alive(current)
  <2>1. PICK n \in Unused :
          /\ \A q \in Unused : n <= q
          /\ task' = [task EXCEPT ![n] = [pc |-> "running", source |-> source,
                          gen |-> gen', from |-> NoDevice, result |-> "none"]]
          /\ op' = [op EXCEPT ![n] = "RUNNING"]
          /\ current' = n
    BY <1>2 DEF StartHistorySync
  <2>2. n \in Ops /\ task[n].pc = "unused"
    BY <2>1 DEF Unused
  <2>3. \A q \in Ops : Used(q) <=> q < n
    BY <2>1, <2>2 DEF Unused, Used, Numbered
  <2>4. [pc |-> "running", source |-> source, gen |-> gen', from |-> NoDevice,
         result |-> "none"] \in Tasks
    BY DEF TypeOK, Tasks
  <2>5. /\ task' \in [Ops -> Tasks] /\ task'[n].pc = "running" /\ task'[n].gen = gen
        /\ \A q \in Ops \ {n} : task'[q] = task[q]
    BY <2>1, <2>2, <2>4 DEF TypeOK
  <2>6. /\ op' \in [Ops -> {"none", "RUNNING", "SUCCEEDED", "FAILED", "CANCELLED"}]
        /\ op'[n] = "RUNNING"
        /\ \A q \in Ops \ {n} : op'[q] = op[q]
    BY <2>1, <2>2 DEF TypeOK
  <2>7. \A q \in Ops : Used(q)' <=> q <= n
    BY <2>2, <2>3, <2>5 DEF Used
  <2>. QED
    BY <1>2, <2>1, <2>2, <2>3, <2>5, <2>6, <2>7
<1>. QED
  BY <1>1, <1>2

\* Cancelling ends the running tasks of a set and changes nothing else.
LEMMA CancelledTasks ==
  ASSUME TypeOK, NEW O
  PROVE  /\ Cancelled(task, O) \in [Ops -> Tasks]
         /\ \A o \in Ops :
              /\ Cancelled(task, O)[o].gen = task[o].gen
              /\ Cancelled(task, O)[o].source = task[o].source
              /\ IF o \in O /\ task[o].pc = "running"
                 THEN Cancelled(task, O)[o].pc = "ended"
                 ELSE Cancelled(task, O)[o] = task[o]
<1>1. ASSUME NEW t \in Tasks
      PROVE  LET c == [t EXCEPT !.pc = "ended", !.result = "cancelled"]
             IN  c \in Tasks /\ c.pc = "ended" /\ c.gen = t.gen /\ c.source = t.source
  BY DEF Tasks
<1>2. ASSUME NEW o \in Ops
      PROVE  /\ Cancelled(task, O)[o] \in Tasks
             /\ Cancelled(task, O)[o].gen = task[o].gen
             /\ Cancelled(task, O)[o].source = task[o].source
             /\ IF o \in O /\ task[o].pc = "running"
                THEN Cancelled(task, O)[o].pc = "ended"
                ELSE Cancelled(task, O)[o] = task[o]
  <2>1. task[o] \in Tasks
    BY DEF TypeOK
  <2>2. Cancelled(task, O)[o] = IF o \in O /\ task[o].pc = "running"
          THEN [task[o] EXCEPT !.pc = "ended", !.result = "cancelled"] ELSE task[o]
    BY DEF Cancelled
  <2>. QED
    BY <1>1, <2>1, <2>2
<1>3. Cancelled(task, O) = [o \in Ops |-> Cancelled(task, O)[o]]
  BY DEF Cancelled
<1>. QED
  BY <1>2, <1>3

\* What CancelHistory leaves: its caller waits for the task in the slot, if
\* that ran.
LEMMA CancelStep ==
  ASSUME TypeOK, NEW c \in Callers, NEW at \in {"lost", "disconnect", "select", "stop"},
         NEW d \in Devices \cup {NoDevice}, CancelHistory(c, at, d)
  PROVE  /\ task' \in [Ops -> Tasks] /\ call' \in [Callers -> Calls]
         /\ call[c].pc = "idle" /\ call'[c].pc = at
         /\ call'[c].waits = IF Alive(current) THEN current ELSE 0
         /\ \A k \in Callers \ {c} : call'[k] = call[k]
         /\ \A o \in Ops :
              /\ task'[o].gen = task[o].gen /\ task'[o].source = task[o].source
              /\ IF o = current /\ task[o].pc = "running"
                 THEN task'[o].pc = "ended" ELSE task'[o] = task[o]
         /\ timer' = timer /\ misfiled' = misfiled
<1>1. task' = Cancelled(task, {current})
  BY DEF CancelHistory
<1>2. [pc |-> at, waits |-> IF Alive(current) THEN current ELSE 0, dev |-> d] \in Calls
  BY DEF TypeOK, Calls, Alive
<1>3. /\ call' \in [Callers -> Calls] /\ call'[c].pc = at
      /\ call'[c].waits = IF Alive(current) THEN current ELSE 0
      /\ \A k \in Callers \ {c} : call'[k] = call[k]
  BY <1>2 DEF CancelHistory, TypeOK
<1>. QED
  BY <1>1, <1>3, CancelledTasks DEF CancelHistory

\* What CancelReturns leaves.
LEMMA ReturnStep ==
  ASSUME TypeOK, NEW c \in Callers, CancelReturns(c)
  PROVE  /\ op' \in [Ops -> {"none", "RUNNING", "SUCCEEDED", "FAILED", "CANCELLED"}]
         /\ call' \in [Callers -> Calls] /\ current' \in {0, current}
         /\ call[c].pc # "idle" /\ call'[c].pc = "idle" /\ call'[c].waits = 0
         /\ \A k \in Callers \ {c} : call'[k] = call[k]
         /\ call[c].waits = 0 => current' = current /\ op' = op
         /\ call[c].waits # 0 =>
              /\ task[call[c].waits].pc = "done" /\ current' = 0
              /\ \A o \in Ops :
                   op'[o] = IF o = current /\ op[o] = "RUNNING" THEN "CANCELLED" ELSE op[o]
<1>1. [pc |-> "idle", waits |-> 0, dev |-> NoDevice] \in Calls
  BY DEF Calls
<1>2. /\ call' \in [Callers -> Calls] /\ call'[c].pc = "idle" /\ call'[c].waits = 0
      /\ \A k \in Callers \ {c} : call'[k] = call[k]
  BY <1>1 DEF CancelReturns, TypeOK
<1>3. CASE call[c].waits = 0
  BY <1>2, <1>3 DEF CancelReturns, TypeOK
<1>4. CASE call[c].waits # 0
  BY <1>2, <1>4 DEF CancelReturns, TypeOK
<1>. QED
  BY <1>3, <1>4

\* What a chunk, the end of a transfer and its callback leave of the tasks.
LEMMA ReceiveStep ==
  ASSUME TypeOK, NEW o \in Ops, Receive(o)
  PROVE  /\ task' \in [Ops -> Tasks]
         /\ task[o].pc = "running" /\ task'[o].pc = "running" /\ task'[o].gen = task[o].gen
         /\ \A q \in Ops \ {o} : task'[q] = task[q]
<1>. DEFINE t == [task[o] EXCEPT !.from = client]
<1>1. task[o] \in Tasks /\ task[o].pc = "running" /\ client \in Devices \cup {NoDevice}
  BY DEF TypeOK, Receive
<1>2. t \in Tasks /\ t.pc = "running" /\ t.gen = task[o].gen
  BY <1>1 DEF Tasks
<1>3. task' = [task EXCEPT ![o] = t]
  BY DEF Receive
<1>. HIDE DEF t
<1>. QED
  BY <1>1, <1>2, <1>3 DEF TypeOK

\* What the end of a task leaves.
LEMMA EndStep ==
  ASSUME TypeOK, NEW o \in Ops, NEW r \in {"complete", "incomplete", "failed"},
         TaskEnds(o, r)
  PROVE  /\ task' \in [Ops -> Tasks]
         /\ task[o].pc = "running" /\ task'[o].pc = "ended" /\ task'[o].gen = task[o].gen
         /\ \A q \in Ops \ {o} : task'[q] = task[q]
<1>. DEFINE t == [task[o] EXCEPT !.pc = "ended", !.result = r]
<1>1. task[o] \in Tasks /\ task[o].pc = "running"
  BY DEF TypeOK, TaskEnds
<1>2. t \in Tasks /\ t.pc = "ended" /\ t.gen = task[o].gen
  BY <1>1 DEF Tasks
<1>3. task' = [task EXCEPT ![o] = t]
  BY <1>1 DEF TaskEnds, TypeOK, Tasks
<1>. HIDE DEF t
<1>. QED
  BY <1>1, <1>2, <1>3 DEF TypeOK

\* What the callback of a task leaves.
LEMMA FinishStep ==
  ASSUME TypeOK, NEW o \in Ops, Finished(o)
  PROVE  /\ task' \in [Ops -> Tasks]
         /\ task[o].pc = "ended" /\ task'[o].pc = "done" /\ task'[o].gen = task[o].gen
         /\ task'[o].source = task[o].source /\ task'[o].result = task[o].result
         /\ \A q \in Ops \ {o} : task'[q] = task[q]
<1>. DEFINE t == [task[o] EXCEPT !.pc = "done"]
<1>1. task[o] \in Tasks /\ task[o].pc = "ended"
  BY DEF TypeOK, Finished
<1>2. /\ t \in Tasks /\ t.pc = "done" /\ t.gen = task[o].gen
      /\ t.source = task[o].source /\ t.result = task[o].result
  BY <1>1 DEF Tasks
<1>3. task' = [task EXCEPT ![o] = t]
  BY DEF Finished
<1>. HIDE DEF t
<1>. QED
  BY <1>1, <1>2, <1>3 DEF TypeOK

\* Every operation's state is one of the five.
LEMMA Outcomes ==
  ASSUME NEW r
  PROVE  Outcome(r) \in {"FAILED", "CANCELLED", "SUCCEEDED"}
  BY DEF Outcome

-----------------------------------------------------------------------------
(* The parts of the invariant, one lemma for each *)

\* Every variable keeps its type, and the generation its bound.
LEMMA TypeKept ==
  ASSUME TypeOK, CallsCounted, Numbered, [Next]_vars
  PROVE  TypeOK' /\ CallsCounted'
<1>1. ASSUME AttemptVerified
      PROVE  TypeOK' /\ CallsCounted'
  BY <1>1 DEF AttemptVerified, TypeOK, CallsCounted, CountCall, connection, history
<1>2. ASSUME Commit
      PROVE  TypeOK' /\ CallsCounted'
  BY <1>2, Started DEF Commit, TypeOK, CallsCounted, connection
<1>3. ASSUME RequestHistorySync
      PROVE  TypeOK' /\ CallsCounted'
  BY <1>3, Started DEF RequestHistorySync, TypeOK, CallsCounted, connection
<1>4. ASSUME NEW o \in Ops, Receive(o)
      PROVE  TypeOK' /\ CallsCounted'
  <2>1. task' \in [Ops -> Tasks]
    BY <1>4, ReceiveStep
  <2>. QED
    BY <1>4, <2>1 DEF Receive, TypeOK, CallsCounted, connection
<1>5. ASSUME NEW o \in Ops, Finished(o)
      PROVE  TypeOK' /\ CallsCounted'
  <2>1. task' \in [Ops -> Tasks]
    BY <1>5, FinishStep
  <2>2. op' \in [Ops -> {"none", "RUNNING", "SUCCEEDED", "FAILED", "CANCELLED"}]
    BY <1>5, Outcomes DEF Finished, TypeOK
  <2>. QED
    BY <1>5, <2>1, <2>2 DEF Finished, TypeOK, CallsCounted, connection
<1>6. ASSUME NEW o \in Ops, RetryWhenReady(o)
      PROVE  TypeOK' /\ CallsCounted'
  <2>1. CASE started /\ ready /\ task[o].gen = gen
    BY <1>6, <2>1, Started DEF RetryWhenReady, TypeOK, CallsCounted, connection
  <2>2. CASE ~(started /\ ready /\ task[o].gen = gen)
    BY <1>6, <2>2 DEF RetryWhenReady, TypeOK, CallsCounted, connection
  <2>. QED
    BY <2>1, <2>2
<1>7. ASSUME NEW o \in Ops, NEW r \in {"complete", "incomplete", "failed"},
              TaskEnds(o, r)
      PROVE  TypeOK' /\ CallsCounted'
  <2>1. task' \in [Ops -> Tasks]
    BY <1>7, EndStep
  <2>. QED
    BY <1>7, <2>1 DEF TaskEnds, TypeOK, CallsCounted, connection
<1>8. ASSUME ConnectionLost
      PROVE  TypeOK' /\ CallsCounted'
  <2>1. /\ task' \in [Ops -> Tasks] /\ call' \in [Callers -> Calls]
        /\ call["manager"].pc = "idle" /\ call'["manager"].pc = "lost"
        /\ \A k \in Callers \ {"manager"} : call'[k] = call[k]
    BY <1>8, CancelStep DEF ConnectionLost
  <2>2. gen' \in 0..MaxCalls /\ calls' \in 0..MaxCalls /\ CallsCounted'
    BY <1>8, <2>1 DEF ConnectionLost, TypeOK, CallsCounted, CountCall
  <2>. QED
    BY <1>8, <2>1, <2>2 DEF ConnectionLost, TypeOK, CancelHistory
<1>9. ASSUME LostHandled
      PROVE  TypeOK' /\ CallsCounted'
  <2>1. /\ call' \in [Callers -> Calls] /\ current' \in 0..MaxOps
        /\ op' \in [Ops -> {"none", "RUNNING", "SUCCEEDED", "FAILED", "CANCELLED"}]
        /\ call'["manager"].pc = "idle" /\ \A k \in Callers \ {"manager"} : call'[k] = call[k]
    BY <1>9, ReturnStep DEF LostHandled, TypeOK
  <2>2. gen' \in 0..MaxCalls /\ calls' \in 0..MaxCalls /\ CallsCounted'
    BY <1>9, <2>1 DEF LostHandled, TypeOK, CallsCounted
  <2>3. {target', client'} \subseteq Devices \cup {NoDevice}
    BY <1>9 DEF LostHandled, TypeOK, Calls
  <2>. QED
    BY <1>9, <2>1, <2>2, <2>3 DEF LostHandled, TypeOK
<1>10. ASSUME Disconnect
      PROVE  TypeOK' /\ CallsCounted'
  <2>1. /\ task' \in [Ops -> Tasks] /\ call' \in [Callers -> Calls]
        /\ call["api"].pc = "idle" /\ call'["api"].pc = "disconnect"
        /\ \A k \in Callers \ {"api"} : call'[k] = call[k]
    BY <1>10, CancelStep DEF Disconnect
  <2>2. gen' \in 0..MaxCalls /\ calls' \in 0..MaxCalls /\ CallsCounted'
    BY <1>10, <2>1 DEF Disconnect, TypeOK, CallsCounted, CountCall
  <2>. QED
    BY <1>10, <2>1, <2>2 DEF Disconnect, TypeOK, CancelHistory
<1>11. ASSUME DisconnectEnds
      PROVE  TypeOK' /\ CallsCounted'
  <2>1. /\ call' \in [Callers -> Calls] /\ current' \in 0..MaxOps
        /\ op' \in [Ops -> {"none", "RUNNING", "SUCCEEDED", "FAILED", "CANCELLED"}]
        /\ call'["api"].pc = "idle" /\ \A k \in Callers \ {"api"} : call'[k] = call[k]
    BY <1>11, ReturnStep DEF DisconnectEnds, TypeOK
  <2>2. gen' \in 0..MaxCalls /\ calls' \in 0..MaxCalls /\ CallsCounted'
    BY <1>11, <2>1 DEF DisconnectEnds, TypeOK, CallsCounted
  <2>3. {target', client'} \subseteq Devices \cup {NoDevice}
    BY <1>11 DEF DisconnectEnds, TypeOK, Calls
  <2>. QED
    BY <1>11, <2>1, <2>2, <2>3 DEF DisconnectEnds, TypeOK
<1>12. ASSUME NEW d \in Devices, Switch(d)
      PROVE  TypeOK' /\ CallsCounted'
  <2>1. /\ task' \in [Ops -> Tasks] /\ call' \in [Callers -> Calls]
        /\ call["api"].pc = "idle" /\ call'["api"].pc = "select"
        /\ \A k \in Callers \ {"api"} : call'[k] = call[k]
    BY <1>12, CancelStep DEF Switch
  <2>2. gen' \in 0..MaxCalls /\ calls' \in 0..MaxCalls /\ CallsCounted'
    BY <1>12, <2>1 DEF Switch, TypeOK, CallsCounted, CountCall
  <2>. QED
    BY <1>12, <2>1, <2>2 DEF Switch, TypeOK, CancelHistory
<1>13. ASSUME NEW d \in Devices, Retarget(d)
      PROVE  TypeOK' /\ CallsCounted'
  <2>1. gen' \in 0..MaxCalls /\ calls' \in 0..MaxCalls /\ CallsCounted'
    BY <1>13 DEF Retarget, TypeOK, CallsCounted, CountCall
  <2>. QED
    BY <1>13, <2>1 DEF Retarget, TypeOK, history
<1>14. ASSUME Select
      PROVE  TypeOK' /\ CallsCounted'
  <2>1. /\ call' \in [Callers -> Calls] /\ current' \in 0..MaxOps
        /\ op' \in [Ops -> {"none", "RUNNING", "SUCCEEDED", "FAILED", "CANCELLED"}]
        /\ call'["api"].pc = "idle" /\ \A k \in Callers \ {"api"} : call'[k] = call[k]
    BY <1>14, ReturnStep DEF Select, TypeOK
  <2>2. gen' \in 0..MaxCalls /\ calls' \in 0..MaxCalls /\ CallsCounted'
    BY <1>14, <2>1 DEF Select, TypeOK, CallsCounted
  <2>3. {target', client'} \subseteq Devices \cup {NoDevice}
    BY <1>14 DEF Select, TypeOK, Calls
  <2>. QED
    BY <1>14, <2>1, <2>2, <2>3 DEF Select, TypeOK
<1>15. ASSUME Stop
      PROVE  TypeOK' /\ CallsCounted'
  <2>1. /\ task' \in [Ops -> Tasks] /\ call' \in [Callers -> Calls]
        /\ call["api"].pc = "idle" /\ call'["api"].pc = "stop"
        /\ \A k \in Callers \ {"api"} : call'[k] = call[k]
    BY <1>15, CancelStep DEF Stop
  <2>2. gen' \in 0..MaxCalls /\ calls' \in 0..MaxCalls /\ CallsCounted'
    BY <1>15, <2>1 DEF Stop, TypeOK, CallsCounted, CountCall
  <2>. QED
    BY <1>15, <2>1, <2>2 DEF Stop, TypeOK, CancelHistory
<1>16. ASSUME StopEnds
      PROVE  TypeOK' /\ CallsCounted'
  <2>1. /\ call' \in [Callers -> Calls] /\ current' \in 0..MaxOps
        /\ op' \in [Ops -> {"none", "RUNNING", "SUCCEEDED", "FAILED", "CANCELLED"}]
        /\ call'["api"].pc = "idle" /\ \A k \in Callers \ {"api"} : call'[k] = call[k]
    BY <1>16, ReturnStep DEF StopEnds, TypeOK
  <2>2. gen' \in 0..MaxCalls /\ calls' \in 0..MaxCalls /\ CallsCounted'
    BY <1>16, <2>1 DEF StopEnds, TypeOK, CallsCounted
  <2>0. task' \in [Ops -> Tasks]
    BY <1>16, CancelledTasks DEF StopEnds, StopTasks
  <2>3. {target', client'} \subseteq Devices \cup {NoDevice}
    BY <1>16 DEF StopEnds, TypeOK, Calls
  <2>. QED
    BY <1>16, <2>1, <2>0, <2>2, <2>3 DEF StopEnds, TypeOK
<1>17. CASE UNCHANGED vars
  BY <1>17 DEF vars, connection, history, TypeOK, CallsCounted, CountCall
<1>. QED
  BY <1>1, <1>2, <1>3, <1>4, <1>5, <1>6, <1>7, <1>8, <1>9, <1>10, <1>11,
       <1>12, <1>13, <1>14, <1>15, <1>16, <1>17 DEF Next

\* A step that starts no task and moves no generation back keeps the numbering.
LEMMA NoneStarted ==
  ASSUME TypeOK, Numbered, GenerationsPast,
         \A q \in Ops : (Used(q)' <=> Used(q)) /\ task'[q].gen = task[q].gen,
         current' \in {0, current}, gen' \in Nat, gen <= gen'
  PROVE  Numbered' /\ GenerationsPast'
<1>1. Numbered'
  <2>1. \A o, q \in Ops : Used(o)' /\ q <= o => Used(q)'
    BY DEF Numbered
  <2>2. current' # 0 => /\ Used(current)' /\ current' = current
                        /\ \A q \in Ops : Used(q)' => q <= current'
    <3>1. SUFFICES ASSUME current' # 0
                   PROVE  /\ Used(current)' /\ current' = current
                          /\ \A q \in Ops : Used(q)' => q <= current'
      OBVIOUS
    <3>2. current' = current /\ current # 0 /\ current \in Ops
      BY <3>1, BoundsAssumption DEF TypeOK, Ops
    <3>. QED
      BY <3>2 DEF Numbered, Used
  <2>. QED
    BY <2>1, <2>2 DEF Numbered
<1>2. GenerationsPast'
  <2>1. SUFFICES ASSUME NEW o \in Ops, Used(o)'
                 PROVE  task'[o].gen <= gen'
    BY DEF GenerationsPast
  <2>2. Used(o) /\ task'[o].gen = task[o].gen /\ task[o].gen <= gen
    BY <2>1 DEF GenerationsPast
  <2>3. task[o].gen \in Nat /\ gen \in Nat
    BY DEF TypeOK, Tasks
  <2>. QED
    BY <2>2, <2>3
<1>. QED
  BY <1>1, <1>2

\* What is used stays used; a new task is the next one and takes the slot, in
\* the generation of its moment.
LEMMA NumberedKept ==
  ASSUME TypeOK, Numbered, GenerationsPast, [Next]_vars
  PROVE  Numbered' /\ GenerationsPast'
<1>1. ASSUME AttemptVerified
      PROVE  Numbered' /\ GenerationsPast'
  BY <1>1 DEF AttemptVerified, TypeOK, Numbered, Used, GenerationsPast,
       CountCall, connection, history
<1>2. ASSUME Commit
      PROVE  Numbered' /\ GenerationsPast'
  BY <1>2, Started DEF Commit, TypeOK, Numbered, Used, GenerationsPast, connection
<1>3. ASSUME RequestHistorySync
      PROVE  Numbered' /\ GenerationsPast'
  BY <1>3, Started DEF RequestHistorySync, TypeOK, Numbered, Used,
       GenerationsPast, connection
<1>4. ASSUME NEW o \in Ops, Receive(o)
      PROVE  Numbered' /\ GenerationsPast'
  <2>1. /\ task'[o].pc # "unused" /\ task[o].pc # "unused" /\ task'[o].gen = task[o].gen
        /\ \A q \in Ops \ {o} : task'[q] = task[q]
    BY <1>4, ReceiveStep
  <2>2. current' \in {0, current} /\ gen' = gen
    BY <1>4 DEF Receive, connection
  <2>3. \A q \in Ops : (Used(q)' <=> Used(q)) /\ task'[q].gen = task[q].gen
    BY <2>1 DEF Used
  <2>. QED
    BY <2>2, <2>3, NoneStarted DEF TypeOK
<1>5. ASSUME NEW o \in Ops, Finished(o)
      PROVE  Numbered' /\ GenerationsPast'
  <2>1. /\ task'[o].pc # "unused" /\ task[o].pc # "unused" /\ task'[o].gen = task[o].gen
        /\ \A q \in Ops \ {o} : task'[q] = task[q]
    BY <1>5, FinishStep
  <2>2. current' \in {0, current} /\ gen' = gen
    BY <1>5 DEF Finished, connection
  <2>3. \A q \in Ops : (Used(q)' <=> Used(q)) /\ task'[q].gen = task[q].gen
    BY <2>1 DEF Used
  <2>. QED
    BY <2>2, <2>3, NoneStarted DEF TypeOK
<1>6. ASSUME NEW o \in Ops, RetryWhenReady(o)
      PROVE  Numbered' /\ GenerationsPast'
  <2>1. CASE started /\ ready /\ task[o].gen = gen
    BY <1>6, <2>1, Started DEF RetryWhenReady, TypeOK, Numbered, Used,
         GenerationsPast, connection
  <2>2. CASE ~(started /\ ready /\ task[o].gen = gen)
    BY <1>6, <2>2 DEF RetryWhenReady, Numbered, Used, GenerationsPast, connection
  <2>. QED
    BY <2>1, <2>2
<1>7. ASSUME NEW o \in Ops, NEW r \in {"complete", "incomplete", "failed"},
              TaskEnds(o, r)
      PROVE  Numbered' /\ GenerationsPast'
  <2>1. /\ task'[o].pc # "unused" /\ task[o].pc # "unused" /\ task'[o].gen = task[o].gen
        /\ \A q \in Ops \ {o} : task'[q] = task[q]
    BY <1>7, EndStep
  <2>2. current' \in {0, current} /\ gen' = gen
    BY <1>7 DEF TaskEnds, connection
  <2>3. \A q \in Ops : (Used(q)' <=> Used(q)) /\ task'[q].gen = task[q].gen
    BY <2>1 DEF Used
  <2>. QED
    BY <2>2, <2>3, NoneStarted DEF TypeOK
<1>8. ASSUME ConnectionLost
      PROVE  Numbered' /\ GenerationsPast'
  <2>1. \A q \in Ops : (Used(q)' <=> Used(q)) /\ task'[q].gen = task[q].gen
    BY <1>8, CancelStep DEF ConnectionLost, Used
  <2>2. current' \in {0, current} /\ gen' \in Nat /\ gen <= gen'
    BY <1>8 DEF ConnectionLost, TypeOK
  <2>. QED
    BY <2>1, <2>2, NoneStarted
<1>9. ASSUME LostHandled
      PROVE  Numbered' /\ GenerationsPast'
  <2>1. \A q \in Ops : (Used(q)' <=> Used(q)) /\ task'[q].gen = task[q].gen
    BY <1>9, CancelledTasks DEF LostHandled, StopTasks, Used
  <2>2. current' \in {0, current} /\ gen' \in Nat /\ gen <= gen'
    BY <1>9, ReturnStep DEF LostHandled, TypeOK
  <2>. QED
    BY <2>1, <2>2, NoneStarted
<1>10. ASSUME Disconnect
      PROVE  Numbered' /\ GenerationsPast'
  <2>1. \A q \in Ops : (Used(q)' <=> Used(q)) /\ task'[q].gen = task[q].gen
    BY <1>10, CancelStep DEF Disconnect, Used
  <2>2. current' \in {0, current} /\ gen' \in Nat /\ gen <= gen'
    BY <1>10 DEF Disconnect, TypeOK
  <2>. QED
    BY <2>1, <2>2, NoneStarted
<1>11. ASSUME DisconnectEnds
      PROVE  Numbered' /\ GenerationsPast'
  <2>1. \A q \in Ops : (Used(q)' <=> Used(q)) /\ task'[q].gen = task[q].gen
    BY <1>11, CancelledTasks DEF DisconnectEnds, StopTasks, Used
  <2>2. current' \in {0, current} /\ gen' \in Nat /\ gen <= gen'
    BY <1>11, ReturnStep DEF DisconnectEnds, TypeOK
  <2>. QED
    BY <2>1, <2>2, NoneStarted
<1>12. ASSUME NEW d \in Devices, Switch(d)
      PROVE  Numbered' /\ GenerationsPast'
  <2>1. \A q \in Ops : (Used(q)' <=> Used(q)) /\ task'[q].gen = task[q].gen
    <3>1. CancelHistory("api", "select", d)
      BY <1>12 DEF Switch
    <3>. QED
      BY <3>1, CancelStep DEF Used
  <2>2. current' \in {0, current} /\ gen' \in Nat /\ gen <= gen'
    BY <1>12 DEF Switch, TypeOK
  <2>. QED
    BY <2>1, <2>2, NoneStarted
<1>13. ASSUME NEW d \in Devices, Retarget(d)
      PROVE  Numbered' /\ GenerationsPast'
  <2>1. task' = task /\ current' = current /\ gen \in Nat /\ gen' = gen + 1
    BY <1>13 DEF Retarget, TypeOK, history
  <2>. QED
    BY <2>1 DEF TypeOK, Tasks, Numbered, Used, GenerationsPast
<1>14. ASSUME Select
      PROVE  Numbered' /\ GenerationsPast'
  <2>1. \A q \in Ops : (Used(q)' <=> Used(q)) /\ task'[q].gen = task[q].gen
    BY <1>14, CancelledTasks DEF Select, StopTasks, Used
  <2>2. current' \in {0, current} /\ gen' \in Nat /\ gen <= gen'
    BY <1>14, ReturnStep DEF Select, TypeOK
  <2>. QED
    BY <2>1, <2>2, NoneStarted
<1>15. ASSUME Stop
      PROVE  Numbered' /\ GenerationsPast'
  <2>1. \A q \in Ops : (Used(q)' <=> Used(q)) /\ task'[q].gen = task[q].gen
    BY <1>15, CancelStep DEF Stop, Used
  <2>2. current' \in {0, current} /\ gen' \in Nat /\ gen <= gen'
    BY <1>15 DEF Stop, TypeOK
  <2>. QED
    BY <2>1, <2>2, NoneStarted
<1>16. ASSUME StopEnds
      PROVE  Numbered' /\ GenerationsPast'
  <2>1. \A q \in Ops : (Used(q)' <=> Used(q)) /\ task'[q].gen = task[q].gen
    BY <1>16, CancelledTasks DEF StopEnds, StopTasks, Used
  <2>2. current' \in {0, current} /\ gen' \in Nat /\ gen <= gen'
    BY <1>16, ReturnStep DEF StopEnds, TypeOK
  <2>. QED
    BY <2>1, <2>2, NoneStarted
<1>17. CASE UNCHANGED vars
  BY <1>17 DEF vars, connection, history, TypeOK, Numbered, Used,
       GenerationsPast, CountCall
<1>. QED
  BY <1>1, <1>2, <1>3, <1>4, <1>5, <1>6, <1>7, <1>8, <1>9, <1>10, <1>11,
       <1>12, <1>13, <1>14, <1>15, <1>16, <1>17 DEF Next

\* A caller goes on awaiting what it awaited if nothing is started.
LEMMA AwaitedStays ==
  ASSUME TypeOK, Awaited, call' \in [Callers -> Calls], ready' => ready,
         \A o \in Ops : /\ Used(o)' <=> Used(o)
                        /\ task[o].pc \in {"ended", "done"} => task'[o].pc \in {"ended", "done"},
         \A c \in Callers : call'[c].waits \in {0, call[c].waits}
  PROVE  Awaited'
<1> SUFFICES ASSUME NEW c \in Callers, call'[c].waits # 0
             PROVE  /\ ~ready'
                    /\ task'[call'[c].waits].pc \in {"ended", "done"}
                    /\ \A q \in Ops : Used(q)' => q <= call'[c].waits
  BY DEF Awaited
<1>1. call'[c].waits = call[c].waits /\ call[c].waits # 0 /\ call[c].waits \in Ops
  BY DEF TypeOK, Calls
<1>2. /\ ~ready /\ task[call[c].waits].pc \in {"ended", "done"}
      /\ \A q \in Ops : Used(q) => q <= call[c].waits
  BY <1>1 DEF Awaited
<1>. QED
  BY <1>1, <1>2

\* While no caller awaits anything, nothing is awaited.
LEMMA NothingAwaited ==
  ASSUME \A c \in Callers : call'[c].waits = 0
  PROVE  Awaited'
  BY DEF Awaited

\* The connection is ready: nobody awaits a transfer.
LEMMA ReadyAwaitsNothing ==
  ASSUME Awaited, ready
  PROVE  \A c \in Callers : call[c].waits = 0
  BY DEF Awaited

\* A transfer starts: it is the one in the slot and its operation runs.
LEMMA StartTracked ==
  ASSUME TypeOK, Numbered, SlotHolds, OperationFollowsTask, ~overtaken, gen' = gen,
         NEW source \in {"manual", "automatic"}, StartHistorySync(source)
  PROVE  SlotHolds' /\ OperationFollowsTask'
<1>1. CASE Alive(current) /\ task' = task /\ op' = op /\ current' = current
  BY <1>1 DEF SlotHolds, OperationFollowsTask
<1>2. CASE ~Alive(current)
  <2>1. PICK n \in Ops :
          /\ current' = n /\ task'[n].pc = "running" /\ op'[n] = "RUNNING"
          /\ \A q \in Ops \ {n} : task'[q] = task[q] /\ op'[q] = op[q]
    BY <1>2, Started
  <2>2. \A q \in Ops : task[q].pc # "running"
    BY <1>2 DEF SlotHolds, Alive
  <2>. QED
    BY <2>1, <2>2 DEF SlotHolds, OperationFollowsTask
<1>. QED
  BY <1>1, <1>2, Started

\* The transfer in the slot is cancelled.
LEMMA CancelTracked ==
  ASSUME TypeOK, Numbered, SlotHolds, OperationFollowsTask, Awaited, ~overtaken,
         NEW c \in Callers, NEW at \in {"lost", "disconnect", "select", "stop"},
         NEW d \in Devices \cup {NoDevice}, CancelHistory(c, at, d),
         ~ready', UNCHANGED <<op, current>>
  PROVE  SlotHolds' /\ OperationFollowsTask' /\ Awaited'
<1>1. /\ call' \in [Callers -> Calls]
      /\ call'[c].waits = IF Alive(current) THEN current ELSE 0
      /\ \A k \in Callers \ {c} : call'[k] = call[k]
      /\ \A o \in Ops : IF o = current /\ task[o].pc = "running"
                         THEN task'[o].pc = "ended" ELSE task'[o] = task[o]
  BY CancelStep
<1>2. SlotHolds' /\ OperationFollowsTask'
  BY <1>1 DEF SlotHolds, OperationFollowsTask
<1>3. \A o \in Ops : /\ Used(o)' <=> Used(o)
                     /\ task[o].pc \in {"ended", "done"} => task'[o].pc \in {"ended", "done"}
  BY <1>1 DEF Used
<1>4. ASSUME NEW k \in Callers, call'[k].waits # 0
      PROVE  /\ task'[call'[k].waits].pc \in {"ended", "done"}
             /\ \A q \in Ops : Used(q)' => q <= call'[k].waits
  <2>1. CASE k = c
    <3>1. Alive(current) /\ call'[k].waits = current /\ current \in Ops
      BY <1>1, <1>4, <2>1 DEF Alive, TypeOK
    <3>. QED
      BY <1>1, <1>3, <3>1 DEF Alive, Numbered
  <2>2. CASE k # c
    <3>1. call'[k].waits = call[k].waits /\ call[k].waits \in Ops
      BY <1>1, <1>4, <2>2 DEF TypeOK, Calls
    <3>2. /\ task[call[k].waits].pc \in {"ended", "done"}
          /\ \A q \in Ops : Used(q) => q <= call[k].waits
      BY <1>4, <3>1 DEF Awaited
    <3>. QED
      BY <1>3, <3>1, <3>2
  <2>. QED
    BY <2>1, <2>2
<1>. QED
  BY <1>2, <1>4 DEF Awaited

\* The caller goes on: what it finds in the slot is what it awaited, and over.
LEMMA ReturnTracked ==
  ASSUME TypeOK, Numbered, SlotHolds, OperationFollowsTask, Awaited, ~overtaken,
         NEW c \in Callers, CancelReturns(c)
  PROVE  /\ op' = op /\ \A k \in Callers : call'[k].waits \in {0, call[k].waits}
         /\ \A o \in Ops : task[o].pc = "running" => current' = o
<1>1. \A k \in Callers : call'[k].waits \in {0, call[k].waits}
  BY ReturnStep
<1>2. CASE call[c].waits = 0
  BY <1>1, <1>2, ReturnStep DEF SlotHolds
<1>3. CASE call[c].waits # 0
  <2>. DEFINE w == call[c].waits
  <2>1. w \in Ops /\ task[w].pc = "done" /\ \A q \in Ops : Used(q) => q <= w
    BY <1>3, ReturnStep DEF TypeOK, Calls, Awaited
  <2>2. Used(w)
    BY <2>1 DEF Used
  <2>. HIDE DEF w
  <2>3. current \in {0, w}
    BY <2>1, <2>2 DEF TypeOK, Numbered
  <2>4. \A o \in Ops : task[o].pc # "running"
    BY <2>1, <2>3 DEF SlotHolds
  <2>5. current # 0 => op[current] # "RUNNING"
    BY <2>1, <2>3 DEF OperationFollowsTask
  <2>6. \A o \in Ops : op'[o] = op[o]
    BY <1>3, <2>5, ReturnStep
  <2>7. op' \in [Ops -> {"none", "RUNNING", "SUCCEEDED", "FAILED", "CANCELLED"}]
    BY ReturnStep
  <2>8. op' = op
    BY <2>6, <2>7 DEF TypeOK
  <2>. QED
    BY <1>1, <2>4, <2>8
<1>. QED
  BY <1>2, <1>3

\* A commit that overtook a caller is not forgotten.
LEMMA OvertakenStays ==
  ASSUME TRUE, [Next]_vars
  PROVE  overtaken => overtaken'
<1>1. ASSUME AttemptVerified
      PROVE  overtaken => overtaken'
  BY <1>1 DEF AttemptVerified
<1>2. ASSUME Commit
      PROVE  overtaken => overtaken'
  BY <1>2 DEF Commit
<1>3. ASSUME RequestHistorySync
      PROVE  overtaken => overtaken'
  BY <1>3 DEF RequestHistorySync
<1>4. ASSUME NEW o \in Ops, Receive(o)
      PROVE  overtaken => overtaken'
  BY <1>4 DEF Receive
<1>5. ASSUME NEW o \in Ops, Finished(o)
      PROVE  overtaken => overtaken'
  BY <1>5 DEF Finished
<1>6. ASSUME NEW o \in Ops, RetryWhenReady(o)
      PROVE  overtaken => overtaken'
  BY <1>6 DEF RetryWhenReady
<1>7. ASSUME NEW o \in Ops, NEW r \in {"complete", "incomplete", "failed"},
              TaskEnds(o, r)
      PROVE  overtaken => overtaken'
  BY <1>7 DEF TaskEnds
<1>8. ASSUME ConnectionLost
      PROVE  overtaken => overtaken'
  BY <1>8 DEF ConnectionLost
<1>9. ASSUME LostHandled
      PROVE  overtaken => overtaken'
  BY <1>9 DEF LostHandled
<1>10. ASSUME Disconnect
      PROVE  overtaken => overtaken'
  BY <1>10 DEF Disconnect
<1>11. ASSUME DisconnectEnds
      PROVE  overtaken => overtaken'
  BY <1>11 DEF DisconnectEnds
<1>12. ASSUME NEW d \in Devices, Switch(d)
      PROVE  overtaken => overtaken'
  BY <1>12 DEF Switch
<1>13. ASSUME NEW d \in Devices, Retarget(d)
      PROVE  overtaken => overtaken'
  BY <1>13 DEF Retarget
<1>14. ASSUME Select
      PROVE  overtaken => overtaken'
  BY <1>14 DEF Select
<1>15. ASSUME Stop
      PROVE  overtaken => overtaken'
  BY <1>15 DEF Stop
<1>16. ASSUME StopEnds
      PROVE  overtaken => overtaken'
  BY <1>16 DEF StopEnds
<1>17. CASE UNCHANGED vars
  BY <1>17 DEF vars, connection, history
<1>. QED
  BY <1>1, <1>2, <1>3, <1>4, <1>5, <1>6, <1>7, <1>8, <1>9, <1>10, <1>11,
       <1>12, <1>13, <1>14, <1>15, <1>16, <1>17 DEF Next

\* Nothing is started while a caller awaits a transfer, unless a commit
\* overtakes it.
LEMMA TrackedKept ==
  ASSUME TypeOK, Numbered, Tracked, ~overtaken', [Next]_vars
  PROVE  SlotHolds' /\ OperationFollowsTask' /\ Awaited'
<1>. ~overtaken /\ SlotHolds /\ OperationFollowsTask /\ Awaited
  BY OvertakenStays DEF Tracked
<1>1. ASSUME AttemptVerified
      PROVE  SlotHolds' /\ OperationFollowsTask' /\ Awaited'
  <2>1. /\ task' = task /\ op' = op /\ current' = current /\ call' = call
        /\ ready' => ready
    BY <1>1 DEF AttemptVerified, connection, history
  <2>2. Awaited'
    BY <2>1, AwaitedStays DEF TypeOK, Used
  <2>. QED
    BY <2>1, <2>2 DEF SlotHolds, OperationFollowsTask
<1>2. ASSUME Commit
      PROVE  SlotHolds' /\ OperationFollowsTask' /\ Awaited'
  <2>1. SlotHolds' /\ OperationFollowsTask'
    BY <1>2, StartTracked DEF Commit
  <2>2. \A c \in Callers : call'[c].waits = 0
    BY <1>2 DEF Commit
  <2>. QED
    BY <2>1, <2>2, NothingAwaited
<1>3. ASSUME RequestHistorySync
      PROVE  SlotHolds' /\ OperationFollowsTask' /\ Awaited'
  <2>1. SlotHolds' /\ OperationFollowsTask'
    BY <1>3, StartTracked DEF RequestHistorySync, connection
  <2>2. \A c \in Callers : call'[c].waits = 0
    BY <1>3, ReadyAwaitsNothing DEF RequestHistorySync, connection
  <2>. QED
    BY <2>1, <2>2, NothingAwaited
<1>4. ASSUME NEW o \in Ops, Receive(o)
      PROVE  SlotHolds' /\ OperationFollowsTask' /\ Awaited'
  <2>1. \A q \in Ops : /\ Used(q)' <=> Used(q)
                       /\ task[q].pc \in {"ended", "done"} => task'[q].pc \in {"ended", "done"}
    BY <1>4, ReceiveStep DEF TypeOK, Used
  <2>2. call' = call /\ ready' = ready /\ current' \in {0, current}
    BY <1>4 DEF Receive, connection
  <2>3. Awaited'
    <3>1. /\ call' \in [Callers -> Calls] /\ (ready' => ready)
          /\ \A c \in Callers : call'[c].waits \in {0, call[c].waits}
      BY <2>2 DEF TypeOK
    <3>. QED
      BY <2>1, <3>1, AwaitedStays DEF Used
  <2>4. SlotHolds' /\ OperationFollowsTask'
    BY <1>4, ReceiveStep DEF Receive, TypeOK, SlotHolds, OperationFollowsTask
  <2>. QED
    BY <2>3, <2>4
<1>5. ASSUME NEW o \in Ops, Finished(o)
      PROVE  SlotHolds' /\ OperationFollowsTask' /\ Awaited'
  <2>1. \A q \in Ops : /\ Used(q)' <=> Used(q)
                       /\ task[q].pc \in {"ended", "done"} => task'[q].pc \in {"ended", "done"}
    BY <1>5, FinishStep DEF TypeOK, Used
  <2>2. call' = call /\ ready' = ready /\ current' \in {0, current}
    BY <1>5 DEF Finished, connection
  <2>3. Awaited'
    <3>1. /\ call' \in [Callers -> Calls] /\ (ready' => ready)
          /\ \A c \in Callers : call'[c].waits \in {0, call[c].waits}
      BY <2>2 DEF TypeOK
    <3>. QED
      BY <2>1, <3>1, AwaitedStays DEF Used
  <2>4. SlotHolds' /\ OperationFollowsTask'
    <3>1. op[o] = "RUNNING" /\ op' = [op EXCEPT ![o] = Outcome(task[o].result)]
      BY <1>5, FinishStep DEF Finished, TypeOK, OperationFollowsTask
    <3>2. op'[o] # "RUNNING" /\ \A q \in Ops \ {o} : op'[q] = op[q]
      BY <3>1, Outcomes DEF TypeOK
    <3>3. OperationFollowsTask'
      BY <3>2, FinishStep, <1>5 DEF OperationFollowsTask
    <3>4. SlotHolds'
      BY <1>5, FinishStep DEF Finished, SlotHolds
    <3>. QED
      BY <3>3, <3>4
  <2>. QED
    BY <2>3, <2>4
<1>6. ASSUME NEW o \in Ops, RetryWhenReady(o)
      PROVE  SlotHolds' /\ OperationFollowsTask' /\ Awaited'
  <2>1. CASE started /\ ready /\ task[o].gen = gen
    <3>1. SlotHolds' /\ OperationFollowsTask'
      BY <1>6, <2>1, StartTracked DEF RetryWhenReady, connection
    <3>2. \A c \in Callers : call'[c].waits = 0
      BY <1>6, <2>1, ReadyAwaitsNothing DEF RetryWhenReady
    <3>. QED
      BY <3>1, <3>2, NothingAwaited
  <2>2. CASE ~(started /\ ready /\ task[o].gen = gen)
    <3>1. /\ task' = task /\ op' = op /\ current' = current /\ call' = call
          /\ ready' => ready
      BY <1>6, <2>2 DEF RetryWhenReady, connection
    <3>2. Awaited'
      BY <3>1, AwaitedStays DEF TypeOK, Used
    <3>. QED
      BY <3>1, <3>2 DEF SlotHolds, OperationFollowsTask
  <2>. QED
    BY <2>1, <2>2
<1>7. ASSUME NEW o \in Ops, NEW r \in {"complete", "incomplete", "failed"},
              TaskEnds(o, r)
      PROVE  SlotHolds' /\ OperationFollowsTask' /\ Awaited'
  <2>1. \A q \in Ops : /\ Used(q)' <=> Used(q)
                       /\ task[q].pc \in {"ended", "done"} => task'[q].pc \in {"ended", "done"}
    BY <1>7, EndStep DEF TypeOK, Used
  <2>2. call' = call /\ ready' = ready /\ current' \in {0, current}
    BY <1>7 DEF TaskEnds, connection
  <2>3. Awaited'
    <3>1. /\ call' \in [Callers -> Calls] /\ (ready' => ready)
          /\ \A c \in Callers : call'[c].waits \in {0, call[c].waits}
      BY <2>2 DEF TypeOK
    <3>. QED
      BY <2>1, <3>1, AwaitedStays DEF Used
  <2>4. SlotHolds' /\ OperationFollowsTask'
    BY <1>7, EndStep DEF TaskEnds, TypeOK, SlotHolds, OperationFollowsTask
  <2>. QED
    BY <2>3, <2>4
<1>8. ASSUME ConnectionLost
      PROVE  SlotHolds' /\ OperationFollowsTask' /\ Awaited'
  <2>1. CancelHistory("manager", "lost", NoDevice) /\ ~ready' /\ UNCHANGED <<op, current>>
    BY <1>8 DEF ConnectionLost
  <2>. QED
    BY <2>1, CancelTracked
<1>9. ASSUME LostHandled
      PROVE  SlotHolds' /\ OperationFollowsTask' /\ Awaited'
  <2>1. /\ op' = op /\ \A k \in Callers : call'[k].waits \in {0, call[k].waits}
        /\ \A o \in Ops : task[o].pc = "running" => current' = o
        /\ call' \in [Callers -> Calls]
    BY <1>9, ReturnTracked, ReturnStep DEF LostHandled
  <2>2. task' = task /\ (ready' => ready)
    BY <1>9 DEF LostHandled
  <2>3. Awaited'
    BY <2>1, <2>2, AwaitedStays DEF Used
  <2>. QED
    BY <2>1, <2>2, <2>3 DEF SlotHolds, OperationFollowsTask
<1>10. ASSUME Disconnect
      PROVE  SlotHolds' /\ OperationFollowsTask' /\ Awaited'
  <2>1. CancelHistory("api", "disconnect", NoDevice) /\ ~ready' /\ UNCHANGED <<op, current>>
    BY <1>10 DEF Disconnect
  <2>. QED
    BY <2>1, CancelTracked
<1>11. ASSUME DisconnectEnds
      PROVE  SlotHolds' /\ OperationFollowsTask' /\ Awaited'
  <2>1. /\ op' = op /\ \A k \in Callers : call'[k].waits \in {0, call[k].waits}
        /\ \A o \in Ops : task[o].pc = "running" => current' = o
        /\ call' \in [Callers -> Calls]
    BY <1>11, ReturnTracked, ReturnStep DEF DisconnectEnds
  <2>2. task' = task /\ (ready' => ready)
    BY <1>11 DEF DisconnectEnds
  <2>3. Awaited'
    BY <2>1, <2>2, AwaitedStays DEF Used
  <2>. QED
    BY <2>1, <2>2, <2>3 DEF SlotHolds, OperationFollowsTask
<1>12. ASSUME NEW d \in Devices, Switch(d)
      PROVE  SlotHolds' /\ OperationFollowsTask' /\ Awaited'
  <2>1. CancelHistory("api", "select", d) /\ ~ready' /\ UNCHANGED <<op, current>>
    BY <1>12 DEF Switch
  <2>. QED
    BY <2>1, CancelTracked
<1>13. ASSUME NEW d \in Devices, Retarget(d)
      PROVE  SlotHolds' /\ OperationFollowsTask' /\ Awaited'
  <2>1. /\ task' = task /\ op' = op /\ current' = current /\ call' = call
        /\ ready' => ready
    BY <1>13 DEF Retarget, connection, history
  <2>2. Awaited'
    BY <2>1, AwaitedStays DEF TypeOK, Used
  <2>. QED
    BY <2>1, <2>2 DEF SlotHolds, OperationFollowsTask
<1>14. ASSUME Select
      PROVE  SlotHolds' /\ OperationFollowsTask' /\ Awaited'
  <2>1. /\ op' = op /\ \A k \in Callers : call'[k].waits \in {0, call[k].waits}
        /\ \A o \in Ops : task[o].pc = "running" => current' = o
        /\ call' \in [Callers -> Calls]
    BY <1>14, ReturnTracked, ReturnStep DEF Select
  <2>2. task' = task /\ (ready' => ready)
    BY <1>14 DEF Select
  <2>3. Awaited'
    BY <2>1, <2>2, AwaitedStays DEF Used
  <2>. QED
    BY <2>1, <2>2, <2>3 DEF SlotHolds, OperationFollowsTask
<1>15. ASSUME Stop
      PROVE  SlotHolds' /\ OperationFollowsTask' /\ Awaited'
  <2>1. CancelHistory("api", "stop", NoDevice) /\ ~ready' /\ UNCHANGED <<op, current>>
    BY <1>15 DEF Stop
  <2>. QED
    BY <2>1, CancelTracked
<1>16. ASSUME StopEnds
      PROVE  SlotHolds' /\ OperationFollowsTask' /\ Awaited'
  <2>1. /\ op' = op /\ \A k \in Callers : call'[k].waits \in {0, call[k].waits}
        /\ call' \in [Callers -> Calls] /\ (ready' => ready)
    BY <1>16, ReturnTracked, ReturnStep DEF StopEnds
  <2>2. \A q \in Ops : /\ Used(q)' <=> Used(q)
                       /\ task'[q].pc = IF task[q].pc = "running" THEN "ended" ELSE task[q].pc
    BY <1>16, CancelledTasks DEF StopEnds, StopTasks, Used
  <2>3. Awaited'
    BY <2>1, <2>2, AwaitedStays
  <2>. QED
    BY <2>1, <2>2, <2>3 DEF SlotHolds, OperationFollowsTask
<1>17. CASE UNCHANGED vars
  <2>1. /\ task' = task /\ op' = op /\ current' = current /\ call' = call
        /\ ready' => ready
    BY <1>17 DEF vars, connection, history
  <2>2. Awaited'
    BY <2>1, AwaitedStays DEF TypeOK, Used
  <2>. QED
    BY <2>1, <2>2 DEF SlotHolds, OperationFollowsTask
<1>. QED
  BY <1>1, <1>2, <1>3, <1>4, <1>5, <1>6, <1>7, <1>8, <1>9, <1>10, <1>11,
       <1>12, <1>13, <1>14, <1>15, <1>16, <1>17 DEF Next

\* With a transfer started or shared, the last one runs: none needs a retry.
LEMMA StartNeedsNoRetry ==
  ASSUME TypeOK, Numbered, gen' = gen,
         NEW source \in {"manual", "automatic"}, StartHistorySync(source)
  PROVE  RetryPending'
<1> SUFFICES ASSUME NEW o \in Ops, task'[o].pc = "done",
                    \A q \in Ops : task'[q].pc # "unused" => q <= o
             PROVE  FALSE
  BY DEF RetryPending
<1>1. CASE Alive(current) /\ task' = task /\ current' = current
  <2>1. current \in Ops /\ task[current].pc = "running" /\ Used(o)
    BY <1>1 DEF Alive, TypeOK, Used
  <2>2. current <= o /\ o <= current
    BY <1>1, <2>1 DEF Used, Numbered
  <2>3. current = o
    BY <2>1, <2>2
  <2>. QED
    BY <1>1, <2>1, <2>3
<1>2. CASE ~Alive(current)
  <2>1. PICK n \in Ops : /\ task'[n].pc = "running"
                         /\ \A q \in Ops : Used(q)' <=> q <= n
    BY <1>2, Started
  <2>2. n <= o /\ o <= n
    BY <2>1 DEF Used
  <2>3. n = o
    BY <2>1, <2>2
  <2>. QED
    BY <2>1, <2>3
<1>. QED
  BY <1>1, <1>2, Started

\* The callback of an automatic transfer leaves the retry it needs, and a
\* retry that goes off before the connection is lost starts the next one.
LEMMA RetryKept ==
  ASSUME TypeOK, Numbered, GenerationsPast, RetryPending, Stopping, [Next]_vars
  PROVE  RetryPending'
<1>1. ASSUME AttemptVerified
      PROVE  RetryPending'
  BY <1>1 DEF AttemptVerified, RetryPending, connection, history
<1>2. ASSUME Commit
      PROVE  RetryPending'
  BY <1>2, StartNeedsNoRetry DEF Commit
<1>3. ASSUME RequestHistorySync
      PROVE  RetryPending'
  BY <1>3, StartNeedsNoRetry DEF RequestHistorySync, connection
<1>4. ASSUME NEW o \in Ops, Receive(o)
      PROVE  RetryPending'
  <2>1. \A q \in Ops : task'[q].pc = "done" => task'[q] = task[q]
    BY <1>4, ReceiveStep
  <2>2. \A q \in Ops : task'[q].pc # "unused" <=> task[q].pc # "unused"
    BY <1>4, ReceiveStep
  <2>. QED
    BY <1>4, <2>1, <2>2 DEF Receive, RetryPending, connection
<1>5. ASSUME NEW o \in Ops, Finished(o)
      PROVE  RetryPending'
  <2>1. /\ task'[o].source = task[o].source /\ task'[o].result = task[o].result
        /\ \A q \in Ops \ {o} : task'[q] = task[q]
    BY <1>5, FinishStep
  <2>2. \A q \in Ops : task'[q].pc # "unused" <=> task[q].pc # "unused"
    BY <1>5, FinishStep
  <2>3. /\ started' = started /\ ready' = ready /\ gen' = gen
        /\ timer' = IF task[o].source = "automatic" /\ Retry(task[o].result) /\ started
                    THEN timer \cup {o} ELSE timer
    BY <1>5 DEF Finished, connection
  <2>4. ASSUME NEW q \in Ops,
               started, ready, task'[q].pc = "done", task'[q].source = "automatic",
               Retry(task'[q].result), task'[q].gen = gen,
               \A p \in Ops : task'[p].pc # "unused" => p <= q
        PROVE  q \in timer'
    <3>1. CASE q = o
      BY <2>1, <2>3, <2>4, <3>1
    <3>2. CASE q # o
      <4>1. task'[q] = task[q]
        BY <2>1, <3>2
      <4>2. \A p \in Ops : task[p].pc # "unused" => p <= q
        BY <2>2, <2>4
      <4>. QED
        BY <2>3, <2>4, <4>1, <4>2 DEF RetryPending
    <3>. QED
      BY <3>1, <3>2
  <2>. QED
    BY <2>3, <2>4 DEF RetryPending
<1>6. ASSUME NEW o \in Ops, RetryWhenReady(o)
      PROVE  RetryPending'
  <2>1. CASE started /\ ready /\ task[o].gen = gen
    BY <1>6, <2>1, StartNeedsNoRetry DEF RetryWhenReady, connection
  <2>2. CASE ~(started /\ ready /\ task[o].gen = gen)
    BY <1>6, <2>2 DEF RetryWhenReady, RetryPending, connection
  <2>. QED
    BY <2>1, <2>2
<1>7. ASSUME NEW o \in Ops, NEW r \in {"complete", "incomplete", "failed"},
              TaskEnds(o, r)
      PROVE  RetryPending'
  <2>1. \A q \in Ops : task'[q].pc = "done" => task'[q] = task[q]
    BY <1>7, EndStep
  <2>2. \A q \in Ops : task'[q].pc # "unused" <=> task[q].pc # "unused"
    BY <1>7, EndStep
  <2>. QED
    BY <1>7, <2>1, <2>2 DEF TaskEnds, RetryPending, connection
<1>8. ASSUME ConnectionLost
      PROVE  RetryPending'
  BY <1>8 DEF ConnectionLost, RetryPending
<1>9. ASSUME LostHandled
      PROVE  RetryPending'
  BY <1>9 DEF LostHandled, RetryPending
<1>10. ASSUME Disconnect
      PROVE  RetryPending'
  BY <1>10 DEF Disconnect, RetryPending
<1>11. ASSUME DisconnectEnds
      PROVE  RetryPending'
  BY <1>11 DEF DisconnectEnds, RetryPending
<1>12. ASSUME NEW d \in Devices, Switch(d)
      PROVE  RetryPending'
  BY <1>12 DEF Switch, RetryPending
<1>13. ASSUME NEW d \in Devices, Retarget(d)
      PROVE  RetryPending'
  BY <1>13 DEF Retarget, RetryPending
<1>14. ASSUME Select
      PROVE  RetryPending'
  BY <1>14 DEF Select, RetryPending
<1>15. ASSUME Stop
      PROVE  RetryPending'
  BY <1>15 DEF Stop, RetryPending
<1>16. ASSUME StopEnds
      PROVE  RetryPending'
  BY <1>16 DEF StopEnds, RetryPending, Stopping
<1>17. CASE UNCHANGED vars
  BY <1>17 DEF vars, connection, history, RetryPending
<1>. QED
  BY <1>1, <1>2, <1>3, <1>4, <1>5, <1>6, <1>7, <1>8, <1>9, <1>10, <1>11,
       <1>12, <1>13, <1>14, <1>15, <1>16, <1>17 DEF Next

\* Nothing is started after stop has cancelled the manager and the background
\* tasks.
LEMMA StoppingKept ==
  ASSUME TypeOK, Numbered, Stopping, [Next]_vars
  PROVE  Stopping'
<1>1. ASSUME AttemptVerified
      PROVE  Stopping'
  <2>1. /\ started' = started /\ call' = call /\ timer' = timer
        /\ (started \/ verified' = verified) /\ (started \/ task' = task)
    BY <1>1 DEF AttemptVerified, connection, history
  <2>. QED
    BY <2>1 DEF Stopping, StoppedIsIdle
<1>2. ASSUME Commit
      PROVE  Stopping'
  <2>1. /\ started' = started /\ call' = call /\ verified # NoDevice /\ verified' = NoDevice
    BY <1>2 DEF Commit
  <2>. QED
    BY <2>1 DEF Stopping, StoppedIsIdle
<1>3. ASSUME RequestHistorySync
      PROVE  Stopping'
  <2>1. started /\ started' = started /\ call' = call
    BY <1>3 DEF RequestHistorySync, connection
  <2>. QED
    BY <2>1 DEF Stopping, StoppedIsIdle
<1>4. ASSUME NEW o \in Ops, Receive(o)
      PROVE  Stopping'
  <2>1. \A q \in Ops : task[q].pc # "running" => task'[q].pc # "running"
    BY <1>4, ReceiveStep
  <2>2. /\ started' = started /\ call' = call /\ verified' = verified
        /\ (started \/ timer' = timer)
    BY <1>4 DEF Receive, connection
  <2>. QED
    BY <2>1, <2>2 DEF Stopping, StoppedIsIdle
<1>5. ASSUME NEW o \in Ops, Finished(o)
      PROVE  Stopping'
  <2>1. \A q \in Ops : task[q].pc # "running" => task'[q].pc # "running"
    BY <1>5, FinishStep
  <2>2. /\ started' = started /\ call' = call /\ verified' = verified
        /\ (started \/ timer' = timer)
    BY <1>5 DEF Finished, connection
  <2>. QED
    BY <2>1, <2>2 DEF Stopping, StoppedIsIdle
<1>6. ASSUME NEW o \in Ops, RetryWhenReady(o)
      PROVE  Stopping'
  <2>1. /\ started' = started /\ call' = call /\ verified' = verified
        /\ timer' = timer \ {o} /\ (started \/ task' = task)
    BY <1>6 DEF RetryWhenReady, connection
  <2>. QED
    BY <2>1 DEF Stopping, StoppedIsIdle
<1>7. ASSUME NEW o \in Ops, NEW r \in {"complete", "incomplete", "failed"},
              TaskEnds(o, r)
      PROVE  Stopping'
  <2>1. \A q \in Ops : task[q].pc # "running" => task'[q].pc # "running"
    BY <1>7, EndStep
  <2>2. /\ started' = started /\ call' = call /\ verified' = verified
        /\ (started \/ timer' = timer)
    BY <1>7 DEF TaskEnds, connection
  <2>. QED
    BY <2>1, <2>2 DEF Stopping, StoppedIsIdle
<1>8. ASSUME ConnectionLost
      PROVE  Stopping'
  <2>1. CancelHistory("manager", "lost", NoDevice) /\ started /\ started' = started
    BY <1>8 DEF ConnectionLost
  <2>2. call'["manager"].pc = "lost" /\ \A k \in Callers \ {"manager"} : call'[k] = call[k]
    BY <2>1, CancelStep
  <2>. QED
    BY <2>1, <2>2 DEF Stopping, StoppedIsIdle
<1>9. ASSUME LostHandled
      PROVE  Stopping'
  <2>1. call'["manager"].pc = "idle" /\ \A k \in Callers \ {"manager"} : call'[k] = call[k]
    BY <1>9, ReturnStep DEF LostHandled
  <2>2. /\ started' = started /\ timer' = timer /\ verified' = verified /\ task' = task
    BY <1>9 DEF LostHandled
  <2>. QED
    BY <1>9, <2>1, <2>2 DEF LostHandled, Stopping, StoppedIsIdle
<1>10. ASSUME Disconnect
      PROVE  Stopping'
  <2>1. CancelHistory("api", "disconnect", NoDevice) /\ started /\ started' = started
    BY <1>10 DEF Disconnect
  <2>2. call'["api"].pc = "disconnect" /\ \A k \in Callers \ {"api"} : call'[k] = call[k]
    BY <2>1, CancelStep
  <2>. QED
    BY <2>1, <2>2 DEF Stopping, StoppedIsIdle
<1>11. ASSUME DisconnectEnds
      PROVE  Stopping'
  <2>1. call'["api"].pc = "idle" /\ \A k \in Callers \ {"api"} : call'[k] = call[k]
    BY <1>11, ReturnStep DEF DisconnectEnds
  <2>2. /\ started' = started /\ timer' = timer /\ verified' = verified /\ task' = task
    BY <1>11 DEF DisconnectEnds
  <2>. QED
    BY <1>11, <2>1, <2>2 DEF DisconnectEnds, Stopping, StoppedIsIdle
<1>12. ASSUME NEW d \in Devices, Switch(d)
      PROVE  Stopping'
  <2>1. CancelHistory("api", "select", d) /\ started /\ started' = started
    BY <1>12 DEF Switch
  <2>2. call'["api"].pc = "select" /\ \A k \in Callers \ {"api"} : call'[k] = call[k]
    BY <2>1, CancelStep
  <2>. QED
    BY <2>1, <2>2 DEF Stopping, StoppedIsIdle
<1>13. ASSUME NEW d \in Devices, Retarget(d)
      PROVE  Stopping'
  <2>1. /\ started' = started /\ call' = call /\ timer' = timer
        /\ (started \/ verified' = verified) /\ (started \/ task' = task)
    BY <1>13 DEF Retarget, connection, history
  <2>. QED
    BY <2>1 DEF Stopping, StoppedIsIdle
<1>14. ASSUME Select
      PROVE  Stopping'
  <2>1. call'["api"].pc = "idle" /\ \A k \in Callers \ {"api"} : call'[k] = call[k]
    BY <1>14, ReturnStep DEF Select
  <2>2. /\ started' = started /\ timer' = timer /\ verified' = verified /\ task' = task
    BY <1>14 DEF Select
  <2>. QED
    BY <1>14, <2>1, <2>2 DEF Select, Stopping, StoppedIsIdle
<1>15. ASSUME Stop
      PROVE  Stopping'
  <2>1. CancelHistory("api", "stop", NoDevice) /\ started /\ started' = FALSE
    BY <1>15 DEF Stop
  <2>2. call'["api"].pc = "stop" /\ \A k \in Callers \ {"api"} : call'[k] = call[k]
    BY <2>1, CancelStep
  <2>. QED
    BY <2>1, <2>2 DEF Stopping, StoppedIsIdle
<1>16. ASSUME StopEnds
      PROVE  Stopping'
  <2>1. call'["api"].pc = "idle" /\ started' = started /\ verified' = NoDevice /\ timer' = {}
    BY <1>16, ReturnStep DEF StopEnds
  <2>2. \A q \in Ops : task'[q].pc # "running"
    BY <1>16, CancelledTasks DEF StopEnds, StopTasks
  <2>. QED
    BY <2>1, <2>2 DEF Stopping, StoppedIsIdle
<1>17. CASE UNCHANGED vars
  <2>1. /\ started' = started /\ call' = call /\ timer' = timer
        /\ (started \/ verified' = verified) /\ (started \/ task' = task)
    BY <1>17 DEF vars, connection, history
  <2>. QED
    BY <2>1 DEF Stopping, StoppedIsIdle
<1>. QED
  BY <1>1, <1>2, <1>3, <1>4, <1>5, <1>6, <1>7, <1>8, <1>9, <1>10, <1>11,
       <1>12, <1>13, <1>14, <1>15, <1>16, <1>17 DEF Next

\* The invariant holds when the service has been started.
LEMMA Initially == Init => IInv
<1> SUFFICES ASSUME Init PROVE IInv
  OBVIOUS
<1>1. /\ NoTask \in Tasks /\ NoTask.pc = "unused"
      /\ NoCall \in Calls /\ NoCall.pc = "idle" /\ NoCall.waits = 0
  BY DEF Tasks, Calls
<1>2. task \in [Ops -> Tasks] /\ call \in [Callers -> Calls]
  BY <1>1 DEF Init
<1>3. /\ \A o \in Ops : task[o].pc = "unused" /\ op[o] = "none"
      /\ \A c \in Callers : call[c].pc = "idle" /\ call[c].waits = 0
  BY <1>1 DEF Init
<1>4. TypeOK
  <2>1. gen \in 0..MaxCalls /\ calls \in 0..MaxCalls /\ current \in 0..MaxOps
    BY DEF Init
  <2>2. op \in [Ops -> {"none", "RUNNING", "SUCCEEDED", "FAILED", "CANCELLED"}]
    BY DEF Init
  <2>3. {target, client, verified} \subseteq Devices \cup {NoDevice} /\ timer \subseteq Ops
    BY DEF Init
  <2>4. /\ started \in BOOLEAN /\ ready \in BOOLEAN /\ desired \in BOOLEAN
        /\ misfiled \in BOOLEAN /\ overtaken \in BOOLEAN
    BY DEF Init
  <2>. QED
    BY <1>2, <2>1, <2>2, <2>3, <2>4 DEF TypeOK
<1>5. CallsCounted /\ Numbered /\ GenerationsPast
  BY <1>3 DEF Init, CallsCounted, Numbered, GenerationsPast, Used
<1>6. Tracked /\ RetryPending
  BY <1>3 DEF Tracked, SlotHolds, OperationFollowsTask, Awaited, RetryPending
<1>7. Stopping
  BY <1>3 DEF Init, Stopping, StoppedIsIdle
<1>. QED
  BY <1>4, <1>5, <1>6, <1>7 DEF IInv

\* Every step keeps the invariant.
LEMMA Invariance == IInv /\ [Next]_vars => IInv'
<1> SUFFICES ASSUME IInv, [Next]_vars PROVE IInv'
  OBVIOUS
<1>. TypeOK /\ CallsCounted /\ Numbered /\ GenerationsPast /\ Tracked /\ RetryPending /\ Stopping
  BY DEF IInv
<1>1. TypeOK' /\ CallsCounted'
  BY TypeKept
<1>2. Numbered' /\ GenerationsPast'
  BY NumberedKept
<1>3. Tracked'
  BY TrackedKept DEF Tracked
<1>4. RetryPending'
  BY RetryKept
<1>5. Stopping'
  BY StoppingKept
<1>. QED
  BY <1>1, <1>2, <1>3, <1>4, <1>5 DEF IInv

-----------------------------------------------------------------------------
(* Theorems *)

\* Every variable keeps its type, however many operations and calls there are.
THEOREM TypeCorrect == Spec => []TypeOK
<1>1. IInv => TypeOK
  BY DEF IInv
<1>. QED
  BY <1>1, Initially, Invariance, PTL DEF Spec

\* If a running transfer is the one in the slot, there is at most one.
LEMMA AtMostOne ==
  ASSUME SlotHolds
  PROVE  Cardinality({o \in Ops : task[o].pc = "running"}) <= 1
<1>. DEFINE R == {o \in Ops : task[o].pc = "running"}
<1>1. R \subseteq {current}
  BY DEF SlotHolds
<1>2. IsFiniteSet({current}) /\ Cardinality({current}) = 1
  BY FS_Singleton
<1>3. Cardinality(R) <= Cardinality({current})
  BY <1>1, <1>2, FS_Subset
<1>. QED
  BY <1>2, <1>3

\* One transfer at a time with its operation, a retry for every transfer that
\* needs one, and nothing left by a stop (_start_history_sync, _cancel_history,
\* retry_when_ready, stop).
THEOREM TransfersFollowed == Spec => []TransfersTracked
<1>1. IInv => TransfersTracked
  <2> SUFFICES ASSUME IInv PROVE TransfersTracked
    OBVIOUS
  <2>1. OneTransfer
    BY AtMostOne DEF IInv, Tracked, OneTransfer
  <2>2. OperationFollowsTask
    BY DEF IInv, Tracked, OperationFollowsTask
  <2>. QED
    BY <2>1, <2>2 DEF IInv, Stopping, TransfersTracked
<1>. QED
  BY <1>1, Initially, Invariance, PTL DEF Spec

HIDE BoundsAssumption DEF Ops, Callers, NoCall, NoTask

-----------------------------------------------------------------------------
(* All parts together. *)

SamplesInv == PollInv /\ IInv /\ TransfersInv /\ StoresInv

\* Every part starts with its invariant.
LEMMA SamplesInitially == MCInit => SamplesInv
<1>1. SUFFICES ASSUME MCInit PROVE SamplesInv
  OBVIOUS
<1>2. PollInv /\ IInv
  BY <1>1, PollInitially, Initially DEF MCInit
<1>3. TransfersInv
  BY <1>1, TransferInitially DEF MCInit, TransfersInv
<1>4. StoresInv
  <2>1. SUFFICES ASSUME NEW p \in DOMAIN Stores, part = p PROVE StoreInv(p)
    BY DEF StoresInv
  <2>2. Store(p)!Init
    BY <1>1, <2>1 DEF MCInit
  <2>. QED
    BY <2>2, StoreInitially
<1>. QED
  BY <1>2, <1>3, <1>4 DEF SamplesInv

\* A step of one part leaves the others alone.
LEMMA SamplesKept ==
  SamplesInv /\ [MCNext]_<<part, pollVars, vars, transferVars, storeVars>> => SamplesInv'
<1>1. SUFFICES ASSUME SamplesInv, [MCNext]_<<part, pollVars, vars, transferVars, storeVars>>
               PROVE  SamplesInv'
  OBVIOUS
<1>2. part' = part
  BY <1>1 DEF MCNext, PollRuns, TaskRuns, TransferRuns, StoreRuns
<1>3. PollInv'
  <2>1. Poll!Next \/ UNCHANGED pollVars
    BY <1>1 DEF MCNext, PollRuns, TaskRuns, TransferRuns, StoreRuns
  <2>. QED
    BY <1>1, <2>1, PollKept DEF SamplesInv
<1>4. IInv'
  <2>1. [Next]_vars
    BY <1>1 DEF MCNext, PollRuns, TaskRuns, TransferRuns, StoreRuns
  <2>. QED
    BY <1>1, <2>1, Invariance DEF SamplesInv
<1>5. TransfersInv'
  <2>1. SUFFICES ASSUME NEW p \in Parts, part = p PROVE TransferInv(p)'
    BY <1>2 DEF TransfersInv
  <2>2. TransferInv(p)
    BY <1>1, <2>1 DEF SamplesInv, TransfersInv
  <2>3. Transfer(p)!Next \/ UNCHANGED transferVars
    BY <1>1, <2>1 DEF MCNext, PollRuns, TaskRuns, TransferRuns, StoreRuns
  <2>. QED
    BY <2>2, <2>3, TransferKept
<1>6. StoresInv'
  <2>1. SUFFICES ASSUME NEW p \in DOMAIN Stores, part = p PROVE StoreInv(p)'
    BY <1>2 DEF StoresInv
  <2>2. StoreInv(p)
    BY <1>1, <2>1 DEF SamplesInv, StoresInv
  <2>3. Store(p)!Next \/ UNCHANGED storeVars
    BY <1>1, <2>1 DEF MCNext, PollRuns, TaskRuns, TransferRuns, StoreRuns
  <2>. QED
    BY <2>2, <2>3, StoreKept
<1>. QED
  BY <1>3, <1>4, <1>5, <1>6 DEF SamplesInv

\* The invariant holds from the first state on.
LEMMA SamplesAlways == MCSpec => []SamplesInv
BY SamplesInitially, SamplesKept, PTL DEF MCSpec

\* Nothing is lost between the device and the table without a trace, for any
\* ring, chunk size, number of retries, sequence space and clock phases: every
\* second is polled or reported missing once, a transfer has every record it
\* was announced or says what failed, and reconciliation leaves no second
\* without a row (_poll_loop, synchronize, reconcile_provisional_intervals).
THEOREM NothingLost == MCSpec => []NoSampleLost
<1>1. SamplesInv => NoSampleLost
  <2>1. SUFFICES ASSUME SamplesInv PROVE NoSampleLost
    OBVIOUS
  <2>2. Poll!SlotsAccounted
    BY <2>1, PollShows DEF SamplesInv
  <2>3. ASSUME NEW p \in DOMAIN Firmware, part = p
        PROVE  Transfer(p)!NoSilentLoss /\ Transfer(p)!NothingOverwritten
    BY <2>1, <2>3, TransferShows DEF SamplesInv, TransfersInv, Parts
  <2>4. ASSUME NEW p \in DOMAIN Stores, part = p PROVE Store(p)!NoHole
    BY <2>1, <2>4, StoreShows DEF SamplesInv, StoresInv
  <2>. QED
    BY <2>2, <2>3, <2>4 DEF NoSampleLost
<1>. QED
  BY <1>1, SamplesAlways, PTL

\* What is recorded happened: the stored readings are the device's and agree
\* with their average, a record is dated by the second it was sampled in
\* although sequence numbers wrap, and a display result is a state the display
\* showed (upsert_history, timestamp, set_display).
THEOREM RecordedHappened == MCSpec => []RecordsTrue
<1>1. SamplesInv => RecordsTrue
  <2>1. SUFFICES ASSUME SamplesInv PROVE RecordsTrue
    OBVIOUS
  <2>2. Poll!TypeOK /\ Poll!ConfirmedWasShown /\ Poll!LogFollowsDevice
    BY <2>1, PollShows DEF SamplesInv
  <2>3. TypeOK
    BY <2>1 DEF SamplesInv, IInv
  <2>4. ASSUME NEW p \in DOMAIN Firmware, part = p
        PROVE  Transfer(p)!TypeOK /\ Transfer(p)!DatesTrue
    BY <2>1, <2>4, TransferShows DEF SamplesInv, TransfersInv, Parts
  <2>5. ASSUME NEW p \in DOMAIN Stores, part = p PROVE Store(p)!TypeOK /\ Store(p)!RowsTrue
    BY <2>1, <2>5, StoreShows DEF SamplesInv, StoresInv
  <2>. QED
    BY <2>2, <2>3, <2>4, <2>5 DEF RecordsTrue
<1>. QED
  BY <1>1, SamplesAlways, PTL

\* A stored reading is never taken back, whatever batches arrive, in whatever
\* order, and whichever calls of the database fail (upsert_history).
THEOREM ReadingsKept == MCSpec => SamplesOnlyGain
<1>1. SamplesInv /\ [MCNext]_<<part, pollVars, vars, transferVars, storeVars>>
        => [Store(AnyStore)!OnlyGain]_storeVars
  <2>1. SUFFICES ASSUME SamplesInv, [MCNext]_<<part, pollVars, vars, transferVars, storeVars>>,
                        ~UNCHANGED storeVars
                 PROVE  Store(AnyStore)!OnlyGain
    OBVIOUS
  <2>2. PICK p \in DOMAIN Stores : part = p /\ Store(p)!Next
    BY <2>1 DEF MCNext, PollRuns, TaskRuns, TransferRuns, StoreRuns
  <2>3. StoreInv(p)
    BY <2>1, <2>2 DEF SamplesInv, StoresInv
  <2>. QED
    BY <2>2, <2>3, StoreGains
<1>. QED
  BY <1>1, SamplesAlways, PTL DEF MCSpec, SamplesOnlyGain
=============================================================================
