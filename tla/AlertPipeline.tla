---------------------------- MODULE AlertPipeline ---------------------------
(***************************************************************************)
(* frontend: the way of a temperature alert from a sample to an email.     *)
(* Every open page of the console runs src/lib/alertEngine.ts over the     *)
(* frames it polls (useAlertEngine.ts), keeps the latest events, and posts *)
(* each HIGH or LOW one once (useAlertNotifier.ts, notifyClient.ts) to the *)
(* notification server (server/app.ts, server/notify.ts), which remembers  *)
(* what it has delivered and hands the message to an SMTP server.          *)
(*                                                                         *)
(* Temperatures are 0, 1 and 2; a rule's minimum is 1 and its maximum 1,   *)
(* or 2 after an edit.  A page loaded again is another page.  The pages    *)
(* loaded the same configuration, before a save of it gave the recipients  *)
(* other identifiers.  Messages, addresses and tokens are left out.        *)
(***************************************************************************)
EXTENDS Naturals, Sequences, FiniteSets

CONSTANTS
  Pages,       \* the pages loaded during a behaviour
  KeyOrder,    \* <<recipient, source>> in the order of the two loops
  Gap,         \* no reading
  MaxEvents,   \* MAX_EVENTS
  SeenLimit,   \* SEEN_LIMIT
  MaxSamples,  \* bound: samples stored
  MaxEdits,    \* bound: edits of the alert configuration
  MaxFaults    \* bound: failures of the mail server, of requests, restarts

Elements(list) == {list[i] : i \in DOMAIN list}
Keys       == Elements(KeyOrder)
Recipients == {k[1] : k \in Keys}
Sources    == {k[2] : k \in Keys}

AlertAssumption ==
  /\ KeyOrder \in Seq(Recipients \X Sources) /\ Gap \notin 0 .. 2
  /\ {MaxEvents, SeenLimit, MaxSamples, MaxEdits, MaxFaults} \subseteq Nat

VARIABLES
  sample,      \* the latest row of temperature_samples
  open,        \* the pages that are open
  frame,       \* the frame each page has
  enabled,     \* the recipients each page has enabled
  top,         \* the maximum of each recipient's rules
  states,      \* the engine's state: an episode for each key
  events,      \* the events each page keeps
  dispatched,  \* the identifiers each page has posted
  status,      \* what each page shows for what it posted
  posts,       \* requests on their way and at the server
  seen,        \* the identifiers the server remembers as delivered
  mails,       \* the emails handed over
  fired,       \* the HIGH and LOW events of all pages (a history)
  edits, faults

engineVars == <<frame, enabled, top, states, events, fired>>
serverVars == <<posts, seen, mails>>
vars == <<sample, open, engineVars, dispatched, status, serverVars, edits, faults>>

Zones    == {"LOW", "NORMAL", "HIGH"}
Readings == [Sources -> (0 .. 2) \cup {Gap}]
NoFrame  == [at |-> 0, value |-> [s \in Sources |-> Gap]]
Frames   == [at : 0 .. MaxSamples, value : Readings]
Ids      == [key : Keys, zone : {"LOW", "HIGH"}, at : 0 .. MaxSamples]
Events   == [key : Keys, zone : Zones, at : 0 .. MaxSamples]
Requests == [page : Pages, id : Ids, place : {"way", "sender"}]
Outcomes == {"pending", "sent", "skipped", "failed", "unreachable"}

TypeOK ==
  /\ sample \in Frames /\ open \subseteq Pages
  /\ frame \in [Pages -> Frames]
  /\ enabled \in [Pages -> SUBSET Recipients]
  /\ top \in [Pages -> [Recipients -> 1 .. 2]]
  /\ states \in [Pages -> [Keys -> Zones]]
  /\ events \in [Pages -> Seq(Events)]
  /\ \A p \in Pages : Len(events[p]) <= MaxEvents
  /\ dispatched \in [Pages -> SUBSET Ids]
  /\ DOMAIN status = Pages
  /\ \A p \in Pages : status[p] \in [dispatched[p] -> Outcomes]
  /\ posts \subseteq Requests
  /\ \A q \in posts : q.id \in dispatched[q.page] /\ status[q.page][q.id] = "pending"
  /\ seen \in Seq(Ids) /\ Len(seen) <= SeenLimit
  /\ mails \in [Ids -> Nat] /\ fired \subseteq Pages \X Ids
  /\ edits \in 0 .. MaxEdits /\ faults \in 0 .. MaxFaults

Init ==
  /\ sample = NoFrame /\ open = {}
  /\ frame = [p \in Pages |-> NoFrame]
  /\ enabled = [p \in Pages |-> Recipients]
  /\ top = [p \in Pages |-> [r \in Recipients |-> 1]]
  /\ states = [p \in Pages |-> [k \in Keys |-> "NORMAL"]]
  /\ events = [p \in Pages |-> <<>>]
  /\ dispatched = [p \in Pages |-> {}] /\ status = [p \in Pages |-> <<>>]
  /\ posts = {} /\ seen = <<>> /\ mails = [i \in Ids |-> 0] /\ fired = {}
  /\ edits = MaxEdits /\ faults = MaxFaults

(***************************************************************************)
(* One page.                                                               *)
(***************************************************************************)
zoneFor(celsius, max) ==
  CASE celsius > max -> "HIGH" [] celsius < 1 -> "LOW" [] OTHER -> "NORMAL"

\* The reading of a key is in another zone than its episode.
Changed(p, f, on, max, k) ==
  /\ k[1] \in on /\ f.value[k[2]] # Gap
  /\ zoneFor(f.value[k[2]], max[k[1]]) # states[p][k]

\* The members of a set of places, in their order
InOrder(S) ==
  [n \in 1 .. Cardinality(S) |->
     CHOOSE i \in S : Cardinality({j \in S : j <= i}) = n]

\* What stepAlertEngine emits, in the order of its loops
Transitions(p, f, on, max) ==
  LET places == InOrder({i \in DOMAIN KeyOrder : Changed(p, f, on, max, KeyOrder[i])})
      Event(k) == [key |-> k, zone |-> zoneFor(f.value[k[2]], max[k[1]]), at |-> f.at]
  IN [n \in DOMAIN places |-> Event(KeyOrder[places[n]])]

\* setEvents: the newest first, and no more than the list holds
Kept(list, new) ==
  LET all == Len(new) + Len(list)
  IN [n \in 1 .. (IF all <= MaxEvents THEN all ELSE MaxEvents) |->
        IF n <= Len(new) THEN new[Len(new) + 1 - n] ELSE list[n - Len(new)]]

\* The events the notifier posts: HIGH and LOW, each identifier once.
Unposted(p, list) == {e \in Elements(list) : e.zone # "NORMAL" /\ e \notin dispatched[p]}

\* The effects of one render: the engine takes a step, its events join the
\* list, and the notifier, which sees every version of the list, posts them.
Advance(p, f, on, max) ==
  LET new == Transitions(p, f, on, max)
      list == Kept(events[p], new)
      post == Unposted(p, list)
  IN /\ frame' = [frame EXCEPT ![p] = f]
     /\ states' = [states EXCEPT ![p] = [k \in Keys |->
          IF Changed(p, f, on, max, k) THEN zoneFor(f.value[k[2]], max[k[1]]) ELSE @[k]]]
     /\ events' = [events EXCEPT ![p] = list]
     /\ fired' = fired \cup {<<p, e>> : e \in {e \in Elements(new) : e.zone # "NORMAL"}}
     /\ dispatched' = [dispatched EXCEPT ![p] = @ \cup post]
     /\ status' = [status EXCEPT ![p] =
          [i \in DOMAIN @ \cup post |-> IF i \in post THEN "pending" ELSE @[i]]]
     /\ posts' = posts \cup [page : {p}, id : post, place : {"way"}]

\* The connector stores another sample, from which a sensor may be absent, or
\* its history completes the latest one.
Sampled ==
  /\ \/ /\ sample.at < MaxSamples
        /\ \E v \in Readings : sample' = [at |-> sample.at + 1, value |-> v]
     \/ /\ sample.at > 0
        /\ \E s \in Sources, v \in 0 .. 2 :
             sample.value[s] = Gap /\ sample' = [sample EXCEPT !.value[s] = v]
  /\ UNCHANGED <<open, engineVars, dispatched, status, serverVars, edits, faults>>

OpenPage(p) ==
  /\ p \notin open /\ frame[p] = NoFrame /\ open' = open \cup {p}
  /\ UNCHANGED <<sample, engineVars, dispatched, status, serverVars, edits, faults>>

ClosePage(p) ==
  /\ p \in open /\ frame[p] # NoFrame /\ open' = open \ {p}
  /\ UNCHANGED <<sample, engineVars, dispatched, status, serverVars, edits, faults>>

\* A poll of the page finds a row it has not shown, or fails and shows none.
Tick(p) ==
  /\ p \in open
  /\ \E f \in {sample, [sample EXCEPT !.value = NoFrame.value]} :
       frame[p] # f /\ Advance(p, f, enabled[p], top[p])
  /\ UNCHANGED <<sample, open, enabled, top, seen, mails, edits, faults>>

\* A recipient is switched on or off, or a threshold moved: the engine steps
\* again over the frame it has.
Edit(p, r) ==
  /\ p \in open /\ edits > 0 /\ edits' = edits - 1
  /\ \/ LET on == IF r \in enabled[p] THEN enabled[p] \ {r} ELSE enabled[p] \cup {r} IN
        /\ enabled' = [enabled EXCEPT ![p] = on] /\ UNCHANGED top
        /\ Advance(p, frame[p], on, top[p])
     \/ LET max == [top[p] EXCEPT ![r] = 3 - @] IN
        /\ top' = [top EXCEPT ![p] = max] /\ UNCHANGED enabled
        /\ Advance(p, frame[p], enabled[p], max)
  /\ UNCHANGED <<sample, open, seen, mails, faults>>

(***************************************************************************)
(* Requests and the notification server.                                   *)
(***************************************************************************)
\* notifyAlert shows what became of the request.
Shown(q, outcome) ==
  /\ posts' = posts \ {q}
  /\ status' = [status EXCEPT ![q.page][q.id] = outcome]

\* The oldest identifiers are forgotten.
Evicted(list) ==
  IF Len(list) <= SeenLimit THEN list ELSE SubSeq(list, Len(list) - SeenLimit + 1, Len(list))

\* Plausible bug: remembering an identifier before its email is sent
HandledSeenFirst(q) ==
  /\ q \in posts /\ q.place = "way"
  /\ \/ /\ q.id \in Elements(seen) /\ Shown(q, "skipped") /\ UNCHANGED seen
     \/ /\ q.id \notin Elements(seen) /\ seen' = Evicted(Append(seen, q.id))
        /\ posts' = (posts \ {q}) \cup {[q EXCEPT !.place = "sender"]}
        /\ UNCHANGED status
  /\ UNCHANGED <<sample, open, engineVars, dispatched, mails, edits, faults>>
\* handleNotify until it awaits the sender: what was delivered is skipped.
Handled(q) ==
  /\ q \in posts /\ q.place = "way"
  /\ \/ /\ q.id \in Elements(seen) /\ Shown(q, "skipped")
     \/ /\ q.id \notin Elements(seen)
        /\ posts' = (posts \ {q}) \cup {[q EXCEPT !.place = "sender"]}
        /\ UNCHANGED status
  /\ UNCHANGED <<sample, open, engineVars, dispatched, seen, mails, edits, faults>>

\* The mail server took the message; the identifier is remembered.
Sent(q) ==
  /\ q \in posts /\ q.place = "sender"
  /\ mails' = [mails EXCEPT ![q.id] = @ + 1]
  /\ seen' = IF q.id \in Elements(seen) THEN seen ELSE Evicted(Append(seen, q.id))
  /\ Shown(q, "sent")
  /\ UNCHANGED <<sample, open, engineVars, dispatched, edits, faults>>

\* The sender reports an error; the message may have gone out all the same.
SendFails(q) ==
  /\ q \in posts /\ q.place = "sender" /\ faults > 0 /\ faults' = faults - 1
  /\ \E gone \in 0 .. 1 : mails' = [mails EXCEPT ![q.id] = @ + gone]
  /\ Shown(q, "failed")
  /\ UNCHANGED <<sample, open, engineVars, dispatched, seen, edits>>

\* The request does not reach the server.
Unreachable(q) ==
  /\ q \in posts /\ q.place = "way" /\ faults > 0 /\ faults' = faults - 1
  /\ Shown(q, "unreachable")
  /\ UNCHANGED <<sample, open, engineVars, dispatched, seen, mails, edits>>

\* The server ends, with its memory and the requests it was handling.
Restart ==
  /\ faults > 0 /\ faults' = faults - 1
  /\ seen' = <<>> /\ posts' = {}
  /\ status' = [p \in Pages |-> [i \in DOMAIN status[p] |->
       IF \E q \in posts : q.page = p /\ q.id = i THEN "unreachable" ELSE status[p][i]]]
  /\ UNCHANGED <<sample, open, engineVars, dispatched, mails, edits>>

-----------------------------------------------------------------------------
Next ==
  \/ Sampled \/ Restart
  \/ \E p \in Pages : OpenPage(p) \/ ClosePage(p) \/ Tick(p)
  \/ \E p \in Pages, r \in Recipients : Edit(p, r)
  \/ \E q \in posts : Handled(q) \/ Sent(q) \/ SendFails(q) \/ Unreachable(q)

\* The server handles what it receives and nodemailer gives up on a silent
\* mail server, so every request is answered; nothing else is promised.
Spec ==
  /\ Init /\ [][Next]_vars
  /\ \A q \in Requests : WF_vars(Handled(q)) /\ WF_vars(Sent(q) \/ SendFails(q))

-----------------------------------------------------------------------------
(***************************************************************************)
(* Properties.                                                             *)
(***************************************************************************)
\* An alert a page shows as sent, or as already delivered, was mailed: neither
\* a failed send nor a restart makes the server skip what nobody received.
SentMeansMailed ==
  \A p \in Pages : \A i \in DOMAIN status[p] :
    status[p][i] \in {"sent", "skipped"} => mails[i] > 0

\* Every HIGH or LOW event the engine emits is posted (useAlertNotifier.ts:8),
\* however many of them the list has to hold.
EveryAlertPosted == \A p \in Pages : {e[2] : e \in {e \in fired : e[1] = p}} \subseteq dispatched[p]

\* No identifier is mailed twice ("skips a duplicate event id and does not
\* re-send", notify.test.ts:77), whatever fails on the way.
MailedOnce == \A i \in Ids : mails[i] <= 1

\* What a page shows as pending is decided in the end.
AlertsReported ==
  \A p \in Pages : \A i \in Ids :
    (i \in DOMAIN status[p] /\ status[p][i] = "pending")
      ~> (i \in DOMAIN status[p] /\ status[p][i] # "pending")

\* A reading that leaves the band while its recipient is enabled fires an
\* alert (README.md:589).
Crossing ==
  \A p \in Pages, k \in Keys :
    /\ k[1] \in enabled[p] /\ top[p] = top'[p] /\ frame'[p] # frame[p]
    /\ frame[p].value[k[2]] \in 1 .. top[p][k[1]]
    /\ frame'[p].value[k[2]] \in (0 .. 2) \ (1 .. top[p][k[1]])
    => \E e \in fired' \ fired : e[1] = p /\ e[2].key = k
CrossingFires == [][Crossing]_vars

\* A key fires again only after its reading was inside the band (README.md:594).
RearmsInBand ==
  [][\A e \in fired' \ fired : states[e[1]][e[2].key] = "NORMAL"]_vars
=============================================================================
