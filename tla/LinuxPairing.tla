------------------------------ MODULE LinuxPairing -----------------------------
(* linux_pairing.py: pairing with the ESP32 and removing it through BlueZ.  The  *)
(* client is one coroutine whose every await is a D-Bus call that BlueZ may      *)
(* answer, refuse, or leave unanswered, and that may be cancelled; BlueZ keeps   *)
(* the device object, the bond, and what the client left on its bus connection.  *)
EXTENDS Naturals

CONSTANTS None, Polls     \* Polls: looks at the objects during one discovery
LinuxPairingAssumption ==
  /\ Polls \in Nat \ {0}
  /\ None \notin {"pair", "remove", "right", "wrong", "lookup3", "paired3", "ok", "error",
                  "cancelled", "done", "exists", "failed"}

VARIABLES client, bluez,
          seen        \* history: what BlueZ had of the device since the call began
vars == <<client, bluez, seen>>

Bonds == {"none", "unauthenticated", "authenticated"}
Device(b) == [known |-> b.known, bond |-> b.bond]
Init ==
  /\ client = [pc |-> "idle", call |-> None, passkey |-> None, polls |-> 0, then |-> None,
               bus |-> FALSE, outcome |-> None]
  /\ bluez = [known |-> FALSE, bond |-> "none", ceremony |-> "none", reply |-> None,
              agent |-> FALSE, discovering |-> FALSE]
  /\ seen = {}

At(pc) == client.pc = pc
To(pc) == client' = [client EXCEPT !.pc = pc]
\* BlueZ drops the agent and the discovery of a connection that closes, and ends
\* its pairing unless the passkey is already under way.
Dropped == {[bluez EXCEPT !.agent = FALSE, !.discovering = FALSE, !.reply = None,
                          !.ceremony = c] :
              c \in IF bluez.ceremony = "answered" THEN {"none", "answered"} ELSE {"none"}}
\* Plausible bug: the bus connection stays open.
Undropped == {bluez}
\* _BlueZBus.__aexit__: however the body ends, the connection is closed.
Closed == Dropped
Ends(r) == /\ client' = [client EXCEPT !.pc = "idle", !.call = None, !.passkey = None,
                                       !.polls = 0, !.then = None, !.bus = FALSE,
                                       !.outcome = r]
           /\ bluez' \in Closed

-------------------------------------------------------------------------------
(* The calls that are answered. *)

PairCalled(passkey) ==
  /\ At("idle")
  /\ client' = IF passkey = "malformed" THEN [client EXCEPT !.outcome = "error"]
               ELSE [client EXCEPT !.pc = "connect1", !.call = "pair", !.outcome = None,
                                   !.passkey = passkey]
  /\ UNCHANGED bluez
RemoveCalled ==
  /\ At("idle") /\ UNCHANGED bluez
  /\ client' = [client EXCEPT !.pc = "connect", !.call = "remove", !.outcome = None]

BusConnected(from, to) ==
  At(from) /\ client' = [client EXCEPT !.pc = to, !.bus = TRUE] /\ UNCHANGED bluez

\* is_paired, on a connection of its own that closes before pair opens another.
Unpaired == client' = [client EXCEPT !.pc = "connect2", !.bus = FALSE] /\ UNCHANGED bluez
IsPaired ==
  \/ At("lookup1") /\ IF bluez.known THEN To("paired1") /\ UNCHANGED bluez ELSE Unpaired
  \/ /\ At("paired1") /\ bluez.known
     /\ IF bluez.bond # "none" THEN Ends("ok") ELSE Unpaired

Looked == At("lookup2") /\ To(IF bluez.known THEN "paired2" ELSE "filter") /\ UNCHANGED bluez
FilterSet == At("filter") /\ To("start") /\ UNCHANGED bluez
DiscoveryStarted ==
  At("start") /\ To("poll") /\ bluez' = [bluez EXCEPT !.discovering = TRUE]
StopThen(next) == client' = [client EXCEPT !.pc = "stop", !.polls = 0, !.then = next]
Found == StopThen("lookup3")
Polled ==
  /\ At("poll") /\ UNCHANGED bluez
  /\ IF bluez.known THEN Found
     ELSE IF client.polls + 1 < Polls THEN client' = [client EXCEPT !.polls = @ + 1]
     ELSE StopThen("lookup3")
\* A finally clause and the agent's __aexit__ go on with what brought them there.
Resume == IF client.then \in {"ok", "error", "cancelled"} THEN Ends(client.then)
          ELSE /\ client' = [client EXCEPT !.pc = client.then, !.then = None]
               /\ UNCHANGED bluez
\* call_stop_discovery; BlueZ refuses it only when it runs none for this client.
DiscoveryStopped ==
  /\ At("stop")
  /\ IF client.then \in {"error", "cancelled"} THEN Ends(client.then)
     ELSE /\ client' = [client EXCEPT !.pc = client.then, !.then = None]
          /\ bluez' = [bluez EXCEPT !.discovering = FALSE]

Relooked == At("lookup3") /\ IF bluez.known THEN To("paired2") /\ UNCHANGED bluez ELSE Ends("error")
Checked == /\ At("paired2") /\ bluez.known
           /\ IF bluez.bond # "none" THEN Ends("ok") ELSE To("register") /\ UNCHANGED bluez
Registered == At("register") /\ To("default") /\ bluez' = [bluez EXCEPT !.agent = TRUE]
\* The pairing is requested as soon as the agent is in place.
Requested ==
  /\ At("default") /\ To("call")
  /\ bluez' = CASE bluez.bond # "none"       -> [bluez EXCEPT !.reply = "exists"]
                [] bluez.ceremony # "none"   -> [bluez EXCEPT !.reply = "failed"]
                [] OTHER                     -> [bluez EXCEPT !.ceremony = "asked"]
UnregisterThen(next) == client' = [client EXCEPT !.pc = "unregister", !.then = next]
Replied ==
  /\ At("call") /\ bluez.reply # None
  /\ UnregisterThen(CASE bluez.reply = "done" -> "paired3" [] bluez.reply = "exists" -> "ok"
                      [] bluez.reply = "failed" -> "error")
  /\ bluez' = [bluez EXCEPT !.reply = None]
Unregistered ==
  /\ At("unregister")
  /\ IF client.then \in {"ok", "error", "cancelled"} THEN Ends(client.then)
     ELSE /\ client' = [client EXCEPT !.pc = client.then, !.then = None]
          /\ bluez' = [bluez EXCEPT !.agent = FALSE]
Retained == /\ At("paired3") /\ bluez.known
            /\ Ends(IF bluez.bond # "none" THEN "ok" ELSE "error")

\* remove: a device that is connected is disconnected first.
Listed == At("objects") /\ IF bluez.known THEN To("disconnect") /\ UNCHANGED bluez ELSE Ends("ok")
Disconnected == At("disconnect") /\ To("remove") /\ UNCHANGED bluez
Removed ==
  /\ At("remove")
  /\ IF bluez.known
     THEN /\ To("removed")
          /\ bluez' = [bluez EXCEPT !.known = FALSE, !.bond = "none", !.ceremony = "none"]
     ELSE Ends("ok")     \* DoesNotExist
RemovalAnswered == At("removed") /\ Ends("ok")

Answer ==
  \/ BusConnected("connect1", "lookup1") \/ IsPaired
  \/ BusConnected("connect2", "lookup2") \/ Looked \/ FilterSet \/ DiscoveryStarted \/ Polled
  \/ DiscoveryStopped \/ Relooked \/ Checked \/ Registered \/ Requested \/ Replied
  \/ Unregistered \/ Retained
  \/ BusConnected("connect", "objects") \/ Listed \/ Disconnected \/ Removed \/ RemovalAnswered

-------------------------------------------------------------------------------
(* The calls that raise, and cancellation. *)

\* Errors of the filter, of the default agent and of the cleanup are swallowed.
Swallowed ==
  /\ UNCHANGED bluez
  /\ \/ At("filter") /\ To("start")
     \/ At("disconnect") /\ To("remove")
SwallowedCleanup == At("unregister") /\ Resume
CallErrors == {"connect1", "lookup1", "paired1", "connect2", "lookup2", "lookup3", "paired2",
               "register", "paired3", "connect", "objects", "remove"}
Failed(pc) == Ends("error")
Raises ==
  \/ Swallowed \/ SwallowedCleanup
  \/ \E pc \in CallErrors : At(pc) /\ Failed(pc)
  \/ (At("start") \/ At("poll")) /\ StopThen("error") /\ UNCHANGED bluez

\* Its own limit on the pairing, 45 seconds.
TimesOut == At("call") /\ UnregisterThen("error") /\ UNCHANGED bluez
\* CancelledError passes the handlers of Exception, runs the finally clauses, and
\* leaves an agent that is still being set up to the closing of the connection.
Cancelled ==
  /\ ~At("idle")
  /\ CASE At("start")              -> /\ StopThen("cancelled")     \* already sent
                                      /\ \E b \in BOOLEAN : bluez' = [bluez EXCEPT !.discovering = b]
       [] At("poll")                -> StopThen("cancelled") /\ UNCHANGED bluez
       [] At("call")                -> UnregisterThen("cancelled") /\ UNCHANGED bluez
       [] OTHER                     -> Ends("cancelled")
\* The service's _run_connection_step cancels a pairing once, when its time is up.
Bounded == client.call = "pair" /\ client.then # "cancelled" /\ Cancelled

-------------------------------------------------------------------------------
(* BlueZ, the ESP32 and the other programs of the computer. *)

Advertised == bluez.discovering /\ ~bluez.known /\ bluez' = [bluez EXCEPT !.known = TRUE]
Forgotten == bluez.known /\ bluez.bond = "none" /\ bluez' = [bluez EXCEPT !.known = FALSE]
\* _PasskeyAgent answers every request at once.
AgentAnswers == /\ bluez.agent /\ bluez.ceremony = "asked"
                /\ bluez' = [bluez EXCEPT !.ceremony =
                             IF client.passkey = "right" THEN "answered" ELSE "mistyped"]
CeremonyEnds(b, r) ==
  bluez' = [bluez EXCEPT !.ceremony = "none", !.bond = b, !.known = b # "none" \/ @,
                         !.reply = IF At("call") /\ @ = None THEN r ELSE @]
Ceremony ==
  \/ bluez.ceremony = "answered" /\ CeremonyEnds("authenticated", "done")
  \/ bluez.ceremony = "answered" /\ CeremonyEnds("none", "done")
  \/ bluez.ceremony # "none" /\ CeremonyEnds("none", "failed")
Others == \/ bluez.bond = "none" /\ bluez.ceremony = "none"
             /\ bluez' = [bluez EXCEPT !.known = TRUE, !.bond = "unauthenticated"]
          \/ bluez.bond # "none" /\ bluez' = [bluez EXCEPT !.known = FALSE, !.bond = "none"]
Outside == (Advertised \/ Forgotten \/ AgentAnswers \/ Ceremony \/ Others) /\ UNCHANGED client

Observed == seen' = IF client'.pc = "idle" /\ At("idle") THEN {}
                    ELSE IF At("idle") THEN {Device(bluez)} ELSE seen \cup {Device(bluez')}
Next ==
  /\ \/ \E passkey \in {"right", "wrong", "malformed"} : PairCalled(passkey)
     \/ RemoveCalled \/ Answer \/ Raises \/ TimesOut \/ Cancelled \/ Outside
  /\ Observed
Spec == Init /\ [][Next]_vars

\* The code goes on when it can and its time limits expire; whether BlueZ answers
\* is another question.
TimedSpec == Spec /\ WF_vars(Bounded /\ Observed) /\ WF_vars(TimesOut /\ Observed)
AnsweredSpec == TimedSpec /\ WF_vars(Answer /\ Observed)

-------------------------------------------------------------------------------
Pcs == {"idle", "removed", "disconnect", "filter", "default", "call", "start", "poll", "stop",
        "unregister"} \cup CallErrors
Clients == [pc : Pcs, call : {None, "pair", "remove"}, passkey : {None, "right", "wrong"},
            polls : 0..(Polls - 1), bus : BOOLEAN,
            then : {None, "lookup3", "paired3", "ok", "error", "cancelled"},
            outcome : {None, "ok", "error", "cancelled"}]
TypeOK ==
  /\ client \in Clients
  /\ bluez \in [known : BOOLEAN, bond : Bonds, ceremony : {"none", "asked", "answered", "mistyped"},
                reply : {None, "done", "exists", "failed"}, agent : BOOLEAN,
                discovering : BOOLEAN]
  /\ bluez.bond # "none" => bluez.known

\* However a call ends, answered, refused or cancelled at any await, it leaves BlueZ
\* neither an agent nor a discovery of this program (the async with blocks).
NothingLeft == At("idle") => ~client.bus /\ ~bluez.agent /\ ~bluez.discovering

\* No discovery of this program runs once the pairing proper begins
\* (_discover_until_present: "Always stopped"), on whichever path it was found.
QuietCeremony == [][Requested => ~bluez.discovering]_vars

Returned(call) == client.call = call /\ At("idle")' /\ client'.outcome = "ok"
\* pair_device returns only when BlueZ reported a bond during the call.
PairedReturnsBond == [][Returned("pair") => \E d \in seen : d.bond # "none"]_vars
\* forget_device returns only when BlueZ had no such device during the call.
RemovedIsGone == [][Returned("remove") => \E d \in seen : ~d.known]_vars

\* When BlueZ answers, a pairing ends, whatever the device does.
PairEnds == client.call = "pair" ~> At("idle")

\* linux_pairing.py:53: a pairing that succeeds ensured an authenticated bond.
PairEnsuresAuthenticated ==
  [][Returned("pair") => \E d \in seen : d.bond = "authenticated"]_vars
================================================================================
