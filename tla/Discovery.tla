------------------------------- MODULE Discovery -------------------------------
(* How the connector finds its thermometer: scans shared by everybody who asks   *)
(* for one, the decision the connection manager takes on what a scan saw, and    *)
(* the callers who scan, select and disconnect meanwhile.  Of a connection       *)
(* attempt only its end and its commit are steps here; ConnectionManager has its *)
(* parts.                                                                        *)
EXTENDS Naturals, Sequences, FiniteSets

CONSTANTS Devices, Callers, None,
          Enrolled,      \* devices of the credential registry
          Auto,          \* auto_discover_on_start
          MaxIntents,    \* connect and disconnect calls in a behaviour
          MaxEvents      \* queued lifecycle events beyond which nobody scans
DiscoveryAssumption ==
  /\ Enrolled \subseteq Devices /\ Auto \in BOOLEAN /\ MaxIntents \in Nat /\ MaxEvents \in Nat
  /\ IsFiniteSet(Callers) /\ None \notin Nat \cup Devices

VARIABLES scans,       \* the scan tasks somebody still refers to
          shared,      \* _scan_task: the one to join, or None
          caller, manager, service, events, intents
vars == <<scans, shared, caller, manager, service, events, intents>>

START == [kind |-> "START", generation |-> 0, found |-> {}]
Ids == 1..(Cardinality(Callers) + 2)
Scan(id) == CHOOSE s \in scans : s.id = id
Ended(id) == Scan(id).state # "running"
Init ==
  /\ scans = {} /\ shared = None /\ events = <<START>> /\ intents = 0
  /\ caller = [c \in Callers |-> [scan |-> None, generation |-> 0]]
  /\ manager = [pc |-> "loop", scan |-> None, generation |-> 0, device |-> None, seen |-> TRUE]
  /\ service = [phase |-> IF Auto THEN "DISCOVERING" ELSE "DISCONNECTED", desired |-> Auto,
                target |-> None, key |-> FALSE, generation |-> 0, pending |-> None,
                operation |-> None, booted |-> FALSE]

-------------------------------------------------------------------------------
(* _scan_for_devices: the lock is held over no await, so joining is one step. *)

Joins == shared # None /\ ~Ended(shared)
Free == CHOOSE i \in Ids : \A s \in scans : s.id # i
Joined == IF Joins THEN shared ELSE Free
Waited == {caller[c].scan : c \in Callers} \cup {manager.scan}
Join == /\ shared' = Joined
        /\ scans' = IF Joins THEN scans
                    ELSE {s \in scans : s.state = "running" \/ s.id \in Waited}
                         \cup {[id |-> Free, state |-> "running", found |-> {}]}
\* The finally clause of whoever waited for a scan, however the waiting ended.
Leave(id) == IF shared = id /\ Ended(id) THEN None ELSE shared
Referred(all, waiting) == {s \in all : s.state = "running" \/ s.id \in waiting \/ s.id = shared'}
Waiting(c) == {caller[d].scan : d \in Callers \ {c}} \cup {manager.scan}
\* _perform_scan: radios miss devices; errors and the outer deadline end it too.
PerformScan ==
  /\ \E s \in scans : /\ s.state = "running"
                      /\ \E r \in {[s EXCEPT !.state = "failed"]} \cup
                                   {[s EXCEPT !.state = "done", !.found = f] : f \in SUBSET Devices} :
                           scans' = (scans \ {s}) \cup {r}
  /\ UNCHANGED <<shared, caller, manager, service, events, intents>>

Post(e) == Append(events, e)
INTENT == [kind |-> "INTENT_CHANGED", generation |-> service.generation, found |-> {}]
Active == {"PAIRING", "CONNECTED", "RECONNECTING"}

ScanCalled(c) ==
  /\ caller[c].scan = None /\ service.phase \notin Active /\ Len(events) < MaxEvents
  /\ Join
  /\ caller' = [caller EXCEPT ![c] = [scan |-> Joined, generation |-> service.generation]]
  /\ UNCHANGED <<manager, service, events, intents>>
Announced(found, generation) ==
  events' = Post([kind |-> "DISCOVERY_RESULT", generation |-> generation, found |-> found])
ScanReturns(c) ==
  LET mine == caller[c] IN
  /\ mine.scan # None /\ Ended(mine.scan)
  /\ shared' = Leave(mine.scan) /\ scans' = Referred(scans, Waiting(c))
  /\ caller' = [caller EXCEPT ![c] = [scan |-> None, generation |-> 0]]
  /\ IF /\ Scan(mine.scan).state = "done" /\ mine.generation = service.generation
        /\ service.target = None
     THEN /\ service' = [service EXCEPT !.pending = Scan(mine.scan).found]
          /\ Announced(Scan(mine.scan).found, mine.generation)
     ELSE UNCHANGED <<service, events>>
  /\ UNCHANGED <<manager, intents>>
\* Plausible bug: the caller's cancellation reaches the shared scan.
Unshielded(id) == {IF s.id = id THEN [s EXCEPT !.state = "cancelled"] ELSE s : s \in scans}
\* The caller is cancelled; the shield keeps the scan for the others.
Shielded(id) == scans
ScanAbandoned(c) ==
  /\ caller[c].scan # None
  /\ shared' = Leave(caller[c].scan) 
  /\ scans' = Referred(Shielded(caller[c].scan), Waiting(c))
  /\ caller' = [caller EXCEPT ![c] = [scan |-> None, generation |-> 0]]
  /\ UNCHANGED <<manager, service, events, intents>>

-------------------------------------------------------------------------------
(* connect and disconnect, seen from discovery. *)

Goes(pc) == manager' = [pc |-> pc, scan |-> None, generation |-> 0, device |-> None,
                        seen |-> TRUE]
\* Plausible bug: the manager is not told.
PostsNothing == UNCHANGED events
PostsIntent == events' = Post(INTENT)
OperationCancelled == None
ConnectCalled(d, passkey) ==
  /\ intents < MaxIntents /\ intents' = intents + 1
  /\ ~(service.phase = "CONNECTED" /\ service.target = d)
  /\ IF passkey \/ d \in Enrolled
     THEN /\ service' = [service EXCEPT !.phase = "PAIRING", !.desired = TRUE, !.target = d,
                                        !.key = TRUE, !.generation = @ + 1,
                                        !.operation = d]
          /\ PostsIntent
     ELSE /\ service' = [service EXCEPT !.phase = "AUTHENTICATION_REQUIRED", !.desired = TRUE,
                                        !.target = d, !.generation = @ + 1]
          /\ UNCHANGED events
  /\ UNCHANGED <<scans, shared, caller, manager>>
DisconnectCalled ==
  /\ intents < MaxIntents /\ intents' = intents + 1
  /\ service' = [service EXCEPT !.phase = "DISCONNECTED", !.desired = FALSE,
                                !.generation = @ + 1, !.operation = OperationCancelled]
  /\ IF manager.pc = "attempt" THEN Goes("loop") ELSE UNCHANGED manager
  /\ PostsIntent
  /\ UNCHANGED <<scans, shared, caller>>

-------------------------------------------------------------------------------
(* _connection_manager.  "asleep" waits for an event, "resting" for one second   *)
(* or an event.                                                                  *)

Kept == UNCHANGED <<scans, shared, caller, events, intents>>
Phase(p) == [service EXCEPT !.phase = p]
Attempts(seen) == manager' = [pc |-> "attempt", scan |-> None, seen |-> seen,
                              generation |-> service'.generation,
                              device |-> service'.target]

Disabled == ~service.desired /\ service' = Phase("DISCONNECTED") /\ Goes("asleep")
Connected == service.desired /\ service.phase = "CONNECTED" /\ Goes("resting") /\ UNCHANGED service
Unkeyed ==
  /\ service.desired /\ service.phase # "CONNECTED" /\ service.target # None /\ ~service.key
  /\ IF service.phase = "REJECTED" THEN Goes("asleep") /\ UNCHANGED service
     ELSE IF service.target \in Enrolled THEN service' = [service EXCEPT !.key = TRUE] /\ Goes("loop")
     ELSE service' = Phase("AUTHENTICATION_REQUIRED") /\ Goes("asleep")
Keyed ==
  /\ service.desired /\ service.target # None /\ service.key
  /\ service.phase \notin {"CONNECTED", "RECONNECTING"}
  /\ UNCHANGED service /\ Attempts(TRUE)
\* One device is taken, several are the caller's choice, none is tried again later.
Decide(found) ==
  \/ /\ Cardinality(found) = 1
     /\ LET d == CHOOSE x \in found : TRUE IN
        /\ service' = [service EXCEPT !.target = d, !.generation = @ + 1, !.pending = None,
                                      !.key = d \in Enrolled,
                                      !.phase = IF d \in Enrolled THEN "PAIRING"
                                                ELSE "AUTHENTICATION_REQUIRED"]
        /\ IF d \in Enrolled THEN Attempts(TRUE) ELSE Goes("asleep")
  \/ /\ Cardinality(found) > 1 /\ Goes("asleep")
     /\ service' = [Phase("SELECTION_REQUIRED") EXCEPT !.target = None, !.pending = None]
  \/ /\ found = {} /\ Goes("resting")
     /\ service' = [Phase("DISCOVERING") EXCEPT !.pending = None]
Observe ==     \* _next_discovery_observation
  /\ service.desired /\ service.target = None
  /\ IF service.pending # None
     THEN Decide(service.pending) /\ UNCHANGED <<scans, shared>>
     ELSE /\ Join /\ service' = Phase("DISCOVERING")
          /\ manager' = [pc |-> "observe", scan |-> Joined, generation |-> service.generation,
                         device |-> None, seen |-> TRUE]
  /\ UNCHANGED <<caller, events, intents>>
Search ==      \* _find_reconnect_target
  /\ service.desired /\ service.target # None /\ service.key /\ service.phase = "RECONNECTING"
  /\ Join /\ UNCHANGED <<service, caller, events, intents>>
  /\ manager' = [pc |-> "search", scan |-> Joined, generation |-> service.generation,
                 device |-> None, seen |-> TRUE]
Loop == manager.pc = "loop" /\ (((Disabled \/ Connected \/ Unkeyed \/ Keyed) /\ Kept) \/ Observe \/ Search)

Left == /\ shared' = Leave(manager.scan)
        /\ scans' = Referred(scans, {caller[c].scan : c \in Callers})
        /\ UNCHANGED <<caller, events, intents>>
\* A selection or a disconnection that came during the scan is newer than the scan.
Accepted == service.desired
Undisturbed == manager.generation = service.generation /\ service.target = None
Observed ==
  /\ manager.pc = "observe" /\ Ended(manager.scan) /\ Scan(manager.scan).state = "done" /\ Left
  /\ IF Undisturbed THEN Decide(Scan(manager.scan).found) ELSE Goes("loop") /\ UNCHANGED service
\* The exception handler of the loop, which looks at the target as it is now.
AwaitsRetry == "resting"
Fails ==
  IF ~service.desired THEN service' = Phase("DISCONNECTED") /\ Goes("loop")
  ELSE /\ Goes(AwaitsRetry)
       /\ service' = [service EXCEPT !.operation = None,
                        !.phase = IF service.target = None THEN "DISCOVERING" ELSE "RECONNECTING"]
ProbeFailed == /\ manager.pc = "observe" /\ Ended(manager.scan)
               /\ Scan(manager.scan).state # "done" /\ Left /\ Fails
\* A reconnection goes on whether or not the scan, or any scan, saw the device.
Searched ==
  /\ manager.pc = "search" /\ Ended(manager.scan) /\ Left
  /\ IF service.desired /\ manager.generation = service.generation
     THEN /\ service' = Phase("RECONNECTING")
          /\ Attempts(service.target \in Scan(manager.scan).found)
     ELSE Goes("loop") /\ UNCHANGED service

\* The device the attempt was for becomes the target, and the operation that is
\* pending now succeeds.
Commits == /\ Goes("loop")
           /\ service' = [service EXCEPT !.phase = "CONNECTED", !.target = manager.device,
                                         !.operation = None, !.booted = TRUE]
\* Before the first commit the database is asked for the last boot.
Attempted ==
  /\ manager.pc = "attempt" /\ Kept
  /\ \/ /\ manager.generation # service.generation /\ Goes("loop") /\ UNCHANGED service
     \/ /\ manager.generation = service.generation /\ ~service.booted
        /\ manager' = [manager EXCEPT !.pc = "verified"] /\ UNCHANGED service
     \/ manager.generation = service.generation /\ service.booted /\ Commits
     \/ Fails
     \/ /\ service.desired /\ Goes("asleep")      \* the device refused the passkey
        /\ service' = [service EXCEPT !.phase = "REJECTED", !.key = FALSE, !.operation = None]
\* _read_last_persisted_boot returns; the generation is not looked at again.
Committed == manager.pc = "verified" /\ Kept /\ Commits
\* _wait_for_manager_wakeup
Woken ==
  /\ manager.pc \in {"asleep", "resting"} /\ events # <<>>
  /\ events' = Tail(events) /\ Goes("loop")
  /\ LET e == Head(events) IN
     service' = IF /\ e.kind = "DISCOVERY_RESULT" /\ e.generation = service.generation
                   /\ service.target = None
                THEN [service EXCEPT !.pending = e.found] ELSE service
  /\ UNCHANGED <<scans, shared, caller, intents>>
Rested == manager.pc = "resting" /\ Goes("loop") /\ UNCHANGED service /\ Kept
\* The poll or the callback of the transport; the manager then finds the link gone.
LinkLost == /\ manager.pc = "resting" /\ service.phase = "CONNECTED"
            /\ service' = Phase("RECONNECTING") /\ Goes("loop") /\ Kept

ManagerStep == Loop \/ Observed \/ ProbeFailed \/ Searched \/ Attempted
               \/ Committed \/ Woken \/ Rested
Next ==
  \/ ManagerStep \/ LinkLost \/ PerformScan \/ DisconnectCalled
  \/ \E c \in Callers : ScanCalled(c) \/ ScanReturns(c) \/ ScanAbandoned(c)
  \/ \E d \in Devices, passkey \in BOOLEAN : ConnectCalled(d, passkey)
Spec == Init /\ [][Next]_vars
\* The manager and the callers' coroutines run, scans and attempts are bounded in time.
FairSpec == /\ Spec /\ WF_vars(ManagerStep) /\ WF_vars(PerformScan)
            /\ \A c \in Callers : WF_vars(ScanReturns(c))

-------------------------------------------------------------------------------
Phases == Active \cup {"DISCOVERING", "DISCONNECTED", "SELECTION_REQUIRED",
                       "AUTHENTICATION_REQUIRED", "REJECTED"}
Generations == 0..(MaxIntents + 1)
TypeOK ==
  /\ \A s \in scans : s \in [id : Ids, state : {"running", "done", "failed"}, found : SUBSET Devices]
  /\ shared \in {None} \cup {s.id : s \in scans}
  /\ \A c \in Callers : caller[c] \in [scan : {None} \cup {s.id : s \in scans}, generation : Generations]
  /\ manager \in [pc : {"loop", "asleep", "resting", "observe", "search", "attempt", "verified"},
                  scan : {None} \cup {s.id : s \in scans}, generation : Generations,
                  device : {None} \cup Devices, seen : BOOLEAN]
  /\ service \in [phase : Phases, desired : BOOLEAN, target : Devices \cup {None}, key : BOOLEAN,
                  generation : Generations, pending : {None} \cup SUBSET Devices,
                  operation : Devices \cup {None}, booted : BOOLEAN]
  /\ intents \in 0..MaxIntents
  /\ service.operation # None => service.desired

\* WinRT and BlueZ run one scan of a program at a time; whoever comes joins it.
OneScan == Cardinality({s \in scans : s.state = "running"}) <= 1
\* Nobody who gives up waiting takes the scan away from the others.
SharedScanSurvives == \A c \in Callers : caller[c].scan # None => Scan(caller[c].scan).state # "cancelled"
\* Once there is a target no scan, failure or attempt of the manager replaces it,
\* only a caller (ble_service.py:965); but a link that was verified before the
\* choice is still committed while the database answers (1103-1130).
Stands == ManagerStep /\ service.target # None /\ service'.target # service.target
            => manager.pc = "verified" /\ manager.generation # service.generation
ChoiceStands == [][Stands]_vars

\* README.md:897: every scan that ends without a device is followed by another.
ProbesGoOn == service.phase = "DISCOVERING" /\ service.desired
                ~> service.phase # "DISCOVERING" \/ \E s \in scans : s.state = "running"
\* README.md:897: the manager decides on what a manual scan saw, whatever it waits for.
ManualScanConsumed == service.pending # None /\ service.desired
                        ~> service.pending = None \/ ~service.desired \/ service.target # None
\* Who connects is told of success or failure (README.md:496).
ConnectAnswered == service.operation # None ~> service.operation = None

\* README.md:932: a scan runs only while the service is disconnected.
ScansDisconnected == service.phase = "CONNECTED" => \A s \in scans : s.state # "running"
\* README.md:902: a reconnection is attempted after the device was seen again.
SeenBeforeReconnect == manager.pc = "attempt" => manager.seen
\* ble_service.py:965: "its newer state is authoritative": the device a caller selects
\* stays the target.
SelectionFinal == [][ManagerStep /\ service.target # None => service'.target = service.target]_vars
\* ble_service.py:965: a selection made during a probe is authoritative, so that the
\* failure of the probe is not reported as the failure of the selected connection.
ProbeFailsOnlyItself ==
  [][manager.pc = "observe" /\ service.operation # None => service'.operation # None
     \/ ~service'.desired]_vars
================================================================================
