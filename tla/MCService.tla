----------------------------- MODULE MCService -----------------------------
(***************************************************************************)
(* The service around the connection: how it finds its thermometer         *)
(* (Discovery, once with a choice of two devices, once with two callers    *)
(* who share scans with the manager) and how it ends, in the window or in  *)
(* the HTTP application (ServiceLifecycle).  A behaviour follows one of    *)
(* these; the others rest in their initial state.                          *)
(***************************************************************************)
EXTENDS ServiceLifecycle, TLC

CONSTANTS
  None,      \* no scan, no device
  Scenes     \* instances of Discovery by name: who scans, for what, how often

VARIABLES
  part,      \* the scene, or the lifecycle
  scans, shared, caller, manager, service, events, intents

discoveryVars == <<scans, shared, caller, manager, service, events, intents>>

Finding(p) == INSTANCE Discovery WITH
  Devices <- Scenes[p].devices, Callers <- Scenes[p].callers, Enrolled <- Scenes[p].enrolled,
  Auto <- Scenes[p].auto, MaxIntents <- Scenes[p].intents, MaxEvents <- Scenes[p].events

MCScenes ==
  LET scene(devices, callers, intents_, events_) ==
        [devices |-> devices, callers |-> callers, enrolled |-> {"d1"}, auto |-> TRUE,
         intents |-> intents_, events |-> events_]
  IN  "choosing" :> scene({"d1", "d2"}, {"a"}, 1, 2)
      @@ "sharing" :> scene({"d1"}, {"a", "b"}, 0, 1)

ASSUME ScenesAssumption ==
  "lifecycle" \notin DOMAIN Scenes /\ \A p \in DOMAIN Scenes : Finding(p)!DiscoveryAssumption

\* For what does not depend on the scene.
AnyScene == CHOOSE p \in DOMAIN Scenes : TRUE

MCInit ==
  /\ \E p \in DOMAIN Scenes :
       /\ part = p \/ (part = "lifecycle" /\ p = AnyScene)
       /\ Finding(p)!Init
  /\ Init /\ (part # "lifecycle" => ~window)
DiscoveryRuns ==
  /\ \E p \in DOMAIN Scenes : part = p /\ Finding(p)!Next
  /\ UNCHANGED <<part, vars>>
LifecycleRuns == part = "lifecycle" /\ Next /\ UNCHANGED <<part, discoveryVars>>
MCNext == DiscoveryRuns \/ LifecycleRuns

\* Discovery's FairSpec and ServiceLifecycle's Spec.
DiscoveryFairness ==
  \A p \in DOMAIN Scenes :
    /\ WF_discoveryVars(part = p /\ Finding(p)!ManagerStep)
    /\ WF_discoveryVars(part = p /\ Finding(p)!PerformScan)
    /\ \A c \in Scenes[p].callers : WF_discoveryVars(part = p /\ Finding(p)!ScanReturns(c))
Hosted == part = "lifecycle"
LifecycleFairness ==
  /\ WF_vars(Hosted /\ Prune) /\ WF_vars(Hosted /\ Connected)
  /\ WF_vars(Hosted /\ ManagerGoesOn) /\ WF_vars(Hosted /\ HistoryEnds)
  /\ WF_vars(Hosted /\ ScanEnds) /\ WF_vars(Hosted /\ StopStep) /\ WF_vars(Hosted /\ HostStep)
  /\ \A l \in Loops : WF_vars(Hosted /\ LoopStep(l))
  /\ \A c \in Calls : WF_vars(Hosted /\ CallStep(c)) /\ WF_vars(Hosted /\ WorkStep(c))
MCSpec ==
  /\ MCInit /\ [][MCNext]_<<part, discoveryVars, vars>>
  /\ DiscoveryFairness /\ LifecycleFairness

-----------------------------------------------------------------------------
\* One scan at a time, kept for whoever still waits for it (Discovery's
\* OneScan, SharedScanSurvives).
SharedScan ==
  \A p \in DOMAIN Scenes :
    part = p => Finding(p)!TypeOK /\ Finding(p)!OneScan /\ Finding(p)!SharedScanSurvives

\* What was decided stands: what was chosen stands against scans, failures and
\* attempts that began before the choice, but for the link verified before it, and
\* no operation that ended changes again (Discovery's Stands, ServiceLifecycle's
\* TerminalIsFinal).
DecisionsStand ==
  /\ [][\A p \in DOMAIN Scenes : part = p => Finding(p)!Stands]_discoveryVars
  /\ TerminalIsFinal

\* Every connect is answered, whatever the manager meets; probing goes on and
\* closing ends; and manual results reach the manager: Discovery's
\* ConnectAnswered, ProbesGoOn and ManualScanConsumed, ServiceLifecycle's
\* ConnectEnds and ClosingEnds.  A behaviour has one part for ever, so one
\* leads-to serves what waits in the scenes and what waits in the lifecycle.
CallsEnd ==
  /\ \A c \in Calls :
       (IF Hosted THEN op[c] = "RUNNING" /\ pending = c ELSE service.operation # None)
       ~> (IF Hosted THEN op[c] \notin Active ELSE service.operation = None)
  /\ (IF Hosted THEN host = "closing" ELSE service.phase = "DISCOVERING" /\ service.desired)
     ~> (IF Hosted THEN host = "gone"
         ELSE service.phase # "DISCOVERING" \/ \E s \in scans : s.state = "running")
  /\ Finding(AnyScene)!ManualScanConsumed
=============================================================================
