-------------------------- MODULE MCDeviceSession --------------------------
(***************************************************************************)
(* The link and its session (DeviceSession, two centrals) and the polling  *)
(* of the two buttons (LocalControls).  Each has variables of its own; a   *)
(* behaviour follows one part and the others rest in their initial state:  *)
(* in "any" the stack may refuse to advertise, in "accepted" it never does *)
(* and the device has to become reachable again, in "controls" the buttons *)
(* are operated.                                                           *)
(***************************************************************************)
EXTENDS DeviceSession

CONSTANTS c1, c2
VARIABLES part, clock, level, stable, candidate, since, at, pc, owed, busy,
          held, seen

controlVars ==
  <<clock, level, stable, candidate, since, at, pc, owed, busy, held, seen>>

MCCentrals == {c1, c2}
Accepted == INSTANCE DeviceSession WITH AdvertisingMayFail <- FALSE
Controls == INSTANCE LocalControls WITH
  Wrap <- 10, Debounce <- 2, MaxBusy <- 1, Notice <- 5
ASSUME Controls!TicksAssumption

MCInit ==
  /\ part \in {"any", "accepted", "controls"} /\ Init /\ Controls!Init
  /\ part # "controls" => stable = level /\ level = [b \in {1, 2} |-> 1]
MCNext ==
  /\ \/ part = "any" /\ Next /\ UNCHANGED controlVars
     \/ part = "accepted" /\ Accepted!Next /\ UNCHANGED controlVars
     \/ part = "controls" /\ Controls!Next /\ UNCHANGED vars
  /\ UNCHANGED part
\* DeviceSession's Fairness, of the part that has to be reachable.
MCFairness ==
  /\ WF_vars(part = "accepted" /\ Accepted!Advertise)
  /\ WF_vars(part = "accepted" /\ (Accepted!GapConnect \/ Accepted!GapConnectFailed))
  /\ WF_vars(part = "accepted" /\ Accepted!GapDisconnect /\ link = "closing")
MCSpec == MCInit /\ [][MCNext]_<<vars, controlVars, part>> /\ MCFairness

\* DeviceSession's ReturnsToAdvertising, of a stack that accepts to advertise.
ReachableAgain == part = "accepted" => Accepted!ReturnsToAdvertising

\* A button that is held counts, also while the toggle of the other one delays
\* the polls, and one that bounces does not (LocalControls' HeldIsNoticed,
\* Debounced).
HeldIsNoticed ==
  [](part = "controls" => Controls!HeldIsNoticed) /\ Controls!Debounced
=============================================================================
