---------------------------- MODULE ConsoleDisplay --------------------------
(***************************************************************************)
(* frontend/src/datasource/pythonBleSource.ts and bleClient.ts: the switch *)
(* of one sensor's display as the console shows it.  A command locks the   *)
(* switch until it is answered; once a second a poll reads the connector's *)
(* status, whose view of the device may be older than an answer that has   *)
(* arrived since, so a confirmed value overrides the polls for 3 seconds.  *)
(*                                                                         *)
(* The connector is reduced to its cached view: CurrentSamples has it in   *)
(* full.  Samples, the chart's history and the frames built from them are  *)
(* left out.                                                               *)
(***************************************************************************)
EXTENDS Naturals

CONSTANTS
  MaxCommands,  \* bound: switches operated by the user
  MaxButtons,   \* bound: presses of the button on the box
  MaxFaults     \* bound: commands and polls that fail

ASSUME BoundsAssumption == {MaxCommands, MaxButtons, MaxFaults} \subseteq Nat

VARIABLES
  display,   \* whether the device's display is on
  cache,     \* what the connector's status says
  shown,     \* displays: what the console shows
  command,   \* the command of setSensorEnabled, while displayLocks holds
  override,  \* confirmedOverrides
  tick,      \* the poll in flight
  proven,    \* what the device last confirmed and has not changed since
  commands, buttons, faults

deviceVars  == <<display, cache>>
consoleVars == <<shown, command, override, tick>>
bounds      == <<commands, buttons, faults>>
vars        == <<deviceVars, consoleVars, proven, bounds>>

Unknown == "unknown"
States  == {"on", "off"}
Known   == States \cup {Unknown}
Other(d) == IF d = "on" THEN "off" ELSE "on"

TypeOK ==
  /\ display \in States /\ cache \in Known /\ shown \in States
  /\ command \in [at : {"none", "way", "failed", "answer"}, value : States]
  /\ override \in [value : Known, fresh : BOOLEAN]
  /\ override.value = Unknown => ~override.fresh
  /\ tick \in [at : {"idle", "asked", "answered"}, value : Known, old : BOOLEAN]
  /\ proven \in Known
  /\ commands \in 0 .. MaxCommands /\ buttons \in 0 .. MaxButtons /\ faults \in 0 .. MaxFaults

NoOverride == [value |-> Unknown, fresh |-> FALSE]
NoCommand  == [at |-> "none", value |-> "off"]
Idle       == [at |-> "idle", value |-> Unknown, old |-> FALSE]

Init ==
  /\ display \in States /\ cache = Unknown /\ shown = "on"
  /\ command = NoCommand /\ override = NoOverride /\ tick = Idle /\ proven = Unknown
  /\ commands = MaxCommands /\ buttons = MaxButtons /\ faults = MaxFaults

(***************************************************************************)
(* The device and the connector.                                           *)
(***************************************************************************)
Button ==
  /\ buttons > 0 /\ buttons' = buttons - 1
  /\ display' = Other(display) /\ proven' = Unknown
  /\ UNCHANGED <<cache, consoleVars, commands, faults>>

\* The connector's one-second poll
ConnectorPolls ==
  /\ cache' = display
  /\ UNCHANGED <<display, consoleVars, proven, bounds>>

\* The device confirms the command, and the connector's view follows it.
CommandDone ==
  /\ command.at = "way"
  /\ display' = command.value /\ cache' = command.value
  /\ proven' = command.value
  /\ command' = [command EXCEPT !.at = "answer"]
  /\ UNCHANGED <<shown, override, tick, bounds>>

\* The command fails, but may have reached the device.
CommandFails ==
  /\ command.at = "way" /\ faults > 0 /\ faults' = faults - 1
  /\ display' \in {display, command.value}
  /\ proven' = IF display' = display THEN proven ELSE Unknown
  /\ command' = [command EXCEPT !.at = "failed"]
  /\ UNCHANGED <<cache, shown, override, tick, commands, buttons>>

(***************************************************************************)
(* The console.                                                            *)
(***************************************************************************)
\* setSensorEnabled; while the switch is locked it returns at once.
SetSensorEnabled ==
  /\ command.at = "none" /\ commands > 0 /\ commands' = commands - 1
  /\ \E v \in States : command' = [at |-> "way", value |-> v]
  /\ UNCHANGED <<deviceVars, shown, override, tick, proven, buttons, faults>>

\* The confirmed state is shown, and kept against older polls.
CommandAnswered ==
  /\ command.at = "answer"
  /\ shown' = command.value
  /\ override' = [value |-> command.value, fresh |-> TRUE]
  /\ tick' = [tick EXCEPT !.old = tick.at = "answered"]
  /\ command' = NoCommand
  /\ UNCHANGED <<deviceVars, proven, bounds>>

CommandRefused ==
  /\ command.at = "failed" /\ command' = NoCommand
  /\ UNCHANGED <<deviceVars, shown, override, tick, proven, bounds>>

\* Three seconds have passed.  A poll answered before the confirmation has
\* arrived by then: requests to the local connector take less.
OverrideExpires ==
  /\ override.fresh /\ ~tick.old
  /\ override' = [override EXCEPT !.fresh = FALSE]
  /\ UNCHANGED <<deviceVars, shown, command, tick, proven, bounds>>

Tick ==
  /\ tick.at = "idle" /\ tick' = [Idle EXCEPT !.at = "asked"]
  /\ UNCHANGED <<deviceVars, shown, command, override, proven, bounds>>

StatusRead ==
  /\ tick.at = "asked" /\ tick' = [tick EXCEPT !.at = "answered", !.value = cache]
  /\ UNCHANGED <<deviceVars, shown, command, override, proven, bounds>>

\* Plausible bug: trusting every poll while no command is under way
KeepsShownLocked == tick.value = Unknown \/ command.at # "none"
\* Plausible bug: an override that never ends
KeepsShownForever ==
  \/ tick.value = Unknown \/ command.at # "none"
  \/ override.value # Unknown /\ override.value # tick.value
\* A poll changes nothing without a reading, under the lock, or against a
\* fresh confirmation.
KeepsShown ==
  \/ tick.value = Unknown \/ command.at # "none"
  \/ override.fresh /\ override.value # tick.value

StatusArrives ==
  /\ tick.at = "answered" /\ tick' = Idle
  /\ IF KeepsShown THEN UNCHANGED <<shown, override>>
     ELSE shown' = tick.value /\ override' = NoOverride
  /\ UNCHANGED <<deviceVars, command, proven, bounds>>

\* The status is not reachable: the poll goes on without it.
StatusFails ==
  /\ tick.at = "asked" /\ faults > 0 /\ faults' = faults - 1 /\ tick' = Idle
  /\ UNCHANGED <<deviceVars, shown, command, override, proven, commands, buttons>>

-----------------------------------------------------------------------------
Next ==
  \/ Button \/ ConnectorPolls \/ CommandDone \/ CommandFails
  \/ SetSensorEnabled \/ CommandAnswered \/ CommandRefused \/ OverrideExpires
  \/ Tick \/ StatusRead \/ StatusArrives \/ StatusFails

\* The timers of console and connector go on, and every request is answered.
Spec ==
  /\ Init /\ [][Next]_vars
  /\ WF_vars(ConnectorPolls) /\ WF_vars(CommandDone \/ CommandFails)
  /\ WF_vars(CommandAnswered) /\ WF_vars(CommandRefused) /\ WF_vars(OverrideExpires)
  /\ WF_vars(Tick) /\ WF_vars(StatusRead \/ StatusFails) /\ WF_vars(StatusArrives)

-----------------------------------------------------------------------------
\* Once the device has confirmed a command the switch does not flicker back:
\* it shows the confirmed state until somebody changes the device.
ConfirmedStays == (proven # Unknown /\ command.at = "none") => shown = proven

\* When nobody touches the device any more, the console ends up showing what
\* its display does.
DisplaySettles == <>[](commands = 0 /\ buttons = 0 => shown = display)
=============================================================================
