---------------------------- MODULE LocalControls ---------------------------
(***************************************************************************)
(* firmware/main/src/local_controls.c: the task that polls the two buttons *)
(* of the box, debounces them, and asks the state owner to toggle a        *)
(* display.  Thermometer has what a toggle does; here it only takes time:  *)
(* the LCD is rendered within the call, and the polls missed meanwhile are *)
(* made up for at once (vTaskDelayUntil).                                  *)
(*                                                                         *)
(* A tick of the model is one polling period.  The tick counter wraps.     *)
(***************************************************************************)
EXTENDS Naturals

CONSTANTS
  Wrap,      \* the values of TickType_t
  Debounce,  \* BUTTON_DEBOUNCE_TIME
  MaxBusy,   \* the longest a toggle keeps the task
  Notice     \* bound: a level held so long is not counted further

TicksAssumption ==
  /\ {Wrap, Debounce, MaxBusy, Notice} \subseteq Nat
  /\ MaxBusy < Debounce /\ Debounce < Notice /\ 2 * Notice <= Wrap

VARIABLES
  clock,      \* xTaskGetTickCount
  level,      \* what is at the pins: a button may bounce
  stable,     \* stable_level
  candidate,  \* candidate_level
  since,      \* candidate_since
  at,         \* now, read once for both buttons
  pc,         \* the button that is polled next, 0 in the delay
  owed,       \* polls that are due
  busy,       \* ticks until the toggle under way returns
  held,       \* how long each pin has had its level (a history)
  seen        \* how long every poll has read the candidate (a history)

buttonVars == <<stable, candidate, since>>
vars == <<clock, level, buttonVars, at, pc, owed, busy, held, seen>>

Buttons == {1, 2}
Pressed == 0
Capped(n) == IF n < Notice THEN n ELSE Notice

TypeOK ==
  /\ {clock, at} \subseteq 0 .. Wrap - 1 /\ pc \in 0 .. 2
  /\ level \in [Buttons -> 0 .. 1]
  /\ stable \in [Buttons -> 0 .. 1] /\ candidate \in [Buttons -> 0 .. 1]
  /\ since \in [Buttons -> 0 .. Wrap - 1]
  /\ owed \in 0 .. MaxBusy + 1 /\ busy \in 0 .. MaxBusy
  /\ held \in [Buttons -> 0 .. Notice] /\ seen \in [Buttons -> 0 .. Notice]

\* The two readings of a pin that the task begins with may differ.
Init ==
  /\ clock = 0 /\ at = 0 /\ pc = 0 /\ owed = 1 /\ busy = 0
  /\ level \in [Buttons -> 0 .. 1]
  /\ stable \in [Buttons -> 0 .. 1] /\ candidate = level
  /\ since = [b \in Buttons |-> 0]
  /\ held = [b \in Buttons |-> 0] /\ seen = [b \in Buttons |-> 0]

\* A button is pressed or released, or its contacts bounce.
Bounce(b) ==
  /\ level' = [level EXCEPT ![b] = 1 - @]
  /\ held' = [held EXCEPT ![b] = 0]
  /\ UNCHANGED <<clock, buttonVars, at, pc, owed, busy, seen>>

\* Time passes while the task waits, in its delay or in the call to toggle.
Tick ==
  /\ busy > 0 \/ (pc = 0 /\ owed = 0)
  /\ clock' = (clock + 1) % Wrap
  /\ owed' = owed + 1
  /\ busy' = IF busy > 0 THEN busy - 1 ELSE 0
  /\ held' = [b \in Buttons |-> Capped(held[b] + 1)]
  /\ seen' = [b \in Buttons |-> Capped(seen[b] + 1)]
  /\ UNCHANGED <<level, buttonVars, at, pc>>

\* Plausible bug: not reading the time again
RoundStale == UNCHANGED at
\* The time one round of polls goes by
Round == at' = clock

Wake ==
  /\ pc = 0 /\ busy = 0 /\ owed > 0
  /\ owed' = owed - 1 /\ pc' = 1 /\ Round
  /\ UNCHANGED <<clock, level, buttonVars, busy, held, seen>>

\* The difference is taken for a signed number.
deadline_reached(now, deadline) == (now + Wrap - deadline) % Wrap < Wrap \div 2

\* What the loop does after button b
After(b) == (b + 1) % 3

\* poll_button, and the toggle when it reports a press: a disconnected sensor
\* refuses it at once, otherwise the display is rendered.
Poll(b) ==
  /\ pc = b /\ busy = 0 /\ pc' = After(b)
  /\ LET moved == level[b] # candidate[b]
         from  == IF moved THEN at ELSE since[b]
         taken == level[b] # stable[b] /\ deadline_reached(at, (from + Debounce) % Wrap)
     IN /\ candidate' = [candidate EXCEPT ![b] = level[b]]
        /\ since' = [since EXCEPT ![b] = from]
        /\ seen' = [seen EXCEPT ![b] = IF moved THEN 0 ELSE @]
        /\ stable' = [stable EXCEPT ![b] = IF taken THEN level[b] ELSE @]
        /\ busy' \in IF taken /\ level[b] = Pressed THEN 0 .. MaxBusy ELSE {0}
  /\ UNCHANGED <<clock, level, at, owed, held>>

Next == Tick \/ Wake \/ \E b \in Buttons : Bounce(b) \/ Poll(b)
Spec == Init /\ [][Next]_vars

-----------------------------------------------------------------------------
\* A level is accepted only after every poll of the debounce time has read it
\* ("40 ms software debounce", firmware README.md:80), wherever the counter
\* wraps.  The second button is polled with the time from before the first
\* one's toggle: for it the debounce is shorter by what that took.
Debounced ==
  [][\A b \in Buttons : stable'[b] # stable[b] =>
       seen[b] >= IF b = 1 THEN Debounce ELSE Debounce - MaxBusy]_vars

\* A level that is held is accepted, also while the other button's toggle
\* delays the polls.
HeldIsNoticed ==
  \A b \in Buttons :
    held[b] > Debounce + MaxBusy + 1 /\ pc = 0 /\ owed = 0 => stable[b] = level[b]
=============================================================================
