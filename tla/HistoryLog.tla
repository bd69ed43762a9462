---------------------------- MODULE HistoryLog ----------------------------
(***************************************************************************)
(* What the history of one thermometer promises its BLE client, without    *)
(* rings, indices or copies.  Each sensor has a log of its most recent     *)
(* samples, oldest first, never longer than HistoryCapacity.  Reads are    *)
(* answered from "served": the log itself until the client first asks for  *)
(* the history metadata, and from then on the log as it was at the latest  *)
(* such request, so that sampling cannot disturb a transfer.               *)
(***************************************************************************)
EXTENDS Naturals, Sequences

CONSTANTS HistoryCapacity, Sensors, Samples

VARIABLES log, served, frozen

logVars == <<log, served, frozen>>

\* The last HistoryCapacity elements of a sequence one longer than allowed.
Newest(s) ==
  IF Len(s) > HistoryCapacity THEN Tail(s) ELSE s

Last(s) == s[Len(s)]

Init ==
  /\ log = [s \in Sensors |-> << >>]
  /\ served = log
  /\ frozen = FALSE

\* Every sensor gains one sample at the same moment: its new last element.
Sample ==
  /\ \A s \in Sensors :
       /\ log'[s] # << >> /\ Last(log'[s]) \in Samples
       /\ log'[s] = Newest(Append(log[s], Last(log'[s])))
  /\ served' = IF frozen THEN served ELSE log'
  /\ UNCHANGED frozen

\* The client asks for the metadata: later reads see this log.
Freeze ==
  /\ served' = log
  /\ frozen' = TRUE
  /\ UNCHANGED log

\* Power is lost; nothing is persisted.
Restart ==
  /\ log' = [s \in Sensors |-> << >>]
  /\ served' = log'
  /\ frozen' = FALSE

Next == Sample \/ Freeze \/ Restart

Spec == Init /\ [][Next]_logVars
=============================================================================
