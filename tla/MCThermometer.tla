--------------------------- MODULE MCThermometer ---------------------------
(* Small instances of Thermometer: two sensors, tiny rings and counters.   *)
EXTENDS Thermometer

MCSensors == {1, 2}
MCOneSensor == {1}
MCTemperatures == {20}
MCUsers == {"button", "ble"}
MCBle == {"ble"}
MCNone == {}

\* The LCD and the owner's view of the probes both come to tell the truth: what
\* is drawn is what a redraw would show, and a probe that stays in or out is
\* found in or out (Thermometer's DisplayConverges and SensorStateConverges).
ViewsConverge == DisplayConverges /\ SensorStateConverges

\* The central switches displays and asks for no history, on which nothing that
\* is drawn depends: thermometer_history has the requests.
DisplayNext ==
  \/ Reboot
  \/ \E s \in Sensors : SensorRead(s) \/ SensorSend(s) \/ ProbeChanges(s)
  \/ DeadlinePasses \/ SampleDeadline \/ ReceiveEvent
  \/ \E t \in Tasks : CopyPicture(t) \/ Draw(t)
  \/ \E s \in Switchable : ToggleDisplay(s)
  \/ \E s \in Switchable, enabled \in BOOLEAN : SetDisplay(s, enabled)
DisplaySpec == Init /\ [][DisplayNext]_vars /\ Fairness
=============================================================================
