---------------------------- MODULE MCConnection ----------------------------
(***************************************************************************)
(* What the connector believes of its thermometer: the connection          *)
(* lifecycle with two devices, two calls and a poll of the current samples *)
(* beside one of them (ConnectionManager), the codecs of both sides with   *)
(* 16-valued bytes, short history limits and three states of the device    *)
(* (Protocol), and the three places that remember an enrolled device,      *)
(* through crashes and power losses (Enrollment).  A behaviour follows one *)
(* of them; the others rest in an initial state.                           *)
(***************************************************************************)
EXTENDS ConnectionManager, TLC

CONSTANTS
  None, A, B, pA, pB, c1, c2,
  Owned, MaxKeys, MaxDisturbances   \* of the registry: devices and bounds

VARIABLES
  part,
  device, authenticated, nonce, mtu, challenge, call, request, response,
  disturbed, result, phase,                                    \* protocol
  esp, os, file, disk, service, tool, promised, keys, disturbances, powerLost

protocolVars == <<device, authenticated, nonce, mtu, challenge, call, request,
                  response, disturbed, result, phase>>
enrollmentVars == <<esp, os, file, disk, service, tool, promised, keys, disturbances, powerLost>>

\* Only A is enrolled; callers pass no passkey or A's, which is wrong for B.
MCDevices == {A, B}
MCPasskeys == {pA, pB}
MCPasskeyOf == [d \in {A, B} |-> IF d = A THEN pA ELSE pB]
MCCalls == {c1, c2}
MCCallKinds == {"connect", "disconnect", "forget"}
MCSupplied == {None, pA}
MCRegistered == {A}
Symmetry == Permutations({c1, c2})

Nonces == {[i \in 1..16 |-> (i * 3) % 16], [i \in 1..16 |-> (i * 5 + 1) % 16]}
Id == <<1, 2, 3, 4, 5, 15>>
Sensor(t, valid, display) == [temperature |-> t, valid |-> valid, display |-> display]
Ring(first, n) ==
  [i \in 1..n |-> [sequence |-> (first + i - 1) % (16 ^ 4),
                   temperature |-> 40 * i - 125, data_status |-> IF i = 2 THEN 1 ELSE 0]]
\* Both sensors visible with a negative odd sum and a ring across the wrap; one
\* sensor disconnected; a device that has just started.
Thermometers ==
  {[id |-> Id, boot |-> 16 ^ 4 - 2, newest |-> 2,
    sensors |-> <<Sensor(-128, TRUE, TRUE), Sensor(127, TRUE, TRUE)>>,
    ring |-> <<Ring(16 ^ 4 - 3, 6), Ring(1, 2)>>],
   [id |-> Id, boot |-> 4660, newest |-> 300,
    sensors |-> <<Sensor(-1, FALSE, TRUE), Sensor(35, TRUE, FALSE)>>,
    ring |-> <<Ring(298, 3), Ring(296, 5)>>],
   [id |-> Id, boot |-> 1, newest |-> 0,
    sensors |-> <<Sensor(0, FALSE, FALSE), Sensor(0, FALSE, FALSE)>>,
    ring |-> << <<>>, <<>> >>]}

Codec == INSTANCE Protocol WITH
  Base <- 16, MaxRecords <- 4, MaxCompactRecords <- 9, PreferredMtu <- 44,
  Devices <- Thermometers, RequestIds <- {0, 255}, Mtus <- {23, 44},
  Passkeys <- {3, 7}, DevicePasskey <- 3,
  Starts <- {65533, 65535, 298, 2}, Counts <- {1, 20}
Registry == INSTANCE Enrollment WITH
  Devices <- Owned, MaxFaults <- MaxDisturbances, faults <- disturbances

ASSUME DevicesAssumption /\ BoundsAssumption
ASSUME Codec!ConfigurationValid
ASSUME RegistryAssumption == Registry!EnrollmentAssumption

MCInit ==
  /\ part \in {"lifecycle", "protocol", "registry"}
  /\ Init /\ Registry!Init
  /\ Codec!Init /\ (part # "protocol" => mtu = 23 /\ device.boot = 1)
\* Bound: no second call begins while a poll is on its way.
LifecycleRuns ==
  /\ part = "lifecycle" /\ Next
  /\ polling' # "none" => Cardinality({c \in Calls : task'[c].pc # "idle"}) <= 1
  /\ UNCHANGED <<part, protocolVars, enrollmentVars>>
ProtocolRuns ==
  part = "protocol" /\ Codec!Next /\ UNCHANGED <<part, vars, enrollmentVars>>
RegistryRuns ==
  part = "registry" /\ Registry!Next /\ UNCHANGED <<part, vars, protocolVars>>
MCNext == LifecycleRuns \/ ProtocolRuns \/ RegistryRuns
MCSpec == MCInit /\ [][MCNext]_<<part, vars, protocolVars, enrollmentVars>>

-----------------------------------------------------------------------------
\* Protocol's RequestUnderstood, ResultIsMeant, DisturbedRefused and
\* ChunkFitsRead: both codecs agree, and a disturbed response is no result.  (The
\* lifecycle's own invariants are ConnectionManager's.)
SidesAgree ==
  /\ part = "lifecycle" => TypeOK
  /\ part = "protocol" =>
       /\ Codec!TypeOK
       /\ Codec!RequestUnderstood /\ Codec!ResultIsMeant
       /\ Codec!DisturbedRefused /\ Codec!ChunkFitsRead

\* Enrollment's FileWhole, SavedStays, MemoryIsFile and BondBeforeCredential:
\* the registry survives crashes, failed writes and power losses, and an entry
\* goes after its bond.
CredentialsKept ==
  /\ [](part = "registry" => /\ Registry!TypeOK /\ Registry!FileWhole
                             /\ Registry!SavedStays /\ Registry!MemoryIsFile)
  /\ [][part = "registry" => Registry!BondFirst]_enrollmentVars
=============================================================================
