------------------------------ MODULE Enrollment ------------------------------
(* The three places that remember an enrolled thermometer: the bond in the      *)
(* ESP32, the bond in the operating system and the entry of the credential      *)
(* registry, a CSV file rewritten as a whole and kept in memory by the service. *)
(* The connector service enrols and forgets devices, the pairing reset tool     *)
(* removes all of them while the service is stopped, and both may stop between  *)
(* two steps.  Connecting is reduced to what it needs of the bonds; the phases  *)
(* of the manager are in ConnectionManager, the ceremonies are in LinuxPairing  *)
(* and WindowsPairing.                                                          *)
EXTENDS Naturals, FiniteSets

CONSTANTS Devices, None,
          MaxKeys,      \* pairing ceremonies in a behaviour
          MaxFaults     \* crashes, power losses and bonds removed by others

EnrollmentAssumption == MaxKeys \in Nat /\ MaxFaults \in Nat

VARIABLES esp, os,      \* the key of each device's bond, 0 for none, on both sides
          file,         \* the CSV file as a reader finds it now
          disk,         \* its entries after a power loss that undoes the last rename
          service, tool,          \* the two processes
          promised,     \* history: devices whose saving has returned
          keys, faults, powerLost
vars == <<esp, os, file, disk, service, tool, promised, keys, faults, powerLost>>
bonds == <<esp, os, keys>>
store == <<file, disk, promised>>

Stopped == [pc |-> "down", records |-> {}, device |-> None, updated |-> {}, temp |-> None]
\* A service knows which bond this process has verified, the tool what is left to do.
Init == /\ esp = [d \in Devices |-> 0] /\ os = [d \in Devices |-> 0]
        /\ file = [entries |-> {}, synced |-> TRUE, whole |-> TRUE] /\ disk = {}
        /\ service = [process |-> Stopped, verified |-> None]
        /\ tool = [process |-> Stopped, todo |-> {}, failed |-> FALSE]
        /\ promised = {} /\ keys = 0 /\ faults = 0 /\ powerLost = FALSE

-------------------------------------------------------------------------------
(* CredentialRegistry, for a process p: the lock makes a save or a deletion one *)
(* sequence of steps, of which a crash can leave a prefix.                      *)

\* _read_all; a file with a torn row makes the constructor raise.
Read(p) == [p EXCEPT !.pc = "idle", !.records = file.entries]

\* save_verified and delete write a changed copy and keep it only once written.
Merged(records, d) == records \cup {d}
KeptUntilWritten(old, new) == old
Rewrite(p, d, updated) ==
  [p EXCEPT !.pc = "write", !.device = d, !.updated = updated,
            !.records = KeptUntilWritten(@, updated)]

Synced(temp) == [temp EXCEPT !.synced = TRUE]
\* _write_all: the temporary file, its fsync and its renaming.
WriteTemp(p) == [p EXCEPT !.pc = "sync",
                          !.temp = [entries |-> p.updated, synced |-> FALSE, whole |-> TRUE]]
SyncTemp(p) == [p EXCEPT !.pc = "replace", !.temp = Synced(@)]
Replaced(p) == [p EXCEPT !.pc = "remember", !.temp = None]
Remembered(p) == [p EXCEPT !.pc = "idle", !.records = p.updated, !.updated = {}, !.device = None]
Writing(p) == p.pc \in {"write", "sync", "replace"}
Unwritten(p) == [p EXCEPT !.pc = "idle", !.temp = None, !.updated = {}, !.device = None]

\* Plausible bug: the written copy never replaces the file.
AdvancedUnrenamed(p) == CASE p.pc = "write" -> WriteTemp(p) [] p.pc = "sync" -> Replaced(p)
                          [] OTHER -> Remembered(p)
Advanced(p) == CASE p.pc = "write" -> WriteTemp(p) [] p.pc = "sync" -> SyncTemp(p)
                 [] p.pc = "replace" -> Replaced(p) [] p.pc = "remember" -> Remembered(p)
\* The rename is the step that readers see.
RegistryStep(p) ==
  \/ p.pc \in {"write", "sync"} /\ UNCHANGED store
  \/ /\ p.pc = "replace" /\ file' = p.temp /\ UNCHANGED disk
     /\ promised' = promised \cap p.updated
  \/ p.pc = "remember" /\ promised' = promised \cup p.updated /\ UNCHANGED <<file, disk>>

-------------------------------------------------------------------------------
(* The connector service. *)

Serve(pc, d) == [service EXCEPT !.process.pc = pc, !.process.device = d]
Give(d) == service' = Serve("idle", None)

\* The operator stops one before starting the other (backend/README.md).
StartService ==
  /\ service.process.pc = "down" /\ tool.process.pc \in {"down", "done"} /\ file.whole
  /\ service' = [process |-> Read(service.process), verified |-> None]
  /\ tool' = [process |-> Stopped, todo |-> {}, failed |-> FALSE]
  /\ UNCHANGED <<bonds, store, faults, powerLost>>

\* pair_device looks for a bond and runs a ceremony only when there is none; the
\* ESP32 replaces its own bond on a repeated pairing.
NeedsCeremony(d) == service.verified # d /\ os[d] = 0
Pair(d) ==
  /\ service.process.pc = "idle"
  /\ UNCHANGED <<tool, store, faults, powerLost>>
  /\ \/ /\ ~NeedsCeremony(d)
        /\ service' = [Serve("connect", d) EXCEPT !.verified = d] /\ UNCHANGED bonds
     \/ /\ NeedsCeremony(d) /\ keys < MaxKeys /\ keys' = keys + 1
        /\ esp' = [esp EXCEPT ![d] = keys + 1] /\ os' = [os EXCEPT ![d] = keys + 1]
        /\ service' = [Serve("connect", d) EXCEPT !.verified = d]
     \* Interrupted or given up in time: the ESP32 may have its half of the bond.
     \/ /\ NeedsCeremony(d) /\ keys < MaxKeys /\ keys' = keys + 1
        /\ esp' = [esp EXCEPT ![d] = keys + 1] /\ UNCHANGED <<os, service>>

BondWorks(d) == os[d] # 0 /\ os[d] = esp[d]
\* The encrypted link, the proof and the first protected read.
Connect ==
  LET d == service.process.device
  IN  /\ service.process.pc = "connect"
      /\ \/ BondWorks(d) /\ service' = Serve("verified", d)
         \/ Give(d)
      /\ UNCHANGED <<tool, bonds, store, faults, powerLost>>

\* The manager saves the verified credential, whether or not it is already stored.
Save ==
  /\ service.process.pc = "verified"
  /\ LET d == service.process.device
     IN  service' = [service EXCEPT !.process = Rewrite(@, d, Merged(@.records, d))]
  /\ UNCHANGED <<tool, bonds, store, faults, powerLost>>

ServiceWrites ==
  /\ RegistryStep(service.process)
  /\ service' = [service EXCEPT !.process = Advanced(@)]
  /\ UNCHANGED <<tool, bonds, faults, powerLost>>
\* An exception unlinks the temporary file and is raised to the caller.
ServiceWriteFails ==
  /\ Writing(service.process) /\ service' = [service EXCEPT !.process = Unwritten(@)]
  /\ UNCHANGED <<tool, bonds, store, faults, powerLost>>

\* forget_pairing.perform on an authenticated connection: the ESP32 deletes its
\* bond when the link closes, then the operating system's goes, then the entry.
ForgetEsp(d) ==
  /\ service.process.pc = "idle" /\ BondWorks(d) /\ service.verified = d
  /\ esp' = [esp EXCEPT ![d] = 0] /\ service' = [Serve("unpair", d) EXCEPT !.verified = None]
  /\ UNCHANGED <<os, keys, tool, store, faults, powerLost>>
ForgetOs ==
  LET d == service.process.device
  IN  /\ service.process.pc = "unpair"
      /\ \/ os' = [os EXCEPT ![d] = 0] /\ service' = Serve("erase", d)
         \/ UNCHANGED os /\ Give(d)
      /\ UNCHANGED <<esp, keys, tool, store, faults, powerLost>>
\* delete does not write when there is nothing to remove.
ForgetEntry ==
  LET d == service.process.device
      known == d \in service.process.records
  IN  /\ service.process.pc = "erase"
      /\ service' = IF known THEN [service EXCEPT !.process = Rewrite(@, d, @.records \ {d})]
                    ELSE Serve("idle", None)
      /\ UNCHANGED <<tool, bonds, store, faults, powerLost>>

-------------------------------------------------------------------------------
(* reset_all_pairings. *)

StartTool ==
  /\ tool.process.pc = "down" /\ service.process.pc = "down" /\ file.whole
  /\ tool' = [process |-> Read(tool.process), todo |-> file.entries, failed |-> FALSE]
  /\ UNCHANGED <<service, bonds, store, faults, powerLost>>

\* An entry is deleted after its bond; a bond that cannot be removed keeps it.
RemoveBond(d) == os' = [os EXCEPT ![d] = 0]
ToolRemoves(d) ==
  /\ tool.process.pc = "idle" /\ d \in tool.todo
  /\ \/ /\ RemoveBond(d)
        /\ tool' = [tool EXCEPT !.todo = @ \ {d},
                                !.process = Rewrite(tool.process, d, tool.process.records \ {d})]
     \/ tool' = [tool EXCEPT !.todo = @ \ {d}, !.failed = TRUE] /\ UNCHANGED os
  /\ UNCHANGED <<esp, keys, service, store, faults, powerLost>>

ToolWrites ==
  /\ RegistryStep(tool.process)
  /\ tool' = [tool EXCEPT !.process = Advanced(@)]
  /\ UNCHANGED <<service, bonds, faults, powerLost>>

\* An exception of the registry ends the whole run.
ToolWriteFails ==
  /\ Writing(tool.process)
  /\ tool' = [process |-> [Stopped EXCEPT !.pc = "done"], todo |-> {}, failed |-> TRUE]
  /\ UNCHANGED <<service, bonds, store, faults, powerLost>>

ToolEnds ==
  /\ tool.process.pc = "idle" /\ tool.todo = {}
  /\ tool' = [tool EXCEPT !.process = [Stopped EXCEPT !.pc = "done"]]
  /\ UNCHANGED <<service, bonds, store, faults, powerLost>>

-------------------------------------------------------------------------------
Fault == faults < MaxFaults /\ faults' = faults + 1
BothStopped == /\ service' = [process |-> Stopped, verified |-> None]
               /\ tool' = [process |-> Stopped, todo |-> {}, failed |-> FALSE]

\* A process ends anywhere; its temporary file stays behind and is never read.
Crash == /\ Fault /\ BothStopped /\ UNCHANGED <<bonds, store, powerLost>>
\* The operator stops an idle service.
StopService == /\ service.process.pc = "idle" /\ BothStopped
               /\ UNCHANGED <<bonds, store, faults, powerLost>>
\* A power loss may undo a rename the system has not written yet, and tears a
\* file whose contents were never synchronised.
PowerLoss ==
  /\ Fault /\ BothStopped /\ powerLost' = TRUE
  /\ \/ file' = [file EXCEPT !.whole = @ /\ file.synced] /\ disk' = file.entries
     \/ file' = [entries |-> disk, synced |-> TRUE, whole |-> TRUE] /\ UNCHANGED disk
  /\ UNCHANGED <<bonds, promised>>
Settles == /\ disk # file.entries /\ disk' = file.entries
           /\ UNCHANGED <<bonds, file, promised, service, tool, faults, powerLost>>
UserRemovesBond(d) == /\ Fault /\ os[d] # 0 /\ os' = [os EXCEPT ![d] = 0]
                      /\ UNCHANGED <<esp, keys, store, service, tool, powerLost>>
NvsErased(d) == /\ Fault /\ esp[d] # 0 /\ esp' = [esp EXCEPT ![d] = 0]
                /\ UNCHANGED <<os, keys, store, service, tool, powerLost>>

ServiceNext == StartService \/ Connect \/ Save \/ ServiceWrites \/ ServiceWriteFails
                 \/ ForgetOs \/ ForgetEntry
ToolNext == ToolWrites \/ ToolWriteFails \/ ToolEnds \/ \E d \in Devices : ToolRemoves(d)
Next == \/ ServiceNext \/ StopService \/ StartTool \/ ToolNext
        \/ Crash \/ PowerLoss \/ Settles
        \/ \E d \in Devices : Pair(d) \/ ForgetEsp(d) \/ UserRemovesBond(d) \/ NvsErased(d)
Spec == Init /\ [][Next]_vars

-------------------------------------------------------------------------------
Pcs == {"down", "idle", "connect", "verified", "unpair", "erase",
        "write", "sync", "replace", "remember", "done"}
Files == [entries : SUBSET Devices, synced : BOOLEAN, whole : BOOLEAN]
Processes == [pc : Pcs, records : SUBSET Devices, device : Devices \cup {None},
              updated : SUBSET Devices, temp : Files \cup {None}]
\* Keys, files and the steps of both processes; a process that is not in the
\* middle of an attempt or a rewrite holds no device and no temporary file.
TypeOK ==
  /\ esp \in [Devices -> 0..MaxKeys] /\ os \in [Devices -> 0..MaxKeys]
  /\ file \in Files /\ disk \subseteq Devices /\ promised \subseteq Devices
  /\ service \in [process : Processes, verified : Devices \cup {None}]
  /\ tool \in [process : Processes, todo : SUBSET Devices, failed : BOOLEAN]
  /\ \A p \in {service.process, tool.process} :
        p.pc \in {"idle", "down", "done"} => p.device = None /\ p.temp = None
  /\ keys \in 0..MaxKeys /\ faults \in 0..MaxFaults /\ powerLost \in BOOLEAN

\* No crash or power loss leaves a registry that the next start cannot read
\* (_write_all: the contents are synchronised before the rename).
FileWhole == file.whole

\* Outside a rewrite, and after a failed one, what the service believes is what
\* the file holds: the next save, which writes all it believes, loses and
\* revives nothing (save_verified, delete).
MemoryIsFile ==
  /\ ~Writing(service.process) /\ service.process.pc \notin {"down", "remember"}
  => service.process.records = file.entries

\* A credential whose saving returned survives the failures of later writes and
\* every crash until it is deleted.  A power loss may undo the rename.
SavedStays == ~powerLost => promised \subseteq file.entries

\* An entry disappears only after the bond of the operating system
\* (reset_all_pairings, forget_pairing), so that a failed removal stays visible,
\* or because a power loss undoes the rename that made it.
BondFirst == \A d \in file.entries \ file'.entries : faults' # faults \/ os[d] = 0
BondBeforeCredential == [][BondFirst]_vars

\* pairing_reset.py:1 says "Explicitly remove every thermometer pairing owned by
\* this project."  A bond whose enrolment stopped before the credential was
\* saved is not in the registry, and the tool reports success without it.
ResetRemovesAll == tool.process.pc = "done" /\ ~tool.failed => \A d \in Devices : os[d] = 0

\* README.md:1135 says "If the host bond was explicitly removed or corrupted,
\* repeat pairing replaces the stale ESP32 bond".  A running service remembers
\* that it verified the bond (_verified_bond_address) and never pairs again.
KeepsTrying ==
  /\ \A d \in Devices : WF_vars(Pair(d))
  /\ WF_vars(Connect) /\ WF_vars(Save) /\ WF_vars(ServiceWrites)
  /\ WF_vars(ForgetOs) /\ WF_vars(ForgetEntry) /\ WF_vars(StartService)
RepairSpec == Spec /\ KeepsTrying
RemovedBondIsRepaired ==
  \A d \in Devices :
     [](service.process.pc # "down" /\ keys < MaxKeys /\ d \in file.entries /\ os[d] = 0
          => <>(os[d] # 0 \/ service.process.pc = "down" \/ keys = MaxKeys \/ d \notin file.entries))
=============================================================================
