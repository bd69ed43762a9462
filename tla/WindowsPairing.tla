----------------------------- MODULE WindowsPairing ----------------------------
(* windows_pairing.py: pairing with the ESP32 and removing it through WinRT.      *)
(* Unlike BlueZ's client all its cleanup is synchronous, so a cancellation ends   *)
(* the coroutine at once; what WinRT still does after that is its own affair.     *)
CONSTANT None
WindowsPairingAssumption ==
  None \notin {"pair", "forget", "right", "wrong", "ok", "error", "cancelled", "paired",
               "failed"}

VARIABLES client, windows
vars == <<client, windows>>

Bonds == {"none", "unauthenticated", "authenticated"}
Idle == [pc |-> "idle", call |-> None, passkey |-> None, handle |-> FALSE, handler |-> FALSE]
Init == /\ client = [run |-> Idle, outcome |-> None]
        /\ windows = [bond |-> "none", ceremony |-> "none", status |-> None]

At(pc) == client.run.pc = pc
To(pc) == client' = [client EXCEPT !.run.pc = pc]
\* The finally clauses: remove_pairing_requested, then _close_device_handle, which
\* some drivers refuse without harm.
Cleaned(run) == Idle
Ends(r) == client' = [run |-> Cleaned(client.run), outcome |-> r]

-------------------------------------------------------------------------------
(* pair_device and forget_device: one step per await of WinRT. *)

PairCalled(passkey) ==
  /\ At("idle") /\ UNCHANGED windows
  /\ client' = IF passkey = "malformed" THEN [client EXCEPT !.outcome = "error"]
               ELSE [client EXCEPT !.run = [Idle EXCEPT !.pc = "open", !.call = "pair",
                                                        !.passkey = passkey]]
ForgetCalled ==
  /\ At("idle") /\ UNCHANGED windows
  /\ client' = [client EXCEPT !.run = [Idle EXCEPT !.pc = "open", !.call = "forget"]]
\* WinRT resolves the address, or does not know it.
Opened ==
  /\ At("open") /\ UNCHANGED windows
  /\ \/ client' = [client EXCEPT !.run.handle = TRUE,
                 !.run.pc = IF client.run.call = "pair" THEN "endpoint" ELSE "bonded"]
     \/ Ends("error")

\* Plausible bug: any bond counts.
AnyBond == Ends(IF windows.bond # "none" THEN "ok" ELSE "error")
_require_authenticated_bond == Ends(IF windows.bond = "authenticated" THEN "ok" ELSE "error")
\* _fresh_device_information; the handler is in place before the request is made.
Endpoint(canPair) ==
  /\ At("endpoint")
  /\ IF windows.bond # "none" THEN _require_authenticated_bond /\ UNCHANGED windows
     ELSE IF ~canPair THEN Ends("error") /\ UNCHANGED windows
     ELSE /\ client' = [client EXCEPT !.run.pc = "pairing", !.run.handler = TRUE]
          /\ windows' = IF windows.ceremony # "none" THEN [windows EXCEPT !.status = "failed"]
                        ELSE [windows EXCEPT !.ceremony = "asked"]
Paired ==
  /\ At("pairing")
  /\ \/ /\ windows.status = "paired"     \* or ALREADY_PAIRED
        /\ client' = [client EXCEPT !.run.pc = "verify", !.run.handler = FALSE]
     \/ windows.status = "failed" /\ Ends("error")
  /\ windows' = [windows EXCEPT !.status = None]
Verified == At("verify") /\ _require_authenticated_bond /\ UNCHANGED windows
\* wait_for cancels the WinRT operation, which may have come too far to stop.
Abandoned == {[windows EXCEPT !.status = None, !.ceremony = c] : c \in {"none", windows.ceremony}}
TimesOut == At("pairing") /\ Ends("error") /\ windows' \in Abandoned

Bonded == /\ At("bonded") /\ UNCHANGED windows
          /\ IF windows.bond # "none" THEN To("unpair") ELSE Ends("ok")
Unpairs == {"unpaired", "failed"}
Reported(status) == Ends(IF status = "unpaired" THEN "ok" ELSE "error")
Unpaired(status) ==
  /\ At("unpair") /\ Reported(status)
  /\ windows' = IF status = "unpaired" THEN [windows EXCEPT !.bond = "none"] ELSE windows

Answer == \/ Opened \/ Paired \/ Verified \/ Bonded
          \/ \E canPair \in BOOLEAN : Endpoint(canPair)
          \/ \E status \in Unpairs : Unpaired(status)
\* Every await may raise, and may be cancelled.
Raises == ~At("idle") /\ Ends("error") /\ windows' \in Abandoned
Cancelled == ~At("idle") /\ Ends("cancelled") /\ windows' \in Abandoned
\* The service bounds a pairing, not a removal.
Bounded == client.run.call = "pair" /\ Cancelled

-------------------------------------------------------------------------------
(* WinRT, the ESP32 and the settings of the computer. *)

\* handle_pairing_request accepts only the ceremony that provides the PIN.
handle_pairing_request(kind) ==
  windows' = IF kind # "pin" THEN [windows EXCEPT !.ceremony = "none", !.status = "failed"]
             ELSE [windows EXCEPT !.ceremony = IF client.run.passkey = "right" THEN "pin"
                                               ELSE "wrong pin"]
Asked == \E kind \in {"pin", "consent"} :
           client.run.handler /\ windows.ceremony = "asked" /\ handle_pairing_request(kind)
CeremonyEnds(bond, status) ==
  windows' = [bond |-> bond, ceremony |-> "none",
              status |-> IF At("pairing") THEN status ELSE windows.status]
Ceremony ==
  \/ windows.ceremony = "pin" /\ CeremonyEnds("authenticated", "paired")
  \/ windows.ceremony = "pin" /\ CeremonyEnds("none", "paired")
  \/ windows.ceremony = "consent" /\ CeremonyEnds("unauthenticated", "paired")
  \/ windows.ceremony # "none" /\ CeremonyEnds(windows.bond, "failed")
Others == \E b \in {"none", "unauthenticated"} : windows' = [windows EXCEPT !.bond = b]
Outside == (Asked \/ Ceremony \/ Others) /\ UNCHANGED client

Next == \/ \E passkey \in {"right", "wrong", "malformed"} : PairCalled(passkey)
        \/ ForgetCalled \/ Answer \/ Raises \/ TimesOut \/ Cancelled \/ Outside
Spec == Init /\ [][Next]_vars
\* The time limits expire; no answer of WinRT is promised.
TimedSpec == Spec /\ WF_vars(Bounded) /\ WF_vars(TimesOut)

-------------------------------------------------------------------------------
Runs == [pc : {"idle", "open", "endpoint", "pairing", "verify", "bonded", "unpair"},
         call : {None, "pair", "forget"}, passkey : {None, "right", "wrong"},
         handle : BOOLEAN, handler : BOOLEAN]
TypeOK ==
  /\ client \in [run : Runs, outcome : {None, "ok", "error", "cancelled"}]
  /\ windows \in [bond : Bonds, ceremony : {"none", "asked", "pin", "wrong pin", "consent"},
                  status : {None, "paired", "failed"}]
  /\ client.run.handler <=> At("pairing")
  /\ client.run.handle <=> ~(At("idle") \/ At("open"))

Returned(call) == client.run.call = call /\ At("idle")' /\ client'.outcome = "ok"
\* windows_pairing.py:121 and README.md:1127: pair_device returns only while the
\* bond is an authenticated one, whoever made it and whatever status was reported.
PairEnsuresAuthenticated == [][Returned("pair") => windows'.bond = "authenticated"]_vars
\* forget_device returns only when no bond is left.
ForgottenIsGone == [][Returned("forget") => windows'.bond = "none"]_vars
\* A ceremony this program answered makes no bond that skips the PIN, not even one
\* that Windows ends after the program has given up.
OnlyPinnedBonds ==
  [][windows.ceremony # "none" /\ windows'.ceremony = "none"
     /\ windows'.bond \notin {"none", windows.bond} => windows'.bond = "authenticated"]_vars

\* A pairing ends although WinRT answers nothing (ble_service.py:1357).
PairEnds == client.run.call = "pair" ~> At("idle")
\* README.md:892: so would a removal, if its state had a bounded exit.
ForgetEnds == client.run.call = "forget" ~> At("idle")
================================================================================
