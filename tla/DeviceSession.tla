--------------------------- MODULE DeviceSession ---------------------------
(***************************************************************************)
(* firmware/main/src/ble_server.c, protocol.c and application_auth.c: one  *)
(* BLE link at a time, the challenge-response that opens the protocol on   *)
(* it, the lockout that outlives it, and the bond it may ask to remove.    *)
(*                                                                         *)
(* All callbacks run on the NimBLE host task, one after another.  A write  *)
(* to the request characteristic runs the whole of process_request; a read *)
(* of the response characteristic returns s_response and may end the link. *)
(* esp_timer time is kept relative: the age of the challenge, and what is  *)
(* left of the lockout.                                                    *)
(***************************************************************************)
EXTENDS Integers

CONSTANTS
  Centrals,            \* peers that may connect
  MaxFailures,         \* THERMOMETER_AUTH_MAX_FAILURES (3)
  ChallengeTimeout,    \* THERMOMETER_AUTH_CHALLENGE_TIMEOUT_MS, in clock units
  LockoutTime,         \* THERMOMETER_AUTH_LOCKOUT_MS, in clock units
  AdvertisingMayFail,  \* bound: whether ble_gap_adv_start may be refused
  NoPeer

ASSUME CentralsAssumption == NoPeer \notin Centrals
ASSUME TimesAssumption ==
  /\ MaxFailures \in Nat \ {0}
  /\ ChallengeTimeout \in Nat
  /\ LockoutTime \in Nat \ {0}
  /\ AdvertisingMayFail \in BOOLEAN

VARIABLES
  link,            \* "advertising", "connecting", "up", "closing" or "silent"
  peer,            \* the connected (or connecting) central
  secured,         \* the link is encrypted and authenticated
  session,         \* s_protocol_session.authentication
  age,             \* now - session.issued_at_us, saturating past the timeout
  failure_count,   \* s_failure_count
  lock,            \* s_locked_until_us - now; NotLocked when it is zero
  response,        \* s_response: the request it answers and its status
  bonds,           \* the bond store (CONFIG_BT_NIMBLE_MAX_BONDS=1)
  bond_to_clear,   \* s_bond_to_clear when s_clear_bond_on_disconnect
  wrong,           \* history: wrong proofs judged since a success or a lockout
  judged,          \* history: proofs judged against the current challenge
  prover           \* history: the central whose proof was accepted last

vars == <<link, peer, secured, session, age, failure_count, lock, response,
          bonds, bond_to_clear, wrong, judged, prover>>

linkVars    == <<link, peer, secured>>
historyVars == <<wrong, judged, prover>>

NotLocked == -1

ZeroSession ==
  [challenge_active |-> FALSE, authenticated |-> FALSE,
   disconnect_requested |-> FALSE]

Sessions ==
  [challenge_active : BOOLEAN, authenticated : BOOLEAN,
   disconnect_requested : BOOLEAN]

\* Requests by what process_request distinguishes.  "PROTECTED" stands for the
\* temperature, display and history requests, "UNKNOWN" for other opcodes.
Requests ==
  {"MALFORMED", "AUTH_BEGIN", "AUTH_PROVE", "PROTECTED", "RESET_BOND", "UNKNOWN"}
Statuses ==
  {"SUCCESS", "INVALID_COMMAND", "INVALID_VALUE", "INVALID_SENSOR",
   "NOT_AVAILABLE", "UNSUPPORTED_VERSION", "AUTHENTICATION_REQUIRED",
   "AUTHENTICATION_FAILED", "AUTHENTICATION_LOCKED"}

Answer(request, status) ==
  response' = [request |-> request, status |-> status]

-----------------------------------------------------------------------------
(* The link: GAP events.                                                   *)

\* Plausible bug: the session is left as it was.
SessionKept == session

\* protocol_session_end and protocol_session_start.
SessionCleared == ZeroSession

\* Plausible bug: a path that forgets to advertise again.
AdvertisingForgotten == link' = "silent"

\* start_advertising gives up silently when the stack refuses.
start_advertising ==
  \/ link' = "advertising"
  \/ AdvertisingMayFail /\ link' = "silent"

\* ble_server_start; the host has not synchronised yet.
Init ==
  /\ link = "silent"
  /\ peer = NoPeer
  /\ secured = FALSE
  /\ session = ZeroSession
  /\ age = 0
  /\ failure_count = 0
  /\ lock = NotLocked
  /\ response = [request |-> "MALFORMED", status |-> "NOT_AVAILABLE"]
  /\ bonds = {}
  /\ bond_to_clear = NoPeer
  /\ wrong = 0 /\ judged = 0 /\ prover = NoPeer

\* handle_host_sync after the start or after a reset of the host, and
\* BLE_GAP_EVENT_ADV_COMPLETE.
Advertise ==
  /\ link \in {"silent", "advertising"}
  /\ start_advertising
  /\ UNCHANGED <<peer, secured, session, age, failure_count, lock, response,
                 bonds, bond_to_clear, historyVars>>

\* A power cycle: only the bond store is persistent.
PowerCycle ==
  /\ link' = "silent" /\ peer' = NoPeer /\ secured' = FALSE
  /\ session' = ZeroSession /\ age' = 0
  /\ failure_count' = 0 /\ lock' = NotLocked
  /\ response' = [request |-> "MALFORMED", status |-> "NOT_AVAILABLE"]
  /\ bond_to_clear' = NoPeer
  /\ wrong' = 0 /\ judged' = 0 /\ prover' = NoPeer
  /\ UNCHANGED bonds

\* A central answers an advertisement, which stops the advertising.
ConnectionAttempt(c) ==
  /\ link = "advertising"
  /\ link' = "connecting"
  /\ peer' = c
  /\ UNCHANGED <<secured, session, age, failure_count, lock, response, bonds,
                 bond_to_clear, historyVars>>

\* BLE_GAP_EVENT_CONNECT with status 0.
GapConnect ==
  /\ link = "connecting"
  /\ link' = "up"
  /\ session' = SessionCleared
  /\ UNCHANGED <<peer, secured, age, failure_count, lock, response, bonds,
                 bond_to_clear, historyVars>>

\* BLE_GAP_EVENT_CONNECT with an error status.
GapConnectFailed ==
  /\ link = "connecting"
  /\ start_advertising
  /\ peer' = NoPeer
  /\ UNCHANGED <<secured, session, age, failure_count, lock, response, bonds,
                 bond_to_clear, historyVars>>

BondRequestDropped == NoPeer

\* BLE_GAP_EVENT_DISCONNECT, whoever ended the link.  The deletion of the bond
\* may fail; the request is dropped all the same.
GapDisconnect ==
  /\ link \in {"up", "closing"}
  /\ start_advertising
  /\ peer' = NoPeer
  /\ secured' = FALSE
  /\ session' = SessionCleared
  /\ bonds' \in {bonds, bonds \ {bond_to_clear}}
  /\ bond_to_clear' = BondRequestDropped
  /\ UNCHANGED <<age, failure_count, lock, response, historyVars>>

\* A bonded central resumes encryption.
Encrypt ==
  /\ link = "up" /\ ~secured
  /\ peer \in bonds
  /\ secured' = TRUE
  /\ UNCHANGED <<link, peer, session, age, failure_count, lock, response,
                 bonds, bond_to_clear, historyVars>>

\* Passkey pairing; the one bond of the store is replaced.
Pair ==
  /\ link = "up" /\ ~secured
  /\ secured' = TRUE
  /\ bonds' = {peer}
  /\ UNCHANGED <<link, peer, session, age, failure_count, lock, response,
                 bond_to_clear, historyVars>>

\* BLE_GAP_EVENT_REPEAT_PAIRING: the device forgets the bond before the peer
\* has proved that it knows the passkey, and that proof fails.
RepeatPairingFails ==
  /\ link = "up" /\ ~secured
  /\ peer \in bonds
  /\ bonds' = bonds \ {peer}
  /\ UNCHANGED <<link, peer, secured, session, age, failure_count, lock,
                 response, bond_to_clear, historyVars>>

-----------------------------------------------------------------------------
(* application_auth.c                                                      *)

\* The lockout as seen after is_locked has run: an expired one is forgotten,
\* with the failures that led to it.
is_locked == lock > 0
Expired == lock = 0
LockNow == IF Expired THEN NotLocked ELSE lock

\* Plausible bug: every use of the authentication starts a new count.
FailuresForgotten == 0

FailuresNow == IF Expired THEN 0 ELSE failure_count

\* AUTH_BEGIN: a new challenge, and the old authentication is gone.
AuthBegin ==
  /\ lock' = LockNow
  /\ failure_count' = FailuresNow
  /\ IF is_locked
     THEN /\ Answer("AUTH_BEGIN", "AUTHENTICATION_LOCKED")
          /\ UNCHANGED <<session, age, judged>>
     ELSE /\ session' = [session EXCEPT !.challenge_active = TRUE,
                                        !.authenticated = FALSE]
          /\ age' = 0
          /\ judged' = 0
          /\ Answer("AUTH_BEGIN", "SUCCESS")
  /\ UNCHANGED <<bond_to_clear, wrong, prover>>

\* A proof of the wrong length, an inactive or an expired challenge, a lockout.
ProofNotJudged ==
  \/ /\ Answer("AUTH_PROVE", "AUTHENTICATION_REQUIRED")
     /\ UNCHANGED <<session, failure_count, lock>>
  \/ /\ is_locked
     /\ session' = [session EXCEPT !.disconnect_requested = TRUE]
     /\ Answer("AUTH_PROVE", "AUTHENTICATION_LOCKED")
     /\ UNCHANGED <<failure_count, lock>>
  \/ /\ ~is_locked
     /\ ~session.challenge_active \/ age > ChallengeTimeout
     /\ session' = [session EXCEPT !.challenge_active = FALSE]
     /\ lock' = LockNow
     /\ failure_count' = FailuresNow
     /\ Answer("AUTH_PROVE", "AUTHENTICATION_REQUIRED")

Judging ==
  /\ ~is_locked
  /\ session.challenge_active
  /\ age <= ChallengeTimeout

\* Plausible bug: a judged challenge stays usable.
ChallengeReusable == session.challenge_active

ChallengeConsumed == FALSE

\* Plausible bug: one wrong proof more than configured is tolerated.
LocksTooLate(failures) == failures > MaxFailures

LocksAt(failures) == failures >= MaxFailures

ProofWrong ==
  /\ Judging
  /\ LET failures == FailuresNow + 1
     IN  /\ failure_count' = failures
         /\ lock' = IF LocksAt(failures) THEN LockoutTime ELSE LockNow
         /\ Answer("AUTH_PROVE", IF LocksAt(failures) THEN "AUTHENTICATION_LOCKED"
                                                      ELSE "AUTHENTICATION_FAILED")
  /\ session' = [challenge_active |-> ChallengeConsumed, authenticated |-> FALSE,
                 disconnect_requested |-> TRUE]
  /\ wrong' = wrong + 1
  /\ UNCHANGED prover

FailuresForgiven == 0

ProofRight ==
  /\ Judging
  /\ failure_count' = FailuresForgiven
  /\ lock' = NotLocked
  /\ session' = [session EXCEPT !.challenge_active = ChallengeConsumed,
                                !.authenticated = TRUE]
  /\ Answer("AUTH_PROVE", "SUCCESS")
  /\ wrong' = 0
  /\ prover' = peer

AuthProve ==
  /\ \/ ProofNotJudged /\ UNCHANGED historyVars
     \/ (ProofWrong \/ ProofRight) /\ judged' = judged + 1
  /\ UNCHANGED <<age, bond_to_clear>>

-----------------------------------------------------------------------------
(* protocol_process_request, in its order of tests.                        *)

\* A bad header, or a payload where none is allowed, changes nothing.
Malformed ==
  /\ \E status \in {"INVALID_VALUE", "UNSUPPORTED_VERSION"} :
       Answer("MALFORMED", status)
  /\ UNCHANGED <<session, age, failure_count, lock, bond_to_clear, historyVars>>

\* Plausible bug: having a challenge is taken for having answered it.
ChallengedIsEnough == session.authenticated \/ session.challenge_active

application_auth_is_authenticated == session.authenticated

\* Everything else needs authentication; what a granted request does to the
\* thermometer is in module Thermometer.  The bond is not marked when the
\* connection cannot be looked up.
AfterAuthentication ==
  /\ \E request \in {"PROTECTED", "RESET_BOND", "UNKNOWN"} :
       IF ~application_auth_is_authenticated
       THEN /\ Answer(request, "AUTHENTICATION_REQUIRED")
            /\ UNCHANGED bond_to_clear
       ELSE \/ /\ request = "PROTECTED"
               /\ \E status \in {"SUCCESS", "INVALID_VALUE", "INVALID_SENSOR",
                                 "NOT_AVAILABLE"} : Answer(request, status)
               /\ UNCHANGED bond_to_clear
            \/ /\ request = "RESET_BOND"
               /\ \/ /\ Answer(request, "SUCCESS")
                     /\ bond_to_clear' \in {peer, bond_to_clear}
                  \/ /\ Answer(request, "INVALID_VALUE")
                     /\ UNCHANGED bond_to_clear
            \/ /\ request = "UNKNOWN"
               /\ Answer(request, "INVALID_COMMAND")
               /\ UNCHANGED bond_to_clear
  /\ UNCHANGED <<session, age, failure_count, lock, historyVars>>

\* The characteristics need an encrypted, authenticated link.  A write may
\* still arrive after ble_gap_terminate and before the disconnect event.
CanAccess == link \in {"up", "closing"} /\ secured

WriteRequest ==
  /\ CanAccess
  /\ Malformed \/ AuthBegin \/ AuthProve \/ AfterAuthentication
  /\ UNCHANGED <<linkVars, bonds>>

\* A read hands out s_response as it is; a refused proof then ends the link.
\* The result of ble_gap_terminate is ignored: the link may stay up.
ReadResponse ==
  /\ CanAccess
  /\ session.disconnect_requested
  /\ session' = [session EXCEPT !.disconnect_requested = FALSE]
  /\ link' \in {link, "closing"}
  /\ UNCHANGED <<peer, secured, age, failure_count, lock, response, bonds,
                 bond_to_clear, historyVars>>

-----------------------------------------------------------------------------
\* Time passes.  The age saturates just past the timeout.
Tick ==
  /\ age' = IF age <= ChallengeTimeout THEN age + 1 ELSE age
  /\ lock' = IF lock > 0 THEN lock - 1 ELSE lock
  /\ wrong' = IF lock = 1 THEN 0 ELSE wrong
  /\ UNCHANGED <<linkVars, session, failure_count, response, bonds,
                 bond_to_clear, judged, prover>>

Next ==
  \/ Advertise \/ PowerCycle
  \/ \E c \in Centrals : ConnectionAttempt(c)
  \/ GapConnect \/ GapConnectFailed \/ GapDisconnect
  \/ Encrypt \/ Pair \/ RepeatPairingFails
  \/ WriteRequest \/ ReadResponse
  \/ Tick

Spec == Init /\ [][Next]_vars

\* The stack completes what it has begun: a connection attempt ends in one of
\* its two events, a terminated link in a disconnect event, and the host
\* synchronises.
Fairness ==
  /\ WF_vars(Advertise)
  /\ WF_vars(GapConnect \/ GapConnectFailed)
  /\ WF_vars(GapDisconnect /\ link = "closing")

FairSpec == Spec /\ Fairness

-----------------------------------------------------------------------------
(* Properties.                                                             *)

\* Every variable stays in its type; the failure counter cannot run away.
TypeOK ==
  /\ link \in {"advertising", "connecting", "up", "closing", "silent"}
  /\ peer \in Centrals \cup {NoPeer}
  /\ secured \in BOOLEAN
  /\ session \in Sessions
  /\ age \in 0 .. (ChallengeTimeout + 1)
  /\ failure_count \in 0 .. MaxFailures
  /\ lock \in NotLocked .. LockoutTime
  /\ response \in [request : Requests, status : Statuses]
  /\ bonds \subseteq Centrals
  /\ bond_to_clear \in Centrals \cup {NoPeer}
  /\ wrong \in Nat /\ judged \in Nat
  /\ prover \in Centrals \cup {NoPeer}

\* README "BLE security": "Three failed proofs cause the configured temporary
\* lockout".  However proofs are spread over reconnections, new challenges and
\* centrals, no more than MaxFailures wrong ones are judged between two
\* moments of a success or the end of a lockout.
FailureBudget == wrong <= MaxFailures

\* README "BLE security": a challenge is "single-use": no challenge is
\* ever compared with two proofs.
ChallengeSingleUse == judged <= 1

\* README "BLE security": "authentication is cleared whenever the link
\* disconnects".  An authenticated session belongs to the central on the
\* secured link, and to no other that connects later.
AuthenticationEndsWithLink ==
  session.authenticated =>
    link \in {"up", "closing"} /\ secured /\ prover = peer

\* No session is authenticated while the device is locked out, nor while
\* failures are being counted against it: a lockout never strands an open
\* session and an open session never hides a running count.
AuthenticatedImpliesUnlocked ==
  session.authenticated => lock = NotLocked /\ failure_count = 0 /\ wrong = 0

\* protocol.c: a protected request is carried out, and a bond marked for
\* removal, only for a central whose proof was accepted on this very link;
\* the mark is gone when the link is.
OnlyProverActs ==
  /\ bond_to_clear # NoPeer => link \in {"up", "closing"} /\ bond_to_clear = peer
                                /\ prover = peer

\* No step hands out a successful protected answer to a central whose proof
\* was not the last accepted one.
ProtectedNeedsProof ==
  [][(response' # response /\ response'.request \in {"PROTECTED", "RESET_BOND"}
        /\ response'.status # "AUTHENTICATION_REQUIRED") =>
       session.authenticated /\ prover = peer]_vars

\* A device that ends a link, loses a connection attempt or starts becomes
\* reachable again: ble_server.c restarts advertising on every path.
ReturnsToAdvertising ==
  /\ (link \in {"closing", "silent"}) ~> (link = "advertising")
  /\ (link = "connecting") ~> (link \in {"up", "advertising"})
=============================================================================
