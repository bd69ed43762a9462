------------------------ MODULE DeviceSessionProofs ------------------------
(***************************************************************************)
(* For any set of centrals, any failure limit and any two timeouts: the    *)
(* wrong proofs are bounded, a challenge is judged once, and what an       *)
(* authenticated session may do ends with its link.                        *)
(***************************************************************************)
EXTENDS DeviceSession, TLAPS

\* What ties the failure counter to the wrong proofs it stands for.  While no
\* lockout is set the two are equal and below the limit; when a lockout has
\* run out the counter is stale until is_locked next clears it.
CountTracksWrong ==
  /\ lock = NotLocked => failure_count = wrong /\ wrong < MaxFailures
  /\ lock > 0 => wrong <= MaxFailures
  /\ lock = 0 => wrong = 0

\* An active challenge has not been compared with anything yet.
ActiveUnjudged == session.challenge_active => judged = 0

\* Only an established link is secured.
SecuredIsUp == secured => link \in {"up", "closing"}

\* A link, even one being set up, has a central at its other end.
LinkHasPeer == link \in {"connecting", "up", "closing"} => peer \in Centrals

IInv ==
  /\ TypeOK
  /\ CountTracksWrong
  /\ ActiveUnjudged /\ ChallengeSingleUse
  /\ SecuredIsUp /\ LinkHasPeer /\ AuthenticationEndsWithLink
  /\ AuthenticatedImpliesUnlocked
  /\ OnlyProverActs

USE CentralsAssumption, TimesAssumption DEF NotLocked, linkVars, historyVars

\* A cleared session has no challenge and no authentication.
LEMMA ZeroSessionType ==
  /\ ZeroSession \in Sessions
  /\ ~ZeroSession.challenge_active
  /\ ~ZeroSession.authenticated
  BY DEF ZeroSession, Sessions

\* What the updates of one or two fields leave of a session.
LEMMA SessionUpdates ==
  ASSUME NEW s \in Sessions, NEW b \in BOOLEAN, NEW a \in BOOLEAN
  PROVE  /\ [s EXCEPT !.disconnect_requested = b] \in Sessions
         /\ [s EXCEPT !.disconnect_requested = b].challenge_active = s.challenge_active
         /\ [s EXCEPT !.disconnect_requested = b].authenticated = s.authenticated
         /\ [s EXCEPT !.challenge_active = b] \in Sessions
         /\ [s EXCEPT !.challenge_active = b].challenge_active = b
         /\ [s EXCEPT !.challenge_active = b].authenticated = s.authenticated
         /\ [s EXCEPT !.challenge_active = b, !.authenticated = a] \in Sessions
         /\ [s EXCEPT !.challenge_active = b, !.authenticated = a].challenge_active = b
         /\ [s EXCEPT !.challenge_active = b, !.authenticated = a].authenticated = a
  BY DEF Sessions

\* The invariant holds when the server has been started.
LEMMA InitInv == Init => IInv
<1> SUFFICES ASSUME Init PROVE IInv
  OBVIOUS
<1>1. TypeOK
  <2>1. response \in [request : Requests, status : Statuses]
    BY DEF Init, Requests, Statuses
  <2>2. session \in Sessions
    BY ZeroSessionType DEF Init
  <2>3. age \in 0 .. (ChallengeTimeout + 1) /\ failure_count \in 0 .. MaxFailures
    BY DEF Init
  <2>4. lock \in NotLocked .. LockoutTime
    BY DEF Init
  <2>5. bonds \subseteq Centrals /\ bond_to_clear \in Centrals \cup {NoPeer}
        /\ prover \in Centrals \cup {NoPeer} /\ peer \in Centrals \cup {NoPeer}
    BY DEF Init
  <2> QED
    BY <2>1, <2>2, <2>3, <2>4, <2>5 DEF Init, TypeOK
<1>2. ~session.challenge_active /\ ~session.authenticated
  BY ZeroSessionType DEF Init
<1> QED
  BY <1>1, <1>2 DEF Init, IInv, CountTracksWrong, ActiveUnjudged,
         ChallengeSingleUse, SecuredIsUp, LinkHasPeer, AuthenticationEndsWithLink,
         AuthenticatedImpliesUnlocked, OnlyProverActs

\* The events of the link preserve the invariant: what a session has earned
\* is cleared whenever the link is.
LEMMA LinkInv ==
  ASSUME IInv,
         \/ Advertise \/ PowerCycle \/ (\E c \in Centrals : ConnectionAttempt(c))
         \/ GapConnect \/ GapConnectFailed \/ GapDisconnect
         \/ Encrypt \/ Pair \/ RepeatPairingFails
  PROVE  IInv'
<1> USE DEF IInv, TypeOK, CountTracksWrong, ActiveUnjudged,
         ChallengeSingleUse, SecuredIsUp, LinkHasPeer, AuthenticationEndsWithLink,
         AuthenticatedImpliesUnlocked, OnlyProverActs
<1>1. CASE Advertise
  BY <1>1 DEF Advertise, start_advertising
<1>2. CASE PowerCycle
  <2>1. response' \in [request : Requests, status : Statuses]
    BY <1>2 DEF PowerCycle, Requests, Statuses
  <2>2. session' \in Sessions /\ ~session'.challenge_active /\ ~session'.authenticated
    BY <1>2, ZeroSessionType DEF PowerCycle
  <2>3. /\ age' \in 0 .. (ChallengeTimeout + 1) /\ failure_count' \in 0 .. MaxFailures
        /\ wrong' \in Nat /\ judged' \in Nat /\ judged' <= 1
    BY <1>2 DEF PowerCycle
  <2>4. lock' \in NotLocked .. LockoutTime /\ CountTracksWrong'
    BY <1>2 DEF PowerCycle
  <2>5. /\ bonds' \subseteq Centrals /\ bond_to_clear' \in Centrals \cup {NoPeer}
        /\ prover' \in Centrals \cup {NoPeer} /\ peer' \in Centrals \cup {NoPeer}
    BY <1>2 DEF PowerCycle
  <2> QED
    BY <1>2, <2>1, <2>2, <2>3, <2>4, <2>5 DEF PowerCycle
<1>3. CASE \E c \in Centrals : ConnectionAttempt(c)
  BY <1>3 DEF ConnectionAttempt
<1>4. CASE GapConnect
  BY <1>4, ZeroSessionType DEF GapConnect, SessionCleared
<1>5. CASE GapConnectFailed
  BY <1>5 DEF GapConnectFailed, start_advertising
<1>6. CASE GapDisconnect
  <2>1. bonds' \subseteq Centrals
    BY <1>6 DEF GapDisconnect
  <2> QED
    BY <1>6, <2>1, ZeroSessionType DEF GapDisconnect, SessionCleared, BondRequestDropped, start_advertising
<1>7. CASE Encrypt
  BY <1>7 DEF Encrypt
<1>8. CASE Pair
  BY <1>8 DEF Pair
<1>9. CASE RepeatPairingFails
  BY <1>9 DEF RepeatPairingFails
<1> QED
  BY <1>1, <1>2, <1>3, <1>4, <1>5, <1>6, <1>7, <1>8, <1>9

\* A written request preserves the invariant.
LEMMA WriteInv ==
  ASSUME IInv, WriteRequest
  PROVE  IInv'
<1> USE DEF IInv, TypeOK, CountTracksWrong, ActiveUnjudged,
         ChallengeSingleUse, SecuredIsUp, LinkHasPeer, AuthenticationEndsWithLink,
         AuthenticatedImpliesUnlocked, OnlyProverActs, WriteRequest, CanAccess
<1>1. CASE Malformed
  BY <1>1 DEF Malformed, Answer, Requests, Statuses
<1>2. CASE AuthBegin
  <2>1. response' \in [request : Requests, status : Statuses]
    BY <1>2 DEF AuthBegin, Answer, Requests, Statuses
  <2>2. session' \in Sessions /\ (session'.authenticated => session.authenticated)
    <3>1. /\ [session EXCEPT !.challenge_active = TRUE, !.authenticated = FALSE] \in Sessions
          /\ ~[session EXCEPT !.challenge_active = TRUE, !.authenticated = FALSE].authenticated
      BY SessionUpdates
    <3> QED
      BY <1>2, <3>1 DEF AuthBegin
  <2>3. session'.challenge_active => judged' = 0
    BY <1>2 DEF AuthBegin
  <2>4. lock' \in -1 .. LockoutTime /\ failure_count' \in 0 .. MaxFailures /\ CountTracksWrong'
    BY <1>2 DEF AuthBegin, is_locked, Expired, LockNow, FailuresNow
  <2>5. session'.authenticated => lock' = -1 /\ failure_count' = 0
    BY <1>2, <2>2 DEF AuthBegin, LockNow, FailuresNow, Expired
  <2> QED
    BY <1>2, <2>1, <2>2, <2>3, <2>4, <2>5 DEF AuthBegin
<1>3. CASE AuthProve
  <2>1. CASE ProofNotJudged /\ UNCHANGED historyVars
    <3>1. response' \in [request : Requests, status : Statuses]
      BY <2>1 DEF ProofNotJudged, Answer, Requests, Statuses
    <3>2. /\ session' \in Sessions
          /\ session'.authenticated => session.authenticated
          /\ session'.challenge_active => session.challenge_active
      <4>1. /\ [session EXCEPT !.disconnect_requested = TRUE] \in Sessions
            /\ [session EXCEPT !.disconnect_requested = TRUE].challenge_active = session.challenge_active
            /\ [session EXCEPT !.disconnect_requested = TRUE].authenticated = session.authenticated
        BY SessionUpdates
      <4>2. /\ [session EXCEPT !.challenge_active = FALSE] \in Sessions
            /\ ~[session EXCEPT !.challenge_active = FALSE].challenge_active
            /\ [session EXCEPT !.challenge_active = FALSE].authenticated = session.authenticated
        BY SessionUpdates
      <4> QED
        BY <2>1, <4>1, <4>2 DEF ProofNotJudged
    <3>3. lock' \in -1 .. LockoutTime /\ failure_count' \in 0 .. MaxFailures /\ CountTracksWrong'
      BY <2>1 DEF ProofNotJudged, is_locked, Expired, LockNow, FailuresNow
    <3>4. session'.authenticated => lock' = -1 /\ failure_count' = 0
      BY <2>1, <3>2 DEF ProofNotJudged, is_locked, LockNow, FailuresNow, Expired
    <3> QED
      BY <1>3, <2>1, <3>1, <3>2, <3>3, <3>4 DEF AuthProve
  <2>2. CASE ProofWrong /\ judged' = judged + 1
    BY <1>3, <2>2 DEF AuthProve, ProofWrong, Judging, Answer, Requests, Statuses,
              Sessions, is_locked, Expired, LockNow, FailuresNow, LocksAt,
              ChallengeConsumed
  <2>3. CASE ProofRight /\ judged' = judged + 1
    <3>1. response' \in [request : Requests, status : Statuses]
      BY <2>3 DEF ProofRight, Answer, Requests, Statuses
    <3>2. session' \in Sessions /\ ~session'.challenge_active
      BY <2>3, SessionUpdates DEF ProofRight, ChallengeConsumed
    <3> QED
      BY <1>3, <2>3, <3>1, <3>2 DEF AuthProve, ProofRight, Judging, FailuresForgiven
  <2> QED
    BY <1>3, <2>1, <2>2, <2>3 DEF AuthProve
<1>4. CASE AfterAuthentication
  BY <1>4 DEF AfterAuthentication, application_auth_is_authenticated, Answer,
              Requests, Statuses
<1> QED
  BY <1>1, <1>2, <1>3, <1>4

\* Every step of the device preserves the invariant.
LEMMA NextInv ==
  ASSUME IInv, [Next]_vars
  PROVE  IInv'
<1>1. CASE ReadResponse
  BY <1>1 DEF ReadResponse, CanAccess, IInv, TypeOK, CountTracksWrong,
         ActiveUnjudged, ChallengeSingleUse, SecuredIsUp, LinkHasPeer,
         AuthenticationEndsWithLink, AuthenticatedImpliesUnlocked,
         OnlyProverActs, Sessions
<1>2. CASE Tick
  BY <1>2 DEF Tick, IInv, TypeOK, CountTracksWrong,
         ActiveUnjudged, ChallengeSingleUse, SecuredIsUp, LinkHasPeer,
         AuthenticationEndsWithLink, AuthenticatedImpliesUnlocked,
         OnlyProverActs
<1>3. CASE UNCHANGED vars
  BY <1>3 DEF vars, IInv, TypeOK, CountTracksWrong,
         ActiveUnjudged, ChallengeSingleUse, SecuredIsUp, LinkHasPeer,
         AuthenticationEndsWithLink, AuthenticatedImpliesUnlocked,
         OnlyProverActs
<1> QED
  BY <1>1, <1>2, <1>3, LinkInv, WriteInv DEF Next

\* The invariant holds of every reachable state.
LEMMA Invariance == Spec => []IInv
  BY InitInv, NextInv, PTL DEF Spec

\* ble_server.c, application_auth.c: counters, timers and sessions keep their
\* shape, so that none of them wraps or outlives its limit.
THEOREM TypeCorrect == Spec => []TypeOK
<1>1. IInv => TypeOK
  BY DEF IInv
<1> QED
  BY <1>1, Invariance, PTL

\* application_auth.c: however wrong proofs are spread over links, challenges
\* and centrals, no more than MaxFailures of them are judged before a success,
\* the end of a lockout or a power cycle.
THEOREM WrongProofsBounded == Spec => []FailureBudget
<1>1. IInv => FailureBudget
  BY DEF IInv, TypeOK, CountTracksWrong, FailureBudget
<1> QED
  BY <1>1, Invariance, PTL

\* application_auth_prove: a challenge is compared with one proof at most.
THEOREM ChallengeJudgedOnce == Spec => []ChallengeSingleUse
<1>1. IInv => ChallengeSingleUse
  BY DEF IInv
<1> QED
  BY <1>1, Invariance, PTL

\* protocol_session_end: an authenticated session never survives its link, and
\* a bond reset is only ever pending for the central that proved itself on it.
THEOREM SessionEndsWithLink ==
  Spec => [](AuthenticationEndsWithLink /\ OnlyProverActs)
<1>1. IInv => AuthenticationEndsWithLink /\ OnlyProverActs
  BY DEF IInv
<1> QED
  BY <1>1, Invariance, PTL

\* application_auth.c: no authenticated session coexists with a lockout or
\* with counted failures.
THEOREM AuthenticatedMeansUnlocked == Spec => []AuthenticatedImpliesUnlocked
<1>1. IInv => AuthenticatedImpliesUnlocked
  BY DEF IInv
<1> QED
  BY <1>1, Invariance, PTL

\* protocol_process_request: a protected request is answered otherwise than
\* "authentication required" only for the central whose proof was accepted.
THEOREM ProtectedAnswersNeedProof == Spec => ProtectedNeedsProof
<1> DEFINE Step == (response' # response
                      /\ response'.request \in {"PROTECTED", "RESET_BOND"}
                      /\ response'.status # "AUTHENTICATION_REQUIRED")
                     => session.authenticated /\ prover = peer
<1>1. ASSUME IInv, [Next]_vars
      PROVE  [Step]_vars
  <2> SUFFICES ASSUME response' # response,
                      response'.request \in {"PROTECTED", "RESET_BOND"},
                      response'.status # "AUTHENTICATION_REQUIRED"
               PROVE  session.authenticated /\ prover = peer
    OBVIOUS
  <2>1. WriteRequest \/ PowerCycle
    BY <1>1 DEF Next, vars, Advertise, ConnectionAttempt, GapConnect,
       GapConnectFailed, GapDisconnect, Encrypt, Pair, RepeatPairingFails,
       ReadResponse, Tick
  <2>2. ~PowerCycle
    BY DEF PowerCycle
  <2>3. AfterAuthentication
    BY <2>1, <2>2 DEF WriteRequest, Malformed, AuthBegin, AuthProve,
       ProofNotJudged, ProofWrong, ProofRight, Answer
  <2>4. session.authenticated
    BY <2>3 DEF AfterAuthentication, application_auth_is_authenticated, Answer
  <2> QED
    BY <1>1, <2>4 DEF IInv, AuthenticationEndsWithLink
<1> QED
  BY <1>1, Invariance, PTL DEF Spec, ProtectedNeedsProof
=============================================================================
