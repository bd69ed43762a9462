SPECIFICATION MCSpec
CONSTANTS
  c1 = c1
  c2 = c2
  NoPeer = NoPeer
  Centrals <- MCCentrals
  MaxFailures = 3
  ChallengeTimeout = 1
  LockoutTime = 2
  AdvertisingMayFail = TRUE
INVARIANTS
  TypeOK
  FailureBudget
  ChallengeSingleUse
  AuthenticationEndsWithLink
PROPERTIES
  HeldIsNoticed
  ProtectedNeedsProof
  ReachableAgain
