SPECIFICATION MCSpec
CONSTANTS
  None = None
  A = A
  B = B
  pA = pA
  pB = pB
  c1 = c1
  c2 = c2
  Owned = {"d1", "d2"}
  MaxKeys = 3
  MaxDisturbances = 2
  Devices <- MCDevices
  Passkeys <- MCPasskeys
  PasskeyOf <- MCPasskeyOf
  Calls <- MCCalls
  CallKinds <- MCCallKinds
  Supplied <- MCSupplied
  Registered <- MCRegistered
  PersistedBoot = TRUE
  MaxFaults = 1
  MaxClients = 4
  NoDevice = None
  NoPasskey = None
  NoCall = None
SYMMETRY Symmetry
CHECK_DEADLOCK FALSE
INVARIANTS
  ControllerConsistent
  OperationsTracked
  SidesAgree
PROPERTIES
  CredentialsKept
