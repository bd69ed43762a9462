SPECIFICATION Spec
CONSTANTS
  A = A
  B = B
  pA = pA
  pB = pB
  c1 = c1
  c2 = c2
  NoDevice = NoDevice
  NoPasskey = NoPasskey
  NoCall = NoCall
  Devices = {A, B}
  Passkeys = {pA, pB}
  PasskeyOf <- MCPasskeyOf
  Calls <- MCCalls
  CallKinds <- MCConnect
  Supplied <- MCAnyPassed
  Registered <- MCOnlyA
  PersistedBoot = TRUE
  MaxFaults = 0
  MaxClients = 4
CHECK_DEADLOCK FALSE
INVARIANTS
  SavedCredentialsVerified
