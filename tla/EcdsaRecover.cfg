SPECIFICATION Spec
CONSTANTS
  p = 31
  a = 0
  b = 10
  xG = 11
  yG = 15
  n = 13
  h = 3
  XOf <- X31_13h3
  OddY <- Odd31_13h3
  Commit = {1, 2}
  MaxCounter = 4
  LowRBound = 8
  Nonce <- MCNonce
  Tweak <- MCTweak
  Requests <- RecoverRequests
  Faults = FALSE
INVARIANTS
  SignatureVerifies
  KeyIdNamesSigner
  RecoveryListsVerifiers
  GroundToFirstLow
PROPERTIES
  CallsReturn
CHECK_DEADLOCK FALSE
