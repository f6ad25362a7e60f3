SPECIFICATION Spec
CONSTANTS
  p = 17
  a = 6
  b = 8
  xG = 0
  yG = 12
  n = 13
  h = 1
  XOf <- X17_13
  OddY <- Odd17_13
  Commit = {1, 2}
  MaxCounter = 4
  LowRBound = 8
  Nonce <- MCNonce
  Tweak <- MCTweak
  Requests <- SignRequests
  Faults = TRUE
INVARIANTS
  NothingSpoiledIsReturned
  BlamesTheCause
  CommitmentOpens
CHECK_DEADLOCK FALSE
