SPECIFICATION Spec
CONSTANTS
  n = 7
  OddY <- MCOddY
  Msg <- MCMsg
  Challenge <- MCChallenge
  KeyCoeffHash <- MCKeyCoeffHash
  NonceCoeffHash <- MCNonceCoeffHash
  Bad = Bad
  NoAdaptor = NoAdaptor
  m1 = m1
  m2 = m2
  s1 = s1
  s2 = s2
  PrvKeys = {2, 3}
  Slot = {s1, s2}
  Plans <- ProtocolPlans
  NoncePairs <- ProtocolNonces
  ForeignPubNonce <- ProtocolForeignPubNonces
  ForeignNonce <- ProtocolForeignNonces
  MaxSessions = 2
  MaxDetSigs = 1
INVARIANTS
  TypeOK
  BuffersMatch
  NonceSignsOnce
  HonestNeverBlamed
PROPERTIES
  OneTimeNonces
CHECK_DEADLOCK FALSE
