SPECIFICATION Spec
CONSTANTS
  n = 7
  OddY <- MCOddY
  Msg <- MCMsg
  Challenge <- MCChallenge
  KeyCoeffHash <- MCKeyCoeffHash
  NonceCoeffHash <- MCNonceCoeffHash
  Bad = Bad
  NoAdaptor = NoAdaptor
  m1 = m1
  m2 = m2
  s1 = s1
  s2 = s2
  PrvKeys = {2, 3}
  Slot = {s1, s2}
  Plans <- AlgebraPlans
  NoncePairs <- AlgebraNonces
  ForeignPubNonce <- AlgebraForeignPubNonces
  ForeignNonce = {}
  MaxSessions = 1
  MaxDetSigs = 0
SYMMETRY MCSymmetry
INVARIANTS
  PartialSigsVerify
  WrapperAgrees
  IdentifiableAbort
  AdaptorCompletes
CHECK_DEADLOCK FALSE
