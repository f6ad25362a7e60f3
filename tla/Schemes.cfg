SPECIFICATION Spec
CONSTANTS
  Parts = {"frost life", "frost sums", "frost deterministic", "musig deterministic",
           "key material", "exfil dsa", "exfil ssa", "rings",
           "batch 17", "batch 31", "dleq", "range", "header"}
  Bad = Bad
  Unknown = Unknown
  NoOther = NoOther
  none = none
  NoAdaptor = NoAdaptor
  m1 = m1
  m2 = m2
  s1 = s1
  s2 = s2
SYMMETRY SlotSymmetry
INVARIANTS
  HonestSignaturesVerify
  IdentifiableAbort
  ValidatedMaterialSigns
  OnlyPromisedNonce
  BatchSaysWhatSinglesSay
  NothingFalseIsProven
  NoncesAnswerOnce
PROPERTIES
  OneTimeNonces
CHECK_DEADLOCK FALSE
