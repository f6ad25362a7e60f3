SPECIFICATION Spec
CONSTANTS
  Parts = {"numbers", "jacobian 17", "jacobian 7", "free", "on curve", "endomorphism",
           "multi", "ellswift", "nonces", "kdf", "seeded", "searched",
           "sec", "sec of two", "dh", "der", "ecies", "curve"}
  Infinities = {5}
  Derivations = 2
INVARIANTS
  MultiplicationsAgree
  NumbersAreRight
  DerivationsNeverRepeat
  MapsToTheCurve
  CommitmentBinds
  OnlyTheSubgroup
  OneSpelling
  CipherOnlyAfterItsMac
  BuiltCurvesAreSound
  JacobianIsAffine
CHECK_DEADLOCK FALSE
