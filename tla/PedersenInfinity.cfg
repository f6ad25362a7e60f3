SPECIFICATION Spec
CONSTANTS
  Parts = {"searched"}
  Infinities = {6}
  Derivations = 2
INVARIANTS
  CommitmentBinds
CHECK_DEADLOCK FALSE
