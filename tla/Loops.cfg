SPECIFICATION Spec
CONSTANTS
  Parts = {"numbers", "multi", "ellswift", "nonces", "searched"}
  Infinities = {5}
  Derivations = 1
PROPERTIES
  CallsReturn
CHECK_DEADLOCK FALSE
