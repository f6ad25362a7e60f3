SPECIFICATION Spec
CONSTANTS
  n = 5
  Secp256k1 = Secp256k1
  Sha256 = Sha256
  AnyHash = AnyHash
  Chain = {c1}
  Curves = {Secp256k1, p256}
  Asked <- EveryKindOfTweak
PROPERTIES
  CrossesOnlyWhileServing
