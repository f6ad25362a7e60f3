SPECIFICATION Spec
CONSTANTS
  n = 3
  Secp256k1 = Secp256k1
  Sha256 = Sha256
  AnyHash = AnyHash
  Signer = {x1}
  Keys = {0, 1, 2, 3}
  Curves = {Secp256k1, p256}
  Hashes = {Sha256, sha512}
INVARIANTS
  PythonArmNeverCrosses
