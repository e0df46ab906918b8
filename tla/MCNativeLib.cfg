SPECIFICATION Spec
CONSTANTS
  Order = 13
  XOf <- MCXOf
  Radix = 4
  Width = 2
  SignKeys = {0, 1, 4, 7, 12, 13, 15}
  Digests = {0, 3, 5, 12, 14}
  AES_BLOCK_SIZE = 3
  Inputs <- MCInputs
  CipherKeys = {k1, k2}
  KeyPairs = {p1, p2}
  Plaintexts = {m1, m2}
  None = None
INVARIANTS NativeTypeOK SignatureVerifies DecodesEncoded DecryptsOwn
