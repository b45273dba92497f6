CONSTANTS
  Wallets = {w1, w2}
  Phantoms = {w1}
  Passkeys = {k1, k2}
  Increments = {i1, i2}
  None = None
SPECIFICATION Spec
INVARIANT
  SignedByItsAccount
