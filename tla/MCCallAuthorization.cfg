CONSTANTS
  Phantom = Phantom
  Passkey = Passkey
  Freighter = Freighter
  Signers = {Phantom, Passkey, Freighter}
  Kind <- KindOf
  Nonces = {n1, n2}
  GNonces = {g1, g2}
  Handlers = {h1}
  None = None
  Life = 0
  MaxLedger = 1
  MaxRules = 1
  MaxChanges = 1
SPECIFICATION Spec
SYMMETRY Symmetry
INVARIANTS
  TypeOK
  OneCallPerSignature
PROPERTY HonestCallAuthorised
CHECK_DEADLOCK FALSE
