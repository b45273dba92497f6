CONSTANTS
  Browsers = {b1, b2}
  Users = {u1, u2}
  Credentials = {k1}
  Counting = {k1}
  Challenges = {c1, c2}
  Handlers = {h1, h2}
  TTL = 1
  MaxTime = 1
  None = None
SPECIFICATION Spec
SYMMETRY Symmetry
INVARIANTS
  TypeOK
  OneSuccessPerChallenge
  AcknowledgedIsStored
  DeployedIsTrue
PROPERTIES
  SpentByItsUser
  LoginsKeepOwners
  ImplementsBook
CHECK_DEADLOCK FALSE
