CONSTANTS
  Browsers = {b1, b2}
  Home = b1
  Users = {u1, u2}
  Owner = u1
  Credentials = {k1}
  Passkey = k1
  Counting = {k1}
  Challenges = {c0, c1, c2}
  Spent = c0
  Handlers = {h1}
  TTL = 1
  MaxTime = 1
  None = None
SPECIFICATION FairSerialSpec
INVARIANTS
  OwnersAgree
PROPERTIES
  LoginListsAccount
  LoginsRaiseCounter
  EveryRequestEnds
CHECK_DEADLOCK FALSE
