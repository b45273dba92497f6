CONSTANTS
  Clients = {p1, p2}
  First = p1
  FirstPath = "phantom"
  SecondPath = "webauthn"
  Path <- MCPath
  Nonces = {n1, n2}
  Handlers = {h1, h2}
  Fees = {f1}
  Made = {2}
  Life = 0
  CounterMax = 2
  MaxLedger = 1
  MaxSequence = 1
  MaxFaults = 1
SPECIFICATION Spec
SYMMETRY Symmetry
VIEW Seen
INVARIANTS
  TypeOK
  NothingSentTwice
PROPERTIES
  ImplementsCallBook
CHECK_DEADLOCK FALSE
