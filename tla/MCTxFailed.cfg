CONSTANTS
  Clients = {p1, p2}
  First = p1
  FirstPath = "phantom"
  SecondPath = "webauthn"
  Path <- MCPath
  Nonces = {n1, n2}
  Handlers = {h1, h2}
  Fees = {f1}
  Made = {}
  Life = 1
  CounterMax = 2
  MaxLedger = 2
  MaxSequence = 0
  MaxFaults = 0
SPECIFICATION Spec
INVARIANT
  FailedIsNotExecuted
CHECK_DEADLOCK FALSE
