CONSTANTS
  Accounts = {a1, a2}
  First = a1
  FirstRoute = "freighter"
  Second = a2
  SecondRoute = "webauthn"
  OtherRoute = "webauthn"
  Route <- MCRoute
  Instances = {i1}
  Handlers = {h1, h2}
  MaxOthers = 0
  MaxFaults = 0
SPECIFICATION Spec
INVARIANT
  ToldIsDeployed
