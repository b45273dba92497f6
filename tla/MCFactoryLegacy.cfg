CONSTANTS
  Accounts = {a1, a2}
  First = a1
  FirstRoute = "legacy"
  Second = a2
  SecondRoute = "factory"
  OtherRoute = "factory"
  Route <- MCRoute
  Instances = {i1}
  Handlers = {h1, h2}
  MaxOthers = 0
  MaxFaults = 1
SPECIFICATION Spec
INVARIANT
  LegacyTellsTruth
