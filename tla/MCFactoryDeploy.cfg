CONSTANTS
  Accounts = {a1, a2}
  First = a1
  FirstRoute = "factory"
  Second = a2
  SecondRoute = "webauthn"
  OtherRoute = "webauthn"
  Route <- MCRoute
  Instances = {i1}
  Handlers = {h1, h2}
  MaxOthers = 2
  MaxFaults = 1
SPECIFICATION FairSpec
INVARIANTS
  TypeOK
  CreateMeetsNoContract
  FactoryTellsTruth
PROPERTIES
  RefusedWasOvertaken
  EveryPostEnds
