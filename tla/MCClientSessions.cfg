CONSTANTS
  Latch = Latch
  Stranger = Stranger
  ExtensionIds = {Latch, Stranger}
  Public = Public
  Names = {Public}
  NoPort = NoPort
  Ports = {NoPort}
  None = None
  Malformed = Malformed
  NotText = NotText
  Web = Web
  Popup = Popup
  Clients = {Web, Popup}
  Page <- PageOf
  Envelopes <- MCEnvelopes
  Deployments <- MCDeployments
  Users = {u1, u2}
  Challenges = {c1, c2}
  Handlers = {h1, h2}
  SessionTTL = 4
  ChallengeTTL = 1
  Latency = 1
  StartTime = 3
  MaxTime = 4
  MaxRequests = 3
SPECIFICATION MCSpec
SYMMETRY Symmetry
INVARIANTS
  TypeOK
  DuplicatesRaced
PROPERTIES
  HonestCeremonyAccepted
  ActiveIsKept
CHECK_DEADLOCK FALSE
