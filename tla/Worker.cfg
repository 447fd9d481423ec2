SPECIFICATION MCSpec
CONSTANTS
  f1 = f1
  f2 = f2
  a1 = a1
  h1 = h1
  h2 = h2
  r1 = r1
  r2 = r2
  i1 = i1
  i2 = i2
  p1 = p1
  p2 = p2
  q1 = q1
  none = none
  Instances = {i1, i2}
  Relays = {r1, r2}
  Peers = {p1, p2, q1}
  Home <- McHome
  Hints <- McHints
  DefaultRelays <- McDefaults
  MaxRelays = 2
  MaxParticipants = 2
  MaxSeen = 2
  Storing = {r2}
  MaxSent = 5
  Flows = {f1, f2}
  RelayKeys = {r1, r2}
  Reauths = {a1}
  Hosts = {h1, h2}
  Kinds = {"open", "invite", "plain"}
  Deadline = TRUE
  MaxAttempts = 1
  Order <- GatewayOrder
  JoinTasks = {"j"}
  FetchTasks = {"e", "f"}
  Refs = {"a", "b"}
  NewRef = "b"
  MaxTokens = 2
  MaxChanges = 1
  Void = none
  Absent = none
  Values = {r1, r2, p1, p2, q1}
  Names <- StoreNames
  Given <- StoreGiven
  Ttl = 1
  ProbeTtl = 1
  MaxLeases = 1
  MaxPeers = 2
  MaxCalls = 3
  MaxNow = 3
  MaxFailures = 1
INVARIANTS WorkerTypeOK LocalsSubscribed HandledOnce Rendezvous JoinsTracked AccessAgrees StoresKeep
PROPERTIES NoStaleSuccess
CHECK_DEADLOCK FALSE
