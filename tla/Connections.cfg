SPECIFICATION MCSpec
CONSTANTS
  Calls <- MCCalls
  Health <- MCHealth
  Handled <- MCHandled
  Timed <- MCTimed
  None = None
  Streams = {"s1", "s2", "s3"}
  Waits = {"v", "w"}
  IsGateway = TRUE
  NoStream = NoStream
  Relays = {"r1", "r2", "r3"}
  Gateways = {"g", "h"}
  HasOrigin = {"g"}
  GatewayOf <- MCGatewayOf
  Processors = {"p", "q"}
  MaxGeneral = 1
  NoOrigin = NoOrigin
  General = General
  MaxJobs = 2
  MaxCloses = 1
  Nil = Nil
  MaxTimers = 2
  MaxConnects = 2
  Parts = {"protocol", "peers", "registration", "paths"}
INVARIANTS ConnectionsTypeOK TablesAreExact RelaysKept
PROPERTIES ImplementsOnce WaitGetsLive NothingHangs
CHECK_DEADLOCK FALSE
