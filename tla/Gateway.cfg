SPECIFICATION MCSpec
CONSTANTS
  Claims = {1, 2, 3}
  Target = 2
  Usable = {TRUE, FALSE}
  MaxWriters = 4
  MaxExpired = 1
  MaxRestarts = 1
  Subs = {"x"}
  Closable = {"x"}
  Publishes = TRUE
  AnEvent = "event"
  MaxFrames = 3
  MaxFlips = 2
  Callers = {"a", "b"}
  TimerTask = "t"
  Kinds = {"open", "direct"}
  MaxTokens = 2
  MaxAuth = 2
  MaxChanges = 1
  Hashes = {"h1", "h2"}
  NoHash = "none"
  MaxAnnounces = 3
  MaxServed = 2
INVARIANTS GatewayTypeOK PoolKept GatewayKept
PROPERTIES NeverExpired Comes
CHECK_DEADLOCK FALSE
