CONSTANTS
  r1 = r1
  r2 = r2
  v1 = v1
  x1 = x1
  c1 = c1
  None = None
  Conn = {c1}
  ConnOf <- MCConnOf
  Req = {}
  Ev = {v1}
  Valid = {v1}
  MaxPending = 1
  Event <- MCLog
  At <- MCAt
  Rank <- MCRank
  KindOf <- MCKindOf
  Author <- MCAuthor
  TagsOf <- MCTagsOf
  Subscriptions <- MCSubscriptions
  Message <- MCMessage
  Own = {3}
  Time <- MCTime
  Overlap = 1
  Limit = 1
  MaxNow = 3
  MaxCrashes = 1
  MaxInviteRestarts = 1
  Handler = {"one", "two"}
  Chain = {"a", "b"}
  MaxAttempts = 2
  MaxRestarts = 1
  Parts = {"writes"}
SPECIFICATION MCSpec
INVARIANTS FlushedIsWritten
