SPECIFICATION MCSpec
CONSTANTS
  Users <- MCUsers
  Jobs <- MCJobs
  Kind <- MCKind
  User <- MCUser
  Ts <- MCTs
  InitExists = {TRUE, FALSE}
  MaxRestarts = 1
  None = None
  Calls = {"c1", "c2", "c3"}
  Old = "old"
  Absent = None
  Ref = {"a", "b"}
  Sync = {"sync"}
  Batches <- MCBatches
  Refusable = {"b"}
  Scenes = {"untoken"}
INVARIANT TokensKept
CHECK_DEADLOCK FALSE
