SPECIFICATION GatewaySpec
CONSTANTS
  NoRetry = NoRetry
  MinAckDeadline = 10
  MaxAckDeadline = 600
  MinTries = 5
  MaxTries = 100
  MaxPull = 1000
  DefaultMinBackoff = 10
  DefaultMaxBackoff = 600
  MaxU32 = 1048575
  MaxI32 = 524287
  Samples = {0, 1, 10, 600, 3000, 1048575}
  MaxAttempt = 14
  Absent = Absent
  Null = Null
  NoDead = NoDead
  Texts = {"", " ", "t", "other", "dead", "http", "x", "malformed", "attributes:a", "attributes:b"}
  ModelTopic = "t"
  Requests <- ModelRequests
  Atoms = {"has", "equal", "different", "prefix"}
  MaxTokens = 6
  Capacity = 3
  MaxPage = 2
  Limits = {0, 1, 5}
  MaxLogged = 6
  MaxBoots = 2
  Names = {1, 2, 3, 4, 5}
  Project = {1, 2, 4, 5}
  PageSizes = {0, 1, 2, 9}
  DefaultPage = 3
  MaxPageSize = 3
  MaxChanges = 2
  Calls = {1, 2}
  Ttl = 2
  Travel = 1
  MaxTime = 4
  MaxRotations = 2
  Projects = {"a", "b"}
  Allowed = {"a"}
INVARIANT RestWriteBackKept
CHECK_DEADLOCK FALSE
