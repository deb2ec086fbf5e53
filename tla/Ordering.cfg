SPECIFICATION SeekingSpec
CONSTANTS
  t = t
  dlq = dlq
  s = s
  k = k
  m1 = m1
  plain = plain
  noise = noise
  json = json
  text = text
  c = c
  NoKey = NoKey
  NoId = NoId
  NoSchema = NoSchema
  NoDeadLetter = NoDeadLetter
  NoOrigin = NoOrigin
  NoRetry = NoRetry
  MinAckDeadline = 1
  MaxAckDeadline = 2
  MinTries = 1
  MaxTries = 2
  MaxPull = 2
  DefaultMinBackoff = 1
  DefaultMaxBackoff = 2
  MaxU32 = 8
  Topics = {t}
  Subs = {s}
  Snaps = {}
  Schemas = {}
  Keys = {k}
  ClientIds = {}
  Attrs = {plain, noise}
  Data = {json}
  Specs <- OrderingSpecs
  Batches <- FilteredBatches
  PullSizes = {1, 2}
  Extensions = {2}
  MaxLen = 3
  MaxPublished = 3
  MaxResets = 2
  MaxIds = 2
  AttemptCap = 3
INVARIANTS TypeOK KeyOrder MessagesAccounted MessagesInOnePlace OutstandingTaken
PROPERTIES ImplementsAtLeastOnce AckIdsNotReused
