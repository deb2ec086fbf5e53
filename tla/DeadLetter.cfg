SPECIFICATION SettlingSpec
CONSTANTS
  t = t
  dlq = dlq
  s = s
  k = k
  m1 = m1
  plain = plain
  noise = noise
  json = json
  text = text
  c = c
  NoKey = NoKey
  NoId = NoId
  NoSchema = NoSchema
  NoDeadLetter = NoDeadLetter
  NoOrigin = NoOrigin
  NoRetry = NoRetry
  MinAckDeadline = 1
  MaxAckDeadline = 2
  MinTries = 1
  MaxTries = 2
  MaxPull = 2
  DefaultMinBackoff = 1
  DefaultMaxBackoff = 1
  MaxU32 = 8
  Topics = {t, dlq}
  Subs = {s}
  Snaps = {}
  Schemas = {}
  Keys = {k}
  ClientIds = {}
  Attrs = {plain}
  Data = {json}
  Specs <- SettlingSpecs
  Batches <- KeyedPairs
  PullSizes = {2}
  Extensions = {}
  MaxLen = 3
  MaxPublished = 3
  MaxResets = 1
  MaxIds = 1
  AttemptCap = 3
INVARIANTS DeadLetteredOnce DeadLetteredSettled DeadLetterBudget
PROPERTIES Settled LockReleased
