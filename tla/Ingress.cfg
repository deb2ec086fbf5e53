SPECIFICATION IngressSpec
CONSTANTS
  t = t
  dlq = dlq
  s = s
  k = k
  m1 = m1
  plain = plain
  noise = noise
  json = json
  text = text
  c = c
  e = e
  c1 = c1
  c2 = c2
  Callers = {c1, c2}
  NoKey = NoKey
  NoId = NoId
  NoSchema = NoSchema
  NoDeadLetter = NoDeadLetter
  NoOrigin = NoOrigin
  NoRetry = NoRetry
  MinAckDeadline = 1
  MaxAckDeadline = 2
  MinTries = 1
  MaxTries = 2
  MaxPull = 2
  DefaultMinBackoff = 1
  DefaultMaxBackoff = 2
  MaxU32 = 8
  Topics = {e, t}
  Subs = {}
  Snaps = {}
  Schemas = {c}
  Keys = {}
  ClientIds = {m1}
  Attrs = {plain}
  Data = {json, text}
  Specs = {}
  Batches <- IngressBatches
  PullSizes = {}
  Extensions = {}
  MaxLen = 3
  MaxPublished = 2
  MaxResets = 0
  MaxIds = 0
  AttemptCap = 3
  SavesMayFail = TRUE
  ActionsTopic = t
  Gateway = c1
  Requests <- ActionRequests
INVARIANTS OkMeansAccepted AcceptedOnce PublishedOnce PublishValidated AcceptedIsQueued
PROPERTIES PublishAnswered MutexReleased
