SPECIFICATION EgressSpec
CONSTANTS
  t = t
  dlq = dlq
  s = s
  k = k
  m1 = m1
  plain = plain
  noise = noise
  json = json
  text = text
  c = c
  NoKey = NoKey
  NoId = NoId
  NoSchema = NoSchema
  NoDeadLetter = NoDeadLetter
  NoOrigin = NoOrigin
  NoRetry = NoRetry
  MinAckDeadline = 1
  MaxAckDeadline = 2
  MinTries = 1
  MaxTries = 1
  MaxPull = 2
  DefaultMinBackoff = 1
  DefaultMaxBackoff = 2
  MaxU32 = 8
  Topics = {t, gone}
  Subs = {s, s2}
  Snaps = {}
  Schemas = {}
  Keys = {k}
  ClientIds = {}
  Attrs = {plain}
  Data = {json}
  Specs <- EgressSpecs
  Batches <- EgressBatches
  PullSizes = {}
  Extensions = {2}
  MaxLen = 2
  MaxPublished = 2
  MaxResets = 0
  MaxIds = 1
  AttemptCap = 2
  s2 = s2
  gone = gone
  good = good
  bad = bad
  Endpoints = {good, bad}
  NoEndpoint = NoEndpoint
  push1 = push1
  stream1 = stream1
  Dispatcher = push1
  Stream = stream1
  Tasks = {push1, stream1}
  Nobody = Nobody
  PushBatch = 2
  DefaultBatch = 2
  MaxOutstanding = {0}
  ChannelSize = 1
  MaxWhims = 1
  MaxFrames = 1
  FrameSeconds = {0, 2, 3}
INVARIANTS PushedOnce AckedWasAccepted LeaseReachable
PROPERTIES OthersNotStarved StreamDelivers StreamEnds
