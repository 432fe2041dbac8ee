SPECIFICATION ReactorSpec
CONSTANTS
  Params = {":x", ":y"}
  Apps <- SomeApps
  Verbs = {"GET", "TRACE"}
  AnyVerbs = {"GET"}
  Predicates <- OnlyA
  Mounts <- SomeMounts
  Tree <- SomeTree
  Requests <- SomeRequests
  Sizes = {0, 2, 5}
  FileRequests <- SomeFileRequests
  Page = 2
  WindowCapacity = 2
  Buffer = 3
  IntLimit = 16
  MaxChanges = 2
  Sockets = {s1, s2}
  Serial = {}
  Ways = {"r", "w"}
  MaxEvents = 2
  MaxStates = 3
  MaxQueued = 3
  Codes <- SomeCodes
  Names <- SomeNames
  Values <- SomeValues
  Limit = 70
  SizeUpdates = {0, 35, 68, 70}
  BlockLength = 2
  Responses <- SomeResponses
  Messages <- SomeMessages
  Chunks = {1, 3, 8}
  ReadSizes = {1, 4}
  Scripts <- SomeScripts
  Keyless <- NoKey
  WsChunks = {1, 5}
  Sends <- SomeSends
  MaxSends = 1
  InlineMax = 1
  ByteBase = 2
  UserSets <- SomeUsers
  MaxRecords = 3
  MaxCalls = 4
  Space = 2
  FlushChunk = 3
  Upstreams <- SomeUpstreams
  ProxyRequests <- SomeProxyRequests
  Replies <- SomeReplies
  MaxProxied = 4
  ProxyReads = {1, 3}
INVARIANTS
  ReadinessReachesTheLoop
CHECK_DEADLOCK FALSE
