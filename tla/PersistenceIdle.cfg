CONSTANTS
  Nil = Nil
  Scenarios <- ReplicationScenarios
  None = None
  Retries = 3
  RetryDelay = 1
  PScenarios <- IdleScenarios
  NoClient = NoClient
  peer1 = peer1
  peer2 = peer2
  Peer = {peer1, peer2}
  BufSize = 2
  IoLen = 5
  BigArg = 5
  InlineMax = 16
  CScenarios <- ClientScenarios
  Parts = {"persistence"}
  Subscriber = {peer1, peer2}
  Channel = {"news", "chat"}
  Pattern = {"*", "news"}
  Names <- UsedNames
  MatchedBy <- Matching
  MaxArgs = 2
  BioType = {"lazyfree", "fsync"}
  LazyFree = "lazyfree"
  Effort = {64, 65}
  Threshold = 64
  Clustered = TRUE
  MaxValues = 2
  MaxJobs = 3
  Delay = {0, 1}
  Sec = 2
  MaxNow = 9
  AeScenarios <- LoopScenarios
SPECIFICATION ServerSpec
CHECK_DEADLOCK FALSE
INVARIANTS EverySecond
