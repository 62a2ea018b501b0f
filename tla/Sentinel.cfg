CONSTANTS
  sen1 = sen1
  sen2 = sen2
  sen3 = sen3
  Sentinel = {sen1, sen2, sen3}
  Active = {sen1, sen2}
  Inst = {"m"}
  Master0 = "m"
  RunId <- MCRank
  Priority <- MCAlike
  Offset <- MCAlike
  Quorum = 2
  ParallelSyncs = 1
  MaxEpoch = 1
  MaxCmds = 1
  MaxRestarts = 1
  Crashing = {sen3}
  Connected <- Star
  Ops = {}
  Job = {1, 2, 3, 4}
  MaxQueue = 3
  MaxRunning = 2
  MaxRetry = 2
  MaxPending = 3
  PendingBound = 5
  Parts = {"election", "failover", "scripts", "link"}
SPECIFICATION SentinelSpec
CHECK_DEADLOCK FALSE
INVARIANTS OneVotePerEpoch OneLeaderPerEpoch SentinelSound SavedBeforeTold
PROPERTIES SentinelProgress
