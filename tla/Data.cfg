CONSTANTS
  Nil = Nil
  Err = Err
  MaxLL = 3
  Long <- MCLong
  SetMaxIntset = 2
  HashMaxZiplist = 2
  ZsetMaxZiplist = 2
  Lex <- MCLex
  Inf = 50
  c1 = c1
  c2 = c2
  c3 = c3
  nameP = nameP
  nameQ = nameQ
  strA = strA
  strB = strB
  Client <- MCClient
  Scenario <- MCScenario
  k1 = k1
  k2 = k2
  k3 = k3
  k4 = k4
  k5 = k5
  DictKey <- MCDictKey
  HashOf <- MCHash
  InitialSize = 2
  EmptyVisits = 2
  ForceRatio = 1
  MinFill = 60
  MaxChurn = 2
  DictStart <- MCStart
  NoKey = NoKey
  SkipEle = 4
  SkipScore = {1, 2}
  SkipMaxLevel = 2
  QlValue <- MCQlValue
  QlFill = 2
  QlDepth = 1
  QlMaxLen = 4
  QlMaxReads = 1
  ZlValue <- MCZlValue
  ZlOther <- MCZlOther
  ZlLenCap = 3
  ZlMaxLen = 4
  IsMax16 = 1
  IsMax32 = 4
  IsValue <- MCIsValue
  IsMaxLen = 4
  AdAddr = {1, 2, 3}
  NoAddr = 0
  RaxKey <- MCRaxKey
  RaxProbe <- MCRaxProbe
  Focus = {"keyspace", "bits", "dict", "skiplist", "quicklist", "ziplist", "intset", "adlist", "rax"}
  NoStr = NoStr
  BKey = {"k1", "k2"}
  WordBytes = 2
  LLBytes = 1
  PopWords = 2
  BOffsets <- BitOffsets
  BRanges <- BitRanges
  BFills <- BitFills
  BValues <- BitValues
  BSteps = 2
SPECIFICATION DataSpec
CHECK_DEADLOCK FALSE
INVARIANTS KeyspaceSound StructuresExact QueriesExact TraversalsComplete
PROPERTIES CommandSteps
