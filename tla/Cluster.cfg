CONSTANTS
  m1 = m1
  m2 = m2
  m3 = m3
  slave1 = slave1
  slave2 = slave2
  None = None
  Node = {m1, m2, m3, slave1, slave2}
  Slot = {1, 2, 3}
  NodeId <- MCId
  Scenario <- FailoverScenarios
  FairPing <- MCFairPing
  Nil = Nil
  node1 = node1
  node2 = node2
  node3 = node3
  key1 = key1
  key2 = key2
  user1 = user1
  user2 = user2
  SNode = {node1, node2, node3}
  Key = {key1, key2}
  Client = {user1, user2}
  MScenarios <- SlotScenarios
  Parts = {"failover", "slots"}
SPECIFICATION ClusterSpec
CHECK_DEADLOCK FALSE
INVARIANTS OneVotePerEpoch OneWinnerPerEpoch TablesSound MovesSound
PROPERTIES FailoverSteps ClusterHeals
