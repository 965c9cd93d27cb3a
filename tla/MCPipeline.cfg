SPECIFICATION FairSpec
CONSTANTS
  c1 = c1
  w1 = w1
  w2 = w2
  Conns = {c1}
  Workers = {w1, w2}
  NoWorker = NoWorker
  NoTask = NoTask
  Tasks <- MCTasks
  PoolSize = 2
  MaxPendingTasks = 3
  MaxFaults = 1
  MaxPackets <- MCPackets
  MaxChunk = 3
  InboundLimit = 2
  PauseAt = 2
  ResumeBelow = 1
  OutboundLimit = 3
INVARIANTS
  PipelineTypeOK
  TasksAccountedFor
  NoTaskWaitsForAFreeWorker
PROPERTIES
  ImplementsOrderedChannels
  EveryPacketLeaves
CHECK_DEADLOCK FALSE
