SPECIFICATION IndustrySpec
CONSTANTS
  NumLanes = 2
  NpcLane = 2
  NpcRuns = 2
  Units = 2
  InCap = 1
  OutCap = 2
  MaxTime = 2
  MaxFaults = 1
  MaxEnds = 1
INVARIANTS
  IndustryTypeOK
  RunsConserved
  NpcStartsOnce
PROPERTIES
  DueRunsSettle
CHECK_DEADLOCK FALSE
