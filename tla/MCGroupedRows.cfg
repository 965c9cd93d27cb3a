SPECIFICATION Spec
CONSTANTS
  e1 = e1
  e2 = e2
  v1 = v1
  v2 = v2
  Entities = {e1, e2}
  Values = {v1, v2}
  Missing = Missing
  Container = Container
  LegacyBlobs = FALSE
  MaxSteps = 5
INVARIANTS
  FlushedGroupSurvivesRestart
PROPERTIES
  FlushConverges
CHECK_DEADLOCK FALSE
