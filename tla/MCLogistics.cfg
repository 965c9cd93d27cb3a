SPECIFICATION LogisticsSpec
CONSTANTS
  r1 = r1
  r2 = r2
  Ids = {r1, r2}
  NoId = NoId
  Switched = {"supplier"}
  MaxFaults = 1
  MaxEnds = 1
INVARIANTS
  LogisticsTypeOK
  FulfilledMoved
PROPERTIES
  MovedUnderClaim
  OutcomeStands
  KeptUntilFulfilled
  MovesReported
CHECK_DEADLOCK FALSE
