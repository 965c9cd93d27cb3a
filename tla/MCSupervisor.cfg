SPECIFICATION SupervisorSpec
CONSTANTS
  c1 = c1
  c2 = c2
  j0 = j0
  j1 = j1
  b1 = b1
  Clients = {c1, c2}
  Nobody = Nobody
  Journals = {j0, j1}
  InitialJournal = j0
  NoBody = NoBody
  Bodies = {b1}
  NoResult = NoResult
  Results = {NoResult}
  MaxQueued = 1
  MaxGenerations = 2
  MaxRevision = 1
  MaxFaults = 2
INVARIANTS
  TypeOK
  ExclusiveAdmission
  NoAbandonedLease
PROPERTIES
  JournalLineage
  AdmissionEnds
CHECK_DEADLOCK FALSE
