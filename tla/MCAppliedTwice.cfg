SPECIFICATION TransactionsSpec
CONSTANTS
  sync = sync
  player = player
  Clients = {sync, player}
  Nobody = Nobody
  Syncer = sync
  Total = 1
  MaxIntents = 2
  MaxTxs = 4
  Journals = {0, 1, 2, 3, 4}
  InitialJournal = 0
  Bodies <- RpcBodies
  NoBody = NoBody
  Results <- RpcResults
  NoResult = NoResult
  MaxQueued = 1
  MaxGenerations = 2
  MaxRevision = 8
  MaxFaults = 0
INVARIANTS
  NeverAppliedTwice
CHECK_DEADLOCK FALSE
