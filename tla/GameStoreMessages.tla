--------------------------- MODULE GameStoreMessages ---------------------------
(***************************************************************************)
(* What travels between the main thread and the worker, and the order of   *)
(* the operations: a block in the worker belongs to the present operation, *)
(* a completion that the controller would accept names an applied one,     *)
(* operations complete in the order of their ids, and a dirty table never  *)
(* holds the id of a timer that has fired.                                 *)
(***************************************************************************)
EXTENDS GameStore_proofs

(* Operation ids are handed out in ascending order, and a table completes   *)
(* them in that order.                                                      *)
IdsInOrder ==
    \A t \in Tables :
      /\ lastCompleted[t] < nextOperationId
      /\ Journalled(t) => /\ lastCompleted[t] < outbox[t].operationId
                          /\ outbox[t].operationId < nextOperationId

(* The table that is being flushed may become dirty again when that fails. *)
TimersAreFresh ==
    /\ NoStaleTimer
    /\ turn.step \in {"flush", "settle"} => flushTimers[turn.table] # "fired"

(* Without a worker that runs there is nothing in its queue, nothing it     *)
(* blocks, and a worker that is gone is bound to no lease.                  *)
WorkerIsThere ==
    /\ worker # "running" => toWorker = <<>> /\ \A t \in Tables : blockedByTable[t] = 0
    /\ worker = "absent" => \A t \in Tables : Leased(t) => ~leases[t].bound

WriteAt(i) == toWorker[i].type = "write"

(* The worker takes the writes in the order of their ids: those it has      *)
(* reported, or blocks for, are older than those still to come.             *)
WritesInOrder ==
    /\ \A i \in DOMAIN toWorker :
         WriteAt(i) => 0 < toWorker[i].operationId /\ toWorker[i].operationId < nextOperationId
    /\ \A i \in DOMAIN toMain :
         0 < toMain[i].operationId /\ toMain[i].operationId < nextOperationId
    /\ \A i, j \in DOMAIN toWorker :
         i < j /\ WriteAt(i) /\ WriteAt(j) => toWorker[i].operationId < toWorker[j].operationId
    /\ \A i \in DOMAIN toMain, j \in DOMAIN toWorker :
         WriteAt(j) => toMain[i].operationId < toWorker[j].operationId
    /\ \A t \in Tables : blockedByTable[t] < nextOperationId
    /\ \A t \in Tables, j \in DOMAIN toWorker :
         WriteAt(j) => blockedByTable[t] < toWorker[j].operationId

(* No write is younger than its table's lease.                              *)
LeaseIsYoungest ==
    \A i \in DOMAIN toWorker :
      WriteAt(i) /\ Leased(toWorker[i].table)
        => toWorker[i].operationId <= leases[toWorker[i].table].operationId

(* A completion is never reported for an operation that failed.             *)
CompletionsWereApplied ==
    \A i \in DOMAIN toMain :
      toMain[i].type = "write-complete"
        => blockedByTable[toMain[i].table] # toMain[i].operationId

Held(t, id) == Leased(t) /\ leases[t].operationId = id /\ leases[t].bound

(* The notice that operation id was reconciled comes after position i, with *)
(* no write of its table in between.                                        *)
Notice(t, id) == [type |-> "reconciled", operationId |-> id, table |-> t]

NoWriteWithin(i, j, t) ==
    \A k \in DOMAIN toWorker : i < k /\ k < j => ~(WriteAt(k) /\ toWorker[k].table = t)

Noticed(t, id, i) ==
    \E j \in DOMAIN toWorker : i < j /\ toWorker[j] = Notice(t, id) /\ NoWriteWithin(i, j, t)

(* An operation that the worker may still fail, or has failed, is leased,   *)
(* or its notice is on the way.                                             *)
FailuresAreLifted ==
    /\ \A i \in DOMAIN toWorker :
         WriteAt(i) => \/ Held(toWorker[i].table, toWorker[i].operationId)
                       \/ Noticed(toWorker[i].table, toWorker[i].operationId, i)
    /\ \A t \in Tables :
         blockedByTable[t] # 0 => Held(t, blockedByTable[t]) \/ Noticed(t, blockedByTable[t], 0)

Messages ==
    /\ WorkerIsThere
    /\ WritesInOrder
    /\ LeaseIsYoungest
    /\ CompletionsWereApplied
    /\ FailuresAreLifted

--------------------------------------------------------------------------------
(* Timers. *)

(* A flush that has begun with no stale timer does not end with one. *)
LEMMA TimersStep ==
    ASSUME Inv, TimersAreFresh, Next
    PROVE  TimersAreFresh'
  <1> USE DEF Inv
  <1>t. /\ flushTimers \in [Tables -> {"none", "armed", "fired"}]
        /\ dirty \subseteq Tables
        /\ turn.step \in {"reconcile", "flush", "settle"} <=> turn.table \in Tables
        /\ turn \in Turn
    BY DEF TypeOK, TurnIsWellFormed
  <1>e. ASSUME NEW ok \in BOOLEAN, EndsTable(ok)
        PROVE  turn'.step \notin {"flush", "settle"}
    BY <1>e, EndedTable, FinishedTable DEF NoTurn
  <1>n. Idle => turn.step = "idle"
    BY DEF Idle, NoTurn
  <1>1. CASE CallerStep
    <2>1. turn'.step \notin {"flush", "settle"}
      BY <1>1, <1>n DEF CallerStep, WriteRow, WriteTransientRow, RemoveRow, SetTransientPath,
         WriteRoot, FlushTableSync, CommitAtomicRowWrites, BeginFlush, turnVars
    <2>2. \/ UNCHANGED flushVars
          \/ \E t \in Tables : ScheduleFlush(t)
      BY <1>1 DEF CallerStep, WriteRow, WriteTransientRow, RemoveRow, SetTransientPath,
         WriteRoot, FlushTableSync, CommitAtomicRowWrites
    <2> QED BY <1>t, <2>1, <2>2 DEF TimersAreFresh, NoStaleTimer, ScheduleFlush, flushVars
  <1>2. CASE TimerStep
    <2>1. ASSUME NEW t \in Tables, TimerFires(t)
          PROVE  TimersAreFresh'
      BY <1>t, <2>1 DEF TimerFires, BeginFlush, TimersAreFresh, NoStaleTimer
    <2>2. ASSUME NEW t \in Tables, TimerFiresClean(t)
          PROVE  TimersAreFresh'
      BY <1>t, <1>n, <2>2 DEF TimerFiresClean, turnVars, TimersAreFresh, NoStaleTimer
    <2> QED BY <1>2, <2>1, <2>2 DEF TimerStep
  <1>3. CASE FlushReconcile
    <2> DEFINE t == turn.table
    <2>1. t \in Tables /\ dirty' = dirty
      BY <1>3, <1>t DEF FlushReconcile
    <2>2. flushTimers' \in {[flushTimers EXCEPT ![t] = "none"], [flushTimers EXCEPT ![t] = "armed"]}
      BY <1>3 DEF FlushReconcile
    <2>3. t \in dirty => turn'.table = t
      BY <1>3, <1>t DEF FlushReconcile, Turn
    <2>4. t \notin dirty => turn'.step \notin {"flush", "settle"}
      BY <1>3, <1>e DEF EndsTable
    <2> QED BY <1>t, <2>1, <2>2, <2>3, <2>4 DEF TimersAreFresh, NoStaleTimer
  <1>4. CASE FlushRecover
    BY <1>4, <1>t DEF FlushRecover, Rearmed, turnVars, TimersAreFresh, NoStaleTimer
  <1>5. ASSUME NEW t \in Tables,
               FlushFindsFlight(t) \/ FlushFindsNothing(t) \/ FlushSubmits(t) \/ FlushSubmitFails(t)
                 \/ FlushJournalFails(t)
        PROVE  TimersAreFresh'
    <2>1. turn'.step \notin {"flush", "settle"}
      BY <1>5, <1>e DEF EndsTable
    <2>2. /\ turn.step = "flush" /\ turn.table = t
          /\ flushTimers' = flushTimers /\ dirty' \subseteq dirty \cup {t}
      BY <1>5 DEF FlushFindsFlight, FlushFindsNothing, FlushSubmits, FlushSubmitFails,
         FlushJournalFails, FlushThrows, JournalFlush, Flushing, DirtyAfterFlush
    <2> QED BY <2>1, <2>2 DEF TimersAreFresh, NoStaleTimer
  <1>6. ASSUME NEW t \in Tables, FlushJournals(t)
        PROVE  TimersAreFresh'
    BY <1>6, <1>t DEF FlushJournals, JournalFlush, Flushing, TimersAreFresh, NoStaleTimer, Turn
  <1>7. CASE FlushSettles \/ FlushRecoverFails \/ FlushSettleFails
    <2>1. turn'.step \notin {"flush", "settle"}
      BY <1>7, <1>e DEF EndsTable
    <2>2. /\ turn.step \in {"flush", "settle"}
          /\ flushTimers' = flushTimers /\ dirty' \subseteq dirty \cup {turn.table}
      BY <1>7 DEF FlushSettles, FlushRecoverFails, FlushSettleFails, FlushThrows, DirtyAfterFlush
    <2> QED BY <2>1, <2>2 DEF TimersAreFresh, NoStaleTimer
  <1>8. CASE FlushReconcileFails
    <2>1. turn'.step \notin {"flush", "settle"}
      BY <1>8, <1>e DEF EndsTable
    <2>2. /\ flushTimers' = [flushTimers EXCEPT ![turn.table] = "none"]
          /\ turn.table \in Tables /\ dirty' = dirty \cup {turn.table}
      BY <1>8, <1>t DEF FlushReconcileFails, FlushThrows
    <2> QED BY <1>t, <2>1, <2>2 DEF TimersAreFresh, NoStaleTimer
  <1>9. CASE CommitApplies \/ CommitFails
    BY <1>9 DEF CommitApplies, CommitFails, NoTurn, flushVars, TimersAreFresh, NoStaleTimer
  <1>10. CASE ReplyStep
    <2>1. UNCHANGED <<dirty, turn>>
      BY <1>10 DEF ReplyStep, WriteAcknowledged, WriteCompleteIgnored, WriteErrorReported,
         WorkerExits, flushVars, turnVars
    <2>2. \/ UNCHANGED flushTimers
          \/ \E t : flushTimers' = [flushTimers EXCEPT ![t] = Rearmed(t)]
      BY <1>10 DEF ReplyStep, WriteAcknowledged, WriteCompleteIgnored, WriteErrorReported,
         WorkerExits, flushVars
    <2> QED BY <1>t, <2>1, <2>2 DEF Rearmed, TimersAreFresh, NoStaleTimer
  <1>11. CASE WorkerThread \/ WorkerCrashes
    BY <1>11 DEF WorkerThread, WorkerCrashes, flushVars, turnVars, TimersAreFresh, NoStaleTimer
  <1>12. CASE ProcessStep
    <2>1. CASE ShutdownSignal \/ ProcessExit \/ ExitHandlerFlushes
      BY <2>1 DEF ShutdownSignal, ProcessExit, ExitHandlerFlushes, FlushAllSync, BeginFlush,
         flushVars, TimersAreFresh, NoStaleTimer
    <2>2. CASE ProcessEnds \/ ProcessCrashes
      BY <2>2 DEF ProcessEnds, ProcessCrashes, GoOffline, NoTurn, TimersAreFresh, NoStaleTimer
    <2>3. CASE ProcessStarts
      BY <2>3 DEF ProcessStarts, turnVars, TimersAreFresh, NoStaleTimer
    <2> QED BY <1>12, <2>1, <2>2, <2>3 DEF ProcessStep
  <1> QED BY <1>1, <1>2, <1>3, <1>4, <1>5, <1>6, <1>7, <1>8, <1>9, <1>10, <1>11, <1>12
          DEF Next, FlushStep, FlushFailure

--------------------------------------------------------------------------------
(* Operation ids. *)

(* What an operation completes was journalled, and what is journalled is    *)
(* newer than everything completed.                                         *)
LEMMA IdsStep ==
    ASSUME Inv, IdsInOrder, Next
    PROVE  /\ IdsInOrder'
           /\ \A t \in Tables :
                /\ running /\ running' => lastCompleted'[t] >= lastCompleted[t]
                /\ InFlight(t)' /\ inFlightFlushes'[t] # inFlightFlushes[t] =>
                     /\ inFlightFlushes'[t].operationId > lastCompleted'[t]
                     /\ inFlightFlushes'[t].operationId >= nextOperationId
  <1> USE DEF Inv
  <1>t. /\ lastCompleted \in [Tables -> Nat] /\ nextOperationId \in Nat \ {0}
        /\ outbox \in [Tables -> Operation \cup {NoOperation}]
        /\ inFlightFlushes \in [Tables -> Flight \cup {NoOperation}]
    BY DEF TypeOK, JournalTypeOK
  <1>i. \A t \in Tables : Journalled(t) => outbox[t].operationId \in Nat
    BY <1>t DEF Journalled, Operation
  <1>d. turn.step \in {"reconcile", "settle"} => turn.table \in Tables
    BY DEF TurnIsWellFormed
  <1>q. ASSUME lastCompleted' = lastCompleted, outbox' = outbox,
               nextOperationId' = nextOperationId, inFlightFlushes' = inFlightFlushes
        PROVE  /\ IdsInOrder'
               /\ \A t \in Tables : /\ lastCompleted'[t] >= lastCompleted[t]
                                    /\ inFlightFlushes'[t] = inFlightFlushes[t]
    BY <1>q, <1>t DEF IdsInOrder, Journalled
  (* The operation of t completes. *)
  <1>r. ASSUME NEW t \in Tables, nextOperationId' = nextOperationId,
               inFlightFlushes' = [inFlightFlushes EXCEPT ![t] = NoOperation],
               outbox' = [outbox EXCEPT ![t] = NoOperation],
               \/ lastCompleted' = lastCompleted
               \/ Journalled(t) /\ lastCompleted' = [lastCompleted EXCEPT ![t] = outbox[t].operationId]
        PROVE  /\ IdsInOrder'
               /\ \A u \in Tables :
                    /\ lastCompleted'[u] >= lastCompleted[u]
                    /\ ~InFlight(u)' \/ inFlightFlushes'[u] = inFlightFlushes[u]
    BY <1>r, <1>t, <1>i DEF IdsInOrder, Journalled, InFlight
  <1>1. CASE \/ CallerStep \/ TimerStep \/ FlushFailure
             \/ WriteCompleteIgnored \/ WriteErrorReported \/ WorkerExits \/ WorkerCrashes
             \/ ShutdownSignal \/ ProcessExit \/ ExitHandlerFlushes
             \/ \E t \in Tables : FlushFindsFlight(t) \/ FlushFindsNothing(t)
    <2>1. FlightsUnchanged
      BY <1>1, QuietSteps
    <2>2. lastCompleted' = lastCompleted
      BY <1>1 DEF CallerStep, WriteRow, WriteTransientRow, RemoveRow, SetTransientPath,
         WriteRoot, FlushTableSync, CommitAtomicRowWrites, ScheduleFlush, TimerStep, TimerFires,
         TimerFiresClean, FlushFailure, FlushReconcileFails, FlushRecoverFails,
         FlushJournalFails, FlushSettleFails, CommitFails, WriteCompleteIgnored,
         WriteErrorReported, WorkerExits, WorkerCrashes, ShutdownSignal, ProcessExit,
         ExitHandlerFlushes, FlushFindsFlight, FlushFindsNothing, flushVars
    <2> QED BY <1>q, <2>1, <2>2 DEF FlightsUnchanged
  <1>2. CASE WorkerThread
    <2>1. UNCHANGED <<lastCompleted, inFlightFlushes, nextOperationId>>
      BY <1>2 DEF WorkerThread, WorkerStep, WorkerAppliesWrite, WorkerRefusesWrite,
         WorkerReconciled, ApplyPersistenceOperation, TransactionFails, flushVars, journalVars
    <2>2. \/ outbox' = outbox
          \/ \E t \in Tables : Journalled(t) /\ outbox' = [outbox EXCEPT ![t].state = "applied"]
      BY <1>2, HeadTypes DEF WorkerThread, WorkerStep, WorkerAppliesWrite, WorkerRefusesWrite,
         WorkerReconciled, HasRequest, ApplyPersistenceOperation, TransactionFails, journalVars,
         TypeOK, WorkerRequest
    <2>3. \A t \in Tables : Journalled(t)' => /\ Journalled(t)
                                              /\ outbox'[t].operationId = outbox[t].operationId
      BY <2>2, <1>t DEF Journalled, Operation
    <2> QED BY <2>1, <2>3, <1>t DEF IdsInOrder
  <1>3. CASE FlushReconcile
    <2>1. CASE InFlight(turn.table)
      <3>1. ReconcilePersistenceOperation(turn.table) /\ AdvanceFlushBaseline(turn.table)
        BY <1>3, <2>1 DEF FlushReconcile
      <3>2. /\ lastCompleted' = [lastCompleted EXCEPT ![turn.table] = outbox[turn.table].operationId]
            /\ turn.table \in Tables
        BY <1>3, <1>d, <2>1 DEF FlushReconcile
      <3> QED BY <1>r, <3>1, <3>2 DEF ReconcilePersistenceOperation, AdvanceFlushBaseline
    <2>2. CASE ~InFlight(turn.table)
      BY <1>3, <1>q, <2>2 DEF FlushReconcile, storeVars, journalVars
    <2> QED BY <2>1, <2>2
  <1>4. CASE FlushRecover
    <2>1. /\ nextOperationId' = nextOperationId
          /\ outbox' = [t \in Tables |-> NoOperation]
          /\ lastCompleted' = [t \in Tables |-> IF Journalled(t) THEN outbox[t].operationId
                                                                 ELSE lastCompleted[t]]
          /\ inFlightFlushes' = [t \in Tables |-> IF Journalled(t) THEN NoOperation
                                                                   ELSE inFlightFlushes[t]]
      BY <1>4 DEF FlushRecover, RecoverPersistenceOperations
    <2> QED BY <1>t, <1>i, <2>1 DEF IdsInOrder, Journalled, InFlight
  <1>5. ASSUME NEW t \in Tables, JournalFlush(t)
        PROVE  /\ IdsInOrder'
               /\ \A u \in Tables :
                    /\ lastCompleted'[u] >= lastCompleted[u]
                    /\ inFlightFlushes'[u] # inFlightFlushes[u] =>
                         /\ inFlightFlushes'[u].operationId > lastCompleted'[u]
                         /\ inFlightFlushes'[u].operationId >= nextOperationId
    <2>1. /\ nextOperationId' = nextOperationId + 1
          /\ \E batch, state : outbox' = [outbox EXCEPT ![t] = [operationId |-> nextOperationId,
                                                   batch |-> batch, state |-> state]]
          /\ \E batch, submitted :
               inFlightFlushes' = [inFlightFlushes EXCEPT
                                     ![t] = [operationId |-> nextOperationId, batch |-> batch,
                                             submittedToWorker |-> submitted]]
          /\ lastCompleted' = lastCompleted
      BY <1>5 DEF JournalFlush, EnqueuePersistenceOperation
    <2>2. /\ outbox'[t].operationId = nextOperationId
          /\ inFlightFlushes'[t].operationId = nextOperationId
          /\ \A u \in Tables \ {t} : /\ outbox'[u] = outbox[u]
                                     /\ inFlightFlushes'[u] = inFlightFlushes[u]
      BY <1>t, <2>1
    <2>3. \A u \in Tables \ {t} : Journalled(u)' <=> Journalled(u)
      BY <2>2 DEF Journalled
    <2> QED BY <1>t, <1>i, <2>1, <2>2, <2>3 DEF IdsInOrder
  <1>6. CASE FlushSettles
    BY <1>6, <1>d, <1>r DEF FlushSettles, ReconcilePersistenceOperation, AdvanceFlushBaseline
  <1>7. CASE CommitApplies
    BY <1>7, <1>q DEF CommitApplies, ApplyAtomicChanges
  <1>8. CASE WriteAcknowledged
    <2> DEFINE t == Head(toMain).table
    <2>1. t \in Tables
      BY <1>8, HeadTypes DEF WriteAcknowledged, HasReply, TypeOK, WorkerReply
    <2>2. /\ AcknowledgePersistenceOperation(t) /\ AdvanceFlushBaseline(t)
          /\ lastCompleted' = [lastCompleted EXCEPT ![t] = outbox[t].operationId]
      BY <1>8 DEF WriteAcknowledged, ReplyIsDurable
    <2> QED BY <1>r, <2>1, <2>2 DEF AcknowledgePersistenceOperation, AdvanceFlushBaseline
  <1>9. CASE ProcessEnds \/ ProcessCrashes
    <2>1. /\ ~running'
          /\ outbox' = outbox /\ nextOperationId' = nextOperationId
          /\ lastCompleted' = [t \in Tables |-> 0]
          /\ inFlightFlushes' = [t \in Tables |-> NoOperation]
      BY <1>9 DEF ProcessEnds, ProcessCrashes, GoOffline, storeVars, journalVars
    <2> QED BY <1>t, <1>i, <2>1 DEF IdsInOrder, Journalled, InFlight
  <1>10. CASE ProcessStarts
    BY <1>10, <1>t DEF ProcessStarts, RecoverPersistenceOperations, IdsInOrder, Journalled, InFlight
  <1> QED BY <1>1, <1>2, <1>3, <1>4, <1>5, <1>6, <1>7, <1>8, <1>9, <1>10
          DEF Next, FlushStep, FlushSubmits, FlushSubmitFails, FlushJournals, ReplyStep, ProcessStep

--------------------------------------------------------------------------------
(* The two ports. *)

(* Every message of a port is one. *)
LEMMA MessageTypes ==
    /\ \A port \in Seq(WorkerRequest) : \A i \in DOMAIN port :
         port[i] \in WorkerRequest /\ port[i].operationId \in Nat /\ port[i].table \in Tables
    /\ \A port \in Seq(WorkerReply) : \A i \in DOMAIN port :
         port[i] \in WorkerReply /\ port[i].operationId \in Nat /\ port[i].table \in Tables
  <1>1. \A m \in WorkerRequest \cup WorkerReply : m.operationId \in Nat /\ m.table \in Tables
    BY DEF WorkerRequest, WorkerReply
  <1>2. \A port \in Seq(WorkerRequest) : \A i \in DOMAIN port : port[i] \in WorkerRequest
    OBVIOUS
  <1>3. \A port \in Seq(WorkerReply) : \A i \in DOMAIN port : port[i] \in WorkerReply
    OBVIOUS
  <1> QED BY <1>1, <1>2, <1>3

(* A message that is posted leaves the others where they are. *)
LEMMA AppendedMessage ==
    ASSUME toWorker \in Seq(WorkerRequest), NEW m \in WorkerRequest,
           toWorker' = Append(toWorker, m)
    PROVE  /\ Len(toWorker) \in Nat /\ DOMAIN toWorker = 1 .. Len(toWorker)
           /\ DOMAIN toWorker' = 1 .. Len(toWorker) + 1
           /\ \A i \in DOMAIN toWorker : toWorker'[i] = toWorker[i]
           /\ toWorker'[Len(toWorker) + 1] = m
           /\ \A t, id : \A i \in Nat : Noticed(t, id, i) => Noticed(t, id, i)'
  <1>1. /\ Len(toWorker) \in Nat /\ DOMAIN toWorker = 1 .. Len(toWorker)
        /\ DOMAIN toWorker' = 1 .. Len(toWorker) + 1
        /\ \A i \in DOMAIN toWorker : toWorker'[i] = toWorker[i]
        /\ toWorker'[Len(toWorker) + 1] = m
    OBVIOUS
  <1> QED BY <1>1 DEF Noticed, NoWriteWithin, WriteAt

(* When the worker takes one, the others move up. *)
LEMMA TakenMessage ==
    ASSUME toWorker \in Seq(WorkerRequest), toWorker # <<>>, toWorker' = Tail(toWorker)
    PROVE  /\ Len(toWorker) \in Nat \ {0} /\ DOMAIN toWorker = 1 .. Len(toWorker)
           /\ Head(toWorker) = toWorker[1] /\ Head(toWorker) \in WorkerRequest
           /\ DOMAIN toWorker' = 1 .. Len(toWorker) - 1
           /\ \A i \in DOMAIN toWorker' : i + 1 \in DOMAIN toWorker /\ toWorker'[i] = toWorker[i + 1]
           /\ \A t, id : \A i \in Nat : Noticed(t, id, i + 1) => Noticed(t, id, i)'
           /\ \A t, id : Noticed(t, id, 0) => Noticed(t, id, 0)' \/ Head(toWorker) = Notice(t, id)
  <1>1. /\ Len(toWorker) \in Nat \ {0} /\ DOMAIN toWorker = 1 .. Len(toWorker)
        /\ Head(toWorker) = toWorker[1] /\ Head(toWorker) \in WorkerRequest
        /\ DOMAIN toWorker' = 1 .. Len(toWorker) - 1
        /\ \A i \in DOMAIN toWorker' : i + 1 \in DOMAIN toWorker /\ toWorker'[i] = toWorker[i + 1]
    OBVIOUS
  <1>2. ASSUME NEW t, NEW id, NEW i \in Nat, NEW j \in DOMAIN toWorker,
               i < j - 1, toWorker[j] = Notice(t, id),
               \A k \in DOMAIN toWorker :
                  i + 1 < k /\ k < j => ~(WriteAt(k) /\ toWorker[k].table = t)
        PROVE  Noticed(t, id, i)'
    <2>1. j - 1 \in DOMAIN toWorker' /\ toWorker'[j - 1] = Notice(t, id)
      BY <1>1, <1>2
    <2>2. NoWriteWithin(i, j - 1, t)'
      BY <1>1, <1>2 DEF NoWriteWithin, WriteAt
    <2>3. i < j - 1
      BY <1>2
    <2> QED BY <2>1, <2>2, <2>3, SMT DEF Noticed, Notice
  <1>3. ASSUME NEW t, NEW id, NEW i \in Nat, Noticed(t, id, i + 1)
        PROVE  Noticed(t, id, i)'
    <2>1. PICK j \in DOMAIN toWorker :
             i + 1 < j /\ toWorker[j] = Notice(t, id) /\ NoWriteWithin(i + 1, j, t)
      BY <1>3 DEF Noticed
    <2>2. \A k \in DOMAIN toWorker :
             i + 1 < k /\ k < j => ~(WriteAt(k) /\ toWorker[k].table = t)
      BY <2>1 DEF NoWriteWithin
    <2>3. i < j - 1
      BY <1>1, <2>1
    <2> QED BY <1>2, <2>1, <2>2, <2>3
  <1>4. ASSUME NEW t, NEW id, Noticed(t, id, 0)
        PROVE  Noticed(t, id, 0)' \/ Head(toWorker) = Notice(t, id)
    <2>1. PICK j \in DOMAIN toWorker :
             0 < j /\ toWorker[j] = Notice(t, id) /\ NoWriteWithin(0, j, t)
      BY <1>4 DEF Noticed
    <2>2. \A k \in DOMAIN toWorker :
             0 + 1 < k /\ k < j => ~(WriteAt(k) /\ toWorker[k].table = t)
      BY <1>1, <2>1 DEF NoWriteWithin
    <2>3. j = 1 \/ 0 < j - 1
      BY <1>1, <2>1
    <2> QED BY <1>1, <1>2, <2>1, <2>2, <2>3
  <1> QED BY <1>1, <1>3, <1>4

(* What Next does to leases, ports, blocks and ids. *)
IdsUnchanged == nextOperationId' = nextOperationId

ReplyTaken == toMain # <<>> /\ toMain' = Tail(toMain)

LEMMA MessageKinds ==
    ASSUME Inv, Next
    PROVE  \/ UNCHANGED workerVars /\ nextOperationId' \in {nextOperationId, nextOperationId + 1}
           \/ /\ nextOperationId' = nextOperationId + 1
              /\ \E t \in Tables : \/ SubmitWrite(t, nextOperationId)
                                   \/ WorkerNotCreated(t, nextOperationId)
           \/ IdsUnchanged /\ \E t \in Tables : ReconcileLease(t)
           \/ IdsUnchanged /\ worker = "absent" /\ RecoverLeases
           \/ /\ IdsUnchanged /\ ReplyTaken
              /\ Head(toMain).type = "write-complete" /\ ReplyMatchesLease(Head(toMain))
              /\ FinishLease(Head(toMain).table)
           \/ IdsUnchanged /\ ReplyTaken /\ UNCHANGED <<leases, worker, toWorker, blockedByTable>>
           \/ IdsUnchanged /\ (WorkerExitObserved \/ WorkerStep \/ WorkerDies)
           \/ IdsUnchanged /\ WorkerInit'
  <1> USE DEF IdsUnchanged
  <1>1. CASE \/ CallerStep \/ TimerStep \/ FlushFailure
             \/ ShutdownSignal \/ ProcessExit \/ ExitHandlerFlushes
             \/ \E t \in Tables : FlushFindsFlight(t) \/ FlushFindsNothing(t)
    <2>1. IdsUnchanged
      BY <1>1, QuietSteps DEF FlightsUnchanged
    <2>2. UNCHANGED workerVars
      BY <1>1 DEF CallerStep, WriteRow, WriteTransientRow, RemoveRow, SetTransientPath,
         WriteRoot, FlushTableSync, CommitAtomicRowWrites, TimerStep, TimerFires,
         TimerFiresClean, FlushFailure, FlushReconcileFails, FlushRecoverFails,
         FlushJournalFails, FlushSettleFails, CommitFails, ShutdownSignal, ProcessExit,
         ExitHandlerFlushes, FlushFindsFlight, FlushFindsNothing
    <2> QED BY <2>1, <2>2
  <1>2. CASE FlushReconcile
    BY <1>2 DEF FlushReconcile, ReconcilePersistenceOperation, storeVars, journalVars, Inv,
       TurnIsWellFormed
  <1>3. CASE FlushRecover
    BY <1>3 DEF FlushRecover, RecoverPersistenceOperations, MustRecover
  <1>4. ASSUME NEW t \in Tables, FlushSubmits(t) \/ FlushSubmitFails(t) \/ FlushJournals(t)
        PROVE  /\ nextOperationId' = nextOperationId + 1
               /\ \/ UNCHANGED workerVars
                  \/ SubmitWrite(t, nextOperationId) \/ WorkerNotCreated(t, nextOperationId)
    BY <1>4 DEF FlushSubmits, FlushSubmitFails, FlushJournals, JournalFlush,
       EnqueuePersistenceOperation, SubmitRejected
  <1>5. CASE FlushSettles \/ CommitApplies
    BY <1>5 DEF FlushSettles, CommitApplies, ReconcilePersistenceOperation, ApplyAtomicChanges
  <1>6. CASE ReplyStep
    <2>1. CASE WriteAcknowledged
      BY <2>1 DEF WriteAcknowledged, HasReply, ReplyTaken, AcknowledgePersistenceOperation
    <2>2. CASE WriteCompleteIgnored \/ WriteErrorReported
      BY <2>2 DEF WriteCompleteIgnored, WriteErrorReported, HasReply, ReplyTaken, storeVars,
         journalVars, TransactionFails
    <2>3. CASE WorkerExits
      BY <2>3 DEF WorkerExits, storeVars, journalVars
    <2> QED BY <1>6, <2>1, <2>2, <2>3 DEF ReplyStep
  <1>7. CASE WorkerThread \/ WorkerCrashes
    BY <1>7 DEF WorkerThread, WorkerCrashes, WorkerStep, WorkerAppliesWrite, WorkerRefusesWrite,
       WorkerReconciled, WorkerDies, ApplyPersistenceOperation, TransactionFails, journalVars
  <1>8. CASE ProcessEnds \/ ProcessCrashes
    BY <1>8 DEF ProcessEnds, ProcessCrashes, GoOffline, WorkerInit, storeVars, journalVars
  <1>9. CASE ProcessStarts
    BY <1>9 DEF ProcessStarts, RecoverPersistenceOperations
  <1> QED BY <1>1, <1>2, <1>3, <1>4, <1>5, <1>6, <1>7, <1>8, <1>9
          DEF Next, FlushStep, ProcessStep

(* A lease is taken, and its write posted or not. *)
LEMMA MessagesOfSubmission ==
    ASSUME TypeOK, Messages, NEW t \in Tables, NEW id, id = nextOperationId,
           nextOperationId' = id + 1,
           SubmitWrite(t, id) \/ WorkerNotCreated(t, id)
    PROVE  Messages'
  <1> DEFINE m == [type |-> "write", operationId |-> id, table |-> t]
  <1>t. /\ id \in Nat \ {0}
        /\ toWorker \in Seq(WorkerRequest) /\ toMain \in Seq(WorkerReply)
        /\ leases \in [Tables -> Lease \cup {NoOperation}]
        /\ blockedByTable \in [Tables -> Nat]
        /\ worker \in {"absent", "running", "dead"}
    BY DEF TypeOK, JournalTypeOK, WorkerTypeOK
  <1>m. m \in WorkerRequest
    BY <1>t DEF WorkerRequest
  <1>l. PICK b \in BOOLEAN :
          /\ leases' = [leases EXCEPT ![t] = [operationId |-> id, bound |-> b]]
          /\ worker' = "absent" => ~b
          /\ SubmitWrite(t, id) => b
    BY <1>t DEF SubmitWrite, WorkerNotCreated
  <1>u. /\ ~Leased(t) /\ Leased(t)' /\ leases'[t] = [operationId |-> id, bound |-> b]
        /\ leases'[t].operationId = id
        /\ \A u \in Tables \ {t} : leases'[u] = leases[u] /\ (Leased(u)' <=> Leased(u))
    <2>1. [operationId |-> id, bound |-> b] \in Lease
      BY <1>t DEF Lease
    <2>2. leases'[t] # NoOperation
      BY <1>l, <1>t, <2>1, LeaseAssumption
    <2> QED BY <1>t, <1>l, <2>2 DEF Leased, SubmitWrite, WorkerNotCreated
  <1>h. \A u \in Tables : \A n : Held(u, n) => Held(u, n)'
    BY <1>u DEF Held
  <1>i. /\ UNCHANGED <<toMain, blockedByTable>>
        /\ worker' = worker \/ (worker = "absent" /\ worker' = "running")
    BY DEF SubmitWrite, WorkerNotCreated
  <1>o. \A i \in DOMAIN toWorker : toWorker[i] \in WorkerRequest /\ toWorker[i].operationId \in Nat
                                                               /\ toWorker[i].table \in Tables
    BY <1>t, MessageTypes
  <1>p. \A i \in DOMAIN toMain : toMain[i].operationId \in Nat
    BY <1>t, MessageTypes
  <1>j. WorkerIsThere'
    <2>1. worker' # "running" => toWorker' = toWorker /\ worker # "running"
      BY <1>t DEF SubmitWrite, WorkerNotCreated, Post
    <2>2. worker' = "absent" => worker = "absent" /\ ~leases'[t].bound
      BY <1>i, <1>l, <1>u
    <2> QED BY <1>i, <1>u, <2>1, <2>2 DEF Messages, WorkerIsThere
  <1>k. CompletionsWereApplied'
    BY <1>i DEF Messages, CompletionsWereApplied
  <1>y. \A i \in DOMAIN toWorker : \A u \in Tables :
          WriteAt(i) /\ toWorker[i].table = u /\ Leased(u)'
             => toWorker[i].operationId <= leases'[u].operationId
    <2>1. ASSUME NEW i \in DOMAIN toWorker, WriteAt(i), toWorker[i].table = t
          PROVE  toWorker[i].operationId <= leases'[t].operationId
      BY <2>1, <1>u, <1>o, <1>t DEF Messages, WritesInOrder
    <2>2. ASSUME NEW i \in DOMAIN toWorker, WriteAt(i), NEW u \in Tables \ {t},
                 toWorker[i].table = u, Leased(u)'
          PROVE  toWorker[i].operationId <= leases'[u].operationId
      <3>1. Leased(u) /\ leases'[u] = leases[u]
        BY <1>u, <2>2
      <3> QED BY <2>2, <3>1 DEF Messages, LeaseIsYoungest
    <2> QED BY <2>1, <2>2
  <1>1. CASE toWorker' = toWorker
    <2>1. WritesInOrder'
      BY <1>1, <1>i, <1>t, <1>o, <1>p DEF Messages, WritesInOrder, WriteAt
    <2>2. LeaseIsYoungest'
      BY <1>1, <1>o, <1>y DEF LeaseIsYoungest, WriteAt, Leased
    <2>3. FailuresAreLifted'
      BY <1>1, <1>h, <1>i, <1>o DEF Messages, FailuresAreLifted, Noticed, NoWriteWithin, WriteAt
    <2> QED BY <1>j, <1>k, <2>1, <2>2, <2>3 DEF Messages
  <1>2. CASE toWorker' = Append(toWorker, m) /\ SubmitWrite(t, id)
    <2>a. /\ Len(toWorker) \in Nat /\ DOMAIN toWorker = 1 .. Len(toWorker)
          /\ DOMAIN toWorker' = 1 .. Len(toWorker) + 1
          /\ \A i \in DOMAIN toWorker : toWorker'[i] = toWorker[i]
          /\ toWorker'[Len(toWorker) + 1] = m
          /\ \A u, n : \A i \in Nat : Noticed(u, n, i) => Noticed(u, n, i)'
      BY <1>2, <1>t, <1>m, AppendedMessage
    <2>b. Held(t, id)'
      BY <1>2, <1>l, <1>u DEF Held
    <2>c. \A i \in DOMAIN toWorker' : i \in DOMAIN toWorker \/ i = Len(toWorker) + 1
      BY <2>a
    <2>d. m.type = "write" /\ m.operationId = id /\ m.table = t
      OBVIOUS
    <2> HIDE DEF m
    <2>1. WritesInOrder'
      <3>1. \A i \in DOMAIN toWorker' :
              WriteAt(i)' => 0 < toWorker'[i].operationId /\ toWorker'[i].operationId < id + 1
        BY <1>o, <1>t, <2>a, <2>c, <2>d DEF Messages, WritesInOrder, WriteAt
      <3>2. \A i \in DOMAIN toMain' : /\ 0 < toMain'[i].operationId
                                      /\ toMain'[i].operationId < id
        BY <1>i DEF Messages, WritesInOrder
      <3>3. \A i, j \in DOMAIN toWorker' :
              i < j /\ WriteAt(i)' /\ WriteAt(j)'
                => toWorker'[i].operationId < toWorker'[j].operationId
        BY <1>o, <1>t, <2>a, <2>c, <2>d DEF Messages, WritesInOrder, WriteAt
      <3>4. \A i \in DOMAIN toMain', j \in DOMAIN toWorker' :
              WriteAt(j)' => toMain'[i].operationId < toWorker'[j].operationId
        BY <1>i, <1>o, <2>a, <2>c, <2>d, <3>2 DEF Messages, WritesInOrder, WriteAt
      <3>5. \A u \in Tables : blockedByTable[u] < id
        BY <1>t DEF Messages, WritesInOrder
      <3>6. \A u \in Tables, j \in DOMAIN toWorker' :
              WriteAt(j)' => blockedByTable'[u] < toWorker'[j].operationId
        BY <1>i, <1>o, <2>a, <2>c, <2>d, <3>5 DEF Messages, WritesInOrder, WriteAt
      <3>7. \A u \in Tables : blockedByTable'[u] < id + 1
        BY <1>i, <1>t, <3>5
      <3>8. \A i \in DOMAIN toMain' : toMain'[i].operationId < id + 1
        BY <1>i, <1>p, <1>t, <3>2
      <3> QED BY <3>1, <3>2, <3>3, <3>4, <3>6, <3>7, <3>8 DEF WritesInOrder
    <2>2. LeaseIsYoungest'
      <3>1. ASSUME NEW i \in DOMAIN toWorker', NEW u, WriteAt(i)',
                   toWorker'[i].table = u, Leased(u)'
            PROVE  toWorker'[i].operationId <= leases'[u].operationId
        <4>1. CASE i = Len(toWorker) + 1
          BY <3>1, <4>1, <1>u, <1>t, <2>a, <2>d
        <4>2. CASE i \in DOMAIN toWorker
          <5>1. WriteAt(i) /\ toWorker'[i] = toWorker[i] /\ u \in Tables
            BY <1>o, <2>a, <3>1, <4>2 DEF WriteAt
          <5> QED BY <1>y, <3>1, <4>2, <5>1
        <4> QED BY <2>c, <4>1, <4>2
      <3> QED BY <3>1 DEF LeaseIsYoungest, Leased, WriteAt
    <2>3. FailuresAreLifted'
      <3>1. ASSUME NEW i \in DOMAIN toWorker', NEW u, NEW n, toWorker'[i].type = "write",
                   toWorker'[i].table = u, toWorker'[i].operationId = n
            PROVE  Held(u, n)' \/ Noticed(u, n, i)'
        <4>1. CASE i = Len(toWorker) + 1
          BY <4>1, <3>1, <2>a, <2>b, <2>d
        <4>2. CASE i \in DOMAIN toWorker
          BY <4>2, <3>1, <1>h, <1>o, <2>a DEF Messages, FailuresAreLifted, WriteAt
        <4> QED BY <4>1, <4>2, <2>c
      <3>2. ASSUME NEW u \in Tables, NEW n, blockedByTable'[u] = n, n # 0
            PROVE  Held(u, n)' \/ Noticed(u, n, 0)'
        BY <3>2, <1>h, <1>i, <2>a DEF Messages, FailuresAreLifted
      <3> QED BY <3>1, <3>2 DEF FailuresAreLifted, WriteAt
    <2> QED BY <1>j, <1>k, <2>1, <2>2, <2>3 DEF Messages
  <1> QED BY <1>1, <1>2 DEF SubmitWrite, WorkerNotCreated, Post

(* A reconciled operation's lease goes, and its worker is told. *)
LEMMA MessagesOfReconciliation ==
    ASSUME TypeOK, Messages, NEW t \in Tables, nextOperationId' = nextOperationId,
           ReconcileLease(t)
    PROVE  Messages'
  <1>t. /\ toWorker \in Seq(WorkerRequest) /\ leases \in [Tables -> Lease \cup {NoOperation}]
        /\ blockedByTable \in [Tables -> Nat]
        /\ worker \in {"absent", "running", "dead"}
    BY DEF TypeOK, WorkerTypeOK
  <1>o. \A i \in DOMAIN toWorker : toWorker[i] \in WorkerRequest /\ toWorker[i].operationId \in Nat
                                                               /\ toWorker[i].table \in Tables
    BY <1>t, MessageTypes
  <1>u. /\ UNCHANGED <<worker, toMain, blockedByTable>>
        /\ ~Leased(t)'
        /\ \A u \in Tables \ {t} : leases'[u] = leases[u] /\ (Leased(u)' <=> Leased(u))
    BY <1>t DEF ReconcileLease, Leased
  <1>h. \A u \in Tables : \A n : Held(u, n) => Held(u, n)' \/ (u = t /\ Held(t, n))
    BY <1>u DEF Held
  <1>k. CompletionsWereApplied'
    BY <1>u DEF Messages, CompletionsWereApplied
  <1>1. CASE toWorker' = toWorker /\ (Leased(t) /\ leases[t].bound => worker = "dead")
    <2>1. WorkerIsThere'
      BY <1>1, <1>u DEF Messages, WorkerIsThere
    <2>2. WritesInOrder'
      BY <1>1, <1>u DEF Messages, WritesInOrder, WriteAt
    <2>3. LeaseIsYoungest'
      BY <1>1, <1>o, <1>u DEF Messages, LeaseIsYoungest, WriteAt
    <2>4. FailuresAreLifted'
      <3>1. CASE worker = "dead"
        <4>1. toWorker' = <<>> /\ \A u \in Tables : blockedByTable'[u] = 0
          BY <1>1, <1>u, <3>1 DEF Messages, WorkerIsThere
        <4> QED BY <4>1 DEF FailuresAreLifted
      <3>2. CASE ~(Leased(t) /\ leases[t].bound)
        <4>1. \A u \in Tables : \A n : Held(u, n) => Held(u, n)'
          BY <1>h, <3>2 DEF Held
        <4>2. \A u, n : \A i \in Nat : Noticed(u, n, i) => Noticed(u, n, i)'
          BY <1>1 DEF Noticed, NoWriteWithin, WriteAt
        <4>3. DOMAIN toWorker \subseteq Nat
          BY <1>t
        <4> QED BY <1>1, <1>o, <1>u, <4>1, <4>2, <4>3 DEF Messages, FailuresAreLifted, WriteAt
      <3> QED BY <1>1, <3>1, <3>2
    <2> QED BY <1>k, <2>1, <2>2, <2>3, <2>4 DEF Messages
  <1>2. ASSUME NEW n \in Nat, NEW m, m = Notice(t, n), n = leases[t].operationId,
               Leased(t), leases[t].bound, worker # "dead", toWorker' = Append(toWorker, m)
        PROVE  Messages'
    <2>m. m \in WorkerRequest /\ m.type # "write"
      BY <1>2 DEF Notice, WorkerRequest
    <2>a. /\ Len(toWorker) \in Nat /\ DOMAIN toWorker = 1 .. Len(toWorker)
          /\ DOMAIN toWorker' = 1 .. Len(toWorker) + 1
          /\ \A i \in DOMAIN toWorker : toWorker'[i] = toWorker[i]
          /\ toWorker'[Len(toWorker) + 1] = m
          /\ \A u, x : \A i \in Nat : Noticed(u, x, i) => Noticed(u, x, i)'
      BY <1>2, <1>t, <2>m, AppendedMessage
    <2>w. \A i \in DOMAIN toWorker' : WriteAt(i)' => /\ i \in DOMAIN toWorker
                                                     /\ WriteAt(i) /\ toWorker'[i] = toWorker[i]
      BY <2>a, <2>m DEF WriteAt
    (* No write of t is younger than its lease. *)
    <2>y. ASSUME NEW i \in 0 .. Len(toWorker),
                 \/ i # 0 /\ WriteAt(i) /\ toWorker[i].operationId = n
                 \/ blockedByTable[t] = n
          PROVE  Noticed(t, n, i)'
      <3>1. \A k \in DOMAIN toWorker :
              i < k /\ WriteAt(k) /\ toWorker[k].table = t => FALSE
        <4>1. ASSUME NEW k \in DOMAIN toWorker, i < k, WriteAt(k), toWorker[k].table = t
              PROVE  FALSE
          <5>1. toWorker[k].operationId <= n
            BY <1>2, <4>1 DEF Messages, LeaseIsYoungest
          <5>2. n < toWorker[k].operationId
            <6>1. CASE blockedByTable[t] = n
              BY <6>1, <4>1 DEF Messages, WritesInOrder
            <6>2. CASE i # 0 /\ WriteAt(i) /\ toWorker[i].operationId = n
              BY <6>2, <2>a, <4>1 DEF Messages, WritesInOrder
            <6> QED BY <2>y, <6>1, <6>2
          <5> QED BY <1>2, <1>o, <4>1, <5>1, <5>2
        <4> QED BY <4>1
      <3>l. PICK l \in Nat : l = Len(toWorker) + 1
        BY <2>a
      <3>2. NoWriteWithin(i, l, t)'
        BY <2>a, <2>w, <3>l, <3>1 DEF NoWriteWithin, WriteAt
      <3>3. l \in DOMAIN toWorker' /\ i < l /\ toWorker'[l] = Notice(t, n)
        BY <1>2, <2>a, <3>l
      <3> QED BY <3>2, <3>3 DEF Noticed, Notice
    <2>1. WorkerIsThere'
      BY <1>2, <1>t, <1>u DEF Messages, WorkerIsThere
    <2>2. WritesInOrder'
      BY <1>u, <2>w DEF Messages, WritesInOrder
    <2>3. LeaseIsYoungest'
      <3>1. ASSUME NEW i \in DOMAIN toWorker', NEW u, WriteAt(i)',
                   toWorker'[i].table = u, Leased(u)'
            PROVE  toWorker'[i].operationId <= leases'[u].operationId
        <4>1. /\ i \in DOMAIN toWorker /\ WriteAt(i) /\ toWorker'[i] = toWorker[i]
              /\ u \in Tables
          BY <1>o, <2>w, <3>1
        <4>2. Leased(u) /\ leases'[u] = leases[u]
          BY <1>u, <3>1, <4>1
        <4> QED BY <3>1, <4>1, <4>2 DEF Messages, LeaseIsYoungest
      <3> QED BY <3>1 DEF LeaseIsYoungest, Leased, WriteAt
    <2>4. FailuresAreLifted'
      <3>h. ASSUME NEW u \in Tables, NEW x, Held(u, x), ~Held(u, x)'
            PROVE  u = t /\ x = n
        BY <1>2, <1>h, <3>h DEF Held
      <3>1. ASSUME NEW i \in DOMAIN toWorker', NEW u, NEW x, WriteAt(i)',
                   toWorker'[i].table = u, toWorker'[i].operationId = x
            PROVE  Held(u, x)' \/ Noticed(u, x, i)'
        <4>1. /\ i \in DOMAIN toWorker /\ WriteAt(i) /\ u \in Tables
              /\ toWorker[i].table = u /\ toWorker[i].operationId = x
          BY <1>o, <2>w, <3>1
        <4>2. Held(u, x) \/ Noticed(u, x, i)
          BY <4>1 DEF Messages, FailuresAreLifted
        <4>3. i \in 0 .. Len(toWorker) /\ i # 0 /\ i \in Nat
          BY <4>1, <2>a
        <4> QED BY <4>1, <4>2, <4>3, <3>h, <2>a, <2>y
      <3>2. ASSUME NEW u \in Tables, NEW x, blockedByTable[u] = x, x # 0
            PROVE  Held(u, x)' \/ Noticed(u, x, 0)'
        <4>1. Held(u, x) \/ Noticed(u, x, 0)
          BY <3>2 DEF Messages, FailuresAreLifted
        <4>2. 0 \in 0 .. Len(toWorker) /\ 0 \in Nat
          BY <2>a
        <4> QED BY <4>1, <4>2, <3>2, <3>h, <2>a, <2>y
      <3> QED BY <1>u, <3>1, <3>2 DEF FailuresAreLifted, WriteAt
    <2> QED BY <1>k, <2>1, <2>2, <2>3, <2>4 DEF Messages
  <1>3. Leased(t) => leases[t].operationId \in Nat
    BY <1>t DEF Leased, Lease
  <1> QED BY <1>1, <1>2, <1>3 DEF ReconcileLease, Post, Notice

(* A reply is taken; a completion ends the lease it is for. *)
LEMMA MessagesOfReplies ==
    ASSUME TypeOK, Messages, nextOperationId' = nextOperationId, ReplyTaken,
           \/ /\ Head(toMain).type = "write-complete" /\ ReplyMatchesLease(Head(toMain))
              /\ FinishLease(Head(toMain).table)
           \/ UNCHANGED <<leases, worker, toWorker, blockedByTable>>
    PROVE  Messages'
  <1>t. /\ toWorker \in Seq(WorkerRequest) /\ toMain \in Seq(WorkerReply)
        /\ leases \in [Tables -> Lease \cup {NoOperation}]
        /\ blockedByTable \in [Tables -> Nat]
    BY DEF TypeOK, WorkerTypeOK
  <1>o. \A i \in DOMAIN toWorker : toWorker[i] \in WorkerRequest /\ toWorker[i].operationId \in Nat
                                                               /\ toWorker[i].table \in Tables
    BY <1>t, MessageTypes
  <1>i. /\ 1 \in DOMAIN toMain /\ Head(toMain) = toMain[1] /\ toMain[1].table \in Tables
        /\ toMain[1].operationId \in Nat
        /\ \A i \in DOMAIN toMain' : i + 1 \in DOMAIN toMain /\ toMain'[i] = toMain[i + 1]
    <2>1. /\ 1 \in DOMAIN toMain /\ Head(toMain) = toMain[1]
          /\ \A i \in DOMAIN toMain' : i + 1 \in DOMAIN toMain /\ toMain'[i] = toMain[i + 1]
      BY <1>t DEF ReplyTaken
    <2> QED BY <1>t, <2>1, MessageTypes
  <1>w. UNCHANGED <<worker, toWorker, blockedByTable>>
    BY DEF FinishLease
  <1>1. WritesInOrder' /\ CompletionsWereApplied'
    BY <1>i, <1>w DEF Messages, WritesInOrder, CompletionsWereApplied, WriteAt
  <1>n. \A u, n : \A i \in DOMAIN toWorker \cup {0} : Noticed(u, n, i) => Noticed(u, n, i)'
    BY <1>w DEF Noticed, NoWriteWithin, WriteAt
  <1>2. CASE UNCHANGED leases
    <2>1. WorkerIsThere' /\ LeaseIsYoungest'
      BY <1>2, <1>w DEF Messages, WorkerIsThere, LeaseIsYoungest, Leased, WriteAt
    <2>2. FailuresAreLifted'
      BY <1>2, <1>w, <1>n DEF Messages, FailuresAreLifted, Held, Leased, WriteAt
    <2> QED BY <1>1, <2>1, <2>2 DEF Messages
  <1>3. ASSUME NEW t \in Tables, NEW n \in Nat, toMain[1].table = t, toMain[1].operationId = n,
               toMain[1].type = "write-complete", leases[t].operationId = n,
               leases' = [leases EXCEPT ![t] = NoOperation]
        PROVE  Messages'
    <2>u. ~Leased(t)' /\ \A u \in Tables \ {t} : leases'[u] = leases[u] /\ (Leased(u)' <=> Leased(u))
      BY <1>3, <1>t DEF Leased
    <2>h. ASSUME NEW u \in Tables, NEW x, Held(u, x), ~Held(u, x)'
          PROVE  u = t /\ x = n
      BY <1>3, <2>h, <2>u DEF Held
    <2>1. WorkerIsThere'
      BY <1>w, <2>u DEF Messages, WorkerIsThere
    <2>2. LeaseIsYoungest'
      BY <1>o, <1>w, <2>u DEF Messages, LeaseIsYoungest, WriteAt
    <2>3. blockedByTable[t] # n
      BY <1>3, <1>i DEF Messages, CompletionsWereApplied
    <2>4. \A i \in DOMAIN toWorker : WriteAt(i) => toWorker[i].operationId # n
      BY <1>3, <1>i, <1>o DEF Messages, WritesInOrder
    <2>5. FailuresAreLifted'
      <3>1. ASSUME NEW i \in DOMAIN toWorker, WriteAt(i), NEW u \in Tables, NEW x,
                   toWorker[i].table = u, toWorker[i].operationId = x
            PROVE  Held(u, x)' \/ Noticed(u, x, i)'
        <4>1. Held(u, x) \/ Noticed(u, x, i)
          BY <3>1 DEF Messages, FailuresAreLifted
        <4> QED BY <3>1, <4>1, <2>h, <2>4, <1>n
      <3>2. ASSUME NEW u \in Tables, NEW x, blockedByTable[u] = x, x # 0
            PROVE  Held(u, x)' \/ Noticed(u, x, 0)'
        <4>1. Held(u, x) \/ Noticed(u, x, 0)
          BY <3>2 DEF Messages, FailuresAreLifted
        <4> QED BY <3>2, <4>1, <2>h, <2>3, <1>n
      <3> QED BY <1>o, <1>w, <3>1, <3>2 DEF FailuresAreLifted, WriteAt
    <2> QED BY <1>1, <2>1, <2>2, <2>5 DEF Messages
  <1> QED BY <1>2, <1>3, <1>i DEF FinishLease, ReplyMatchesLease

(* The worker takes a message. *)
LEMMA MessagesOfWorker ==
    ASSUME TypeOK, Messages, nextOperationId' = nextOperationId, WorkerStep
    PROVE  Messages'
  <1> DEFINE t == toWorker[1].table
             n == toWorker[1].operationId
  <1>t. /\ toWorker \in Seq(WorkerRequest) /\ toMain \in Seq(WorkerReply)
        /\ leases \in [Tables -> Lease \cup {NoOperation}]
        /\ blockedByTable \in [Tables -> Nat] /\ nextOperationId \in Nat \ {0}
    BY DEF TypeOK, JournalTypeOK, WorkerTypeOK
  <1>o. \A i \in DOMAIN toWorker : toWorker[i] \in WorkerRequest /\ toWorker[i].operationId \in Nat
                                                               /\ toWorker[i].table \in Tables
    BY <1>t, MessageTypes
  <1>p. \A i \in DOMAIN toMain : toMain[i].operationId \in Nat /\ toMain[i].table \in Tables
    BY <1>t, MessageTypes
  <1>s. toWorker # <<>> /\ toWorker' = Tail(toWorker)
    BY DEF WorkerStep, WorkerAppliesWrite, WorkerRefusesWrite, WorkerReconciled, HasRequest
  <1>a. /\ Len(toWorker) \in Nat \ {0} /\ DOMAIN toWorker = 1 .. Len(toWorker)
        /\ Head(toWorker) = toWorker[1] /\ Head(toWorker) \in WorkerRequest
        /\ DOMAIN toWorker' = 1 .. Len(toWorker) - 1
        /\ \A i \in DOMAIN toWorker' : i + 1 \in DOMAIN toWorker /\ toWorker'[i] = toWorker[i + 1]
        /\ \A u, x : \A i \in Nat : Noticed(u, x, i + 1) => Noticed(u, x, i)'
        /\ \A u, x : Noticed(u, x, 0) => Noticed(u, x, 0)' \/ Head(toWorker) = Notice(u, x)
    BY <1>s, <1>t, TakenMessage
  <1>b. 1 \in DOMAIN toWorker /\ t \in Tables /\ n \in Nat
    BY <1>a, <1>o
  <1>c. UNCHANGED <<leases, worker>> /\ worker = "running"
    BY DEF WorkerStep, WorkerAppliesWrite, WorkerRefusesWrite, WorkerReconciled, HasRequest
  <1> HIDE DEF t, n
  <1>w. \A i \in DOMAIN toWorker' :
          /\ i \in Nat /\ i + 1 \in DOMAIN toWorker /\ 1 < i + 1
          /\ toWorker'[i] = toWorker[i + 1] /\ (WriteAt(i)' <=> WriteAt(i + 1))
    BY <1>a DEF WriteAt
  <1>1. WorkerIsThere' /\ LeaseIsYoungest'
    <2>1. WorkerIsThere'
      BY <1>c DEF Messages, WorkerIsThere
    <2>2. LeaseIsYoungest'
      BY <1>c, <1>w DEF Messages, LeaseIsYoungest, Leased
    <2> QED BY <2>1, <2>2
  (* What is reported, and what blocks, is the write at the head. *)
  <1>2. ASSUME \A i \in DOMAIN toMain' :
                 \/ i \in DOMAIN toMain /\ toMain'[i] = toMain[i]
                 \/ WriteAt(1) /\ toMain'[i].operationId = n,
               \A u \in Tables : \/ blockedByTable'[u] \in {blockedByTable[u], 0}
                                 \/ WriteAt(1) /\ blockedByTable'[u] = n
        PROVE  WritesInOrder'
    <2>0. WriteAt(1) => 0 < n /\ n < nextOperationId
      BY <1>b DEF Messages, WritesInOrder, n
    <2>1. \A j \in DOMAIN toWorker' :
            WriteAt(j)' => /\ 0 < toWorker'[j].operationId
                           /\ toWorker'[j].operationId < nextOperationId
                           /\ WriteAt(1) => n < toWorker'[j].operationId
      BY <1>b, <1>w DEF Messages, WritesInOrder, n
    <2>2. \A i \in DOMAIN toMain' : /\ 0 < toMain'[i].operationId
                                    /\ toMain'[i].operationId < nextOperationId
      BY <1>2, <2>0 DEF Messages, WritesInOrder
    <2>3. \A i, j \in DOMAIN toWorker' :
            i < j /\ WriteAt(i)' /\ WriteAt(j)'
              => toWorker'[i].operationId < toWorker'[j].operationId
      BY <1>w DEF Messages, WritesInOrder
    <2>4. \A i \in DOMAIN toMain', j \in DOMAIN toWorker' :
            WriteAt(j)' => toMain'[i].operationId < toWorker'[j].operationId
      BY <1>2, <1>w, <2>1 DEF Messages, WritesInOrder
    <2>5. \A u \in Tables : blockedByTable'[u] < nextOperationId
      BY <1>2, <1>t, <2>0 DEF Messages, WritesInOrder
    <2>6. \A u \in Tables, j \in DOMAIN toWorker' :
            WriteAt(j)' => blockedByTable'[u] < toWorker'[j].operationId
      BY <1>2, <1>w, <2>1 DEF Messages, WritesInOrder
    <2> QED BY <2>1, <2>2, <2>3, <2>4, <2>5, <2>6 DEF WritesInOrder
  <1>3. ASSUME \A u \in Tables :
                 blockedByTable'[u] # 0 => \/ /\ blockedByTable'[u] = blockedByTable[u]
                                              /\ Head(toWorker) # Notice(u, blockedByTable[u])
                                           \/ WriteAt(1) /\ u = t /\ blockedByTable'[u] = n
        PROVE  FailuresAreLifted'
    <2>h. \A u, x : Held(u, x) => Held(u, x)'
      BY <1>c DEF Held, Leased
    <2>1. ASSUME NEW i \in DOMAIN toWorker', WriteAt(i)', NEW u, NEW x,
                 toWorker'[i].table = u, toWorker'[i].operationId = x
          PROVE  Held(u, x)' \/ Noticed(u, x, i)'
      <3>1. Held(u, x) \/ Noticed(u, x, i + 1)
        BY <1>w, <2>1 DEF Messages, FailuresAreLifted
      <3> QED BY <1>a, <1>w, <2>h, <3>1
    <2>2. ASSUME NEW u \in Tables, NEW x, blockedByTable'[u] = x, x # 0
          PROVE  Held(u, x)' \/ Noticed(u, x, 0)'
      <3>1. CASE blockedByTable[u] = x /\ Head(toWorker) # Notice(u, x)
        <4>1. Held(u, x) \/ Noticed(u, x, 0)
          BY <2>2, <3>1 DEF Messages, FailuresAreLifted
        <4> QED BY <1>a, <2>h, <3>1, <4>1
      <3>2. CASE WriteAt(1) /\ u = t /\ x = n
        <4>1. Held(u, x) \/ Noticed(u, x, 0 + 1)
          BY <1>b, <3>2 DEF Messages, FailuresAreLifted, t, n
        <4>2. 0 \in Nat
          OBVIOUS
        <4> QED BY <1>a, <2>h, <4>1, <4>2
      <3> QED BY <1>3, <2>2, <3>1, <3>2
    <2> QED BY <2>1, <2>2 DEF FailuresAreLifted, WriteAt
  <1>4. ASSUME NEW r, toMain' = Append(toMain, r), r \in WorkerReply,
               r.operationId = n, r.table = t
        PROVE  \A i \in DOMAIN toMain' : \/ i \in DOMAIN toMain /\ toMain'[i] = toMain[i]
                                         \/ toMain'[i] = r
    BY <1>4, <1>t
  <1>r. ASSUME NEW type \in {"write-complete", "error"}, Reply(type, Head(toWorker))
        PROVE  \E r \in WorkerReply : /\ toMain' = Append(toMain, r) /\ r.type = type
                                      /\ r.operationId = n /\ r.table = t
    <2>1. [type |-> type, operationId |-> n, table |-> t] \in WorkerReply
      BY <1>b DEF WorkerReply
    <2> QED BY <2>1, <1>a, <1>r DEF Reply, t, n
  <1>5. CASE WorkerAppliesWrite
    <2>1. /\ WriteAt(1) /\ blockedByTable[t] = 0 /\ blockedByTable' = blockedByTable
          /\ Reply("write-complete", Head(toWorker))
      BY <1>5, <1>a DEF WorkerAppliesWrite, HasRequest, WriteAt, t
    <2>2. PICK r \in WorkerReply : /\ toMain' = Append(toMain, r)
                                   /\ r.operationId = n /\ r.table = t
      BY <1>r, <2>1
    <2>3. \A u, x : Head(toWorker) # Notice(u, x)
      BY <1>a, <2>1 DEF Notice, WriteAt
    <2>4. WritesInOrder' /\ FailuresAreLifted'
      BY <1>2, <1>3, <1>4, <2>1, <2>2, <2>3
    <2>5. CompletionsWereApplied'
      <3>1. 0 < n
        BY <1>b, <2>1 DEF Messages, WritesInOrder, n
      <3> QED BY <1>4, <2>1, <2>2, <3>1 DEF Messages, CompletionsWereApplied
    <2> QED BY <1>1, <2>4, <2>5 DEF Messages
  <1>6. CASE WorkerRefusesWrite
    <2>1. /\ WriteAt(1) /\ Reply("error", Head(toWorker))
          /\ \/ blockedByTable' = blockedByTable
             \/ blockedByTable' = [blockedByTable EXCEPT ![t] = n]
      BY <1>6, <1>a DEF WorkerRefusesWrite, HasRequest, WriteAt, t, n
    <2>2. PICK r \in WorkerReply : /\ toMain' = Append(toMain, r) /\ r.type = "error"
                                   /\ r.operationId = n /\ r.table = t
      BY <1>r, <2>1
    <2>3. \A u, x : Head(toWorker) # Notice(u, x)
      BY <1>a, <2>1 DEF Notice, WriteAt
    <2>b. \A u \in Tables : blockedByTable'[u] = blockedByTable[u] \/ (u = t /\ blockedByTable'[u] = n)
      BY <1>t, <2>1
    <2>4. WritesInOrder' /\ FailuresAreLifted'
      BY <1>2, <1>3, <1>4, <2>1, <2>2, <2>3, <2>b
    <2>5. CompletionsWereApplied'
      <3>1. \A i \in DOMAIN toMain : toMain[i].operationId < n
        BY <1>b, <2>1 DEF Messages, WritesInOrder, n
      <3>2. \A i \in DOMAIN toMain : toMain[i].operationId # n
        BY <1>b, <1>p, <3>1
      <3>3. ASSUME NEW i \in DOMAIN toMain', toMain'[i].type = "write-complete"
            PROVE  blockedByTable'[toMain'[i].table] # toMain'[i].operationId
        <4>1. i \in DOMAIN toMain /\ toMain'[i] = toMain[i]
          BY <1>4, <2>2, <3>3
        <4> QED BY <1>p, <2>b, <3>2, <3>3, <4>1 DEF Messages, CompletionsWereApplied
      <3> QED BY <3>3 DEF CompletionsWereApplied
    <2> QED BY <1>1, <2>4, <2>5 DEF Messages
  <1>7. CASE WorkerReconciled
    <2>1. /\ Head(toWorker).type = "reconciled" /\ toMain' = toMain
          /\ blockedByTable' = IF blockedByTable[t] = n THEN [blockedByTable EXCEPT ![t] = 0]
                                                        ELSE blockedByTable
      BY <1>7, <1>a DEF WorkerReconciled, HasRequest, t, n
    <2>b. \A u \in Tables : /\ blockedByTable'[u] \in {blockedByTable[u], 0}
                            /\ u = t /\ blockedByTable[u] = n => blockedByTable'[u] = 0
      BY <1>t, <2>1
    <2>2. ASSUME NEW u, NEW x, Head(toWorker) = Notice(u, x)
          PROVE  u = t /\ x = n
      BY <1>a, <2>2 DEF Notice, t, n
    <2>3. WritesInOrder' /\ FailuresAreLifted'
      BY <1>2, <1>3, <2>1, <2>2, <2>b
    <2>4. CompletionsWereApplied'
      BY <1>p, <2>1, <2>b DEF Messages, CompletionsWereApplied, WritesInOrder
    <2> QED BY <1>1, <2>3, <2>4 DEF Messages
  <1> QED BY <1>5, <1>6, <1>7 DEF WorkerStep

(* The traffic between the two threads keeps its order. *)
LEMMA MessagesStep ==
    ASSUME Inv, Messages, Next
    PROVE  Messages'
  <1>t. /\ TypeOK /\ nextOperationId \in Nat \ {0}
        /\ toWorker \in Seq(WorkerRequest) /\ toMain \in Seq(WorkerReply)
        /\ leases \in [Tables -> Lease \cup {NoOperation}]
        /\ blockedByTable \in [Tables -> Nat]
    BY DEF Inv, TypeOK, JournalTypeOK, WorkerTypeOK
  <1>o. \A i \in DOMAIN toWorker : toWorker[i] \in WorkerRequest /\ toWorker[i].operationId \in Nat
    BY <1>t, MessageTypes
  <1>p. \A i \in DOMAIN toMain : toMain[i] \in WorkerReply /\ toMain[i].operationId \in Nat
    BY <1>t, MessageTypes
  <1> USE DEF Messages
  <1>1. CASE UNCHANGED workerVars /\ nextOperationId' \in {nextOperationId, nextOperationId + 1}
    <2> USE <1>1 DEF workerVars
    <2>1. WorkerIsThere' /\ LeaseIsYoungest' /\ CompletionsWereApplied'
      BY DEF WorkerIsThere, LeaseIsYoungest, CompletionsWereApplied, Leased, WriteAt
    <2>2. WritesInOrder'
      BY <1>t, <1>o, <1>p DEF WritesInOrder, WriteAt
    <2>3. FailuresAreLifted'
      BY DEF FailuresAreLifted, Held, Leased, Noticed, NoWriteWithin, WriteAt
    <2> QED BY <2>1, <2>2, <2>3
  <1>2. CASE worker = "absent" /\ RecoverLeases /\ IdsUnchanged
    <2>1. /\ toWorker' = <<>> /\ worker' = worker /\ toMain' = toMain
          /\ \A t \in Tables : /\ blockedByTable'[t] = 0 /\ blockedByTable[t] = 0
                               /\ Leased(t)' => Leased(t) /\ leases'[t] = leases[t]
      BY <1>2 DEF RecoverLeases, WorkerIsThere, Leased
    <2> QED BY <1>2, <1>t, <2>1
            DEF IdsUnchanged, WorkerIsThere, WritesInOrder, LeaseIsYoungest,
                CompletionsWereApplied, FailuresAreLifted, RecoverLeases
  <1>3. CASE IdsUnchanged /\ WorkerExitObserved
    <2>1. /\ toWorker' = <<>> /\ toMain' = <<>>
          /\ \A t \in Tables : /\ blockedByTable'[t] = 0
                               /\ Leased(t)' => ~leases'[t].bound
      BY <1>3, <1>t DEF WorkerExitObserved, WorkerIsThere, Leased, Lease
    <2> QED BY <1>3, <1>t, <2>1
            DEF IdsUnchanged, WorkerIsThere, WritesInOrder, LeaseIsYoungest,
                CompletionsWereApplied, FailuresAreLifted
  <1>4. CASE IdsUnchanged /\ WorkerDies
    <2>1. /\ toWorker' = <<>> /\ worker' = "dead" /\ UNCHANGED <<leases, toMain>>
          /\ \A t \in Tables : blockedByTable'[t] = 0
      BY <1>4 DEF WorkerDies
    <2>2. CompletionsWereApplied'
      BY <1>p, <2>1 DEF CompletionsWereApplied, WritesInOrder, WorkerReply
    <2> QED BY <1>4, <1>t, <1>p, <2>1, <2>2
            DEF IdsUnchanged, WorkerIsThere, WritesInOrder, LeaseIsYoungest,
                FailuresAreLifted
  <1>5. CASE IdsUnchanged /\ WorkerInit'
    BY <1>5, <1>t DEF IdsUnchanged, WorkerInit, WorkerIsThere, WritesInOrder, LeaseIsYoungest,
       Leased, CompletionsWereApplied, FailuresAreLifted
  <1> QED BY <1>t, <1>1, <1>2, <1>3, <1>4, <1>5, MessageKinds, MessagesOfSubmission,
             MessagesOfReconciliation, MessagesOfReplies, MessagesOfWorker
          DEF IdsUnchanged

--------------------------------------------------------------------------------
(* Completions. *)

(* A lease that is bound was bound before, or is of a new operation. *)
LEMMA BoundLeases ==
    ASSUME Inv, Next, NEW t \in Tables, Leased(t)', leases'[t].bound
    PROVE  \/ Leased(t) /\ leases[t].operationId = leases'[t].operationId /\ leases[t].bound
           \/ leases'[t].operationId = nextOperationId
  <1>t. leases \in [Tables -> Lease \cup {NoOperation}]
    BY DEF Inv, TypeOK, WorkerTypeOK
  <1>1. CASE leases' = leases
    BY <1>1 DEF Leased
  <1>2. ASSUME NEW u \in Tables, leases' = [leases EXCEPT ![u] = NoOperation]
        PROVE  leases'[t] = leases[t]
    BY <1>2, <1>t DEF Leased
  <1>3. ASSUME NEW u \in Tables,
               SubmitWrite(u, nextOperationId) \/ WorkerNotCreated(u, nextOperationId)
        PROVE  leases'[t] = leases[t] \/ leases'[t].operationId = nextOperationId
    BY <1>3, <1>t DEF SubmitWrite, WorkerNotCreated
  <1>4. CASE RecoverLeases \/ WorkerInit'
    BY <1>4 DEF RecoverLeases, WorkerInit, Leased
  <1>5. CASE WorkerExitObserved
    <2>1. CASE Leased(t)
      BY <1>5, <1>t, <2>1 DEF WorkerExitObserved, Leased, Lease
    <2>2. CASE ~Leased(t)
      BY <1>5, <2>2 DEF WorkerExitObserved, Leased
    <2> QED BY <2>1, <2>2
  <1>6. CASE WorkerStep \/ WorkerDies
    BY <1>1, <1>6 DEF WorkerStep, WorkerAppliesWrite, WorkerRefusesWrite, WorkerReconciled,
       WorkerDies
  <1>7. toMain # <<>> => Head(toMain).table \in Tables
    BY HeadTypes DEF Inv, TypeOK, WorkerReply
  <1>8. leases'[t] = leases[t] => Leased(t) /\ leases[t].bound
    BY DEF Leased
  <1> QED BY <1>1, <1>2, <1>3, <1>4, <1>5, <1>6, <1>7, <1>8, MessageKinds
          DEF workerVars, ReconcileLease, FinishLease, ReplyTaken

(* A reply was there before, or the worker has just sent it. *)
LEMMA RepliesOfStep ==
    ASSUME Inv, Next, NEW i \in DOMAIN toMain', toMain'[i].type = "write-complete"
    PROVE  \/ \E j \in DOMAIN toMain : toMain'[i] = toMain[j]
           \/ /\ WorkerAppliesWrite
              /\ toMain'[i].table = Head(toWorker).table
              /\ toMain'[i].operationId = Head(toWorker).operationId
  <1>t. toMain \in Seq(WorkerReply) /\ toWorker \in Seq(WorkerRequest)
    BY DEF Inv, TypeOK, WorkerTypeOK
  <1>1. CASE toMain' = toMain
    BY <1>1
  <1>2. CASE toMain' = <<>>
    BY <1>2
  <1>3. CASE ReplyTaken
    <2>1. i + 1 \in DOMAIN toMain /\ toMain'[i] = toMain[i + 1]
      BY <1>3, <1>t DEF ReplyTaken
    <2> QED BY <2>1
  <1>4. ASSUME NEW r \in WorkerReply, toMain' = Append(toMain, r)
        PROVE  (i \in DOMAIN toMain /\ toMain'[i] = toMain[i]) \/ toMain'[i] = r
    BY <1>4, <1>t
  <1>5. ASSUME NEW type \in {"write-complete", "error"}, HasRequest("write"),
               Reply(type, Head(toWorker))
        PROVE  \/ \E j \in DOMAIN toMain : toMain'[i] = toMain[j]
               \/ /\ toMain'[i].type = type
                  /\ toMain'[i].table = Head(toWorker).table
                  /\ toMain'[i].operationId = Head(toWorker).operationId
    <2>1. Head(toWorker).operationId \in Nat /\ Head(toWorker).table \in Tables
      BY <1>5, HeadTypes DEF HasRequest, Inv, TypeOK, WorkerRequest
    <2>2. PICK r \in WorkerReply : /\ toMain' = Append(toMain, r) /\ r.type = type
                                   /\ r.operationId = Head(toWorker).operationId
                                   /\ r.table = Head(toWorker).table
      BY <1>5, <2>1 DEF Reply, WorkerReply
    <2> QED BY <1>4, <2>2
  <1>6. CASE WorkerStep
    BY <1>1, <1>5, <1>6 DEF WorkerStep, WorkerAppliesWrite, WorkerRefusesWrite, WorkerReconciled
  <1>7. CASE WorkerExitObserved \/ WorkerInit'
    BY <1>2, <1>7 DEF WorkerExitObserved, WorkerInit
  <1> QED BY <1>1, <1>3, <1>6, <1>7, MessageKinds
          DEF workerVars, SubmitWrite, WorkerNotCreated, ReconcileLease, RecoverLeases, WorkerDies

(* An applied operation stays applied as long as it is journalled. *)
LEMMA AppliedStaysApplied ==
    ASSUME Inv, Next, NEW t \in Tables, Journalled(t), outbox[t].state = "applied",
           Journalled(t)'
    PROVE  outbox'[t].state = "applied"
  <1>t. outbox \in [Tables -> Operation \cup {NoOperation}] /\ TypeOK
    BY DEF Inv, TypeOK, JournalTypeOK
  <1>1. CASE outbox' = outbox
    BY <1>1
  <1>2. ASSUME NEW u \in Tables,
               \/ ReconcilePersistenceOperation(u) \/ AcknowledgePersistenceOperation(u)
               \/ ApplyPersistenceOperation(u)
        PROVE  outbox'[t].state = "applied"
    BY <1>2, <1>t DEF ReconcilePersistenceOperation, AcknowledgePersistenceOperation,
       ApplyPersistenceOperation, Journalled, Operation
  <1>3. ASSUME NEW u \in Tables, JournalFlush(u)
        PROVE  outbox'[t].state = "applied"
    BY <1>3, <1>t DEF JournalFlush, EnqueuePersistenceOperation
  <1>4. CASE RecoverPersistenceOperations
    BY <1>4 DEF RecoverPersistenceOperations, Journalled
  <1>5. CASE \/ CallerStep \/ TimerStep \/ FlushFailure
             \/ WriteCompleteIgnored \/ WriteErrorReported \/ WorkerExits \/ WorkerCrashes
             \/ ShutdownSignal \/ ProcessExit \/ ExitHandlerFlushes
             \/ \E u \in Tables : FlushFindsFlight(u) \/ FlushFindsNothing(u)
    BY <1>1, <1>5, QuietSteps DEF Inv, FlightsUnchanged
  <1>6. CASE ProcessEnds \/ ProcessCrashes \/ CommitApplies
    BY <1>1, <1>6 DEF ProcessEnds, ProcessCrashes, CommitApplies, ApplyAtomicChanges, storeVars,
       journalVars
  <1>7. CASE WorkerThread
    BY <1>1, <1>2, <1>7, <1>t, HeadTypes DEF WorkerThread, WorkerStep, WorkerAppliesWrite,
       WorkerRefusesWrite, WorkerReconciled, HasRequest, TransactionFails, journalVars,
       TypeOK, WorkerRequest
  <1>8. CASE FlushReconcile \/ FlushSettles
    <2>1. turn.table \in Tables
      BY <1>8 DEF FlushReconcile, FlushSettles, Inv, TurnIsWellFormed
    <2> QED BY <1>1, <1>2, <1>8, <2>1 DEF FlushReconcile, FlushSettles, storeVars, journalVars
  <1>9. CASE WriteAcknowledged
    BY <1>2, <1>9, <1>t, HeadTypes DEF WriteAcknowledged, HasReply, TypeOK, WorkerReply
  <1> QED BY <1>3, <1>4, <1>5, <1>6, <1>7, <1>8, <1>9
          DEF Next, FlushStep, FlushRecover, FlushSubmits, FlushSubmitFails, FlushJournals,
              ReplyStep, ProcessStep, ProcessStarts

(* A completion for the leased operation is for an applied one. *)
LEMMA CompletionStep ==
    ASSUME Inv, Messages, CompletionIsDurable, Next, Inv'
    PROVE  CompletionIsDurable'
  <1>t. /\ toMain \in Seq(WorkerReply) /\ toMain' \in Seq(WorkerReply) /\ TypeOK
        /\ nextOperationId \in Nat \ {0}
    BY DEF Inv, TypeOK, WorkerTypeOK, JournalTypeOK
  (* What is leased is in the journal. *)
  <1>j. \A t \in Tables : Leased(t) =>
          /\ Journalled(t) /\ outbox[t].operationId = leases[t].operationId
    BY DEF Inv, Offline, WorkerInit, Leased, LeaseMatchesFlight, FlightMatchesJournal
  <1>k. \A t \in Tables : Leased(t)' =>
          /\ Journalled(t)' /\ outbox'[t].operationId = leases'[t].operationId
    BY DEF Inv, Offline, WorkerInit, Leased, LeaseMatchesFlight, FlightMatchesJournal
  <1>1. ASSUME NEW i \in DOMAIN toMain', NEW t \in Tables, NEW n \in Nat,
               toMain'[i].type = "write-complete",
               toMain'[i].table = t, toMain'[i].operationId = n,
               Leased(t)', leases'[t].operationId = n, leases'[t].bound
        PROVE  Journalled(t)' /\ outbox'[t].operationId = n /\ outbox'[t].state = "applied"
    <2>1. Journalled(t)' /\ outbox'[t].operationId = n
      BY <1>k, <1>1
    <2>2. ASSUME NEW j \in DOMAIN toMain, toMain'[i] = toMain[j]
          PROVE  outbox'[t].state = "applied"
      <3>1. n < nextOperationId
        BY <1>1, <2>2 DEF Messages, WritesInOrder
      <3>2. Leased(t) /\ leases[t].operationId = n /\ leases[t].bound
        BY <1>1, <1>t, <3>1, BoundLeases
      <3>3. Journalled(t) /\ outbox[t].state = "applied"
        BY <1>1, <2>2, <3>2 DEF CompletionIsDurable, ReplyMatchesLease, ReplyIsDurable
      <3> QED BY <2>1, <3>3, AppliedStaysApplied
    <2>3. CASE /\ WorkerAppliesWrite
               /\ Head(toWorker).table = t /\ Head(toWorker).operationId = n
      <3>1. Leased(t) /\ leases[t].operationId = n
        BY <1>1, <2>3 DEF WorkerAppliesWrite, Leased
      <3>2. RequestIsCurrent(Head(toWorker))
        BY <1>j, <2>3, <3>1 DEF RequestIsCurrent
      <3>3. ApplyPersistenceOperation(t)
        BY <2>3, <3>2 DEF WorkerAppliesWrite
      <3>4. outbox \in [Tables -> Operation \cup {NoOperation}] /\ outbox[t] \in Operation
        BY <1>t, <3>3 DEF ApplyPersistenceOperation, Journalled, TypeOK, JournalTypeOK
      <3>5. outbox'[t].state = "applied"
        BY <3>3, <3>4 DEF ApplyPersistenceOperation, Operation
      <3> QED BY <2>1, <3>5
    <2>4. \/ \E j \in DOMAIN toMain : toMain'[i] = toMain[j]
          \/ /\ WorkerAppliesWrite
             /\ Head(toWorker).table = t /\ Head(toWorker).operationId = n
      BY <1>1, RepliesOfStep
    <2> QED BY <2>1, <2>2, <2>3, <2>4
  <1>2. \A i \in DOMAIN toMain' : toMain'[i].table \in Tables /\ toMain'[i].operationId \in Nat
    BY <1>t, MessageTypes
  <1> QED BY <1>1, <1>2 DEF CompletionIsDurable, ReplyMatchesLease, ReplyIsDurable, Leased,
             Journalled

--------------------------------------------------------------------------------
(* The theorems. *)

Traffic == IdsInOrder /\ TimersAreFresh /\ Messages /\ CompletionIsDurable

LEMMA TrafficInit == Init => Traffic
  <1> SUFFICES ASSUME Init PROVE Traffic
    OBVIOUS
  <1> USE DEF Init, JournalInit, Offline, WorkerInit
  <1>1. IdsInOrder /\ TimersAreFresh
    BY DEF IdsInOrder, Journalled, TimersAreFresh, NoStaleTimer, NoTurn
  <1>2. Messages /\ CompletionIsDurable
    BY DEF Messages, WorkerIsThere, WritesInOrder, LeaseIsYoungest, CompletionsWereApplied,
       FailuresAreLifted, CompletionIsDurable, Leased
  <1> QED BY <1>1, <1>2 DEF Traffic

LEMMA TrafficStutter ==
    ASSUME Traffic, UNCHANGED vars
    PROVE  Traffic'
  <1> USE DEF vars, storeVars, journalVars, workerVars, cacheVars, flushVars, processVars, turnVars
  <1>1. IdsInOrder' /\ TimersAreFresh'
    BY DEF Traffic, IdsInOrder, Journalled, TimersAreFresh, NoStaleTimer
  <1>2. CompletionIsDurable'
    BY DEF Traffic, CompletionIsDurable, ReplyMatchesLease, ReplyIsDurable, Leased, Journalled
  <1>3. Messages'
    BY DEF Traffic, Messages, WorkerIsThere, WritesInOrder, LeaseIsYoungest,
       CompletionsWereApplied, FailuresAreLifted, Held, Leased, Noticed, NoWriteWithin, WriteAt
  <1> QED BY <1>1, <1>2, <1>3 DEF Traffic

(* What travels between the threads keeps its order in every reachable      *)
(* state, for every number of tables and every queue limit.                 *)
THEOREM TrafficIsOrdered == Spec => []Traffic
  <1>1. Init => Traffic
    BY TrafficInit
  <1>2. Inv /\ Inv' /\ Traffic /\ [Next]_vars => Traffic'
    BY TimersStep, IdsStep, MessagesStep, CompletionStep, TrafficStutter DEF Traffic
  <1> QED BY <1>1, <1>2, Inductive, PTL DEF Spec

(* A dirty table never holds the id of a timer that has fired, so the       *)
(* acknowledgment of its flight re-arms it (index.ts:788).                  *)
THEOREM TimersStayFresh == Spec => []NoStaleTimer
  <1>1. Traffic => NoStaleTimer
    BY DEF Traffic, TimersAreFresh
  <1> QED BY <1>1, TrafficIsOrdered, PTL

(* An old failure never rejects a new flush: what the worker blocks is the  *)
(* operation in flight, or the notice that lifts the block comes before any *)
(* newer write (blockedByTable in persistenceWorker.worker.ts).             *)
THEOREM BlocksAreCurrent == Spec => []BlockIsCurrent
  <1>1. ASSUME TypeOK, Traffic
        PROVE  BlockIsCurrent
    <2>1. toWorker \in Seq(WorkerRequest)
      BY <1>1 DEF TypeOK, WorkerTypeOK
    <2>2. ASSUME NEW t \in Tables, NEW n, blockedByTable[t] = n, n # 0, Noticed(t, n, 0)
          PROVE  \E i \in DOMAIN toWorker :
                   /\ toWorker[i] = [type |-> "reconciled", table |-> t, operationId |-> n]
                   /\ \A j \in 1 .. i - 1 : ~(toWorker[j].type = "write" /\ toWorker[j].table = t)
      <3>1. PICK i \in DOMAIN toWorker :
              0 < i /\ toWorker[i] = Notice(t, n) /\ NoWriteWithin(0, i, t)
        BY <2>2 DEF Noticed
      <3>2. \A j \in 1 .. i - 1 : j \in DOMAIN toWorker /\ 0 < j /\ j < i
        BY <2>1
      <3>3. \A j \in 1 .. i - 1 : ~(toWorker[j].type = "write" /\ toWorker[j].table = t)
        BY <3>1, <3>2 DEF NoWriteWithin, WriteAt
      <3>4. Notice(t, n) = [type |-> "reconciled", table |-> t, operationId |-> n]
        BY DEF Notice
      <3> QED BY <3>1, <3>3, <3>4
    <2> QED BY <1>1, <2>2 DEF Traffic, Messages, FailuresAreLifted, Held, BlockIsCurrent
  <1> QED BY <1>1, TypeCorrect, TrafficIsOrdered, PTL

(* The worker never reports as complete what the journal does not hold as   *)
(* applied, so the completion of a leased operation can be acknowledged     *)
(* (acknowledgeAppliedOperation in persistenceWorker.ts).                   *)
THEOREM CompletionsAreDurable == Spec => []CompletionIsDurable
  <1>1. Traffic => CompletionIsDurable
    BY DEF Traffic
  <1> QED BY <1>1, TrafficIsOrdered, PTL

(* Operation ids complete in the order in which they were handed out, and   *)
(* none is handed out twice (index.ts:773-778).                             *)
THEOREM CompletionOrder == Spec => OperationsCompleteInOrder
  <1>1. ASSUME Inv, Traffic, [Next]_vars
        PROVE  [\A t \in Tables :
                  /\ running /\ running' => lastCompleted'[t] >= lastCompleted[t]
                  /\ InFlight(t)' /\ inFlightFlushes'[t] # inFlightFlushes[t] =>
                       /\ inFlightFlushes'[t].operationId > lastCompleted'[t]
                       /\ inFlightFlushes'[t].operationId >= nextOperationId]_vars
    BY <1>1, IdsStep DEF Traffic
  <1> QED BY <1>1, Inductive, TrafficIsOrdered, PTL DEF Spec, OperationsCompleteInOrder

================================================================================
