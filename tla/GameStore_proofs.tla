--------------------------- MODULE GameStore_proofs ----------------------------
(***************************************************************************)
(* For any sets of tables, rows and values and any bound on pending        *)
(* writes, faults and caller writes: every step of GameStore keeps TypeOK; *)
(* Inv is an inductive invariant, and the safety invariants TLC checks on  *)
(* small instances follow from it; and GameStore implements DurableStore.  *)
(***************************************************************************)
EXTENDS GameStore, TLAPS

--------------------------------------------------------------------------------
(* The operators on rows and batches. *)

(* Applying a batch to the rows of a table gives rows of a table. *)
LEMMA ApplyBatchType ==
    ASSUME NEW c \in Content, NEW b \in Batch
    PROVE  ApplyBatch(c, b) \in Content
  BY DEF ApplyBatch, Content, Batch

(* A batch may be applied twice: what a worker and a reconciliation, or two *)
(* recoveries, do to the same journal row.                                  *)
LEMMA ApplyBatchIdempotent ==
    ASSUME NEW c \in Content, NEW b \in Batch
    PROVE  ApplyBatch(ApplyBatch(c, b), b) = ApplyBatch(c, b)
  BY DEF ApplyBatch, Content, Batch

(* The empty batch changes nothing. *)
LEMMA ApplyNoBatch ==
    ASSUME NEW c \in Content
    PROVE  ApplyBatch(c, NoBatch) = c
  BY DEF ApplyBatch, Content, NoBatch

(* The empty batch and the empty proposals have their types. *)
LEMMA NoBatchType == NoBatch \in Batch /\ NoProposals \in [Tables -> Batch]
  BY DEF NoBatch, NoProposals, Batch

(* The views of the volatile state have the types of table contents. *)
LEMMA ViewTypes ==
    ASSUME TypeOK, NEW t \in Tables
    PROVE  /\ Snapshot(t) \in Content
           /\ Effective(t) \in Content
           /\ Recoverable(t) \in Content
           /\ FlushDiff(t) \in Batch
  <1>1. Snapshot(t) \in Content
    BY DEF TypeOK, Snapshot, Content
  <1>2. Effective(t) \in Content
    BY ApplyBatchType DEF TypeOK, Effective, InFlight, Flight
  <1>3. Recoverable(t) \in Content
    BY ApplyBatchType DEF TypeOK, JournalTypeOK, Recoverable, Journalled, Operation
  <1>4. FlushDiff(t) \in Batch
    BY <1>1 DEF FlushDiff, Batch, Content
  <1> QED BY <1>1, <1>2, <1>3, <1>4

--------------------------------------------------------------------------------
(* Type correctness. *)

(* A turn that starts or ends is a turn. *)
LEMMA TurnTypes ==
    ASSUME turn \in Turn, proposals \in [Tables -> Batch]
    PROVE  /\ NoTurn \in Turn
           /\ \A ok \in BOOLEAN :
                FinishTable(ok) => turn' \in Turn /\ proposals' \in [Tables -> Batch]
           /\ \A caller \in {"timer", "sync", "commit", "exit", "shutdown"},
                 step \in {"reconcile", "flush", "commit", "exit"},
                 t \in Tables \cup {NoTable}, rest \in SUBSET Tables :
                BeginFlush(caller, step, t, rest) => turn' \in Turn
           /\ \A caller \in {"exit", "shutdown"} :
                dirty \subseteq Tables /\ FlushAllSync(caller) => turn' \in Turn
  <1>1. NoTurn \in Turn
    BY DEF NoTurn, Turn
  <1>2. ASSUME NEW ok \in BOOLEAN, FinishTable(ok)
        PROVE  turn' \in Turn /\ proposals' \in [Tables -> Batch]
    BY <1>1, <1>2, NoBatchType DEF FinishTable, Turn
  <1>3. ASSUME NEW caller \in {"timer", "sync", "commit", "exit", "shutdown"},
               NEW step \in {"reconcile", "flush", "commit", "exit"},
               NEW t \in Tables \cup {NoTable}, NEW rest \in SUBSET Tables,
               BeginFlush(caller, step, t, rest)
        PROVE  turn' \in Turn
    BY <1>3 DEF BeginFlush, Turn
  <1>4. ASSUME NEW caller \in {"exit", "shutdown"}, dirty \subseteq Tables,
               FlushAllSync(caller)
        PROVE  turn' \in Turn
    <2>1. TablesToFlush \subseteq Tables
      BY <1>4 DEF TablesToFlush
    <2>2. CASE BeginFlush(caller, "exit", NoTable, {})
      BY <2>2 DEF BeginFlush, Turn
    <2>3. ASSUME NEW t \in TablesToFlush,
                 BeginFlush(caller, "reconcile", t, TablesToFlush \ {t})
          PROVE  turn' \in Turn
      BY <1>3, <2>1, <2>3
    <2> QED BY <1>4, <2>2, <2>3 DEF FlushAllSync
  <1> QED BY <1>1, <1>2, <1>3, <1>4

(* The transactions and the controller keep the types of their variables. *)
LEMMA JournalTypes ==
    ASSUME JournalTypeOK
    PROVE  /\ \A t \in Tables, b \in Batch :
                EnqueuePersistenceOperation(t, b) /\ faults' \in Nat => JournalTypeOK'
           /\ \A t \in Tables : \/ ApplyPersistenceOperation(t)
                               \/ AcknowledgePersistenceOperation(t)
                               \/ ReconcilePersistenceOperation(t)
                               => JournalTypeOK'
           /\ RecoverPersistenceOperations => JournalTypeOK'
           /\ \A p \in [Tables -> Batch] : ApplyAtomicChanges(p) => JournalTypeOK'
           /\ Fault => faults' \in Nat
           /\ TransactionFails => JournalTypeOK'
  <1>1. ASSUME NEW t \in Tables, NEW b \in Batch,
               EnqueuePersistenceOperation(t, b), faults' \in Nat
        PROVE  JournalTypeOK'
    BY <1>1 DEF EnqueuePersistenceOperation, JournalTypeOK, Operation
  <1>2. ASSUME NEW t \in Tables, Journalled(t)
        PROVE  outbox[t] \in Operation /\ ApplyBatch(rows[t], outbox[t].batch) \in Content
    BY <1>2, ApplyBatchType DEF Journalled, JournalTypeOK, Operation
  <1>3. ASSUME NEW t \in Tables, ApplyPersistenceOperation(t) PROVE JournalTypeOK'
    BY <1>2, <1>3 DEF ApplyPersistenceOperation, JournalTypeOK, Operation
  <1>4. ASSUME NEW t \in Tables, AcknowledgePersistenceOperation(t) PROVE JournalTypeOK'
    BY <1>4 DEF AcknowledgePersistenceOperation, JournalTypeOK
  <1>5. ASSUME NEW t \in Tables, ReconcilePersistenceOperation(t) PROVE JournalTypeOK'
    BY <1>2, <1>5 DEF ReconcilePersistenceOperation, JournalTypeOK
  <1>6. ASSUME RecoverPersistenceOperations PROVE JournalTypeOK'
    BY <1>2, <1>6 DEF RecoverPersistenceOperations, Recoverable, JournalTypeOK
  <1>7. ASSUME NEW p \in [Tables -> Batch], ApplyAtomicChanges(p) PROVE JournalTypeOK'
    BY <1>7, ApplyBatchType DEF ApplyAtomicChanges, JournalTypeOK
  <1>8. Fault => faults' \in Nat
    BY DEF Fault, JournalTypeOK
  <1>9. TransactionFails => JournalTypeOK'
    BY <1>8 DEF TransactionFails, JournalTypeOK, journalVars
  <1> QED BY <1>1, <1>3, <1>4, <1>5, <1>6, <1>7, <1>8, <1>9

(* The messages and leases of the protocol have their types. *)
LEMMA WorkerTypes ==
    ASSUME WorkerTypeOK, JournalTypeOK
    PROVE  /\ \A t \in Tables, id \in Nat : \/ SubmitRejected(t)
                                           \/ SubmitWrite(t, id)
                                           \/ WorkerNotCreated(t, id)
                                           => WorkerTypeOK'
           /\ \A t \in Tables : ReconcileLease(t) => WorkerTypeOK'
           /\ RecoverLeases \/ WorkerExitObserved \/ WorkerDies => WorkerTypeOK'
           /\ WorkerStep => WorkerTypeOK' /\ JournalTypeOK'
  <1>1. ASSUME NEW request \in WorkerRequest, Post(request)
        PROVE  toWorker' \in Seq(WorkerRequest)
    BY <1>1 DEF Post, WorkerTypeOK
  <1>2. ASSUME NEW type \in {"write-complete", "error"}, NEW request \in WorkerRequest,
               Reply(type, request)
        PROVE  toMain' \in Seq(WorkerReply)
    <2>1. [type |-> type, operationId |-> request.operationId,
           table |-> request.table] \in WorkerReply
      BY DEF WorkerReply, WorkerRequest
    <2> QED BY <1>2, <2>1 DEF Reply, WorkerTypeOK
  <1>3. ASSUME toWorker # <<>>
        PROVE  Head(toWorker) \in WorkerRequest /\ Tail(toWorker) \in Seq(WorkerRequest)
    BY <1>3 DEF WorkerTypeOK
  <1>4. ASSUME NEW t \in Tables, NEW id \in Nat,
               SubmitRejected(t) \/ SubmitWrite(t, id) \/ WorkerNotCreated(t, id)
        PROVE  WorkerTypeOK'
    <2>1. [type |-> "write", operationId |-> id, table |-> t] \in WorkerRequest
      BY DEF WorkerRequest
    <2>2. CASE SubmitRejected(t)
      BY <2>2 DEF SubmitRejected, workerVars, WorkerTypeOK
    <2>3. CASE SubmitWrite(t, id)
      BY <1>1, <2>1, <2>3 DEF SubmitWrite, WorkerTypeOK, Lease
    <2>4. CASE WorkerNotCreated(t, id)
      BY <2>4 DEF WorkerNotCreated, WorkerTypeOK, Lease
    <2> QED BY <1>4, <2>2, <2>3, <2>4
  <1>5. ASSUME NEW t \in Tables, ReconcileLease(t)
        PROVE  WorkerTypeOK'
    <2>1. CASE Leased(t) /\ leases[t].bound
      <3>1. [type |-> "reconciled", operationId |-> leases[t].operationId,
             table |-> t] \in WorkerRequest
        BY <2>1 DEF WorkerRequest, WorkerTypeOK, Leased, Lease
      <3> QED BY <1>1, <1>5, <2>1, <3>1 DEF ReconcileLease, WorkerTypeOK
    <2>2. CASE ~(Leased(t) /\ leases[t].bound)
      BY <1>5, <2>2 DEF ReconcileLease, WorkerTypeOK
    <2> QED BY <2>1, <2>2
  <1>6. RecoverLeases => WorkerTypeOK'
    BY DEF RecoverLeases, WorkerTypeOK
  <1>7. ASSUME WorkerExitObserved PROVE WorkerTypeOK'
    <2>1. ASSUME NEW t \in Tables, Leased(t)
          PROVE  [leases[t] EXCEPT !.bound = FALSE] \in Lease
      BY <2>1 DEF Leased, Lease, WorkerTypeOK
    <2> QED BY <1>7, <2>1 DEF WorkerExitObserved, WorkerTypeOK
  <1>8. WorkerDies => WorkerTypeOK'
    BY DEF WorkerDies, WorkerTypeOK
  <1>9. ASSUME WorkerAppliesWrite PROVE WorkerTypeOK' /\ JournalTypeOK'
    BY <1>2, <1>3, <1>9, JournalTypes
       DEF WorkerAppliesWrite, HasRequest, WorkerTypeOK, WorkerRequest, journalVars,
           JournalTypeOK
  <1>10. ASSUME WorkerRefusesWrite PROVE WorkerTypeOK' /\ JournalTypeOK'
    BY <1>2, <1>3, <1>10, JournalTypes
       DEF WorkerRefusesWrite, HasRequest, WorkerTypeOK, WorkerRequest, journalVars,
           JournalTypeOK
  <1>11. ASSUME WorkerReconciled PROVE WorkerTypeOK' /\ JournalTypeOK'
    BY <1>3, <1>11
       DEF WorkerReconciled, HasRequest, WorkerTypeOK, journalVars, JournalTypeOK
  <1> QED BY <1>4, <1>5, <1>6, <1>7, <1>8, <1>9, <1>10, <1>11 DEF WorkerStep

(* Variables left alone keep their types. *)
LEMMA UnchangedTypes ==
    /\ WorkerTypeOK /\ UNCHANGED workerVars => WorkerTypeOK'
    /\ JournalTypeOK /\ UNCHANGED storeVars => JournalTypeOK'
  BY DEF WorkerTypeOK, workerVars, JournalTypeOK, storeVars, journalVars

(* The initial state is well typed. *)
LEMMA InitType == Init => TypeOK
  <1> SUFFICES ASSUME Init PROVE TypeOK
    OBVIOUS
  <1>1. JournalTypeOK
    BY DEF Init, JournalInit, JournalTypeOK
  <1>2. WorkerTypeOK
    BY DEF Init, Offline, WorkerInit, WorkerTypeOK
  <1>3. turn \in Turn
    BY DEF Init, Offline, NoTurn, Turn
  <1>4. cache \in [Tables -> Content] /\ flushBaselines \in [Tables -> Content]
    BY DEF Init, Offline, Content
  <1> QED BY <1>1, <1>2, <1>3, <1>4, NoBatchType DEF Init, Offline, TypeOK

(* Callers keep the types. *)
LEMMA CallerTypes ==
    ASSUME TypeOK, CallerStep
    PROVE  TypeOK'
  <1> USE UnchangedTypes, GameStoreAssumption DEF TypeOK
  <1>1. ASSUME NEW t \in Tables, NEW r \in Rows, NEW v \in Values, WriteRow(t, r, v)
        PROVE  TypeOK'
    BY <1>1 DEF WriteRow, CountWrite, MarkRowDirty, ScheduleFlush, Content, processVars, turnVars
  <1>2. ASSUME NEW t \in Tables, NEW r \in Rows, NEW v \in Values,
               WriteTransientRow(t, r, v)
        PROVE  TypeOK'
    <2>1. CASE cache[t][r] = v
      BY <1>2, <2>1
         DEF WriteTransientRow, CountWrite, flushVars, processVars, turnVars
    <2>2. CASE cache[t][r] # v
      <3>1. /\ transientPaths' = [transientPaths EXCEPT ![t] = @ \cup {r}]
            /\ cache' = [cache EXCEPT ![t][r] = v]
            /\ MarkRowDirty(t, r)
            /\ ScheduleFlush(t)
            /\ CountWrite
            /\ UNCHANGED <<storeVars, workerVars, processVars, turnVars>>
        BY <1>2, <2>2 DEF WriteTransientRow
      <3> QED BY <3>1 DEF CountWrite, MarkRowDirty, ScheduleFlush, Content,
                          processVars, turnVars
    <2> QED BY <2>1, <2>2
  <1>3. ASSUME NEW t \in Tables, NEW r \in Rows, RemoveRow(t, r)
        PROVE  TypeOK'
    BY <1>3 DEF RemoveRow, CountWrite, MarkRowDirty, ScheduleFlush, Content, processVars, turnVars
  <1>4. ASSUME NEW t \in Tables, NEW r \in Rows, SetTransientPath(t, r)
        PROVE  TypeOK'
    BY <1>4 DEF SetTransientPath, flushVars, processVars, turnVars
  <1>5. ASSUME NEW t \in Tables, NEW content \in RootContents, WriteRoot(t, content)
        PROVE  TypeOK'
    BY <1>5 DEF WriteRoot, CountWrite, MarkTableDirty, ScheduleFlush, processVars, turnVars
  <1>6. ASSUME NEW t \in Tables, FlushTableSync(t)
        PROVE  TypeOK'
    BY <1>6, TurnTypes DEF FlushTableSync, cacheVars, flushVars, processVars
  <1>7. ASSUME NEW batches \in AtomicCommits, CommitAtomicRowWrites(batches)
        PROVE  TypeOK'
    BY <1>7, TurnTypes
       DEF CommitAtomicRowWrites, TouchedTables, CountWrite, cacheVars, flushVars, processVars
  <1> QED BY <1>1, <1>2, <1>3, <1>4, <1>5, <1>6, <1>7 DEF CallerStep

(* Timers keep the types. *)
LEMMA TimerTypes ==
    ASSUME TypeOK, TimerStep
    PROVE  TypeOK'
  <1> USE UnchangedTypes DEF TypeOK
  <1>1. ASSUME NEW t \in Tables, TimerFires(t)
        PROVE  TypeOK'
    BY <1>1, TurnTypes DEF TimerFires, cacheVars, processVars
  <1>2. ASSUME NEW t \in Tables, TimerFiresClean(t)
        PROVE  TypeOK'
    BY <1>2 DEF TimerFiresClean, cacheVars, processVars, turnVars
  <1> QED BY <1>1, <1>2 DEF TimerStep

(* Journalling and retiring a flight keep the types of the flush state. *)
LEMMA FlushTypes ==
    ASSUME TypeOK, NEW t \in Tables
    PROVE  /\ AdvanceFlushBaseline(t) /\ InFlight(t) =>
                /\ flushBaselines' \in [Tables -> Content]
                /\ inFlightFlushes' \in [Tables -> Flight \cup {NoOperation}]
           /\ JournalFlush(t) =>
                /\ inFlightFlushes' \in [Tables -> Flight \cup {NoOperation}]
                /\ dirtyRowKeys' \in [Tables -> SUBSET Rows]
                /\ fullDirty' \subseteq Tables
                /\ faults' \in Nat => JournalTypeOK'
           /\ UseWorker \in BOOLEAN
           /\ DirtyAfterFlush(t) \subseteq Tables
           /\ \A u \in Tables : Rearmed(u) \in {"none", "armed", "fired"}
  <1>1. AdvanceFlushBaseline(t) /\ InFlight(t) =>
          /\ flushBaselines' \in [Tables -> Content]
          /\ inFlightFlushes' \in [Tables -> Flight \cup {NoOperation}]
    BY ApplyBatchType DEF AdvanceFlushBaseline, InFlight, TypeOK, Flight
  <1>2. UseWorker \in BOOLEAN
    BY GameStoreAssumption DEF UseWorker
  <1>3. ASSUME JournalFlush(t)
        PROVE  /\ inFlightFlushes' \in [Tables -> Flight \cup {NoOperation}]
               /\ dirtyRowKeys' \in [Tables -> SUBSET Rows]
               /\ fullDirty' \subseteq Tables
               /\ faults' \in Nat => JournalTypeOK'
    <2>1. inFlightFlushes' \in [Tables -> Flight \cup {NoOperation}]
      BY <1>2, <1>3, ViewTypes DEF JournalFlush, TypeOK, JournalTypeOK, Flight
    <2>2. dirtyRowKeys' \in [Tables -> SUBSET Rows] /\ fullDirty' \subseteq Tables
      BY <1>3 DEF JournalFlush, ClearDirtyRows, TypeOK
    <2>3. faults' \in Nat => JournalTypeOK'
      BY <1>3, ViewTypes, JournalTypes DEF JournalFlush, TypeOK
    <2> QED BY <2>1, <2>2, <2>3
  <1>4. DirtyAfterFlush(t) \subseteq Tables
    BY DEF DirtyAfterFlush, TypeOK
  <1>5. \A u \in Tables : Rearmed(u) \in {"none", "armed", "fired"}
    BY DEF Rearmed, TypeOK
  <1> QED BY <1>1, <1>2, <1>3, <1>4, <1>5

(* The steps of a flush keep the types. *)
LEMMA FlushStepTypes ==
    ASSUME TypeOK, TurnIsWellFormed, TurnOwnsItsFlight, FlushStep
    PROVE  TypeOK'
  <1> DEFINE t == turn.table
  <1>t. turn.step \in {"reconcile", "flush", "settle"} => t \in Tables
    BY DEF TurnIsWellFormed
  <1>f. \A ok \in BOOLEAN : FinishTable(ok) => turn' \in Turn /\ proposals' \in [Tables -> Batch]
    BY TurnTypes DEF TypeOK
  <1>0. \A step \in {"flush", "settle"} : [turn EXCEPT !.step = step] \in Turn
    BY DEF TypeOK, Turn
  <1> USE UnchangedTypes DEF TypeOK
  <1> HIDE DEF t
  <1>1. ASSUME FlushReconcile PROVE TypeOK'
    <2>1. t \in Tables
      BY <1>1, <1>t DEF FlushReconcile
    <2>2. turn' \in Turn /\ proposals' \in [Tables -> Batch]
      BY <1>1, <1>f, <1>0, <2>1 DEF FlushReconcile
    <2>3. CASE InFlight(t)
      <3>1. JournalTypeOK' /\ WorkerTypeOK'
        BY <1>1, <2>1, <2>3, JournalTypes, WorkerTypes DEF FlushReconcile, t
      <3>2. /\ flushBaselines' \in [Tables -> Content]
            /\ inFlightFlushes' \in [Tables -> Flight \cup {NoOperation}]
        BY <1>1, <2>1, <2>3, FlushTypes DEF FlushReconcile, t
      <3>3. inFlightFlushes[t].operationId \in Nat
        BY <2>1, <2>3 DEF InFlight, Flight
      <3> QED BY <1>1, <2>1, <2>2, <2>3, <3>1, <3>2, <3>3
              DEF FlushReconcile, cacheVars, processVars, t
    <2>4. CASE ~InFlight(t)
      BY <1>1, <2>1, <2>2, <2>4 DEF FlushReconcile, cacheVars, processVars, t
    <2> QED BY <2>3, <2>4
  <1>2. ASSUME FlushRecover PROVE TypeOK'
    <2>1. JournalTypeOK' /\ WorkerTypeOK'
      BY <1>2, JournalTypes, WorkerTypes DEF FlushRecover
    <2>2. \A u \in Tables : Journalled(u) => outbox[u].operationId \in Nat
      BY DEF Journalled, JournalTypeOK, Operation
    <2>3. \A u \in Tables : Effective(u) \in Content /\ Rearmed(u) \in {"none", "armed", "fired"}
      BY ViewTypes, FlushTypes
    <2> QED BY <1>2, <2>1, <2>2, <2>3 DEF FlushRecover, cacheVars, processVars, turnVars
  <1>3. ASSUME NEW u \in Tables, FlushFindsFlight(u) PROVE TypeOK'
    BY <1>3, <1>f DEF FlushFindsFlight, cacheVars, processVars
  <1>4. ASSUME NEW u \in Tables, FlushFindsNothing(u) PROVE TypeOK'
    BY <1>4, <1>f, FlushTypes DEF FlushFindsNothing, ClearDirtyRows, processVars
  <1>5. ASSUME NEW u \in Tables, FlushSubmits(u) PROVE TypeOK'
    <2>1. turn' \in Turn /\ proposals' \in [Tables -> Batch]
      BY <1>5, <1>f DEF FlushSubmits
    <2>2. WorkerTypeOK'
      BY <1>5, WorkerTypes DEF FlushSubmits, JournalTypeOK
    <2>3. JournalTypeOK'
      BY <1>5, FlushTypes DEF FlushSubmits, JournalTypeOK
    <2> QED BY <1>5, <2>1, <2>2, <2>3, FlushTypes
            DEF FlushSubmits, JournalFlush, ClearDirtyRows, processVars
  <1>6. ASSUME NEW u \in Tables, FlushSubmitFails(u) PROVE TypeOK'
    <2>1. turn' \in Turn /\ proposals' \in [Tables -> Batch]
      BY <1>6, <1>f DEF FlushSubmitFails, FlushThrows
    <2>2. WorkerTypeOK'
      BY <1>6, WorkerTypes DEF FlushSubmitFails, JournalTypeOK
    <2>3. JournalTypeOK'
      BY <1>6, FlushTypes DEF FlushSubmitFails, JournalTypeOK, Fault
    <2> QED BY <1>6, <2>1, <2>2, <2>3, FlushTypes
            DEF FlushSubmitFails, FlushThrows, JournalFlush, ClearDirtyRows, processVars
  <1>7. ASSUME NEW u \in Tables, FlushJournals(u) PROVE TypeOK'
    <2>1. JournalTypeOK'
      BY <1>7, FlushTypes DEF FlushJournals, JournalTypeOK
    <2> QED BY <1>7, <1>0, <2>1, FlushTypes
            DEF FlushJournals, JournalFlush, ClearDirtyRows, processVars
  <1>8. ASSUME FlushSettles PROVE TypeOK'
    <2>1. t \in Tables /\ InFlight(t)
      BY <1>8, <1>t DEF FlushSettles, TurnOwnsItsFlight, t
    <2>2. JournalTypeOK'
      BY <1>8, <2>1, JournalTypes DEF FlushSettles, t
    <2>3. turn' \in Turn /\ proposals' \in [Tables -> Batch]
      BY <1>8, <1>f DEF FlushSettles
    <2> QED BY <1>8, <2>1, <2>2, <2>3, FlushTypes DEF FlushSettles, cacheVars, processVars, t
  <1>9. ASSUME CommitApplies PROVE TypeOK'
    <2>1. JournalTypeOK'
      BY <1>9, JournalTypes DEF CommitApplies
    <2>2. NoTurn \in Turn
      BY TurnTypes
    <2> QED BY <1>9, <2>1, <2>2, NoBatchType, ApplyBatchType DEF CommitApplies, processVars
  <1> QED BY <1>1, <1>2, <1>3, <1>4, <1>5, <1>6, <1>7, <1>8, <1>9 DEF FlushStep

(* A flush that fails keeps the types. *)
LEMMA FlushFailureTypes ==
    ASSUME TypeOK, TurnIsWellFormed, FlushFailure
    PROVE  TypeOK'
  <1>t. turn.step \in {"reconcile", "flush", "settle"} => turn.table \in Tables
    BY DEF TurnIsWellFormed
  <1>f. ASSUME NEW t \in Tables, FlushThrows(t)
        PROVE  /\ dirty' \subseteq Tables
               /\ turn' \in Turn /\ proposals' \in [Tables -> Batch]
    BY <1>f, TurnTypes DEF FlushThrows, TypeOK
  <1>j. TransactionFails => JournalTypeOK'
    BY JournalTypes DEF TypeOK
  <1> USE UnchangedTypes DEF TypeOK
  <1>1. ASSUME FlushReconcileFails PROVE TypeOK'
    BY <1>1, <1>t, <1>f, <1>j DEF FlushReconcileFails, cacheVars, processVars
  <1>2. ASSUME FlushRecoverFails PROVE TypeOK'
    BY <1>2, <1>t, <1>f, <1>j DEF FlushRecoverFails, cacheVars, processVars
  <1>3. ASSUME NEW t \in Tables, FlushJournalFails(t) PROVE TypeOK'
    BY <1>3, <1>f, <1>j DEF FlushJournalFails, cacheVars, processVars
  <1>4. ASSUME FlushSettleFails PROVE TypeOK'
    BY <1>4, <1>t, <1>f, <1>j DEF FlushSettleFails, cacheVars, processVars
  <1>5. ASSUME CommitFails PROVE TypeOK'
    BY <1>5, <1>j, TurnTypes, NoBatchType
       DEF CommitFails, cacheVars, flushVars, processVars
  <1> QED BY <1>1, <1>2, <1>3, <1>4, <1>5 DEF FlushFailure

(* Replies, the worker thread and its death keep the types. *)
LEMMA WorkerSideTypes ==
    ASSUME TypeOK, ReplyStep \/ WorkerThread \/ WorkerCrashes
    PROVE  TypeOK'
  <1>r. toMain # <<>> =>
          Head(toMain) \in WorkerReply /\ Tail(toMain) \in Seq(WorkerReply)
    BY DEF TypeOK, WorkerTypeOK
  <1> USE UnchangedTypes DEF TypeOK
  <1>1. ASSUME WriteAcknowledged PROVE TypeOK'
    <2> DEFINE reply == Head(toMain)
               t == reply.table
    <2>1. reply \in WorkerReply /\ Tail(toMain) \in Seq(WorkerReply)
      BY <1>1, <1>r DEF WriteAcknowledged, HasReply
    <2>2. t \in Tables /\ reply.operationId \in Nat
      BY <2>1 DEF WorkerReply
    <2>3. /\ AcknowledgePersistenceOperation(t)
          /\ FinishLease(t)
          /\ InFlight(t)
          /\ AdvanceFlushBaseline(t)
          /\ lastCompleted' = [lastCompleted EXCEPT ![t] = reply.operationId]
          /\ flushTimers' = [flushTimers EXCEPT ![t] = Rearmed(t)]
          /\ toMain' = Tail(toMain)
          /\ UNCHANGED <<dirty, cacheVars, processVars, turnVars, writes>>
      BY <1>1 DEF WriteAcknowledged
    <2> HIDE DEF t, reply
    <2>4. JournalTypeOK'
      BY <2>2, <2>3, JournalTypes
    <2>5. WorkerTypeOK'
      BY <2>1, <2>2, <2>3 DEF FinishLease, WorkerTypeOK
    <2> QED BY <2>2, <2>3, <2>4, <2>5, FlushTypes DEF cacheVars, processVars, turnVars
  <1>2. ASSUME WriteCompleteIgnored PROVE TypeOK'
    <2>1. JournalTypeOK'
      BY <1>2, JournalTypes DEF WriteCompleteIgnored
    <2>2. WorkerTypeOK'
      BY <1>2, <1>r DEF WriteCompleteIgnored, HasReply, WorkerTypeOK
    <2> QED BY <1>2, <2>1, <2>2
            DEF WriteCompleteIgnored, cacheVars, flushVars, processVars, turnVars
  <1>3. ASSUME WriteErrorReported PROVE TypeOK'
    <2>1. WorkerTypeOK'
      BY <1>3, <1>r DEF WriteErrorReported, HasReply, WorkerTypeOK
    <2> QED BY <1>3, <2>1
            DEF WriteErrorReported, cacheVars, flushVars, processVars, turnVars
  <1>4. ASSUME WorkerExits PROVE TypeOK'
    BY <1>4, WorkerTypes DEF WorkerExits, cacheVars, flushVars, processVars, turnVars
  <1>5. ASSUME WorkerThread PROVE TypeOK'
    BY <1>5, WorkerTypes DEF WorkerThread, cacheVars, flushVars, processVars, turnVars
  <1>6. ASSUME WorkerCrashes PROVE TypeOK'
    <2>1. JournalTypeOK'
      BY <1>6, JournalTypes DEF WorkerCrashes, WorkerDies, journalVars, JournalTypeOK
    <2> QED BY <1>6, <2>1, WorkerTypes
            DEF WorkerCrashes, cacheVars, flushVars, processVars, turnVars
  <1> QED BY <1>1, <1>2, <1>3, <1>4, <1>5, <1>6 DEF ReplyStep

(* The end and the start of the process keep the types. *)
LEMMA ProcessTypes ==
    ASSUME TypeOK, ProcessStep
    PROVE  TypeOK'
  <1>e. \A t \in Tables : [r \in Rows |-> NoRow] \in Content
    BY DEF Content
  <1>g. GoOffline => WorkerTypeOK'
    BY DEF GoOffline, WorkerTypeOK
  <1> USE UnchangedTypes DEF TypeOK
  <1>1. ASSUME ShutdownSignal PROVE TypeOK'
    BY <1>1, TurnTypes DEF ShutdownSignal, cacheVars, flushVars
  <1>2. ASSUME ProcessExit PROVE TypeOK'
    <2>1. turn' \in Turn
      BY <1>2 DEF ProcessExit, BeginFlush, Turn
    <2> QED BY <1>2, <2>1 DEF ProcessExit, cacheVars, flushVars, processVars
  <1>3. ASSUME ExitHandlerFlushes PROVE TypeOK'
    BY <1>3, TurnTypes DEF ExitHandlerFlushes, cacheVars, flushVars
  <1>4. ASSUME GoOffline, JournalTypeOK', writes' \in Nat PROVE TypeOK'
    <2>1. cache' \in [Tables -> Content] /\ flushBaselines' \in [Tables -> Content]
      BY <1>4, <1>e DEF GoOffline
    <2>2. turn' \in Turn /\ proposals' \in [Tables -> Batch]
      BY <1>4, TurnTypes, NoBatchType DEF GoOffline
    <2> QED BY <1>4, <1>g, <2>1, <2>2 DEF GoOffline
  <1>5. ASSUME ProcessEnds PROVE TypeOK'
    BY <1>4, <1>5 DEF ProcessEnds
  <1>6. ASSUME ProcessCrashes PROVE TypeOK'
    <2>1. JournalTypeOK'
      BY <1>6, JournalTypes DEF ProcessCrashes, journalVars, JournalTypeOK
    <2> QED BY <1>4, <1>6, <2>1 DEF ProcessCrashes
  <1>7. ASSUME ProcessStarts PROVE TypeOK'
    <2>1. JournalTypeOK'
      BY <1>7, JournalTypes DEF ProcessStarts
    <2>2. rows' \in [Tables -> Content]
      BY <2>1 DEF JournalTypeOK
    <2> QED BY <1>7, <2>1, <2>2 DEF ProcessStarts, turnVars
  <1> QED BY <1>1, <1>2, <1>3, <1>5, <1>6, <1>7 DEF ProcessStep

(* A stuttering step keeps the types, and so does every step of Next. *)
LEMMA NextTypes ==
    ASSUME TypeOK, TurnIsWellFormed, TurnOwnsItsFlight, [Next]_vars
    PROVE  TypeOK'
  <1>1. CASE UNCHANGED vars
    BY <1>1, UnchangedTypes
       DEF vars, TypeOK, cacheVars, flushVars, processVars, turnVars
  <1>2. CASE Next
    BY <1>2, CallerTypes, TimerTypes, FlushStepTypes, FlushFailureTypes,
       WorkerSideTypes, ProcessTypes DEF Next
  <1> QED BY <1>1, <1>2

--------------------------------------------------------------------------------
(* The flights and the journal.  Each lemma is about one SQLite transaction *)
(* together with what the cache layer records of it.                        *)

FlightsUnchanged ==
    UNCHANGED <<rows, outbox, nextOperationId, flushBaselines, inFlightFlushes>>

EffectiveUnchanged == \A t \in Tables : Effective(t)' = Effective(t)

(* While the process runs, a restart would load what the baseline will be   *)
(* once the flight has landed.                                              *)
LEMMA RecoverableIsEffective ==
    ASSUME TypeOK, FlightMatchesJournal, running, NEW t \in Tables
    PROVE  Recoverable(t) = Effective(t)
  <1>1. CASE InFlight(t)
    <2>1. inFlightFlushes[t].batch \in Batch /\ flushBaselines[t] \in Content
      BY <1>1 DEF InFlight, TypeOK, Flight
    <2> QED BY <1>1, <2>1, ApplyBatchIdempotent
            DEF FlightMatchesJournal, Recoverable, Effective
  <1>2. CASE ~InFlight(t)
    BY <1>2 DEF FlightMatchesJournal, Recoverable, Effective
  <1> QED BY <1>1, <1>2

(* A step that leaves journal and flights alone. *)
LEMMA QuietFlights ==
    ASSUME FlightMatchesJournal, FlightsUnchanged, running' => running
    PROVE  FlightMatchesJournal' /\ EffectiveUnchanged
  BY DEF FlightMatchesJournal, FlightsUnchanged, EffectiveUnchanged, Effective,
         InFlight, Journalled

(* A reconciliation or an acknowledgment retires a flight. *)
LEMMA RetiredFlight ==
    ASSUME TypeOK, FlightMatchesJournal, running, running' = running,
           NEW t \in Tables, InFlight(t), AdvanceFlushBaseline(t),
           \/ ReconcilePersistenceOperation(t)
           \/ AcknowledgePersistenceOperation(t)
    PROVE  /\ FlightMatchesJournal'
           /\ EffectiveUnchanged
           /\ ~InFlight(t)'
           /\ \A u \in Tables \ {t} : inFlightFlushes'[u] = inFlightFlushes[u]
  <1>1. inFlightFlushes[t].batch \in Batch /\ flushBaselines[t] \in Content
    BY DEF InFlight, TypeOK, Flight
  <1>2. /\ rows' \in [Tables -> Content] /\ outbox'[t] = NoOperation
        /\ rows'[t] = Effective(t)
        /\ \A u \in Tables \ {t} : rows'[u] = rows[u] /\ outbox'[u] = outbox[u]
    <2>1. CASE ReconcilePersistenceOperation(t)
      BY <1>1, <2>1, ApplyBatchIdempotent, ApplyBatchType
         DEF ReconcilePersistenceOperation, FlightMatchesJournal, Effective, TypeOK,
             JournalTypeOK
    <2>2. CASE AcknowledgePersistenceOperation(t)
      BY <2>2 DEF AcknowledgePersistenceOperation, FlightMatchesJournal, TypeOK, JournalTypeOK
    <2> QED BY <2>1, <2>2
  <1>3. /\ inFlightFlushes'[t] = NoOperation
        /\ flushBaselines'[t] = Effective(t)
        /\ \A u \in Tables \ {t} : /\ inFlightFlushes'[u] = inFlightFlushes[u]
                                   /\ flushBaselines'[u] = flushBaselines[u]
    BY DEF AdvanceFlushBaseline, Effective, TypeOK
  <1> QED BY <1>2, <1>3
          DEF FlightMatchesJournal, EffectiveUnchanged, Effective, InFlight, Journalled

(* The worker applies a journalled operation, for the first time or again. *)
LEMMA AppliedFlight ==
    ASSUME TypeOK, FlightMatchesJournal, running, running' = running,
           NEW t \in Tables, ApplyPersistenceOperation(t),
           UNCHANGED <<flushBaselines, inFlightFlushes>>
    PROVE  FlightMatchesJournal' /\ EffectiveUnchanged
  <1>1. EffectiveUnchanged
    BY DEF EffectiveUnchanged, Effective, InFlight
  <1>2. InFlight(t) /\ inFlightFlushes[t].batch \in Batch /\ flushBaselines[t] \in Content
    BY DEF ApplyPersistenceOperation, FlightMatchesJournal, InFlight, TypeOK, Flight
  <1>3. rows'[t] = Effective(t)
    BY <1>2, ApplyBatchIdempotent
       DEF ApplyPersistenceOperation, FlightMatchesJournal, Effective, TypeOK, JournalTypeOK
  <1>4. /\ outbox'[t].operationId = outbox[t].operationId
        /\ outbox'[t].batch = outbox[t].batch
        /\ outbox'[t].state = "applied"
        /\ outbox'[t] # NoOperation
    BY OperationAssumption
       DEF ApplyPersistenceOperation, Journalled, TypeOK, JournalTypeOK, Operation
  <1>5. \A u \in Tables \ {t} : rows'[u] = rows[u] /\ outbox'[u] = outbox[u]
    BY DEF ApplyPersistenceOperation, TypeOK, JournalTypeOK
  <1> QED BY <1>1, <1>2, <1>3, <1>4, <1>5
          DEF FlightMatchesJournal, EffectiveUnchanged, Effective, InFlight, Journalled

(* A replay of the whole journal retires every flight. *)
LEMMA RecoveredFlights ==
    ASSUME TypeOK, FlightMatchesJournal, running, FlushRecover
    PROVE  /\ FlightMatchesJournal'
           /\ EffectiveUnchanged
           /\ \A t \in Tables : ~InFlight(t)'
  <1>1. \A t \in Tables : InFlight(t) <=> Journalled(t)
    BY DEF FlightMatchesJournal
  <1>2. ASSUME NEW t \in Tables
        PROVE  /\ rows'[t] = Effective(t)
               /\ flushBaselines'[t] = Effective(t)
               /\ outbox'[t] = NoOperation
               /\ inFlightFlushes'[t] = NoOperation
    BY <1>1, RecoverableIsEffective
       DEF FlushRecover, RecoverPersistenceOperations, Effective, InFlight
  <1>3. running'
    BY DEF FlushRecover, processVars
  <1> QED BY <1>2, <1>3
          DEF FlightMatchesJournal, EffectiveUnchanged, Effective, InFlight, Journalled

(* A flush diff, partial or full, is the whole difference between the cache *)
(* and the baseline.                                                        *)
LEMMA FlushDiffIsWhole ==
    ASSUME TypeOK, DirtyRowsCovered, NEW t \in Tables, ~InFlight(t)
    PROVE  ApplyBatch(flushBaselines[t], FlushDiff(t)) = Snapshot(t)
  <1>1. Snapshot(t) \in Content /\ flushBaselines[t] \in Content
    BY ViewTypes DEF TypeOK
  <1>2. Effective(t) = flushBaselines[t]
    BY DEF Effective
  <1>3. ASSUME NEW r \in Rows, r \notin DiffedRows(t)
        PROVE  Snapshot(t)[r] = flushBaselines[t][r]
    BY <1>2, <1>3 DEF DiffedRows, UsePartial, DirtyRowsCovered
  <1>4. ASSUME NEW r \in Rows
        PROVE  ApplyBatch(flushBaselines[t], FlushDiff(t))[r] = Snapshot(t)[r]
    <2>1. Snapshot(t)[r] # Untouched
      BY <1>1, RowAssumption DEF Content
    <2> QED BY <1>3, <2>1 DEF ApplyBatch, FlushDiff
  <1> QED BY <1>1, <1>4 DEF ApplyBatch, Content

(* So a flush that finds nothing to write leaves the table clean, *)
LEMMA NothingToFlush ==
    ASSUME TypeOK, DirtyRowsCovered, NEW t \in Tables, ~InFlight(t),
           FlushDiff(t) = NoBatch
    PROVE  Effective(t) = Snapshot(t)
  <1>1. flushBaselines[t] \in Content
    BY DEF TypeOK
  <1> QED BY <1>1, FlushDiffIsWhole, ApplyNoBatch DEF Effective

(* and one that journals its diff makes the snapshot recoverable at once.   *)
LEMMA JournalledFlight ==
    ASSUME TypeOK, FlightMatchesJournal, DirtyRowsCovered, running, running' = running,
           NEW t \in Tables, JournalFlush(t)
    PROVE  /\ FlightMatchesJournal'
           /\ Effective(t)' = Snapshot(t)
           /\ InFlight(t)'
           /\ inFlightFlushes'[t].operationId = nextOperationId
           /\ inFlightFlushes'[t].submittedToWorker = UseWorker
           /\ \A u \in Tables \ {t} : /\ Effective(u)' = Effective(u)
                                      /\ inFlightFlushes'[u] = inFlightFlushes[u]
  <1> DEFINE flight == [operationId |-> nextOperationId, batch |-> FlushDiff(t),
                        submittedToWorker |-> UseWorker]
  <1>1. flight \in Flight /\ flight # NoOperation
    BY ViewTypes, FlushTypes, FlightAssumption DEF Flight, TypeOK, JournalTypeOK
  <1>2. /\ inFlightFlushes'[t] = flight
        /\ \A u \in Tables \ {t} : inFlightFlushes'[u] = inFlightFlushes[u]
        /\ flushBaselines' = flushBaselines
    BY DEF JournalFlush, TypeOK
  <1>3. /\ rows' = rows
        /\ outbox'[t] = [operationId |-> nextOperationId, batch |-> FlushDiff(t),
                         state |-> "pending"]
        /\ \A u \in Tables \ {t} : outbox'[u] = outbox[u]
    BY DEF JournalFlush, EnqueuePersistenceOperation, TypeOK, JournalTypeOK
  <1>4. outbox'[t] # NoOperation
    <2>1. [operationId |-> nextOperationId, batch |-> FlushDiff(t),
           state |-> "pending"] \in Operation
      BY ViewTypes DEF Operation, TypeOK, JournalTypeOK
    <2> QED BY <1>3, <2>1, OperationAssumption
  <1>5. Effective(t)' = Snapshot(t)
    <2>1. ~InFlight(t)
      BY DEF JournalFlush
    <2> QED BY <1>1, <1>2, <2>1, FlushDiffIsWhole DEF Effective, InFlight
  <1>6. \A u \in Tables \ {t} : Effective(u)' = Effective(u)
    BY <1>2 DEF Effective, InFlight
  <1>7. rows[t] = flushBaselines[t]
    BY DEF JournalFlush, FlightMatchesJournal
  <1>8. FlightMatchesJournal'
    BY <1>1, <1>2, <1>3, <1>4, <1>6, <1>7
       DEF FlightMatchesJournal, InFlight, Journalled
  <1> QED BY <1>1, <1>2, <1>5, <1>6, <1>8 DEF InFlight

(* An atomic commit changes rows and baseline of its tables alike. *)
LEMMA CommittedFlights ==
    ASSUME TypeOK, FlightMatchesJournal, CommitFindsNothingOlder, CommitApplies
    PROVE  /\ FlightMatchesJournal'
           /\ \A t \in Tables : Effective(t)' = ApplyBatch(Effective(t), proposals[t])
  <1>1. \A t \in Tables : proposals[t] \in Batch /\ flushBaselines[t] \in Content
                          /\ Effective(t) \in Content /\ rows[t] \in Content
    BY ViewTypes DEF TypeOK, JournalTypeOK
  <1>2. ASSUME NEW t \in Tables
        PROVE  /\ rows'[t] = ApplyBatch(rows[t], proposals[t])
               /\ outbox'[t] = outbox[t]
               /\ flushBaselines'[t] = ApplyBatch(flushBaselines[t], proposals[t])
               /\ inFlightFlushes'[t] = inFlightFlushes[t]
               /\ running /\ running'
    BY DEF CommitApplies, ApplyAtomicChanges, processVars
  <1>3. ASSUME NEW t \in Tables, t \in TouchedTables(proposals)
        PROVE  ~InFlight(t) /\ ~Journalled(t)
    BY <1>3 DEF CommitFindsNothingOlder, CommitApplies
  <1>4. ASSUME NEW t \in Tables, t \notin TouchedTables(proposals)
        PROVE  \A c \in Content : ApplyBatch(c, proposals[t]) = c
    BY <1>4, ApplyNoBatch DEF TouchedTables
  <1>5. \A t \in Tables : Effective(t)' = ApplyBatch(Effective(t), proposals[t])
    BY <1>1, <1>2, <1>3, <1>4 DEF Effective, InFlight
  <1>6. FlightMatchesJournal'
    BY <1>1, <1>2, <1>3, <1>4, <1>5
       DEF FlightMatchesJournal, Effective, InFlight, Journalled
  <1> QED BY <1>5, <1>6

--------------------------------------------------------------------------------
(* What each step does to flights and journal. *)

(* Caller writes, timers, failed flushes, replies that settle nothing and   *)
(* the start of a shutdown leave journal, flights and baselines alone.      *)
LEMMA QuietSteps ==
    ASSUME \/ CallerStep \/ TimerStep \/ FlushFailure
           \/ WriteCompleteIgnored \/ WriteErrorReported \/ WorkerExits
           \/ WorkerCrashes
           \/ ShutdownSignal \/ ProcessExit \/ ExitHandlerFlushes
           \/ \E t \in Tables : FlushFindsFlight(t) \/ FlushFindsNothing(t)
    PROVE  running /\ running' = running /\ FlightsUnchanged
  <1> USE DEF FlightsUnchanged, storeVars, journalVars, flushVars, processVars, Idle
  <1>1. CASE CallerStep
    BY <1>1 DEF CallerStep, WriteRow, WriteTransientRow, RemoveRow, SetTransientPath,
                WriteRoot, FlushTableSync, CommitAtomicRowWrites, ScheduleFlush
  <1>2. CASE TimerStep
    BY <1>2 DEF TimerStep, TimerFires, TimerFiresClean
  <1>3. CASE FlushFailure
    BY <1>3 DEF FlushFailure, FlushReconcileFails, FlushRecoverFails, FlushJournalFails,
                FlushSettleFails, CommitFails, TransactionFails, Flushing
  <1>4. CASE WriteCompleteIgnored \/ WriteErrorReported \/ WorkerExits
    BY <1>4 DEF WriteCompleteIgnored, WriteErrorReported, WorkerExits, HasReply,
                TransactionFails
  <1>5. CASE WorkerCrashes
    BY <1>5 DEF WorkerCrashes, WorkerDies
  <1>6. CASE ShutdownSignal \/ ProcessExit \/ ExitHandlerFlushes
    BY <1>6 DEF ShutdownSignal, ProcessExit, ExitHandlerFlushes
  <1>7. CASE \E t \in Tables : FlushFindsFlight(t) \/ FlushFindsNothing(t)
    BY <1>7 DEF FlushFindsFlight, FlushFindsNothing, Flushing
  <1> QED BY <1>1, <1>2, <1>3, <1>4, <1>5, <1>6, <1>7

(* The message at the head of a port is a message. *)
LEMMA HeadTypes ==
    ASSUME WorkerTypeOK
    PROVE  /\ toWorker # <<>> => Head(toWorker) \in WorkerRequest
           /\ toMain # <<>> => Head(toMain) \in WorkerReply
  BY DEF WorkerTypeOK

(* A worker step leaves the flights alone and the journal in agreement.     *)
LEMMA WorkerThreadFlights ==
    ASSUME TypeOK, FlightMatchesJournal, WorkerThread
    PROVE  /\ running /\ running' = running
           /\ FlightMatchesJournal'
           /\ EffectiveUnchanged
           /\ UNCHANGED <<flushBaselines, inFlightFlushes>>
  <1>1. /\ running /\ running' = running
        /\ UNCHANGED <<flushBaselines, inFlightFlushes>>
    BY DEF WorkerThread, flushVars, processVars
  <1>2. CASE UNCHANGED journalVars
    BY <1>1, <1>2, QuietFlights DEF FlightsUnchanged, journalVars
  <1>3. CASE \E t \in Tables : ApplyPersistenceOperation(t)
    BY <1>1, <1>3, AppliedFlight
  <1>4. (UNCHANGED journalVars) \/ \E t \in Tables : ApplyPersistenceOperation(t)
    <2>1. CASE WorkerAppliesWrite
      <3>1. Head(toWorker).table \in Tables
        BY <2>1, HeadTypes DEF WorkerAppliesWrite, HasRequest, TypeOK, WorkerRequest
      <3> QED BY <2>1, <3>1 DEF WorkerAppliesWrite
    <2>2. CASE WorkerRefusesWrite
      BY <2>2 DEF WorkerRefusesWrite, TransactionFails
    <2>3. CASE WorkerReconciled
      BY <2>3 DEF WorkerReconciled
    <2> QED BY <2>1, <2>2, <2>3 DEF WorkerThread, WorkerStep
  <1> QED BY <1>1, <1>2, <1>3, <1>4

(* A reply that settles a flight. *)
LEMMA AcknowledgedFlight ==
    ASSUME TypeOK, FlightMatchesJournal, WriteAcknowledged
    PROVE  /\ running /\ running' = running
           /\ FlightMatchesJournal'
           /\ EffectiveUnchanged
           /\ \E t \in Tables :
                /\ ~InFlight(t)' /\ leases' = [leases EXCEPT ![t] = NoOperation]
                /\ \A u \in Tables \ {t} : inFlightFlushes'[u] = inFlightFlushes[u]
  <1> DEFINE t == Head(toMain).table
  <1>1. t \in Tables
    BY HeadTypes DEF WriteAcknowledged, HasReply, TypeOK, WorkerReply
  <1>2. /\ running /\ running' = running
        /\ InFlight(t) /\ AdvanceFlushBaseline(t)
        /\ AcknowledgePersistenceOperation(t) /\ FinishLease(t)
    BY DEF WriteAcknowledged, HasReply, Idle, processVars
  <1> HIDE DEF t
  <1> QED BY <1>1, <1>2, RetiredFlight DEF FinishLease

(* The main thread reconciles the table of the current turn. *)
LEMMA ReconciledFlight ==
    ASSUME TypeOK, TurnIsWellFormed, TurnOwnsItsFlight, FlightMatchesJournal,
           FlushReconcile \/ FlushSettles, NEW t, t = turn.table
    PROVE  /\ running /\ running' = running
           /\ t \in Tables
           /\ FlightMatchesJournal'
           /\ EffectiveUnchanged
           /\ ~InFlight(t)'
           /\ \A u \in Tables \ {t} : inFlightFlushes'[u] = inFlightFlushes[u]
  <1>1. running /\ running' = running /\ t \in Tables
    BY DEF FlushReconcile, FlushSettles, TurnIsWellFormed, processVars
  <1>2. CASE FlushReconcile /\ ~InFlight(t)
    <2>1. FlightsUnchanged
      BY <1>2 DEF FlushReconcile, FlightsUnchanged, storeVars, journalVars
    <2> QED BY <1>1, <1>2, <2>1, QuietFlights DEF FlightsUnchanged, InFlight
  <1>3. CASE FlushReconcile /\ InFlight(t)
    <2>1. ReconcilePersistenceOperation(t) /\ AdvanceFlushBaseline(t)
      BY <1>3 DEF FlushReconcile
    <2> QED BY <1>1, <1>3, <2>1, RetiredFlight
  <1>4. CASE FlushSettles
    <2>1. /\ InFlight(t)
          /\ ReconcilePersistenceOperation(t)
          /\ AdvanceFlushBaseline(t)
      BY <1>4 DEF FlushSettles, TurnOwnsItsFlight
    <2> QED BY <1>1, <2>1, RetiredFlight
  <1> QED BY <1>2, <1>3, <1>4

(* Every step of a running process that does not end it, journal a diff or  *)
(* commit rows leaves what the journal will have produced as it was.        *)
LEMMA FlightsOfSteps ==
    ASSUME Inv, Next, running, running',
           ~CommitApplies, \A t \in Tables : ~JournalFlush(t)
    PROVE  FlightMatchesJournal' /\ EffectiveUnchanged
  <1> USE DEF Inv
  <1>1. CASE CallerStep \/ TimerStep \/ FlushFailure \/ WorkerCrashes
    BY <1>1, QuietSteps, QuietFlights
  <1>2. CASE FlushStep
    <2>1. CASE FlushReconcile \/ FlushSettles
      BY <2>1, ReconciledFlight
    <2>2. CASE FlushRecover
      BY <2>2, RecoveredFlights
    <2>3. CASE \E t \in Tables : FlushFindsFlight(t) \/ FlushFindsNothing(t)
      BY <2>3, QuietSteps, QuietFlights
    <2> QED BY <1>2, <2>1, <2>2, <2>3
            DEF FlushStep, FlushSubmits, FlushSubmitFails, FlushJournals
  <1>3. CASE ReplyStep
    BY <1>3, AcknowledgedFlight, QuietSteps, QuietFlights DEF ReplyStep
  <1>4. CASE WorkerThread
    BY <1>4, WorkerThreadFlights
  <1>5. CASE ProcessStep
    <2>1. CASE ShutdownSignal \/ ProcessExit \/ ExitHandlerFlushes
      BY <2>1, QuietSteps, QuietFlights
    <2> QED BY <1>5, <2>1
            DEF ProcessStep, ProcessEnds, ProcessCrashes, ProcessStarts, GoOffline
  <1> QED BY <1>1, <1>2, <1>3, <1>4, <1>5 DEF Next

(* The process starts: every baseline is what the recovered rows are. *)
LEMMA StartedFlights ==
    ASSUME TypeOK, ~running => Offline, ProcessStarts
    PROVE  /\ FlightMatchesJournal'
           /\ \A t \in Tables : /\ cache'[t] = Effective(t)'
                                /\ Snapshot(t)' = Effective(t)'
                                /\ rows'[t] = Recoverable(t)
                                /\ ~InFlight(t)'
                                /\ transientPaths'[t] = {}
  <1>1. ~running /\ running' /\ Offline
    BY DEF ProcessStarts
  <1>2. ASSUME NEW t \in Tables
        PROVE  /\ rows'[t] = Recoverable(t)
               /\ outbox'[t] = NoOperation
               /\ inFlightFlushes'[t] = NoOperation
               /\ transientPaths'[t] = {}
               /\ cache'[t] = rows'[t] /\ flushBaselines'[t] = rows'[t]
    BY <1>1 DEF ProcessStarts, RecoverPersistenceOperations, Offline
  <1>3. ASSUME NEW t \in Tables
        PROVE  rows'[t] \in Content
    BY <1>2, <1>3, ViewTypes
  <1>4. ASSUME NEW t \in Tables
        PROVE  Snapshot(t)' = cache'[t] /\ Effective(t)' = cache'[t]
    BY <1>2, <1>3 DEF Snapshot, Effective, InFlight, Content
  <1> QED BY <1>2, <1>4 DEF FlightMatchesJournal, InFlight, Journalled

--------------------------------------------------------------------------------
(* The shape of turns. *)

(* When the flush of a table ends, the turn is over or goes on with what is *)
(* left of it.                                                              *)
LEMMA FinishedTable ==
    ASSUME TypeOK, TurnIsWellFormed, turn.table \in Tables,
           NEW ok \in BOOLEAN, FinishTable(ok)
    PROVE  /\ TurnIsWellFormed'
           /\ \/ turn' = NoTurn /\ proposals' = NoProposals
              \/ /\ turn'.caller = turn.caller
                 /\ turn.caller \in {"commit", "exit", "shutdown"}
                 /\ proposals' = proposals
                 /\ turn'.step \in {"reconcile", "commit", "exit"}
                 /\ turn'.ok => turn.ok /\ ok
                 /\ turn.caller = "commit" => ok
                 /\ \A u \in turn.rest : u = turn'.table \/ u \in turn'.rest
  <1>0. /\ turn \in Turn /\ turn.rest \subseteq Tables /\ turn.ok \in BOOLEAN
        /\ turn.step \in {"reconcile", "flush", "settle"}
        /\ turn.caller # "commit" => proposals = NoProposals
    BY DEF TypeOK, Turn, TurnIsWellFormed
  <1>1. CASE turn' = NoTurn /\ proposals' = NoProposals
    BY <1>1, GameStoreAssumption DEF TurnIsWellFormed, NoTurn
  <1>2. CASE turn.caller \in {"timer", "sync"}
    BY <1>0, <1>1, <1>2 DEF FinishTable
  <1>3. CASE turn.caller = "commit" /\ ~ok
    BY <1>0, <1>1, <1>3 DEF FinishTable
  <1>4. ASSUME turn.caller \in {"commit", "exit", "shutdown"}, turn.caller = "commit" => ok,
               proposals' = proposals,
               NEW u \in turn.rest,
               turn' = [turn EXCEPT !.step = "reconcile", !.table = u,
                                    !.rest = @ \ {u}, !.ok = @ /\ ok]
        PROVE  /\ TurnIsWellFormed'
               /\ turn'.caller = turn.caller /\ turn'.step = "reconcile"
               /\ turn'.ok = (turn.ok /\ ok)
               /\ \A v \in turn.rest : v = turn'.table \/ v \in turn'.rest
    <2>1. turn' = [caller |-> turn.caller, step |-> "reconcile", table |-> u,
                   rest |-> turn.rest \ {u}, ok |-> turn.ok /\ ok]
      BY <1>0, <1>4 DEF Turn
    <2> QED BY <1>0, <1>4, <2>1, GameStoreAssumption DEF TurnIsWellFormed
  <1>5. ASSUME turn.caller = "commit", ok, turn.rest = {}, proposals' = proposals,
               turn' = [turn EXCEPT !.step = "commit", !.table = NoTable]
        PROVE  /\ TurnIsWellFormed'
               /\ turn'.caller = turn.caller /\ turn'.step = "commit"
               /\ turn'.ok = turn.ok
    <2>1. turn' = [caller |-> turn.caller, step |-> "commit", table |-> NoTable,
                   rest |-> turn.rest, ok |-> turn.ok]
      BY <1>0, <1>5 DEF Turn
    <2> QED BY <1>0, <1>5, <2>1, GameStoreAssumption DEF TurnIsWellFormed
  <1>6. ASSUME turn.caller \in {"exit", "shutdown"}, turn.rest = {}, proposals' = proposals,
               turn' = [turn EXCEPT !.step = "exit", !.table = NoTable, !.ok = @ /\ ok]
        PROVE  /\ TurnIsWellFormed'
               /\ turn'.caller = turn.caller /\ turn'.step = "exit"
               /\ turn'.ok = (turn.ok /\ ok)
    <2>1. turn' = [caller |-> turn.caller, step |-> "exit", table |-> NoTable,
                   rest |-> turn.rest, ok |-> turn.ok /\ ok]
      BY <1>0, <1>6 DEF Turn
    <2> QED BY <1>0, <1>6, <2>1, GameStoreAssumption DEF TurnIsWellFormed
  <1> QED BY <1>0, <1>2, <1>3, <1>4, <1>5, <1>6 DEF FinishTable

(* A turn that begins is well formed. *)
LEMMA BegunTurn ==
    ASSUME NEW caller \in {"timer", "sync", "commit", "exit", "shutdown"},
           NEW step \in {"reconcile", "flush", "exit"},
           NEW t \in Tables \cup {NoTable}, NEW rest \in SUBSET Tables,
           BeginFlush(caller, step, t, rest),
           caller # "commit" => proposals' = NoProposals,
           caller = "timer" => step = "flush",
           IF step = "exit" THEN t = NoTable /\ rest = {} /\ caller \in {"exit", "shutdown"}
                            ELSE t \in Tables
    PROVE  TurnIsWellFormed'
  <1>1. turn' = [caller |-> caller, step |-> step, table |-> t, rest |-> rest, ok |-> TRUE]
    BY DEF BeginFlush
  <1> QED BY <1>1, GameStoreAssumption DEF TurnIsWellFormed

(* A shutdown's sweep begins with a well-formed turn that has every dirty   *)
(* and unacknowledged table before it.                                      *)
LEMMA BegunSweep ==
    ASSUME TypeOK, NEW caller \in {"exit", "shutdown"}, FlushAllSync(caller),
           proposals' = NoProposals
    PROVE  /\ TurnIsWellFormed'
           /\ turn'.caller = caller
           /\ turn'.step \in {"reconcile", "exit"}
           /\ \A t \in TablesToFlush : t = turn'.table \/ t \in turn'.rest
  <1>1. TablesToFlush \subseteq Tables
    BY DEF TablesToFlush, TypeOK
  <1>2. ASSUME NEW t \in TablesToFlush,
               BeginFlush(caller, "reconcile", t, TablesToFlush \ {t})
        PROVE  /\ TurnIsWellFormed'
               /\ turn'.caller = caller /\ turn'.step = "reconcile"
               /\ \A u \in TablesToFlush : u = turn'.table \/ u \in turn'.rest
    BY <1>1, <1>2, BegunTurn DEF BeginFlush
  <1>3. ASSUME TablesToFlush = {}, BeginFlush(caller, "exit", NoTable, {})
        PROVE  TurnIsWellFormed' /\ turn'.caller = caller /\ turn'.step = "exit"
    <2>1. TurnIsWellFormed'
      BY <1>3, BegunTurn
    <2> QED BY <1>3, <2>1 DEF BeginFlush
  <1> QED BY <1>2, <1>3 DEF FlushAllSync

(* A turn that ends is well formed. *)
LEMMA EndedTurn ==
    ASSUME turn' = NoTurn, proposals' = NoProposals
    PROVE  TurnIsWellFormed'
  BY GameStoreAssumption DEF TurnIsWellFormed, NoTurn

(* The steps of a turn lead to well-formed turns. *)
LEMMA TurnStep ==
    ASSUME TypeOK, TurnIsWellFormed, [Next]_vars
    PROVE  TurnIsWellFormed'
  <1>i. Idle => turn = NoTurn /\ proposals = NoProposals
    BY DEF Idle, NoTurn, TurnIsWellFormed
  <1>u. UNCHANGED turnVars => TurnIsWellFormed'
    BY DEF turnVars, TurnIsWellFormed
  <1>t. turn.step \in {"reconcile", "flush", "settle"} => turn.table \in Tables
    BY DEF TurnIsWellFormed
  <1>f. ASSUME NEW ok \in BOOLEAN, FinishTable(ok), turn.table \in Tables
        PROVE  TurnIsWellFormed'
    BY <1>f, FinishedTable
  <1>s. ASSUME NEW step \in {"flush", "settle"},
               turn.step \in {"reconcile", "flush"}, turn.step = "reconcile" => step = "flush",
               turn' = [turn EXCEPT !.step = step], proposals' = proposals
        PROVE  TurnIsWellFormed'
    <2>1. turn' = [caller |-> turn.caller, step |-> step, table |-> turn.table,
                   rest |-> turn.rest, ok |-> turn.ok]
      BY <1>s DEF TypeOK, Turn
    <2> QED BY <1>s, <2>1 DEF TurnIsWellFormed
  <1>1. CASE CallerStep
    <2>1. CASE \E t \in Tables : FlushTableSync(t)
      BY <1>i, <2>1, BegunTurn DEF FlushTableSync
    <2>2. CASE \E batches \in AtomicCommits : CommitAtomicRowWrites(batches)
      <3>1. PICK batches \in AtomicCommits : CommitAtomicRowWrites(batches)
        BY <2>2
      <3>2. PICK t \in TouchedTables(batches) :
              BeginFlush("commit", "reconcile", t, TouchedTables(batches) \ {t})
        BY <3>1 DEF CommitAtomicRowWrites
      <3> QED BY <3>2, BegunTurn DEF TouchedTables
    <2> QED BY <1>1, <1>u, <2>1, <2>2
            DEF CallerStep, WriteRow, WriteTransientRow, RemoveRow, SetTransientPath, WriteRoot
  <1>2. CASE TimerStep
    <2>1. CASE \E t \in Tables : TimerFires(t)
      BY <1>i, <2>1, BegunTurn DEF TimerFires
    <2> QED BY <1>2, <1>u, <2>1 DEF TimerStep, TimerFiresClean
  <1>3. CASE FlushStep
    <2>1. CASE FlushReconcile
      BY <1>t, <1>f, <1>s, <2>1 DEF FlushReconcile
    <2>2. CASE FlushRecover
      BY <1>u, <2>2 DEF FlushRecover
    <2>3. CASE \E t \in Tables : \/ FlushFindsFlight(t) \/ FlushFindsNothing(t)
                                 \/ FlushSubmits(t) \/ FlushSubmitFails(t)
      BY <1>f, <2>3
         DEF FlushFindsFlight, FlushFindsNothing, FlushSubmits, FlushSubmitFails,
             JournalFlush, Flushing, FlushThrows
    <2>4. CASE \E t \in Tables : FlushJournals(t)
      BY <1>s, <2>4 DEF FlushJournals, JournalFlush, Flushing
    <2>5. CASE FlushSettles
      BY <1>t, <1>f, <2>5 DEF FlushSettles
    <2>6. CASE CommitApplies
      BY <2>6, EndedTurn DEF CommitApplies
    <2> QED BY <1>3, <2>1, <2>2, <2>3, <2>4, <2>5, <2>6 DEF FlushStep
  <1>4. CASE FlushFailure
    <2>1. CASE FlushReconcileFails \/ FlushRecoverFails \/ FlushSettleFails
      BY <1>t, <1>f, <2>1
         DEF FlushReconcileFails, FlushRecoverFails, FlushSettleFails, FlushThrows
    <2>2. CASE \E t \in Tables : FlushJournalFails(t)
      BY <1>f, <2>2 DEF FlushJournalFails, Flushing, FlushThrows
    <2>3. CASE CommitFails
      BY <2>3, EndedTurn DEF CommitFails
    <2> QED BY <1>4, <2>1, <2>2, <2>3 DEF FlushFailure
  <1>5. CASE ReplyStep \/ WorkerThread \/ WorkerCrashes
    BY <1>5, <1>u
       DEF ReplyStep, WriteAcknowledged, WriteCompleteIgnored, WriteErrorReported,
           WorkerExits, WorkerThread, WorkerCrashes
  <1>6. CASE ProcessStep
    <2>1. CASE ShutdownSignal
      BY <1>i, <2>1, BegunSweep DEF ShutdownSignal
    <2>2. CASE ProcessExit
      BY <1>i, <2>2, BegunTurn DEF ProcessExit
    <2>3. CASE ExitHandlerFlushes
      <3>1. proposals' = NoProposals
        BY <2>3 DEF ExitHandlerFlushes, TurnIsWellFormed
      <3> QED BY <2>3, <3>1, BegunSweep DEF ExitHandlerFlushes
    <2>4. CASE ProcessEnds \/ ProcessCrashes
      BY <2>4, EndedTurn DEF ProcessEnds, ProcessCrashes, GoOffline
    <2>5. CASE ProcessStarts
      BY <1>u, <2>5 DEF ProcessStarts
    <2> QED BY <1>6, <2>1, <2>2, <2>3, <2>4, <2>5 DEF ProcessStep
  <1>7. CASE UNCHANGED vars
    BY <1>u, <1>7 DEF vars
  <1> QED BY <1>1, <1>2, <1>3, <1>4, <1>5, <1>6, <1>7 DEF Next

--------------------------------------------------------------------------------
(* The process, and the leases of the worker's controller. *)

(* However the process goes, the journal stays. *)
ProcessStops == GoOffline /\ UNCHANGED journalVars

(* Only a start makes a stopped process run, only an end stops a running one.*)
LEMMA ProcessLifeCycle ==
    ASSUME TypeOK, TurnIsWellFormed, TurnOwnsItsFlight, FlightMatchesJournal, Next
    PROVE  \/ running /\ running' = running
           \/ running /\ ProcessStops
           \/ ProcessStarts
  <1>1. CASE FlushStep
    <2>1. CASE \E t \in Tables : FlushFindsFlight(t) \/ FlushFindsNothing(t)
      BY <2>1, QuietSteps
    <2> QED BY <1>1, <2>1
         DEF FlushStep, FlushReconcile, FlushRecover, FlushSubmits, FlushSubmitFails,
             FlushJournals, FlushSettles, CommitApplies, JournalFlush, Flushing, processVars
  <1>2. CASE ReplyStep \/ WorkerThread
    <2>1. CASE WriteAcknowledged
      BY <2>1, AcknowledgedFlight
    <2>2. CASE WorkerThread
      BY <2>2, WorkerThreadFlights
    <2> QED BY <1>2, <2>1, <2>2, QuietSteps DEF ReplyStep
  <1>3. CASE ProcessStep
    <2>1. CASE ShutdownSignal \/ ProcessExit \/ ExitHandlerFlushes
      BY <2>1, QuietSteps
    <2>2. CASE ProcessEnds \/ ProcessCrashes
      BY <2>2 DEF ProcessEnds, ProcessCrashes, ProcessStops, storeVars
    <2> QED BY <1>3, <2>1, <2>2 DEF ProcessStep
  <1> QED BY <1>1, <1>2, <1>3, QuietSteps DEF Next

(* A process that is down holds nothing in memory. *)
LEMMA OfflineStep ==
    ASSUME Inv, Next, ~running'
    PROVE  Offline'
  <1>1. GoOffline
    <2>1. \/ running /\ running' = running
          \/ running /\ ProcessStops
          \/ ProcessStarts
      BY ProcessLifeCycle DEF Inv
    <2> QED BY <2>1 DEF ProcessStarts, ProcessStops
  <1> QED BY <1>1 DEF GoOffline, Offline, WorkerInit

(* Neither callers nor timers nor failures touch a lease. *)
LEMMA QuietLeases ==
    ASSUME \/ CallerStep \/ TimerStep \/ FlushFailure
           \/ WriteCompleteIgnored \/ WriteErrorReported
           \/ WorkerThread \/ WorkerCrashes
           \/ ShutdownSignal \/ ProcessExit \/ ExitHandlerFlushes
           \/ \E t \in Tables : FlushFindsFlight(t) \/ FlushFindsNothing(t)
    PROVE  leases' = leases
  <1> USE DEF workerVars
  <1>1. CASE CallerStep
    BY <1>1 DEF CallerStep, WriteRow, WriteTransientRow, RemoveRow, SetTransientPath,
                WriteRoot, FlushTableSync, CommitAtomicRowWrites
  <1>2. CASE TimerStep
    BY <1>2 DEF TimerStep, TimerFires, TimerFiresClean
  <1>3. CASE FlushFailure
    BY <1>3 DEF FlushFailure, FlushReconcileFails, FlushRecoverFails, FlushJournalFails,
                FlushSettleFails, CommitFails
  <1>4. CASE WriteCompleteIgnored \/ WriteErrorReported
    BY <1>4 DEF WriteCompleteIgnored, WriteErrorReported
  <1>5. CASE WorkerThread \/ WorkerCrashes
    BY <1>5 DEF WorkerThread, WorkerStep, WorkerAppliesWrite, WorkerRefusesWrite,
                WorkerReconciled, WorkerCrashes, WorkerDies
  <1>6. CASE ShutdownSignal \/ ProcessExit \/ ExitHandlerFlushes
    BY <1>6 DEF ShutdownSignal, ProcessExit, ExitHandlerFlushes
  <1>7. CASE \E t \in Tables : FlushFindsFlight(t) \/ FlushFindsNothing(t)
    BY <1>7 DEF FlushFindsFlight, FlushFindsNothing
  <1> QED BY <1>1, <1>2, <1>3, <1>4, <1>5, <1>6, <1>7

(* Every lease stays with the flight it was taken for. *)
LEMMA LeaseStep ==
    ASSUME Inv, Next
    PROVE  LeaseMatchesFlight'
  <1> USE DEF Inv
  <1>q. leases' = leases /\ inFlightFlushes' = inFlightFlushes => LeaseMatchesFlight'
    BY DEF LeaseMatchesFlight, Leased, InFlight
  (* The lease of t goes, the other flights stay. *)
  <1>r. ASSUME NEW t \in Tables, leases'[t] = NoOperation,
               \A u \in Tables \ {t} : /\ leases'[u] = leases[u]
                                       /\ inFlightFlushes'[u] = inFlightFlushes[u]
        PROVE  LeaseMatchesFlight'
    BY <1>r DEF LeaseMatchesFlight, Leased, InFlight
  <1>1. CASE \/ CallerStep \/ TimerStep \/ FlushFailure \/ WorkerCrashes
             \/ WriteCompleteIgnored \/ WriteErrorReported
             \/ ShutdownSignal \/ ProcessExit \/ ExitHandlerFlushes
             \/ \E t \in Tables : FlushFindsFlight(t) \/ FlushFindsNothing(t)
    BY <1>1, <1>q, QuietLeases, QuietSteps DEF FlightsUnchanged
  <1>2. CASE WorkerThread
    BY <1>2, <1>q, QuietLeases, WorkerThreadFlights
  <1>3. CASE FlushReconcile
    <2> DEFINE t == turn.table
    <2>0. t \in Tables
      BY <1>3 DEF FlushReconcile, TurnIsWellFormed
    <2>1. CASE InFlight(t)
      <3>1. leases' = [leases EXCEPT ![t] = NoOperation]
        BY <1>3, <2>1 DEF FlushReconcile, ReconcileLease
      <3>2. leases \in [Tables -> Lease \cup {NoOperation}]
        BY DEF TypeOK, WorkerTypeOK
      <3> QED BY <1>3, <1>r, <2>0, <3>1, <3>2, ReconciledFlight
    <2>2. CASE ~InFlight(t)
      BY <1>3, <1>q, <2>2 DEF FlushReconcile, workerVars
    <2> QED BY <2>1, <2>2
  <1>4. CASE FlushRecover
    <2>1. \A t \in Tables : InFlight(t) <=> Journalled(t)
      BY <1>4 DEF FlushRecover, FlightMatchesJournal
    <2>2. \A t \in Tables : leases'[t] = NoOperation
      BY <1>4, <2>1 DEF FlushRecover, RecoverLeases, LeaseMatchesFlight, Leased
    <2> QED BY <2>2 DEF LeaseMatchesFlight, Leased
  <1>5. ASSUME NEW t \in Tables, FlushSubmits(t) \/ FlushSubmitFails(t) \/ FlushJournals(t)
        PROVE  LeaseMatchesFlight'
    <2>0. JournalFlush(t) /\ running /\ running' = running
      BY <1>5 DEF FlushSubmits, FlushSubmitFails, FlushJournals, JournalFlush, Flushing,
                  processVars
    <2>1. /\ InFlight(t)'
          /\ inFlightFlushes'[t].operationId = nextOperationId
          /\ inFlightFlushes'[t].submittedToWorker = UseWorker
          /\ \A u \in Tables \ {t} : inFlightFlushes'[u] = inFlightFlushes[u]
      BY <2>0, JournalledFlight
    <2>2. leases[t] = NoOperation
      BY <2>0 DEF JournalFlush, LeaseMatchesFlight, Leased
    <2>3. \/ leases' = leases
          \/ /\ UseWorker
             /\ \E b \in BOOLEAN :
                  leases' = [leases EXCEPT ![t] = [operationId |-> nextOperationId, bound |-> b]]
      BY <1>5 DEF FlushSubmits, FlushSubmitFails, FlushJournals, SubmitWrite,
                  SubmitRejected, WorkerNotCreated, workerVars
    <2>4. leases \in [Tables -> Lease \cup {NoOperation}]
      BY DEF TypeOK, WorkerTypeOK
    <2>5. CASE leases' = leases
      BY <1>r, <2>1, <2>2, <2>5
    <2>6. ASSUME UseWorker, NEW b \in BOOLEAN,
                 leases' = [leases EXCEPT ![t] = [operationId |-> nextOperationId, bound |-> b]]
          PROVE  LeaseMatchesFlight'
      <3>1. /\ leases'[t].operationId = nextOperationId
            /\ \A u \in Tables \ {t} : leases'[u] = leases[u]
        BY <2>4, <2>6
      <3> QED BY <2>1, <2>6, <3>1 DEF LeaseMatchesFlight, Leased, InFlight
    <2> QED BY <2>3, <2>5, <2>6
  <1>6. CASE FlushSettles
    <2> DEFINE t == turn.table
    <2>1. leases' = leases /\ t \in Tables /\ leases[t] = NoOperation
      BY <1>6 DEF FlushSettles, workerVars, TurnOwnsItsFlight, TurnIsWellFormed,
                  LeaseMatchesFlight, Leased
    <2> QED BY <1>6, <1>r, <2>1, ReconciledFlight
  <1>7. CASE CommitApplies
    BY <1>7, <1>q DEF CommitApplies, workerVars
  <1>8. CASE WriteAcknowledged
    <2>1. leases \in [Tables -> Lease \cup {NoOperation}]
      BY DEF TypeOK, WorkerTypeOK
    <2> QED BY <1>8, <1>r, <2>1, AcknowledgedFlight
  <1>9. CASE WorkerExits
    <2>1. inFlightFlushes' = inFlightFlushes
      BY <1>9 DEF WorkerExits, flushVars
    <2>2. ASSUME NEW t \in Tables, Leased(t)'
          PROVE  Leased(t) /\ leases'[t].operationId = leases[t].operationId
      BY <1>9, <2>2 DEF WorkerExits, WorkerExitObserved, Leased, TypeOK, WorkerTypeOK, Lease
    <2> QED BY <2>1, <2>2 DEF LeaseMatchesFlight, InFlight
  <1>10. CASE GoOffline
    BY <1>10 DEF GoOffline, LeaseMatchesFlight, Leased
  <1>11. CASE ProcessStarts
    BY <1>11 DEF ProcessStarts, Offline, WorkerInit, workerVars, LeaseMatchesFlight, Leased
  <1> QED BY <1>1, <1>2, <1>3, <1>4, <1>5, <1>6, <1>7, <1>8, <1>9, <1>10, <1>11
          DEF Next, FlushStep, ReplyStep, ProcessStep, ProcessEnds, ProcessCrashes

--------------------------------------------------------------------------------
(* Dirty tracking. *)

SnapshotUnchanged == \A t \in Tables : Snapshot(t)' = Snapshot(t)

(* Without a cache change every snapshot stays. *)
LEMMA QuietSnapshots ==
    ASSUME UNCHANGED <<cache, transientPaths>>
    PROVE  SnapshotUnchanged
  BY DEF SnapshotUnchanged, Snapshot

(* The steps that leave cache and tracking alone. *)
QuietCacheStep ==
    \/ TimerStep \/ FlushFailure \/ ReplyStep \/ WorkerThread \/ WorkerCrashes
    \/ ShutdownSignal \/ ProcessExit \/ ExitHandlerFlushes
    \/ FlushReconcile \/ FlushRecover \/ FlushSettles
    \/ \E t \in Tables : FlushFindsFlight(t) \/ FlushTableSync(t)
    \/ \E batches \in AtomicCommits : CommitAtomicRowWrites(batches)

(* They change no cache, transient path or tracked row. *)
LEMMA QuietCaches ==
    ASSUME QuietCacheStep
    PROVE  UNCHANGED cacheVars
  <1>1. CASE TimerStep
    BY <1>1 DEF TimerStep, TimerFires, TimerFiresClean
  <1>2. CASE FlushFailure
    BY <1>2 DEF FlushFailure, FlushReconcileFails, FlushRecoverFails, FlushJournalFails,
                FlushSettleFails, CommitFails
  <1>3. CASE ReplyStep \/ WorkerThread \/ WorkerCrashes
    BY <1>3 DEF ReplyStep, WriteAcknowledged, WriteCompleteIgnored, WriteErrorReported,
                WorkerExits, WorkerThread, WorkerCrashes
  <1>4. CASE ShutdownSignal \/ ProcessExit \/ ExitHandlerFlushes
    BY <1>4 DEF ShutdownSignal, ProcessExit, ExitHandlerFlushes
  <1>5. CASE FlushReconcile \/ FlushRecover \/ FlushSettles
    BY <1>5 DEF FlushReconcile, FlushRecover, FlushSettles
  <1>6. CASE \E t \in Tables : FlushFindsFlight(t) \/ FlushTableSync(t)
    BY <1>6 DEF FlushFindsFlight, FlushTableSync
  <1>7. CASE \E batches \in AtomicCommits : CommitAtomicRowWrites(batches)
    BY <1>7 DEF CommitAtomicRowWrites
  <1> QED BY <1>1, <1>2, <1>3, <1>4, <1>5, <1>6, <1>7 DEF QuietCacheStep

(* The cache changes of callers. *)
CacheWrite ==
    \/ \E t \in Tables, r \in Rows :
         \/ \E v \in Values : WriteRow(t, r, v) \/ WriteTransientRow(t, r, v)
         \/ RemoveRow(t, r)
         \/ SetTransientPath(t, r)
    \/ \E t \in Tables, content \in RootContents : WriteRoot(t, content)

(* The kinds of steps the data sees. *)
LEMMA NextKinds ==
    ASSUME TypeOK, TurnIsWellFormed, TurnOwnsItsFlight, FlightMatchesJournal, Next
    PROVE  \/ CacheWrite
           \/ \E t \in Tables : FlushFindsNothing(t) \/ JournalFlush(t)
           \/ CommitApplies
           \/ ProcessStops
           \/ ProcessStarts
           \/ running /\ running' = running /\ QuietCacheStep
  <1>1. \/ CacheWrite
        \/ \E t \in Tables : FlushFindsNothing(t) \/ JournalFlush(t)
        \/ CommitApplies
        \/ ProcessEnds \/ ProcessCrashes
        \/ ProcessStarts
        \/ QuietCacheStep
    <2>1. CASE CallerStep
      BY <2>1 DEF CallerStep, CacheWrite, QuietCacheStep
    <2>2. CASE FlushStep
      BY <2>2 DEF FlushStep, FlushSubmits, FlushSubmitFails, FlushJournals, QuietCacheStep
    <2>3. CASE ProcessStep
      BY <2>3 DEF ProcessStep, QuietCacheStep
    <2> QED BY <2>1, <2>2, <2>3 DEF Next, QuietCacheStep
  <1> QED BY <1>1, ProcessLifeCycle DEF ProcessEnds, ProcessCrashes, ProcessStops, storeVars

(* What a write leaves: only table t changes, it becomes dirty if a row     *)
(* outside the transient ones may have changed, and every such row is       *)
(* tracked.                                                                 *)
WriteIsTracked(t) ==
    /\ \A u \in Tables \ {t} : /\ cache'[u] = cache[u]
                               /\ transientPaths'[u] = transientPaths[u]
                               /\ dirtyRowKeys'[u] = dirtyRowKeys[u]
                               /\ u \in fullDirty <=> u \in fullDirty'
                               /\ u \in dirty <=> u \in dirty'
    /\ \/ t \in dirty'
       \/ /\ cache'[t] = cache[t]
          /\ t \notin dirty
          /\ transientPaths[t] \subseteq transientPaths'[t]
    /\ DirtyRowsTracking => \A r \in Rows :
         \/ t \in fullDirty' \/ r \in dirtyRowKeys'[t] \/ r \in transientPaths'[t]
         \/ /\ cache'[t][r] = cache[t][r]
            /\ r \notin transientPaths[t]
            /\ r \notin dirtyRowKeys[t] /\ t \notin fullDirty

(* Every cache change of a caller is tracked. *)
LEMMA WriteEffect ==
    ASSUME TypeOK, CacheWrite
    PROVE  /\ running /\ running' = running /\ turn = NoTurn
           /\ FlightsUnchanged
           /\ UNCHANGED turnVars
           /\ \E t \in Tables : WriteIsTracked(t)
  <1>1. CallerStep /\ running /\ running' = running /\ FlightsUnchanged
    <2>1. CallerStep
      BY DEF CacheWrite, CallerStep
    <2> QED BY <2>1, QuietSteps
  <1>2. turn = NoTurn /\ UNCHANGED turnVars
    BY DEF CacheWrite, WriteRow, WriteTransientRow, RemoveRow, SetTransientPath,
           WriteRoot, Idle
  <1> USE DEF WriteIsTracked
  <1>c. /\ cache \in [Tables -> Content] /\ \A t \in Tables : cache[t] \in [Rows -> Values \cup {NoRow}]
        /\ transientPaths \in [Tables -> SUBSET Rows]
        /\ dirtyRowKeys \in [Tables -> SUBSET Rows]
    BY DEF TypeOK, Content
  <1>3. ASSUME NEW t \in Tables, NEW r \in Rows, NEW v \in Values, WriteRow(t, r, v)
        PROVE  WriteIsTracked(t)
    BY <1>c, <1>3 DEF WriteRow, MarkRowDirty, ScheduleFlush
  <1>4. ASSUME NEW t \in Tables, NEW r \in Rows, NEW v \in Values, WriteTransientRow(t, r, v)
        PROVE  WriteIsTracked(t)
    <2>1. CASE cache[t][r] = v
      BY <1>c, <1>4, <2>1 DEF WriteTransientRow, flushVars
    <2>2. CASE cache[t][r] # v
      <3>1. /\ transientPaths' = [transientPaths EXCEPT ![t] = @ \cup {r}]
            /\ cache' = [cache EXCEPT ![t][r] = v]
            /\ MarkRowDirty(t, r)
            /\ ScheduleFlush(t)
        BY <1>4, <2>2 DEF WriteTransientRow
      <3> QED BY <1>c, <3>1 DEF MarkRowDirty, ScheduleFlush
    <2> QED BY <2>1, <2>2
  <1>5. ASSUME NEW t \in Tables, NEW r \in Rows, RemoveRow(t, r)
        PROVE  WriteIsTracked(t)
    BY <1>c, <1>5 DEF RemoveRow, MarkRowDirty, ScheduleFlush
  <1>6. ASSUME NEW t \in Tables, NEW r \in Rows, SetTransientPath(t, r)
        PROVE  WriteIsTracked(t)
    BY <1>c, <1>6 DEF SetTransientPath, flushVars
  <1>7. ASSUME NEW t \in Tables, NEW content \in RootContents, WriteRoot(t, content)
        PROVE  WriteIsTracked(t)
    <2>1. /\ cache' = [cache EXCEPT ![t] = content]
          /\ \A u \in Tables \ {t} : transientPaths'[u] = transientPaths[u]
          /\ MarkTableDirty(t)
          /\ ScheduleFlush(t)
      BY <1>c, <1>7 DEF WriteRoot
    <2> QED BY <1>c, <2>1 DEF MarkTableDirty, ScheduleFlush
  <1> QED BY <1>1, <1>2, <1>3, <1>4, <1>5, <1>6, <1>7 DEF CacheWrite

(* When a commit reaches its transaction its tables are settled. *)
LEMMA CommitIsLast ==
    ASSUME Inv
    PROVE  CommitFindsNothingOlder
  <1> SUFFICES ASSUME turn.step = "commit", NEW t \in TouchedTables(proposals)
               PROVE  ~Journalled(t) /\ ~InFlight(t) /\ t \notin dirty
    BY DEF CommitFindsNothingOlder
  <1>1. /\ turn.caller = "commit" /\ turn.rest = {} /\ turn.table \notin Tables
        /\ t \in Tables
    BY DEF Inv, TurnIsWellFormed, TouchedTables
  <1>2. ~InFlight(t) /\ t \notin dirty
    BY <1>1 DEF Inv, SweptTablesStayClean
  <1>3. running
    BY DEF Inv, Offline, NoTurn
  <1> QED BY <1>1, <1>2, <1>3 DEF Inv, FlightMatchesJournal

(* The fast path stays complete. *)
LEMMA DirtyRowsStep ==
    ASSUME Inv, Next
    PROVE  DirtyRowsCovered'
  <1> USE DEF Inv
  <1>q. ASSUME UNCHANGED cacheVars, EffectiveUnchanged
        PROVE  DirtyRowsCovered'
    BY <1>q, QuietSnapshots
       DEF cacheVars, DirtyRowsCovered, EffectiveUnchanged, SnapshotUnchanged
  (* Only table t changes, and what it changes leaves it covered. *)
  <1>p. ASSUME NEW t \in Tables,
               \A u \in Tables \ {t} : /\ cache'[u] = cache[u]
                                       /\ transientPaths'[u] = transientPaths[u]
                                       /\ dirtyRowKeys'[u] = dirtyRowKeys[u]
                                       /\ u \in fullDirty <=> u \in fullDirty'
                                       /\ Effective(u)' = Effective(u),
               DirtyRowsTracking => \A r \in Rows : Snapshot(t)'[r] # Effective(t)'[r] =>
                 r \in dirtyRowKeys'[t] \/ t \in fullDirty' \/ r \in transientPaths'[t]
        PROVE  DirtyRowsCovered'
    <2>1. \A u \in Tables \ {t} : Snapshot(u)' = Snapshot(u)
      BY <1>p DEF Snapshot
    <2>2. ASSUME DirtyRowsTracking, NEW u \in Tables, NEW r \in Rows,
                 Snapshot(u)'[r] # Effective(u)'[r]
          PROVE  r \in dirtyRowKeys'[u] \/ u \in fullDirty' \/ r \in transientPaths'[u]
      BY <1>p, <2>1, <2>2 DEF DirtyRowsCovered
    <2> QED BY <2>2 DEF DirtyRowsCovered
  <1>1. CASE CacheWrite
    <2>1. PICK t \in Tables : WriteIsTracked(t)
      BY <1>1, WriteEffect
    <2>2. EffectiveUnchanged
      BY <1>1, WriteEffect, QuietFlights
    <2>3. ASSUME DirtyRowsTracking, NEW r \in Rows, Snapshot(t)'[r] # Effective(t)'[r]
          PROVE  r \in dirtyRowKeys'[t] \/ t \in fullDirty' \/ r \in transientPaths'[t]
      BY <2>1, <2>2, <2>3 DEF WriteIsTracked, EffectiveUnchanged, DirtyRowsCovered, Snapshot
    <2> QED BY <1>p, <2>1, <2>2, <2>3 DEF WriteIsTracked, EffectiveUnchanged
  <1>2. CASE \E t \in Tables : FlushFindsNothing(t)
    <2>1. PICK t \in Tables : FlushFindsNothing(t)
      BY <1>2
    <2>2. EffectiveUnchanged
      BY <2>1, QuietSteps, QuietFlights
    <2>3. Effective(t) = Snapshot(t)
      BY <2>1, NothingToFlush DEF FlushFindsNothing
    <2>4. ClearDirtyRows(t) /\ dirtyRowKeys \in [Tables -> SUBSET Rows]
      BY <2>1 DEF FlushFindsNothing, TypeOK
    <2>5. Snapshot(t)' = Snapshot(t)
      BY <2>4 DEF ClearDirtyRows, Snapshot
    <2> QED BY <1>p, <2>2, <2>3, <2>4, <2>5 DEF ClearDirtyRows, EffectiveUnchanged
  <1>3. CASE \E t \in Tables : JournalFlush(t)
    <2>1. PICK t \in Tables : JournalFlush(t)
      BY <1>3
    <2>2. /\ Effective(t)' = Snapshot(t)
          /\ \A u \in Tables \ {t} : Effective(u)' = Effective(u)
      BY <2>1, JournalledFlight DEF JournalFlush, Flushing, processVars
    <2>3. ClearDirtyRows(t) /\ dirtyRowKeys \in [Tables -> SUBSET Rows]
      BY <2>1 DEF JournalFlush, TypeOK
    <2>4. Snapshot(t)' = Snapshot(t)
      BY <2>3 DEF ClearDirtyRows, Snapshot
    <2> QED BY <1>p, <2>2, <2>3, <2>4 DEF ClearDirtyRows
  <1>4. CASE CommitApplies
    <2>1. \A t \in Tables : /\ proposals[t] \in Batch
                            /\ cache[t] \in Content
                            /\ Effective(t) \in Content
      BY ViewTypes DEF TypeOK
    <2>2. CommitFindsNothingOlder
      BY CommitIsLast
    <2>3. \A t \in Tables : Effective(t)' = ApplyBatch(Effective(t), proposals[t])
      BY <1>4, <2>2, CommittedFlights
    <2>4. ASSUME NEW t \in Tables, NEW r \in Rows, Snapshot(t)'[r] # Effective(t)'[r]
          PROVE  Snapshot(t)[r] # Effective(t)[r]
      BY <1>4, <2>1, <2>3, <2>4 DEF CommitApplies, Snapshot, ApplyBatch, ProposalsArePersistent
    <2> QED BY <1>4, <2>4 DEF CommitApplies, DirtyRowsCovered
  <1>5. CASE ProcessStops
    <2>1. \A t \in Tables : Snapshot(t)' = Effective(t)'
      BY <1>5 DEF ProcessStops, GoOffline, Snapshot, Effective, InFlight
    <2> QED BY <2>1 DEF DirtyRowsCovered
  <1>6. CASE ProcessStarts
    BY <1>6, StartedFlights DEF DirtyRowsCovered
  <1>7. CASE /\ running /\ running' = running /\ QuietCacheStep
             /\ ~CommitApplies /\ \A t \in Tables : ~JournalFlush(t)
    BY <1>7, <1>q, QuietCaches, FlightsOfSteps
  <1> QED BY <1>1, <1>2, <1>3, <1>4, <1>5, <1>6, <1>7, NextKinds

--------------------------------------------------------------------------------
(* What a turn relies on from one of its steps to the next. *)

(* The flush of a table ends in these steps; what the turn does next is     *)
(* reconcile another table, commit, exit or nothing.                        *)
EndsTable(ok) ==
    \/ FlushReconcile /\ turn.table \notin dirty /\ ok
    \/ \E t \in Tables : \/ (FlushFindsFlight(t) \/ FlushFindsNothing(t) \/ FlushSubmits(t)) /\ ok
                         \/ (FlushSubmitFails(t) \/ FlushJournalFails(t)) /\ ~ok
    \/ FlushSettles /\ ok
    \/ (FlushReconcileFails \/ FlushRecoverFails \/ FlushSettleFails) /\ ~ok

(* Each of them ends its table's flush. *)
LEMMA EndedTable ==
    ASSUME TypeOK, TurnIsWellFormed, NEW ok \in BOOLEAN, EndsTable(ok)
    PROVE  turn.table \in Tables /\ FinishTable(ok)
  <1>t. turn.step \in {"reconcile", "flush", "settle"} => turn.table \in Tables
    BY DEF TurnIsWellFormed
  <1>1. CASE FlushReconcile /\ turn.table \notin dirty /\ ok
    BY <1>1, <1>t DEF FlushReconcile
  <1>2. CASE \E t \in Tables : (FlushFindsFlight(t) \/ FlushFindsNothing(t) \/ FlushSubmits(t)) /\ ok
    BY <1>2 DEF FlushFindsFlight, FlushFindsNothing, FlushSubmits, JournalFlush, Flushing
  <1>3. CASE \E t \in Tables : (FlushSubmitFails(t) \/ FlushJournalFails(t)) /\ ~ok
    BY <1>3 DEF FlushSubmitFails, FlushJournalFails, JournalFlush, Flushing, FlushThrows
  <1>4. CASE FlushSettles /\ ok
    BY <1>4, <1>t DEF FlushSettles
  <1>5. CASE (FlushReconcileFails \/ FlushRecoverFails \/ FlushSettleFails) /\ ~ok
    BY <1>5, <1>t DEF FlushReconcileFails, FlushRecoverFails, FlushSettleFails, FlushThrows
  <1> QED BY <1>1, <1>2, <1>3, <1>4, <1>5 DEF EndsTable

(* The kinds of steps a turn sees. *)
LEMMA TurnKinds ==
    ASSUME Inv, Next
    PROVE  \/ \E ok \in BOOLEAN : EndsTable(ok)
           \/ FlushReconcile /\ turn.table \in dirty
           \/ FlushRecover
           \/ \E t \in Tables : FlushJournals(t)
           \/ WorkerThread \/ WorkerCrashes
           \/ /\ turn' = NoTurn /\ proposals' = NoProposals
           \/ \E t \in Tables : TimerFires(t) \/ FlushTableSync(t)
           \/ \E batches \in AtomicCommits : CommitAtomicRowWrites(batches)
           \/ ShutdownSignal \/ ProcessExit \/ ExitHandlerFlushes
  <1> USE DEF Inv
  <1>i. Idle /\ UNCHANGED turnVars => turn' = NoTurn /\ proposals' = NoProposals
    BY DEF Idle, turnVars, TurnIsWellFormed, NoTurn
  <1>1. CASE CallerStep
    BY <1>1, <1>i
       DEF CallerStep, WriteRow, WriteTransientRow, RemoveRow, SetTransientPath, WriteRoot
  <1>2. CASE TimerStep
    BY <1>2, <1>i DEF TimerStep, TimerFiresClean
  <1>3. CASE FlushStep
    <2>1. CASE CommitApplies
      BY <2>1 DEF CommitApplies
    <2> QED BY <1>3, <2>1 DEF FlushStep, EndsTable
  <1>4. CASE FlushFailure
    <2>1. CASE CommitFails
      BY <2>1 DEF CommitFails
    <2> QED BY <1>4, <2>1 DEF FlushFailure, EndsTable
  <1>5. CASE ReplyStep
    BY <1>5, <1>i
       DEF ReplyStep, WriteAcknowledged, WriteCompleteIgnored, WriteErrorReported,
           WorkerExits, HasReply
  <1>6. CASE ProcessStep
    <2>1. CASE ProcessEnds \/ ProcessCrashes
      BY <2>1 DEF ProcessEnds, ProcessCrashes, GoOffline
    <2>2. CASE ProcessStarts
      BY <2>2 DEF ProcessStarts, turnVars, Offline
    <2> QED BY <1>6, <2>1, <2>2 DEF ProcessStep
  <1> QED BY <1>1, <1>2, <1>3, <1>4, <1>5, <1>6 DEF Next

(* The table being flushed synchronously has no older flight, and what is   *)
(* settled is the whole difference.                                         *)
LEMMA OwnershipStep ==
    ASSUME Inv, Next
    PROVE  TurnOwnsItsFlight'
  <1> USE DEF Inv
  <1>o. turn'.step \notin {"flush", "settle"} => TurnOwnsItsFlight'
    BY DEF TurnOwnsItsFlight
  <1>n. turn' = NoTurn => TurnOwnsItsFlight'
    BY <1>o DEF NoTurn
  <1>1. ASSUME NEW ok \in BOOLEAN, EndsTable(ok)
        PROVE  TurnOwnsItsFlight'
    BY <1>o, <1>n, <1>1, EndedTable, FinishedTable
  <1>2. CASE FlushReconcile /\ turn.table \in dirty
    <2>0. PICK t : t = turn.table
      OBVIOUS
    <2>1. t \in Tables /\ ~InFlight(t)'
      BY <1>2, <2>0, ReconciledFlight
    <2>2. turn'.table = t /\ turn'.step = "flush"
      BY <1>2, <2>0 DEF FlushReconcile, TypeOK, Turn
    <2> QED BY <2>1, <2>2 DEF TurnOwnsItsFlight, InFlight
  <1>3. CASE FlushRecover
    <2>1. turn' = turn /\ turn.step = "flush" /\ turn.table \in Tables
      BY <1>3 DEF FlushRecover, turnVars, TurnIsWellFormed
    <2>2. \A t \in Tables : ~InFlight(t)'
      BY <1>3, RecoveredFlights DEF FlushRecover
    <2> QED BY <2>1, <2>2 DEF TurnOwnsItsFlight, InFlight
  <1>4. CASE \E t \in Tables : FlushJournals(t)
    <2>1. PICK t \in Tables : FlushJournals(t)
      BY <1>4
    <2>2. /\ turn'.table = t /\ turn'.step = "settle"
          /\ running /\ running' = running /\ JournalFlush(t)
          /\ ~UseWorker
      BY <2>1 DEF FlushJournals, JournalFlush, Flushing, processVars, TypeOK, Turn
    <2>3. /\ InFlight(t)'
          /\ inFlightFlushes'[t].submittedToWorker = UseWorker
          /\ Effective(t)' = Snapshot(t)
      BY <2>2, JournalledFlight
    <2>4. Snapshot(t)' = Snapshot(t)
      BY <2>2 DEF JournalFlush, ClearDirtyRows, Snapshot
    <2> QED BY <2>2, <2>3, <2>4 DEF TurnOwnsItsFlight, InFlight, Effective, Snapshot
  <1>5. CASE WorkerThread \/ WorkerCrashes
    <2>1. /\ UNCHANGED <<turn, cache, transientPaths, flushBaselines, inFlightFlushes>>
      BY <1>5 DEF WorkerThread, WorkerCrashes, turnVars, cacheVars, flushVars
    <2> QED BY <2>1 DEF TurnOwnsItsFlight, InFlight, Effective, Snapshot
  <1>6. CASE \E t \in Tables : TimerFires(t) \/ FlushTableSync(t)
    BY <1>6, <1>o DEF TimerFires, FlushTableSync, BeginFlush, TurnOwnsItsFlight
  <1>7. CASE \E batches \in AtomicCommits : CommitAtomicRowWrites(batches)
    BY <1>7, <1>o DEF CommitAtomicRowWrites, BeginFlush
  <1>8. CASE ShutdownSignal \/ ProcessExit \/ ExitHandlerFlushes
    BY <1>8, <1>o DEF ShutdownSignal, ProcessExit, ExitHandlerFlushes, FlushAllSync, BeginFlush
  <1> QED BY <1>n, <1>1, <1>2, <1>3, <1>4, <1>5, <1>6, <1>7, <1>8, TurnKinds

(* No row of a commit turns transient while the commit runs. *)
LEMMA ProposalsStep ==
    ASSUME Inv, Next
    PROVE  ProposalsArePersistent'
  <1> USE DEF Inv
  <1>n. proposals' = NoProposals => ProposalsArePersistent'
    BY DEF ProposalsArePersistent, NoProposals, NoBatch
  <1>u. proposals' = proposals /\ transientPaths' = transientPaths => ProposalsArePersistent'
    BY DEF ProposalsArePersistent
  <1>i. Idle => proposals = NoProposals
    BY DEF Idle, NoTurn, TurnIsWellFormed
  <1>1. ASSUME NEW ok \in BOOLEAN, EndsTable(ok)
        PROVE  ProposalsArePersistent'
    <2>1. transientPaths' = transientPaths
      BY <1>1
         DEF EndsTable, FlushReconcile, FlushFindsFlight, FlushFindsNothing, FlushSubmits,
             FlushSubmitFails, FlushJournalFails, FlushSettles, FlushReconcileFails,
             FlushRecoverFails, FlushSettleFails, JournalFlush, ClearDirtyRows, cacheVars
    <2> QED BY <1>n, <1>u, <1>1, <2>1, EndedTable, FinishedTable
  <1>2. CASE FlushReconcile /\ turn.table \in dirty
    BY <1>2, <1>u DEF FlushReconcile, cacheVars
  <1>3. CASE FlushRecover
    BY <1>3, <1>u DEF FlushRecover, cacheVars, turnVars
  <1>4. CASE \E t \in Tables : FlushJournals(t)
    BY <1>4, <1>u DEF FlushJournals, JournalFlush, ClearDirtyRows
  <1>5. CASE WorkerThread \/ WorkerCrashes
    BY <1>5, <1>u DEF WorkerThread, WorkerCrashes, cacheVars, turnVars
  <1>6. CASE \E t \in Tables : TimerFires(t) \/ FlushTableSync(t)
    BY <1>6, <1>n, <1>i DEF TimerFires, FlushTableSync
  <1>7. CASE \E batches \in AtomicCommits : CommitAtomicRowWrites(batches)
    BY <1>7 DEF CommitAtomicRowWrites, cacheVars, ProposalsArePersistent
  <1>8. CASE ShutdownSignal \/ ProcessExit \/ ExitHandlerFlushes
    BY <1>8, <1>u DEF ShutdownSignal, ProcessExit, ExitHandlerFlushes, cacheVars
  <1> QED BY <1>n, <1>1, <1>2, <1>3, <1>4, <1>5, <1>6, <1>7, <1>8, TurnKinds

(* The persistent rows of t in memory are what the journal will produce. *)
Clean(t) == \A r \in Rows \ transientPaths[t] : cache[t][r] = Effective(t)[r]

(* What the end of a table's flush has done. *)
FlushEnded(t, ok) ==
    /\ running /\ running' = running
    /\ UNCHANGED <<cache, transientPaths>>
    /\ \A u \in Tables \ {t} : /\ InFlight(u)' <=> InFlight(u)
                               /\ Effective(u)' = Effective(u)
                               /\ u \in dirty' <=> u \in dirty
    /\ ok /\ turn.caller \in {"commit", "shutdown"} => ~InFlight(t)' /\ t \notin dirty'
    /\ t \in dirty' \/ Clean(t)'

(* A flush that ends without error leaves its table settled or dirty, and   *)
(* clean unless dirty; one that fails leaves it dirty.                      *)
LEMMA FlushEndEffect ==
    ASSUME Inv, NEW ok \in BOOLEAN, EndsTable(ok), NEW t, t = turn.table
    PROVE  t \in Tables /\ FlushEnded(t, ok)
  <1> USE DEF Inv
  <1>0. t \in Tables
    BY EndedTable
  <1>k. EffectiveUnchanged /\ UNCHANGED <<cache, transientPaths>> /\ Clean(t) => Clean(t)'
    BY <1>0 DEF EffectiveUnchanged, Clean
  <1>s. ASSUME Snapshot(t) = Effective(t)
        PROVE  Clean(t)
    BY <1>0, <1>s DEF Clean, Snapshot
  <1>c. t \notin dirty /\ running /\ turn.step \notin {"flush", "settle"} => Clean(t)
    BY <1>0 DEF CleanUnlessFlushing, Clean
  <1>1. CASE FlushReconcile /\ turn.table \notin dirty /\ ok
    <2>1. /\ running /\ running' = running /\ EffectiveUnchanged
          /\ ~InFlight(t)'
          /\ \A u \in Tables \ {t} : inFlightFlushes'[u] = inFlightFlushes[u]
      BY <1>1, ReconciledFlight
    <2>2. dirty' = dirty /\ UNCHANGED <<cache, transientPaths>> /\ turn.step = "reconcile"
      BY <1>1 DEF FlushReconcile, cacheVars
    <2> QED BY <1>0, <1>1, <1>c, <1>k, <2>1, <2>2 DEF FlushEnded, EffectiveUnchanged, InFlight
  <1>2. CASE \E u \in Tables : FlushFindsFlight(u) /\ ok
    <2>1. /\ running /\ running' = running /\ EffectiveUnchanged /\ FlightsUnchanged
      BY <1>2, QuietSteps, QuietFlights
    <2>2. turn.step = "flush" /\ InFlight(t) /\ turn.caller = "timer"
      BY <1>2 DEF FlushFindsFlight, Flushing, TurnOwnsItsFlight
    <2>3. dirty' = dirty \cup {t} /\ UNCHANGED <<cache, transientPaths>>
      BY <1>2, <2>2 DEF FlushFindsFlight, Flushing, cacheVars
    <2> QED BY <1>0, <2>1, <2>2, <2>3
            DEF FlushEnded, EffectiveUnchanged, FlightsUnchanged, InFlight
  <1>3. CASE \E u \in Tables : FlushFindsNothing(u) /\ ok
    <2>1. running /\ running' = running /\ EffectiveUnchanged /\ FlightsUnchanged
      BY <1>3, QuietSteps, QuietFlights
    <2>2. /\ ~InFlight(t) /\ FlushDiff(t) = NoBatch
          /\ dirty' = DirtyAfterFlush(t)
          /\ UNCHANGED <<cache, transientPaths>>
      BY <1>3 DEF FlushFindsNothing, Flushing, ClearDirtyRows
    <2>3. Clean(t)'
      BY <1>0, <1>k, <1>s, <2>1, <2>2, NothingToFlush
    <2> QED BY <1>0, <2>1, <2>2, <2>3
            DEF FlushEnded, EffectiveUnchanged, FlightsUnchanged, InFlight, DirtyAfterFlush
  <1>4. CASE \E u \in Tables : (FlushSubmits(u) /\ ok) \/ (FlushSubmitFails(u) /\ ~ok)
    <2>1. /\ JournalFlush(t) /\ UseWorker /\ running /\ running' = running
          /\ UNCHANGED <<cache, transientPaths>>
      BY <1>4 DEF FlushSubmits, FlushSubmitFails, JournalFlush, Flushing, ClearDirtyRows,
                  processVars
    <2>2. /\ Effective(t)' = Snapshot(t)
          /\ \A u \in Tables \ {t} : /\ Effective(u)' = Effective(u)
                                     /\ inFlightFlushes'[u] = inFlightFlushes[u]
      BY <1>0, <2>1, JournalledFlight
    <2>3. Clean(t)'
      BY <1>0, <2>1, <2>2 DEF Clean, Snapshot
    <2>4. turn.caller = "timer" /\ (dirty' = dirty \/ dirty' = dirty \cup {t})
      BY <1>4, <2>1 DEF UseWorker, FlushSubmits, FlushSubmitFails, FlushThrows, JournalFlush,
                        Flushing
    <2> QED BY <1>0, <2>1, <2>2, <2>3, <2>4 DEF FlushEnded, InFlight
  <1>5. CASE /\ \/ FlushReconcileFails \/ FlushRecoverFails \/ FlushSettleFails
                \/ \E u \in Tables : FlushJournalFails(u)
             /\ ~ok
    <2>1. running /\ running' = running /\ EffectiveUnchanged /\ FlightsUnchanged
      BY <1>5, QuietSteps, QuietFlights DEF FlushFailure
    <2>2. dirty' = dirty \cup {t} /\ UNCHANGED <<cache, transientPaths>>
      BY <1>5 DEF FlushReconcileFails, FlushRecoverFails, FlushSettleFails,
                  FlushJournalFails, Flushing, FlushThrows, cacheVars
    <2> QED BY <1>0, <1>5, <2>1, <2>2
            DEF FlushEnded, EffectiveUnchanged, FlightsUnchanged, InFlight
  <1>6. CASE FlushSettles /\ ok
    <2>1. /\ running /\ running' = running /\ EffectiveUnchanged
          /\ ~InFlight(t)'
          /\ \A u \in Tables \ {t} : inFlightFlushes'[u] = inFlightFlushes[u]
      BY <1>6, ReconciledFlight
    <2>2. dirty' = DirtyAfterFlush(t) /\ UNCHANGED <<cache, transientPaths>>
      BY <1>6 DEF FlushSettles, cacheVars
    <2>3. Clean(t)'
      BY <1>6, <1>k, <1>s, <2>1, <2>2 DEF FlushSettles, TurnOwnsItsFlight
    <2> QED BY <1>0, <2>1, <2>2, <2>3
            DEF FlushEnded, EffectiveUnchanged, InFlight, DirtyAfterFlush
  <1> QED BY <1>0, <1>1, <1>2, <1>3, <1>4, <1>5, <1>6 DEF EndsTable

(* The tables a commit or a shutdown has swept stay swept. *)
LEMMA SweepStep ==
    ASSUME Inv, Next
    PROVE  SweptTablesStayClean'
  <1> USE DEF Inv
  <1>n. turn'.caller \notin {"commit", "shutdown"} => SweptTablesStayClean'
    BY DEF SweptTablesStayClean
  <1>1. ASSUME NEW ok \in BOOLEAN, EndsTable(ok)
        PROVE  SweptTablesStayClean'
    <2>0. PICK t : t = turn.table
      OBVIOUS
    <2>1. /\ t \in Tables
          /\ \/ turn' = NoTurn /\ proposals' = NoProposals
             \/ /\ turn'.caller = turn.caller
                /\ proposals' = proposals
                /\ turn'.ok => turn.ok /\ ok
                /\ turn.caller = "commit" => ok
                /\ \A u \in turn.rest : u = turn'.table \/ u \in turn'.rest
      BY <1>1, <2>0, EndedTable, FinishedTable
    <2>2. FlushEnded(t, ok)
      BY <1>1, <2>0, FlushEndEffect
    <2> QED BY <1>n, <2>0, <2>1, <2>2 DEF SweptTablesStayClean, FlushEnded, NoTurn
  <1>2. CASE FlushReconcile /\ turn.table \in dirty
    <2>0. PICK t : t = turn.table
      OBVIOUS
    <2>1. /\ turn'.table = t /\ turn'.caller = turn.caller /\ turn'.rest = turn.rest
          /\ turn'.ok = turn.ok /\ proposals' = proposals /\ dirty' = dirty
      BY <1>2, <2>0 DEF FlushReconcile, TypeOK, Turn
    <2>2. \A u \in Tables \ {t} : inFlightFlushes'[u] = inFlightFlushes[u]
      BY <1>2, <2>0, ReconciledFlight
    <2> QED BY <2>0, <2>1, <2>2 DEF SweptTablesStayClean, InFlight
  <1>3. CASE FlushRecover
    <2>1. turn' = turn /\ proposals' = proposals /\ dirty' = dirty
      BY <1>3 DEF FlushRecover, turnVars
    <2>2. \A t \in Tables : ~InFlight(t)'
      BY <1>3, RecoveredFlights DEF FlushRecover
    <2> QED BY <2>1, <2>2 DEF SweptTablesStayClean
  <1>4. CASE \E t \in Tables : FlushJournals(t)
    <2>1. PICK t \in Tables : FlushJournals(t)
      BY <1>4
    <2>2. /\ turn'.table = t /\ turn.table = t
          /\ turn'.caller = turn.caller /\ turn'.rest = turn.rest /\ turn'.ok = turn.ok
          /\ proposals' = proposals /\ dirty' = dirty
          /\ \A u \in Tables \ {t} : inFlightFlushes'[u] = inFlightFlushes[u]
      BY <2>1 DEF FlushJournals, JournalFlush, Flushing, TypeOK, Turn
    <2> QED BY <2>2 DEF SweptTablesStayClean, InFlight
  <1>5. CASE WorkerThread \/ WorkerCrashes
    <2>1. UNCHANGED <<turn, proposals, dirty, inFlightFlushes>>
      BY <1>5 DEF WorkerThread, WorkerCrashes, turnVars, flushVars
    <2> QED BY <2>1 DEF SweptTablesStayClean, InFlight
  <1>6. CASE \E t \in Tables : TimerFires(t) \/ FlushTableSync(t)
    BY <1>6, <1>n DEF TimerFires, FlushTableSync, BeginFlush
  <1>7. CASE \E batches \in AtomicCommits : CommitAtomicRowWrites(batches)
    <2>1. PICK batches \in AtomicCommits : CommitAtomicRowWrites(batches)
      BY <1>7
    <2>2. PICK t \in TouchedTables(batches) :
            BeginFlush("commit", "reconcile", t, TouchedTables(batches) \ {t})
      BY <2>1 DEF CommitAtomicRowWrites
    <2>3. proposals' = batches /\ turn'.caller = "commit"
          /\ \A u \in TouchedTables(batches) : u = turn'.table \/ u \in turn'.rest
      BY <2>1, <2>2 DEF CommitAtomicRowWrites, BeginFlush
    <2> QED BY <2>3 DEF SweptTablesStayClean, TouchedTables
  <1>8. CASE ShutdownSignal
    <2>1. \A t \in TablesToFlush : t = turn'.table \/ t \in turn'.rest
      BY <1>8, BegunSweep DEF ShutdownSignal, Idle, NoTurn, TurnIsWellFormed
    <2>2. UNCHANGED <<dirty, inFlightFlushes>> /\ turn'.caller = "shutdown"
      BY <1>8 DEF ShutdownSignal, flushVars, FlushAllSync, BeginFlush
    <2> QED BY <2>1, <2>2 DEF SweptTablesStayClean, TablesToFlush, InFlight
  <1>9. CASE ProcessExit \/ ExitHandlerFlushes
    BY <1>9, <1>n DEF ProcessExit, ExitHandlerFlushes, FlushAllSync, BeginFlush
  <1>10. CASE turn' = NoTurn
    BY <1>10, <1>n DEF NoTurn
  <1> QED BY <1>1, <1>2, <1>3, <1>4, <1>5, <1>6, <1>7, <1>8, <1>9, <1>10, TurnKinds

(* Steps that change neither cache nor dirty set, and leave no flush half   *)
(* done behind.                                                             *)
CalmStep ==
    /\ running /\ running' = running
    /\ UNCHANGED <<cache, transientPaths, dirty>>
    /\ turn' = turn \/ turn.step \notin {"flush", "settle"}

(* The kinds of steps a clean table sees. *)
LEMMA CleanKinds ==
    ASSUME Inv, Next
    PROVE  \/ CacheWrite
           \/ \E ok \in BOOLEAN : EndsTable(ok)
           \/ \E t \in Tables : FlushJournals(t) \/ TimerFires(t)
           \/ CommitApplies
           \/ GoOffline
           \/ ProcessStarts
           \/ CalmStep
  <1> USE DEF Inv
  <1>i. Idle => turn.step \notin {"flush", "settle"}
    BY DEF Idle, NoTurn
  <1>r. QuietCacheStep => UNCHANGED <<cache, transientPaths>>
    BY QuietCaches DEF cacheVars
  <1>p. \/ running /\ running' = running
        \/ running /\ GoOffline
        \/ ProcessStarts
    BY ProcessLifeCycle DEF ProcessStops
  <1>1. CASE CallerStep
    <2>1. CASE \E t \in Tables : FlushTableSync(t)
      BY <1>i, <1>p, <1>r, <2>1 DEF FlushTableSync, QuietCacheStep, CalmStep, flushVars
    <2>2. CASE \E batches \in AtomicCommits : CommitAtomicRowWrites(batches)
      BY <1>i, <1>p, <1>r, <2>2 DEF CommitAtomicRowWrites, QuietCacheStep, CalmStep, flushVars
    <2> QED BY <1>1, <2>1, <2>2 DEF CallerStep, CacheWrite
  <1>2. CASE TimerStep
    <2>1. CASE \E t \in Tables : TimerFiresClean(t)
      BY <1>i, <1>p, <1>r, <1>2, <2>1 DEF TimerFiresClean, QuietCacheStep, CalmStep
    <2> QED BY <1>2, <2>1 DEF TimerStep
  <1>3. CASE FlushStep
    <2>1. CASE FlushReconcile /\ turn.table \in dirty
      BY <1>p, <1>r, <2>1 DEF FlushReconcile, QuietCacheStep, CalmStep
    <2>2. CASE FlushRecover
      BY <1>p, <1>r, <2>2 DEF FlushRecover, QuietCacheStep, CalmStep, turnVars
    <2> QED BY <1>3, <2>1, <2>2 DEF FlushStep, EndsTable
  <1>4. CASE FlushFailure
    <2>1. CASE CommitFails
      BY <1>p, <1>r, <1>4, <2>1 DEF CommitFails, QuietCacheStep, CalmStep, flushVars
    <2> QED BY <1>4, <2>1 DEF FlushFailure, EndsTable
  <1>5. CASE ReplyStep \/ WorkerThread \/ WorkerCrashes
    <2>1. UNCHANGED <<turn, dirty>>
      BY <1>5
         DEF ReplyStep, WriteAcknowledged, WriteCompleteIgnored, WriteErrorReported,
             WorkerExits, WorkerThread, WorkerCrashes, turnVars, flushVars
    <2> QED BY <1>5, <1>p, <1>r, <2>1 DEF QuietCacheStep, CalmStep
  <1>6. CASE ProcessStep
    <2>1. CASE ShutdownSignal \/ ProcessExit \/ ExitHandlerFlushes
      BY <1>i, <1>p, <1>r, <2>1
         DEF ShutdownSignal, ProcessExit, ExitHandlerFlushes, QuietCacheStep, CalmStep, flushVars
    <2> QED BY <1>6, <2>1 DEF ProcessStep, ProcessEnds, ProcessCrashes
  <1> QED BY <1>1, <1>2, <1>3, <1>4, <1>5, <1>6 DEF Next

(* What a calm step does to flights and journal. *)
LEMMA CalmFlights ==
    ASSUME Inv, Next, CalmStep, ~CommitApplies, \A t \in Tables : ~JournalFlush(t)
    PROVE  EffectiveUnchanged
  BY FlightsOfSteps DEF CalmStep

(* A table leaves the dirty set only when its rows are in the journal. *)
LEMMA CleanStep ==
    ASSUME Inv, Next
    PROVE  CleanUnlessFlushing'
  <1> USE DEF Inv
  <1>c. ASSUME NEW t \in Tables, running, t \notin dirty,
               turn.table # t \/ turn.step \notin {"flush", "settle"}
        PROVE  Clean(t)
    BY <1>c DEF CleanUnlessFlushing, Clean
  <1>k. ASSUME NEW t \in Tables, cache'[t] = cache[t], Effective(t)' = Effective(t),
               transientPaths[t] \subseteq transientPaths'[t], Clean(t)
        PROVE  Clean(t)'
    BY <1>k DEF Clean
  <1>s. ASSUME running',
               \A t \in Tables : \/ t \in dirty' \/ Clean(t)'
                                 \/ turn'.table = t /\ turn'.step \in {"flush", "settle"}
        PROVE  CleanUnlessFlushing'
    BY <1>s DEF CleanUnlessFlushing, Clean
  <1>1. CASE CacheWrite
    <2>1. /\ running /\ running' /\ turn = NoTurn /\ FlightsUnchanged /\ EffectiveUnchanged
      BY <1>1, WriteEffect, QuietFlights
    <2>2. PICK t \in Tables : WriteIsTracked(t)
      BY <1>1, WriteEffect
    <2>3. ASSUME NEW u \in Tables, u \notin dirty'
          PROVE  Clean(u)'
      <3>1. /\ u \notin dirty /\ cache'[u] = cache[u]
            /\ transientPaths[u] \subseteq transientPaths'[u]
        BY <2>2, <2>3 DEF WriteIsTracked
      <3>2. Clean(u)
        BY <1>c, <2>1, <3>1 DEF NoTurn
      <3> QED BY <1>k, <2>1, <3>1, <3>2 DEF EffectiveUnchanged
    <2> QED BY <1>s, <2>1, <2>3
  <1>2. ASSUME NEW ok \in BOOLEAN, EndsTable(ok)
        PROVE  CleanUnlessFlushing'
    <2>0. PICK t : t = turn.table
      OBVIOUS
    <2>1. t \in Tables /\ FlushEnded(t, ok)
      BY <1>2, <2>0, FlushEndEffect
    <2>2. ASSUME NEW u \in Tables, u \notin dirty', u # t
          PROVE  Clean(u)'
      <3>1. /\ u \notin dirty /\ cache'[u] = cache[u]
            /\ transientPaths'[u] = transientPaths[u] /\ Effective(u)' = Effective(u)
            /\ running
        BY <2>1, <2>2 DEF FlushEnded
      <3>2. Clean(u)
        BY <1>c, <2>0, <2>2, <3>1
      <3> QED BY <1>k, <3>1, <3>2
    <2>3. running' /\ (t \in dirty' \/ Clean(t)')
      BY <2>1 DEF FlushEnded
    <2> QED BY <1>s, <2>2, <2>3
  <1>3. CASE \E t \in Tables : FlushJournals(t)
    <2>1. PICK t \in Tables : FlushJournals(t)
      BY <1>3
    <2>2. /\ turn'.table = t /\ turn'.step = "settle" /\ turn.table = t
          /\ running /\ running' = running /\ JournalFlush(t)
          /\ dirty' = dirty /\ UNCHANGED <<cache, transientPaths>>
      BY <2>1 DEF FlushJournals, JournalFlush, ClearDirtyRows, Flushing, processVars, TypeOK, Turn
    <2>3. \A u \in Tables \ {t} : Effective(u)' = Effective(u)
      BY <2>2, JournalledFlight
    <2> QED BY <1>c, <1>k, <1>s, <2>2, <2>3
  <1>4. CASE \E t \in Tables : TimerFires(t)
    <2>1. PICK t \in Tables : TimerFires(t)
      BY <1>4
    <2>2. /\ turn'.table = t /\ turn'.step = "flush" /\ turn = NoTurn
          /\ running /\ running' = running
          /\ dirty' = dirty \ {t} /\ UNCHANGED <<cache, transientPaths>>
          /\ UNCHANGED <<flushBaselines, inFlightFlushes>>
      BY <2>1 DEF TimerFires, BeginFlush, Idle, processVars, cacheVars
    <2>3. \A u \in Tables : Effective(u)' = Effective(u)
      BY <2>2 DEF Effective, InFlight
    <2>4. \A u \in Tables \ {t} : u \notin dirty => Clean(u)
      BY <1>c, <2>2 DEF NoTurn
    <2> QED BY <1>k, <1>s, <2>2, <2>3, <2>4
  <1>5. CASE CommitApplies
    <2>1. \A t \in Tables : /\ proposals[t] \in Batch
                            /\ cache[t] \in Content
                            /\ Effective(t) \in Content
      BY ViewTypes DEF TypeOK
    <2>2. \A t \in Tables : Effective(t)' = ApplyBatch(Effective(t), proposals[t])
      BY <1>5, CommitIsLast, CommittedFlights
    <2>3. /\ dirty' = dirty /\ transientPaths' = transientPaths
          /\ turn.step = "commit" /\ running /\ running' = running
          /\ \A t \in Tables : cache'[t] = ApplyBatch(cache[t], proposals[t])
      BY <1>5 DEF CommitApplies, processVars
    <2>4. ASSUME NEW t \in Tables, Clean(t)
          PROVE  Clean(t)'
      <3>1. ASSUME NEW r \in Rows, r \notin transientPaths[t]
            PROVE  ApplyBatch(cache[t], proposals[t])[r] = ApplyBatch(Effective(t), proposals[t])[r]
        BY <2>4, <3>1 DEF Clean, ApplyBatch
      <3> QED BY <2>2, <2>3, <3>1 DEF Clean
    <2> QED BY <1>c, <1>s, <2>3, <2>4
  <1>6. CASE GoOffline
    BY <1>6 DEF GoOffline, CleanUnlessFlushing
  <1>7. CASE ProcessStarts
    BY <1>7, StartedFlights DEF CleanUnlessFlushing
  <1>8. CASE CalmStep /\ ~CommitApplies /\ \A t \in Tables : ~JournalFlush(t)
    <2>1. EffectiveUnchanged
      BY <1>8, CalmFlights
    <2> QED BY <1>c, <1>k, <1>s, <1>8, <2>1 DEF CalmStep, EffectiveUnchanged
  <1>9. CASE CalmStep /\ \E t \in Tables : JournalFlush(t)
    <2>1. PICK t \in Tables : JournalFlush(t)
      BY <1>9
    <2>2. /\ Effective(t)' = Snapshot(t)
          /\ \A u \in Tables \ {t} : Effective(u)' = Effective(u)
      BY <1>9, <2>1, JournalledFlight DEF CalmStep
    <2>3. Clean(t)'
      BY <1>9, <2>2 DEF CalmStep, Clean, Snapshot
    <2>4. ASSUME NEW u \in Tables \ {t}, u \notin dirty',
                 turn'.table # u \/ turn'.step \notin {"flush", "settle"}
          PROVE  Clean(u)'
      BY <1>9, <1>c, <1>k, <2>2, <2>4 DEF CalmStep
    <2> QED BY <1>9, <1>s, <2>3, <2>4 DEF CalmStep
  <1> QED BY <1>1, <1>2, <1>3, <1>4, <1>5, <1>6, <1>7, <1>8, <1>9, CleanKinds

(* Journal and flights stay in agreement. *)
LEMMA FlightStep ==
    ASSUME Inv, Next
    PROVE  FlightMatchesJournal'
  <1> USE DEF Inv
  <1>p. \/ running /\ running' = running
        \/ running /\ GoOffline
        \/ ProcessStarts
    BY ProcessLifeCycle DEF ProcessStops
  <1>1. CASE GoOffline
    BY <1>1 DEF GoOffline, FlightMatchesJournal
  <1>2. CASE ProcessStarts
    BY <1>2, StartedFlights
  <1>3. CASE CommitApplies
    BY <1>3, CommitIsLast, CommittedFlights
  <1>4. CASE running /\ running' = running /\ \E t \in Tables : JournalFlush(t)
    BY <1>4, JournalledFlight
  <1>5. CASE /\ running /\ running' = running /\ ~CommitApplies
             /\ \A t \in Tables : ~JournalFlush(t)
    BY <1>5, FlightsOfSteps
  <1> QED BY <1>p, <1>1, <1>2, <1>3, <1>4, <1>5

--------------------------------------------------------------------------------
(* The inductive invariant. *)

(* A store that has never run satisfies it. *)
LEMMA InvInit ==
    ASSUME Init
    PROVE  Inv
  <1>1. TypeOK
    BY InitType
  <1>2. /\ ~running /\ Offline /\ turn = NoTurn /\ proposals = NoProposals
        /\ leases = [t \in Tables |-> NoOperation]
        /\ \A t \in Tables : /\ transientPaths[t] = {}
                              /\ cache[t] = [r \in Rows |-> NoRow]
                              /\ flushBaselines[t] = [r \in Rows |-> NoRow]
                              /\ ~InFlight(t)
    BY DEF Init, Offline, WorkerInit, InFlight
  <1>3. TurnIsWellFormed
    BY <1>2, GameStoreAssumption DEF TurnIsWellFormed, NoTurn
  <1>4. FlightMatchesJournal /\ CleanUnlessFlushing
    BY <1>2 DEF FlightMatchesJournal, CleanUnlessFlushing
  <1>5. LeaseMatchesFlight
    BY <1>2 DEF LeaseMatchesFlight, Leased
  <1>6. DirtyRowsCovered
    <2>1. \A t \in Tables : Snapshot(t) = Effective(t)
      BY <1>2 DEF Snapshot, Effective
    <2> QED BY <2>1 DEF DirtyRowsCovered
  <1>7. TurnOwnsItsFlight /\ SweptTablesStayClean
    BY <1>2 DEF TurnOwnsItsFlight, SweptTablesStayClean, NoTurn
  <1>8. ProposalsArePersistent
    BY <1>2 DEF ProposalsArePersistent, NoProposals, NoBatch
  <1> QED BY <1>1, <1>2, <1>3, <1>4, <1>5, <1>6, <1>7, <1>8 DEF Inv

(* Stuttering preserves it. *)
LEMMA InvStutter ==
    ASSUME Inv, UNCHANGED vars
    PROVE  Inv'
  <1>1. TypeOK'
    BY NextTypes DEF Inv
  <1>2. TurnIsWellFormed'
    BY TurnStep DEF Inv
  <1> USE DEF vars, storeVars, journalVars, workerVars, cacheVars, flushVars, processVars,
              turnVars
  <1>3. (~running => Offline)'
    BY DEF Inv, Offline, WorkerInit
  <1>4. \A t \in Tables : /\ InFlight(t)' <=> InFlight(t)
                          /\ Effective(t)' = Effective(t)
                          /\ Snapshot(t)' = Snapshot(t)
                          /\ Leased(t)' <=> Leased(t)
                          /\ Journalled(t)' <=> Journalled(t)
    BY DEF InFlight, Effective, Snapshot, Leased, Journalled
  <1>5. FlightMatchesJournal' /\ LeaseMatchesFlight'
    BY <1>4 DEF Inv, FlightMatchesJournal, LeaseMatchesFlight
  <1>6. DirtyRowsCovered' /\ CleanUnlessFlushing'
    BY <1>4 DEF Inv, DirtyRowsCovered, CleanUnlessFlushing
  <1>7. TurnOwnsItsFlight'
    BY DEF Inv, TurnOwnsItsFlight, InFlight, Effective, Snapshot
  <1>8. SweptTablesStayClean' /\ ProposalsArePersistent'
    BY <1>4 DEF Inv, SweptTablesStayClean, TouchedTables, ProposalsArePersistent
  <1> QED BY <1>1, <1>2, <1>3, <1>5, <1>6, <1>7, <1>8 DEF Inv

(* Inv holds in every reachable state, for every set of tables and rows,    *)
(* every bound, with and without the worker and the dirty-row fast path.    *)
THEOREM Inductive == Spec => []Inv
  <1>1. Init => Inv
    BY InvInit
  <1>2. Inv /\ [Next]_vars => Inv'
    <2>1. ASSUME Inv, Next
          PROVE  Inv'
      <3>1. TypeOK'
        BY <2>1, NextTypes DEF Inv
      <3>2. TurnIsWellFormed'
        BY <2>1, TurnStep DEF Inv
      <3> QED BY <2>1, <3>1, <3>2, OfflineStep, FlightStep, LeaseStep, DirtyRowsStep,
                 OwnershipStep, CleanStep, SweepStep, ProposalsStep DEF Inv
    <2> QED BY <2>1, InvStutter
  <1> QED BY <1>1, <1>2, PTL DEF Spec

(* The state of the store always has its types. *)
THEOREM TypeCorrect == Spec => []TypeOK
  <1>1. Inv => TypeOK
    BY DEF Inv
  <1> QED BY <1>1, Inductive, PTL

(* Every flight is in the journal, every journal row has its flight, and    *)
(* the rows are exactly before or after it (flushSqliteTable journals "the  *)
(* exact batch and its identity" before it releases any tracking).          *)
THEOREM JournalAgreement == Spec => []FlightMatchesJournal
  <1>1. Inv => FlightMatchesJournal
    BY DEF Inv
  <1> QED BY <1>1, Inductive, PTL

(* No acknowledgment and no recovery meets an operation other than the one  *)
(* in flight: the throws of handlePersistenceWorkerAcknowledged and         *)
(* handlePersistenceWorkerRecovered are unreachable.                        *)
THEOREM LeaseAgreement == Spec => []LeaseMatchesFlight
  <1>1. Inv => LeaseMatchesFlight
    BY DEF Inv
  <1> QED BY <1>1, Inductive, PTL

(* The partial diff of flushSqliteTable never misses a changed row. *)
THEOREM FastPathIsComplete == Spec => []DirtyRowsCovered
  <1>1. Inv => DirtyRowsCovered
    BY DEF Inv
  <1> QED BY <1>1, Inductive, PTL

(* A table that is neither dirty nor being flushed survives a crash at any  *)
(* instant: the journal or the rows hold every persistent row of it.        *)
THEOREM CrashSafety == Spec => []CleanTablesAreDurable
  <1>1. ASSUME Inv, running, NEW t \in Tables \ (dirty \cup {turn.table}),
               NEW r \in Rows \ transientPaths[t]
        PROVE  cache[t][r] = Recoverable(t)[r]
    <2>1. Recoverable(t) = Effective(t)
      BY <1>1, RecoverableIsEffective DEF Inv
    <2> QED BY <1>1, <2>1 DEF Inv, CleanUnlessFlushing
  <1>2. Inv => CleanTablesAreDurable
    BY <1>1 DEF CleanTablesAreDurable
  <1> QED BY <1>2, Inductive, PTL

(* An atomic commit of rows never leaves an older journalled operation of   *)
(* its tables behind that a recovery would replay over the new rows.        *)
THEOREM CommitOrder == Spec => []CommitFindsNothingOlder
  <1>1. Inv => CommitFindsNothingOlder
    BY CommitIsLast
  <1> QED BY <1>1, Inductive, PTL

(* A shutdown that reports success has every persistent row in the tables.  *)
THEOREM ShutdownSafety == Spec => []CleanShutdownIsDurable
  <1>1. ASSUME Inv, turn.caller = "shutdown", turn.step = "exit", turn.ok
        PROVE  /\ TablesToFlush = {}
               /\ \A t \in Tables : \A r \in Rows \ transientPaths[t] :
                    cache[t][r] = rows[t][r]
    <2>1. turn.rest = {} /\ turn.table \notin Tables /\ running
      BY <1>1 DEF Inv, TurnIsWellFormed, Offline, NoTurn
    <2>2. \A t \in Tables : ~InFlight(t) /\ t \notin dirty
      BY <1>1, <2>1 DEF Inv, SweptTablesStayClean
    <2>3. TablesToFlush = {}
      BY <1>1, <2>2 DEF TablesToFlush, Inv, TypeOK
    <2>4. ASSUME NEW t \in Tables, NEW r \in Rows \ transientPaths[t]
          PROVE  cache[t][r] = rows[t][r]
      <3>1. Effective(t) = rows[t]
        BY <1>1, <2>1, <2>2 DEF Inv, FlightMatchesJournal, Effective
      <3> QED BY <1>1, <2>1, <2>2, <3>1 DEF Inv, CleanUnlessFlushing
    <2> QED BY <2>3, <2>4
  <1>2. Inv => CleanShutdownIsDurable
    BY <1>1 DEF CleanShutdownIsDurable
  <1> QED BY <1>2, Inductive, PTL

--------------------------------------------------------------------------------
(* GameStore implements DurableStore: with every step, what callers read    *)
(* and what a restart would load change as the abstract store allows.       *)
(*                                                                          *)
(* A cache write is a Put, the INSERT of a flush into the journal is the    *)
(* Checkpoint (from then on recovery reproduces the snapshot), the atomic   *)
(* transaction is CommitRows, the end of the process is Lose.  The worker,  *)
(* acknowledgments, reconciliations, recoveries, restarts and failures are  *)
(* invisible.                                                               *)

Mem == [t \in Tables |-> IF running THEN Snapshot(t) ELSE Recoverable(t)]

Disk == [t \in Tables |-> Recoverable(t)]

(* Memory and disk of a running process, from its flights. *)
LEMMA RunningStore ==
    Inv => \A t \in Tables :
             /\ running => /\ Recoverable(t) = Effective(t)
                           /\ Mem[t] = Snapshot(t)
             /\ Disk[t] = Recoverable(t)
             /\ Snapshot(t) \in Content
             /\ Recoverable(t) \in Content
  BY RecoverableIsEffective, ViewTypes DEF Inv, Mem, Disk

(* The same in the next state. *)
LEMMA RunningStoreNext ==
    Inv' => \A t \in Tables :
             /\ running' => /\ Recoverable(t)' = Effective(t)'
                            /\ Mem'[t] = Snapshot(t)'
             /\ Disk'[t] = Recoverable(t)'
             /\ Snapshot(t)' \in Content
             /\ Recoverable(t)' \in Content
  <1>1. (Inv => \A t \in Tables :
             /\ running => /\ Recoverable(t) = Effective(t)
                           /\ Mem[t] = Snapshot(t)
             /\ Disk[t] = Recoverable(t)
             /\ Snapshot(t) \in Content
             /\ Recoverable(t) \in Content)'
    BY RunningStore, PTL
  <1> QED BY <1>1

--------------------------------------------------------------------------------
(* The abstract steps, on the mapped variables. *)

MappedPut ==
    /\ \E t \in Tables, content \in Content : Mem' = [Mem EXCEPT ![t] = content]
    /\ Disk' = Disk

MappedCheckpoint ==
    /\ \E t \in Tables : Disk' = [Disk EXCEPT ![t] = Mem[t]]
    /\ Mem' = Mem

MappedCommitRows ==
    \E batches \in [Tables -> Batch] :
      /\ Mem' = [t \in Tables |-> ApplyBatch(Mem[t], batches[t])]
      /\ Disk' = [t \in Tables |-> ApplyBatch(Disk[t], batches[t])]

MappedLose == Mem' = Disk /\ Disk' = Disk

MappedNext ==
    \/ MappedPut
    \/ MappedCheckpoint
    \/ MappedCommitRows
    \/ MappedLose
    \/ Mem' = Mem /\ Disk' = Disk

(* Two functions on Tables are equal if they agree everywhere. *)
LEMMA MappedEquality ==
    /\ (\A t \in Tables : Mem'[t] = Mem[t]) => Mem' = Mem
    /\ (\A t \in Tables : Disk'[t] = Disk[t]) => Disk' = Disk
  BY DEF Mem, Disk

(* A cache write. *)
LEMMA WriteIsPut ==
    ASSUME Inv, Inv', CacheWrite
    PROVE  MappedPut
  <1>1. PICK t \in Tables : WriteIsTracked(t)
    BY WriteEffect DEF Inv
  <1>2. running /\ running' /\ EffectiveUnchanged
    BY WriteEffect, QuietFlights DEF Inv
  <1>3. \A u \in Tables \ {t} : Snapshot(u)' = Snapshot(u)
    BY <1>1 DEF WriteIsTracked, Snapshot
  <1>4. \A u \in Tables \ {t} : Mem'[u] = Mem[u]
    BY <1>2, <1>3, RunningStore, RunningStoreNext
  <1>5. Mem' = [Mem EXCEPT ![t] = Snapshot(t)'] /\ Snapshot(t)' \in Content
    BY <1>2, <1>4, RunningStoreNext DEF Mem
  <1>6. Disk' = Disk
    BY <1>2, RunningStore, RunningStoreNext, MappedEquality DEF EffectiveUnchanged
  <1> QED BY <1>5, <1>6 DEF MappedPut

(* The journal INSERT of a flush. *)
LEMMA JournalIsCheckpoint ==
    ASSUME Inv, Inv', NEW t \in Tables, JournalFlush(t)
    PROVE  MappedCheckpoint
  <1>1. running /\ running' = running
    BY DEF JournalFlush, Flushing, processVars
  <1>2. /\ Effective(t)' = Snapshot(t)
        /\ \A u \in Tables \ {t} : Effective(u)' = Effective(u)
    BY <1>1, JournalledFlight DEF Inv
  <1>3. UNCHANGED <<cache, transientPaths>>
    BY DEF JournalFlush, ClearDirtyRows
  <1>4. Mem' = Mem
    BY <1>1, <1>3, QuietSnapshots, RunningStore, RunningStoreNext, MappedEquality
       DEF SnapshotUnchanged
  <1>5. Disk'[t] = Mem[t] /\ \A u \in Tables \ {t} : Disk'[u] = Disk[u]
    BY <1>1, <1>2, RunningStore, RunningStoreNext
  <1>6. Disk' = [Disk EXCEPT ![t] = Mem[t]]
    BY <1>5 DEF Disk
  <1> QED BY <1>4, <1>6 DEF MappedCheckpoint

(* The transaction of an atomic commit. *)
LEMMA CommitIsCommitRows ==
    ASSUME Inv, Inv', CommitApplies
    PROVE  MappedCommitRows
  <1>1. /\ running /\ running' = running /\ transientPaths' = transientPaths
        /\ \A t \in Tables : cache'[t] = ApplyBatch(cache[t], proposals[t])
    BY DEF CommitApplies, processVars
  <1>2. \A t \in Tables : Effective(t)' = ApplyBatch(Effective(t), proposals[t])
    BY CommitIsLast, CommittedFlights DEF Inv
  <1>3. ASSUME NEW t \in Tables
        PROVE  Snapshot(t)' = ApplyBatch(Snapshot(t), proposals[t])
    <2>1. \A r \in Rows : proposals[t][r] # Untouched => r \notin transientPaths[t]
      BY DEF Inv, ProposalsArePersistent
    <2> QED BY <1>1, <2>1 DEF Snapshot, ApplyBatch
  <1>4. Mem' = [t \in Tables |-> ApplyBatch(Mem[t], proposals[t])]
    BY <1>1, <1>3, RunningStore, RunningStoreNext DEF Mem
  <1>5. Disk' = [t \in Tables |-> ApplyBatch(Disk[t], proposals[t])]
    <2>1. \A t \in Tables : Disk'[t] = ApplyBatch(Disk[t], proposals[t])
      BY <1>1, <1>2, RunningStore, RunningStoreNext
    <2> QED BY <2>1 DEF Disk
  <1>6. proposals \in [Tables -> Batch]
    BY DEF Inv, TypeOK
  <1> QED BY <1>4, <1>5, <1>6 DEF MappedCommitRows

(* The end of the process. *)
LEMMA StopIsLose ==
    ASSUME ProcessStops
    PROVE  MappedLose
  <1>1. \A t \in Tables : Recoverable(t)' = Recoverable(t)
    BY DEF ProcessStops, journalVars, Recoverable, Journalled
  <1>2. ~running'
    BY DEF ProcessStops, GoOffline
  <1> QED BY <1>1, <1>2 DEF MappedLose, Mem, Disk

(* The start of the process. *)
LEMMA StartIsInvisible ==
    ASSUME Inv, Inv', ProcessStarts
    PROVE  Mem' = Mem /\ Disk' = Disk
  <1>1. \A t \in Tables : /\ Snapshot(t)' = Effective(t)'
                          /\ rows'[t] = Recoverable(t)
                          /\ ~InFlight(t)'
    BY StartedFlights DEF Inv
  <1>2. ~running /\ running' /\ FlightMatchesJournal'
    BY DEF ProcessStarts, Inv
  <1>3. \A t \in Tables : Effective(t)' = rows'[t]
    BY <1>1, <1>2 DEF FlightMatchesJournal, Effective
  <1>4. \A t \in Tables : Mem[t] = Recoverable(t) /\ Disk[t] = Recoverable(t)
    BY <1>2 DEF Mem, Disk
  <1>5. \A t \in Tables : Mem'[t] = Recoverable(t) /\ Disk'[t] = Recoverable(t)
    BY <1>1, <1>2, <1>3, RunningStoreNext
  <1> QED BY <1>4, <1>5, MappedEquality

(* Every other step. *)
LEMMA QuietIsInvisible ==
    ASSUME Inv, Inv', running, running' = running,
           UNCHANGED <<cache, transientPaths>>, EffectiveUnchanged
    PROVE  Mem' = Mem /\ Disk' = Disk
  BY QuietSnapshots, RunningStore, RunningStoreNext, MappedEquality
     DEF SnapshotUnchanged, EffectiveUnchanged

(* Every step of GameStore is one of the abstract steps or invisible. *)
LEMMA MappedStep ==
    ASSUME Inv, Inv', [Next]_vars
    PROVE  MappedNext
  <1>1. CASE CacheWrite
    BY <1>1, WriteIsPut DEF MappedNext
  <1>2. CASE \E t \in Tables : JournalFlush(t)
    BY <1>2, JournalIsCheckpoint DEF MappedNext
  <1>3. CASE CommitApplies
    BY <1>3, CommitIsCommitRows DEF MappedNext
  <1>4. CASE ProcessStops
    BY <1>4, StopIsLose DEF MappedNext
  <1>5. CASE ProcessStarts
    BY <1>5, StartIsInvisible DEF MappedNext
  <1>6. CASE \E t \in Tables : FlushFindsNothing(t)
    <2>1. running /\ running' = running /\ EffectiveUnchanged
      BY <1>6, QuietSteps, QuietFlights DEF Inv
    <2>2. UNCHANGED <<cache, transientPaths>>
      BY <1>6 DEF FlushFindsNothing, ClearDirtyRows
    <2> QED BY <2>1, <2>2, QuietIsInvisible DEF MappedNext
  <1>7. CASE /\ Next /\ running /\ running' = running /\ QuietCacheStep
             /\ ~CommitApplies /\ \A t \in Tables : ~JournalFlush(t)
    <2>1. EffectiveUnchanged
      BY <1>7, FlightsOfSteps
    <2>2. UNCHANGED <<cache, transientPaths>>
      BY <1>7, QuietCaches DEF cacheVars
    <2> QED BY <1>7, <2>1, <2>2, QuietIsInvisible DEF MappedNext
  <1>8. CASE UNCHANGED vars
    <2>1. Mem' = Mem /\ Disk' = Disk
      BY <1>8 DEF vars, storeVars, journalVars, cacheVars, processVars, Mem, Disk,
                  Snapshot, Recoverable, Journalled
    <2> QED BY <2>1 DEF MappedNext
  <1>9. Next =>
        \/ CacheWrite
        \/ \E t \in Tables : FlushFindsNothing(t) \/ JournalFlush(t)
        \/ CommitApplies
        \/ ProcessStops
        \/ ProcessStarts
        \/ running /\ running' = running /\ QuietCacheStep
    BY NextKinds DEF Inv
  <1> QED BY <1>1, <1>2, <1>3, <1>4, <1>5, <1>6, <1>7, <1>8, <1>9

(* A mapped step is a step of DurableStore. *)
LEMMA AbstractStep ==
    ASSUME MappedNext
    PROVE  [Durable!Next]_<<Mem, Disk>>
  <1>1. Mem = [t \in Tables |-> IF running THEN Snapshot(t) ELSE Recoverable(t)]
    BY DEF Mem
  <1>2. Disk = [t \in Tables |-> Recoverable(t)]
    BY DEF Disk
  <1>3. CASE MappedPut
    BY <1>3 DEF MappedPut, Durable!Next, Durable!Put, Durable!Contents, Content, Mem, Disk
  <1>4. CASE MappedCheckpoint
    BY <1>4 DEF MappedCheckpoint, Durable!Next, Durable!Checkpoint, Mem, Disk
  <1>5. CASE MappedCommitRows
    BY <1>5 DEF MappedCommitRows, Durable!Next, Durable!CommitRows, Durable!Batches, Batch,
                Durable!Patched, ApplyBatch, Mem, Disk
  <1>6. CASE MappedLose
    BY <1>6 DEF MappedLose, Durable!Next, Durable!Lose, Mem, Disk
  <1> QED BY <1>3, <1>4, <1>5, <1>6 DEF MappedNext

(* A store that has never run starts from any disk. *)
LEMMA AbstractInit ==
    ASSUME Init
    PROVE  Durable!Init
  <1>1. /\ ~running /\ rows \in [Tables -> Content]
        /\ \A t \in Tables : Recoverable(t) = rows[t]
    BY DEF Init, Offline, JournalInit, Recoverable, Journalled
  <1>2. Disk = rows /\ Mem = Disk
    BY <1>1 DEF Disk, Mem
  <1> QED BY <1>1, <1>2 DEF Durable!Init, Durable!Contents, Content, Mem, Disk

(* What callers are promised holds for every set of tables, rows and values:*)
(* a table reaches the disk whole, never goes back, atomic commits are      *)
(* atomic across tables and crashes, and a crash loses only what no flush   *)
(* had journalled.                                                          *)
THEOREM Refinement == Spec => ImplementsDurableStore
  <1>1. Init => Durable!Init
    BY AbstractInit
  <1>2. Inv /\ Inv' /\ [Next]_vars => [Durable!Next]_<<Mem, Disk>>
    BY MappedStep, AbstractStep
  <1>3. <<Mem, Disk>> = <<[t \in Tables |-> IF running THEN Snapshot(t) ELSE Recoverable(t)],
                          [t \in Tables |-> Recoverable(t)]>>
    BY DEF Mem, Disk
  <1> QED BY <1>1, <1>2, <1>3, Inductive, PTL
          DEF Spec, ImplementsDurableStore, Durable!Spec, Mem, Disk

================================================================================
