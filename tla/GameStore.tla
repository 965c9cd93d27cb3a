------------------------------- MODULE GameStore -------------------------------
(***************************************************************************)
(* The runtime data layer of the server: server/src/gameStore/index.ts.    *)
(*                                                                         *)
(* Callers read and write an in-memory cache.  A changed table is put in   *)
(* the dirty set and flushed two seconds later: the cache is diffed against*)
(* the last persisted baseline, the difference is journalled in the SQLite *)
(* outbox, and the worker thread (or the main thread itself) applies it.   *)
(* Callers that need durability now flush synchronously or commit rows of  *)
(* several tables atomically.                                              *)
(*                                                                         *)
(* JavaScript runs a main-thread turn to its end, but the worker thread and*)
(* the death of the process do not wait for it.  A turn that runs several  *)
(* SQLite transactions is therefore a sequence of steps, one transaction   *)
(* each, driven by `turn`; every other main-thread action needs an idle    *)
(* turn.                                                                   *)
(***************************************************************************)
EXTENDS PersistenceWorker

CONSTANTS
    NoTable,            \* "no table is being flushed"
    WorkerEnabled,      \* EVEJS_PERSISTENCE_WORKER === "1"
    DirtyRowsTracking,  \* EVEJS_GAMESTORE_DIRTY_ROWS !== "0"
    RootContents,       \* bound: the contents callers pass to write(t, "/")
    AtomicCommits,      \* bound: the row sets callers commit atomically
    MaxWrites           \* bound: cache changes along one behaviour

ASSUME GameStoreAssumption ==
    /\ NoTable \notin Tables
    /\ WorkerEnabled \in BOOLEAN
    /\ DirtyRowsTracking \in BOOLEAN
    /\ RootContents \subseteq Content
    /\ AtomicCommits \subseteq [Tables -> Batch]
    /\ MaxWrites \in Nat

VARIABLES
    running,            \* the server process is up and its tables are loaded
    cache,              \* cache[t][r]: row r of table t as read() returns it
    transientPaths,     \* transientPaths[t]: rows excluded from the flush
    dirty,              \* tables that need flushing
    dirtyRowKeys,       \* dirtyRowKeys[t]: rows touched since the last flush
    fullDirty,          \* tables whose next flush must diff every row
    flushTimers,        \* "none" | "armed" | "fired" (fired, id left behind)
    flushBaselines,     \* flushBaselines[t]: last persisted rows
    inFlightFlushes,    \* inFlightFlushes[t]: the unacknowledged operation
    lastCompleted,      \* lastCompletedPersistenceOperationId
    shutdownInProgress, \* flushDirtyTablesForShutdown has been entered
    turn,               \* the flush the main thread is in the middle of
    proposals,          \* the rows of the atomic commit in progress
    writes              \* cache changes so far, at most MaxWrites

cacheVars == <<cache, transientPaths, dirtyRowKeys, fullDirty>>
flushVars == <<dirty, flushTimers, flushBaselines, inFlightFlushes, lastCompleted>>
processVars == <<running, shutdownInProgress>>
turnVars == <<turn, proposals>>
storeVars == <<journalVars, faults>>

vars == <<storeVars, workerVars, cacheVars, flushVars, processVars, turnVars, writes>>

Flight == [operationId : Nat, batch : Batch, submittedToWorker : BOOLEAN]

Turn == [caller : {"none", "timer", "sync", "commit", "exit", "shutdown"},
         step : {"idle", "reconcile", "flush", "settle", "commit", "exit"},
         table : Tables \cup {NoTable},
         rest : SUBSET Tables,
         ok : BOOLEAN]

ASSUME FlightAssumption == NoOperation \notin Flight

NoTurn == [caller |-> "none", step |-> "idle", table |-> NoTable,
           rest |-> {}, ok |-> TRUE]

NoBatch == [r \in Rows |-> Untouched]

NoProposals == [t \in Tables |-> NoBatch]

--------------------------------------------------------------------------------
(* Reading the volatile state. *)

InFlight(t) == inFlightFlushes[t] # NoOperation

(* buildFlushSnapshot: the cache without its transient rows. *)
Snapshot(t) ==
    [r \in Rows |-> IF r \in transientPaths[t] THEN NoRow ELSE cache[t][r]]

(* The content the journal will have produced once the flight lands. *)
Effective(t) ==
    IF InFlight(t) THEN ApplyBatch(flushBaselines[t], inFlightFlushes[t].batch)
                   ELSE flushBaselines[t]

(* usePartial: diff the tracked rows only. *)
UsePartial(t) ==
    /\ DirtyRowsTracking
    /\ dirtyRowKeys[t] # {}
    /\ t \notin fullDirty
    /\ transientPaths[t] = {}

DiffedRows(t) == IF UsePartial(t) THEN dirtyRowKeys[t] ELSE Rows

(* The upserts and deletes of a flush. *)
FlushDiff(t) ==
    [r \in Rows |-> IF r \in DiffedRows(t) /\ Snapshot(t)[r] # flushBaselines[t][r]
                      THEN Snapshot(t)[r]
                      ELSE Untouched]

(* A flush that finds no active worker but flights of an earlier one. *)
MustRecover ==
    /\ WorkerEnabled
    /\ worker = "absent"
    /\ \E t \in Tables : InFlight(t)

Idle == running /\ turn = NoTurn

TouchedTables(batches) == {t \in Tables : batches[t] # NoBatch}

--------------------------------------------------------------------------------
(* Callers change the cache: write, remove, setTransientPath. *)

MarkRowDirty(t, r) ==
    /\ dirtyRowKeys' = IF DirtyRowsTracking /\ t \notin fullDirty
                         THEN [dirtyRowKeys EXCEPT ![t] = @ \cup {r}]
                         ELSE dirtyRowKeys
    /\ UNCHANGED fullDirty

(* Mutant: a root write tracks no row and does not force the full diff. *)
MarkTableDirty_Nothing(t) == UNCHANGED <<fullDirty, dirtyRowKeys>>

MarkTableDirty(t) ==
    /\ fullDirty' = IF DirtyRowsTracking THEN fullDirty \cup {t} ELSE fullDirty
    /\ UNCHANGED dirtyRowKeys

(* Mutant: an existing timer id is taken for a timer that will fire. *)
ScheduleFlush_KeepsTimer(t) ==
    /\ dirty' = dirty \cup {t}
    /\ flushTimers' = [flushTimers EXCEPT ![t] = IF @ = "none" THEN "armed" ELSE @]
    /\ UNCHANGED <<flushBaselines, inFlightFlushes, lastCompleted>>

ScheduleFlush(t) ==
    /\ dirty' = dirty \cup {t}
    /\ flushTimers' = [flushTimers EXCEPT ![t] = "armed"]
    /\ UNCHANGED <<flushBaselines, inFlightFlushes, lastCompleted>>

CountWrite == writes < MaxWrites /\ writes' = writes + 1

(* write(t, "/r", v): an equal value returns before anything is marked. *)
WriteRow(t, r, v) ==
    /\ Idle /\ CountWrite
    /\ cache[t][r] # v
    /\ cache' = [cache EXCEPT ![t][r] = v]
    /\ MarkRowDirty(t, r)
    /\ ScheduleFlush(t)
    /\ UNCHANGED <<storeVars, workerVars, transientPaths, processVars, turnVars>>

(* write(t, "/r", v, {transient: true}): the path is excluded from the flush*)
(* even when the value is unchanged.                                        *)
WriteTransientRow(t, r, v) ==
    /\ Idle /\ CountWrite
    /\ transientPaths' = [transientPaths EXCEPT ![t] = @ \cup {r}]
    /\ IF cache[t][r] = v
         THEN UNCHANGED <<cache, dirtyRowKeys, fullDirty, flushVars>>
         ELSE /\ cache' = [cache EXCEPT ![t][r] = v]
              /\ MarkRowDirty(t, r)
              /\ ScheduleFlush(t)
    /\ UNCHANGED <<storeVars, workerVars, processVars, turnVars>>

(* remove(t, "/r") of a row that exists. *)
RemoveRow(t, r) ==
    /\ Idle /\ CountWrite
    /\ cache[t][r] # NoRow
    /\ cache' = [cache EXCEPT ![t][r] = NoRow]
    /\ transientPaths' = [transientPaths EXCEPT ![t] = @ \ {r}]
    /\ MarkRowDirty(t, r)
    /\ ScheduleFlush(t)
    /\ UNCHANGED <<storeVars, workerVars, processVars, turnVars>>

(* write(t, "/", content), by the same reference, by a different value or   *)
(* forced.  Callers drop the transient mark of rows they removed in the same*)
(* turn (setTransientPath(t, "/r", false) in itemStore.ts).                 *)
WriteRoot(t, content) ==
    /\ Idle /\ CountWrite
    /\ cache' = [cache EXCEPT ![t] = content]
    /\ \/ UNCHANGED transientPaths
       \/ transientPaths' = [transientPaths EXCEPT
                               ![t] = {r \in @ : content[r] # NoRow}]
    /\ MarkTableDirty(t)
    /\ ScheduleFlush(t)
    /\ UNCHANGED <<storeVars, workerVars, processVars, turnVars>>

(* setTransientPath(t, "/r", true) on its own marks nothing dirty. *)
SetTransientPath(t, r) ==
    /\ Idle
    /\ r \notin transientPaths[t]
    /\ transientPaths' = [transientPaths EXCEPT ![t] = @ \cup {r}]
    /\ UNCHANGED <<storeVars, workerVars, cache, dirtyRowKeys, fullDirty,
                   flushVars, processVars, turnVars, writes>>

--------------------------------------------------------------------------------
(* Turns that flush. *)

BeginFlush(caller, step, t, rest) ==
    turn' = [caller |-> caller, step |-> step, table |-> t, rest |-> rest, ok |-> TRUE]

(* The flush of turn.table ended; `ok` is flushTableSync's success.  A      *)
(* commit stops at the first failure, a shutdown does not.                  *)
FinishTable(ok) ==
    \/ /\ turn.caller \in {"timer", "sync"}
       /\ turn' = NoTurn
       /\ UNCHANGED proposals
    \/ /\ turn.caller = "commit" /\ ~ok
       /\ turn' = NoTurn
       /\ proposals' = NoProposals
    \/ /\ turn.caller = "commit" => ok
       /\ turn.caller \in {"commit", "exit", "shutdown"}
       /\ \E u \in turn.rest :
            turn' = [turn EXCEPT !.step = "reconcile", !.table = u,
                                 !.rest = @ \ {u}, !.ok = @ /\ ok]
       /\ UNCHANGED proposals
    \/ /\ turn.caller = "commit" /\ ok
       /\ turn.rest = {}
       /\ turn' = [turn EXCEPT !.step = "commit", !.table = NoTable]
       /\ UNCHANGED proposals
    \/ /\ turn.caller \in {"exit", "shutdown"}
       /\ turn.rest = {}
       /\ turn' = [turn EXCEPT !.step = "exit", !.table = NoTable, !.ok = @ /\ ok]
       /\ UNCHANGED proposals

(* flushTable when the timer of a clean table fires: it returns before it   *)
(* forgets the timer's id.                                                  *)
TimerFiresClean(t) ==
    /\ Idle
    /\ flushTimers[t] = "armed" /\ t \notin dirty
    /\ flushTimers' = [flushTimers EXCEPT ![t] = "fired"]
    /\ UNCHANGED <<storeVars, workerVars, cacheVars, dirty, flushBaselines,
                   inFlightFlushes, lastCompleted, processVars, turnVars, writes>>

(* flushTable of a dirty table: it leaves the dirty set before the flush.   *)
TimerFires(t) ==
    /\ Idle
    /\ flushTimers[t] = "armed" /\ t \in dirty
    /\ flushTimers' = [flushTimers EXCEPT ![t] = "none"]
    /\ dirty' = dirty \ {t}
    /\ BeginFlush("timer", "flush", t, {})
    /\ UNCHANGED <<storeVars, workerVars, cacheVars, flushBaselines,
                   inFlightFlushes, lastCompleted, processVars, proposals, writes>>

(* A service calls flushTableSync(t). *)
FlushTableSync(t) ==
    /\ Idle
    /\ BeginFlush("sync", "reconcile", t, {})
    /\ UNCHANGED <<storeVars, workerVars, cacheVars, flushVars, processVars,
                   proposals, writes>>

(* Mutant: the commit does not flush the tables first. *)
CommitAtomicRowWrites_NoFlush(batches) ==
    /\ Idle /\ CountWrite
    /\ \A t \in Tables, r \in Rows :
         batches[t][r] # Untouched => r \notin transientPaths[t]
    /\ proposals' = batches
    /\ BeginFlush("commit", "commit", NoTable, {})
    /\ UNCHANGED <<storeVars, workerVars, cacheVars, flushVars, processVars>>

(* commitAtomicRowWrites: refuse transient rows, then flush every table     *)
(* named before any row is touched.                                         *)
CommitAtomicRowWrites(batches) ==
    /\ Idle /\ CountWrite
    /\ \A t \in Tables, r \in Rows :
         batches[t][r] # Untouched => r \notin transientPaths[t]
    /\ proposals' = batches
    /\ \E t \in TouchedTables(batches) :
         BeginFlush("commit", "reconcile", t, TouchedTables(batches) \ {t})
    /\ UNCHANGED <<storeVars, workerVars, cacheVars, flushVars, processVars>>

(* Mutant: the baseline is left as it was before the flight. *)
AdvanceFlushBaseline_Forgotten(t) ==
    /\ inFlightFlushes' = [inFlightFlushes EXCEPT ![t] = NoOperation]
    /\ UNCHANGED flushBaselines

(* The end of a batch of rows that reached the table's own rows. *)
AdvanceFlushBaseline(t) ==
    /\ flushBaselines' = [flushBaselines EXCEPT
                            ![t] = ApplyBatch(@, inFlightFlushes[t].batch)]
    /\ inFlightFlushes' = [inFlightFlushes EXCEPT ![t] = NoOperation]

(* scheduleFlush after an acknowledgment: only without a timer id. *)
Rearmed(t) == IF t \in dirty /\ flushTimers[t] = "none" THEN "armed" ELSE flushTimers[t]

(* flushTableSync up to its dirty check: clear the timer and retire the     *)
(* table's earlier flight through reconcileInFlightFlush, whose             *)
(* acknowledgment re-arms the timer of a dirty table.                       *)
FlushReconcile ==
    LET t == turn.table
        Continue == IF t \in dirty
                      THEN turn' = [turn EXCEPT !.step = "flush"] /\ UNCHANGED proposals
                      ELSE FinishTable(TRUE)
    IN
    /\ running /\ turn.step = "reconcile"
    /\ IF InFlight(t)
         THEN /\ ReconcilePersistenceOperation(t)
              /\ outbox[t].operationId = inFlightFlushes[t].operationId
              /\ ReconcileLease(t)
              /\ AdvanceFlushBaseline(t)
              /\ lastCompleted' = [lastCompleted EXCEPT
                                     ![t] = inFlightFlushes[t].operationId]
              /\ flushTimers' = [flushTimers EXCEPT
                                   ![t] = IF t \in dirty THEN "armed" ELSE "none"]
         ELSE /\ flushTimers' = [flushTimers EXCEPT ![t] = "none"]
              /\ UNCHANGED <<storeVars, workerVars, flushBaselines,
                             inFlightFlushes, lastCompleted>>
    /\ Continue
    /\ UNCHANGED <<dirty, cacheVars, processVars, writes>>

(* Mutant: a failed flush is not put back into the dirty set. *)
FlushThrows_Drops(t) ==
    /\ FinishTable(FALSE)
    /\ UNCHANGED dirty

(* A throw anywhere in a flush: the catch puts the table back into the dirty*)
(* set, without a timer, and a synchronous caller gets FLUSH_ERROR.         *)
FlushThrows(t) ==
    /\ dirty' = dirty \cup {t}
    /\ FinishTable(FALSE)

FlushReconcileFails ==
    LET t == turn.table IN
    /\ running /\ turn.step = "reconcile"
    /\ InFlight(t)
    /\ TransactionFails
    /\ flushTimers' = [flushTimers EXCEPT ![t] = "none"]
    /\ FlushThrows(t)
    /\ UNCHANGED <<workerVars, cacheVars, flushBaselines, inFlightFlushes,
                   lastCompleted, processVars, writes>>

(* flushSqliteTable first replays the journal of a worker that is gone      *)
(* (persistenceWorker.recover and handlePersistenceWorkerRecovered).        *)
FlushRecover ==
    /\ running /\ turn.step = "flush" /\ MustRecover
    /\ RecoverPersistenceOperations
    /\ RecoverLeases
    /\ flushBaselines' = [t \in Tables |->
                            IF Journalled(t) THEN Effective(t) ELSE flushBaselines[t]]
    /\ inFlightFlushes' = [t \in Tables |->
                             IF Journalled(t) THEN NoOperation ELSE inFlightFlushes[t]]
    /\ lastCompleted' = [t \in Tables |->
                           IF Journalled(t) THEN outbox[t].operationId
                                            ELSE lastCompleted[t]]
    /\ flushTimers' = [t \in Tables |->
                         IF Journalled(t) THEN Rearmed(t) ELSE flushTimers[t]]
    /\ UNCHANGED <<dirty, cacheVars, processVars, turnVars, writes>>

FlushRecoverFails ==
    /\ running /\ turn.step = "flush" /\ MustRecover
    /\ TransactionFails
    /\ FlushThrows(turn.table)
    /\ UNCHANGED <<workerVars, cacheVars, flushTimers, flushBaselines,
                   inFlightFlushes, lastCompleted, processVars, writes>>

(* flushTableSync drops the table from the dirty set after a flush that did *)
(* not throw; flushTable did so before it.                                  *)
DirtyAfterFlush(t) == IF turn.caller = "timer" THEN dirty ELSE dirty \ {t}

ClearDirtyRows(t) ==
    /\ dirtyRowKeys' = [dirtyRowKeys EXCEPT ![t] = {}]
    /\ fullDirty' = fullDirty \ {t}
    /\ UNCHANGED <<cache, transientPaths>>

Flushing(t) ==
    /\ running /\ turn.step = "flush" /\ turn.table = t
    /\ ~MustRecover

(* Mutant: the table is not kept dirty while its earlier flight is out. *)
FlushFindsFlight_Drops(t) ==
    /\ Flushing(t) /\ InFlight(t)
    /\ FinishTable(TRUE)
    /\ UNCHANGED <<storeVars, workerVars, cacheVars, flushVars, processVars, writes>>

(* flushSqliteTable while the table's previous operation is unacknowledged: *)
(* the acknowledgment will re-arm the timer.                                *)
FlushFindsFlight(t) ==
    /\ Flushing(t) /\ InFlight(t)
    /\ dirty' = IF turn.caller = "timer" THEN dirty \cup {t} ELSE dirty \ {t}
    /\ FinishTable(TRUE)
    /\ UNCHANGED <<storeVars, workerVars, cacheVars, flushTimers, flushBaselines,
                   inFlightFlushes, lastCompleted, processVars, writes>>

(* Nothing differs from the baseline. *)
FlushFindsNothing(t) ==
    /\ Flushing(t) /\ ~InFlight(t)
    /\ FlushDiff(t) = NoBatch
    /\ ClearDirtyRows(t)
    /\ dirty' = DirtyAfterFlush(t)
    /\ FinishTable(TRUE)
    /\ UNCHANGED <<storeVars, workerVars, flushTimers, flushBaselines,
                   inFlightFlushes, lastCompleted, processVars, writes>>

UseWorker == WorkerEnabled /\ turn.caller = "timer"

(* The journal INSERT, then the in-memory record of the flight. *)
JournalFlush(t) ==
    /\ Flushing(t) /\ ~InFlight(t)
    /\ FlushDiff(t) # NoBatch
    /\ EnqueuePersistenceOperation(t, FlushDiff(t))
    /\ inFlightFlushes' = [inFlightFlushes EXCEPT
                             ![t] = [operationId |-> nextOperationId,
                                     batch |-> FlushDiff(t),
                                     submittedToWorker |-> UseWorker]]
    /\ ClearDirtyRows(t)
    /\ UNCHANGED <<flushTimers, flushBaselines, lastCompleted, processVars, writes>>

(* An asynchronous flush hands the operation to the worker. *)
FlushSubmits(t) ==
    /\ JournalFlush(t) /\ UseWorker
    /\ SubmitWrite(t, nextOperationId)
    /\ FinishTable(TRUE)
    /\ UNCHANGED <<dirty, faults>>

(* submitWrite throws: the journal row and the flight stay as they are. *)
FlushSubmitFails(t) ==
    /\ JournalFlush(t) /\ UseWorker
    /\ \/ SubmitRejected(t) /\ UNCHANGED faults
       \/ WorkerNotCreated(t, nextOperationId) /\ Fault
    /\ FlushThrows(t)

(* Without the worker the same turn goes on to reconcile what it journalled.*)
FlushJournals(t) ==
    /\ JournalFlush(t) /\ ~UseWorker
    /\ turn' = [turn EXCEPT !.step = "settle"]
    /\ UNCHANGED <<workerVars, faults, dirty, proposals>>

(* The journal INSERT throws: nothing was released. *)
FlushJournalFails(t) ==
    /\ Flushing(t) /\ ~InFlight(t)
    /\ FlushDiff(t) # NoBatch
    /\ TransactionFails
    /\ FlushThrows(t)
    /\ UNCHANGED <<workerVars, cacheVars, flushTimers, flushBaselines,
                   inFlightFlushes, lastCompleted, processVars, writes>>

(* The direct reconciliation of the operation this turn journalled. *)
FlushSettles ==
    LET t == turn.table IN
    /\ running /\ turn.step = "settle"
    /\ ReconcilePersistenceOperation(t)
    /\ AdvanceFlushBaseline(t)
    /\ dirty' = DirtyAfterFlush(t)
    /\ FinishTable(TRUE)
    /\ UNCHANGED <<workerVars, cacheVars, flushTimers, lastCompleted,
                   processVars, writes>>

FlushSettleFails ==
    /\ running /\ turn.step = "settle"
    /\ TransactionFails
    /\ FlushThrows(turn.table)
    /\ UNCHANGED <<workerVars, cacheVars, flushTimers, flushBaselines,
                   inFlightFlushes, lastCompleted, processVars, writes>>

(* Every named table is flushed: the proposed rows go to SQLite in one      *)
(* transaction, then to the cache and the baselines.                        *)
CommitApplies ==
    /\ running /\ turn.step = "commit"
    /\ ApplyAtomicChanges(proposals)
    /\ cache' = [t \in Tables |-> ApplyBatch(cache[t], proposals[t])]
    /\ flushBaselines' = [t \in Tables |-> ApplyBatch(flushBaselines[t], proposals[t])]
    /\ turn' = NoTurn /\ proposals' = NoProposals
    /\ UNCHANGED <<workerVars, transientPaths, dirtyRowKeys, fullDirty, dirty,
                   flushTimers, inFlightFlushes, lastCompleted, processVars, writes>>

CommitFails ==
    /\ running /\ turn.step = "commit"
    /\ TransactionFails
    /\ turn' = NoTurn /\ proposals' = NoProposals
    /\ UNCHANGED <<workerVars, cacheVars, flushVars, processVars, writes>>

--------------------------------------------------------------------------------
(* The event loop delivers what the worker posted. *)

HasReply(type) == Idle /\ toMain # <<>> /\ Head(toMain).type = type

(* findPendingOperation: the reply is about the operation the lease is held *)
(* for, and comes from the worker it was handed to.                         *)
ReplyMatchesLease(reply) ==
    /\ Leased(reply.table)
    /\ leases[reply.table].operationId = reply.operationId
    /\ leases[reply.table].bound

(* acknowledgeAppliedOperation accepts only an applied journal row. *)
ReplyIsDurable(reply) ==
    /\ Journalled(reply.table)
    /\ outbox[reply.table].operationId = reply.operationId
    /\ outbox[reply.table].state = "applied"

(* write-complete of the leased operation: the journal row is deleted, then *)
(* handlePersistenceWorkerAcknowledged advances the baseline and re-arms the*)
(* timer of a table that was written meanwhile.                             *)
WriteAcknowledged ==
    /\ HasReply("write-complete")
    /\ LET reply == Head(toMain)
           t == reply.table
       IN /\ ReplyMatchesLease(reply) /\ ReplyIsDurable(reply)
          /\ AcknowledgePersistenceOperation(t)
          /\ FinishLease(t)
          /\ InFlight(t) /\ inFlightFlushes[t].operationId = reply.operationId
          /\ AdvanceFlushBaseline(t)
          /\ lastCompleted' = [lastCompleted EXCEPT ![t] = reply.operationId]
          /\ flushTimers' = [flushTimers EXCEPT ![t] = Rearmed(t)]
    /\ toMain' = Tail(toMain)
    /\ UNCHANGED <<dirty, cacheVars, processVars, turnVars, writes>>

(* A stale reply is ignored; one whose journal row is not applied, or whose *)
(* acknowledgment transaction throws, only records a failure.               *)
WriteCompleteIgnored ==
    /\ HasReply("write-complete")
    /\ LET reply == Head(toMain) IN
         \/ /\ ~(ReplyMatchesLease(reply) /\ ReplyIsDurable(reply))
            /\ UNCHANGED storeVars
         \/ /\ ReplyMatchesLease(reply)
            /\ TransactionFails
    /\ toMain' = Tail(toMain)
    /\ UNCHANGED <<leases, worker, toWorker, blockedByTable, cacheVars,
                   flushVars, processVars, turnVars, writes>>

(* An error reply is logged and recorded; the flight stays journalled. *)
WriteErrorReported ==
    /\ HasReply("error")
    /\ toMain' = Tail(toMain)
    /\ UNCHANGED <<storeVars, leases, worker, toWorker, blockedByTable,
                   cacheVars, flushVars, processVars, turnVars, writes>>

WorkerExits ==
    /\ Idle
    /\ WorkerExitObserved
    /\ UNCHANGED <<storeVars, cacheVars, flushVars, processVars, turnVars, writes>>

(* The worker thread runs whatever the main thread is doing. *)
WorkerThread ==
    /\ running
    /\ WorkerStep
    /\ UNCHANGED <<cacheVars, flushVars, processVars, turnVars, writes>>

WorkerCrashes ==
    /\ running
    /\ WorkerDies
    /\ UNCHANGED <<cacheVars, flushVars, processVars, turnVars, writes>>

--------------------------------------------------------------------------------
(* The end of the process and the next start. *)

(* Mutant: operations still at the worker are left to it. *)
TablesToFlush_DirtyOnly == dirty

TablesToFlush == dirty \cup {t \in Tables : InFlight(t)}

(* flushAllSync: every dirty or unacknowledged table, one after the other. *)
FlushAllSync(caller) ==
    \/ /\ TablesToFlush = {}
       /\ BeginFlush(caller, "exit", NoTable, {})
    \/ \E t \in TablesToFlush :
         BeginFlush(caller, "reconcile", t, TablesToFlush \ {t})

(* A signal (or an empty event loop): flushDirtyTablesForShutdown.  The     *)
(* shutdown hooks run first in this turn; what they write are the writes    *)
(* just before this step.                                                   *)
ShutdownSignal ==
    /\ Idle /\ ~shutdownInProgress
    /\ shutdownInProgress' = TRUE
    /\ FlushAllSync("shutdown")
    /\ UNCHANGED <<storeVars, workerVars, cacheVars, flushVars, running,
                   proposals, writes>>

(* Some code calls process.exit() without a signal. *)
ProcessExit ==
    /\ Idle
    /\ BeginFlush("exit", "exit", NoTable, {})
    /\ UNCHANGED <<storeVars, workerVars, cacheVars, flushVars, processVars,
                   proposals, writes>>

(* The "exit" handler: it flushes only if no shutdown was entered before. *)
ExitHandlerFlushes ==
    /\ running /\ turn.step = "exit"
    /\ ~shutdownInProgress
    /\ TablesToFlush # {}
    /\ shutdownInProgress' = TRUE
    /\ FlushAllSync("exit")
    /\ UNCHANGED <<storeVars, workerVars, cacheVars, flushVars, running,
                   proposals, writes>>

Offline ==
    /\ running = FALSE
    /\ cache = [t \in Tables |-> [r \in Rows |-> NoRow]]
    /\ transientPaths = [t \in Tables |-> {}]
    /\ dirty = {}
    /\ dirtyRowKeys = [t \in Tables |-> {}]
    /\ fullDirty = {}
    /\ flushTimers = [t \in Tables |-> "none"]
    /\ flushBaselines = [t \in Tables |-> [r \in Rows |-> NoRow]]
    /\ inFlightFlushes = [t \in Tables |-> NoOperation]
    /\ lastCompleted = [t \in Tables |-> 0]
    /\ shutdownInProgress = FALSE
    /\ turn = NoTurn
    /\ proposals = NoProposals
    /\ WorkerInit

(* What the process held in memory is gone. *)
GoOffline ==
    /\ running' = FALSE
    /\ cache' = [t \in Tables |-> [r \in Rows |-> NoRow]]
    /\ transientPaths' = [t \in Tables |-> {}]
    /\ dirty' = {}
    /\ dirtyRowKeys' = [t \in Tables |-> {}]
    /\ fullDirty' = {}
    /\ flushTimers' = [t \in Tables |-> "none"]
    /\ flushBaselines' = [t \in Tables |-> [r \in Rows |-> NoRow]]
    /\ inFlightFlushes' = [t \in Tables |-> NoOperation]
    /\ lastCompleted' = [t \in Tables |-> 0]
    /\ shutdownInProgress' = FALSE
    /\ turn' = NoTurn
    /\ proposals' = NoProposals
    /\ leases' = [t \in Tables |-> NoOperation]
    /\ worker' = "absent"
    /\ toWorker' = <<>>
    /\ toMain' = <<>>
    /\ blockedByTable' = [t \in Tables |-> 0]

ProcessEnds ==
    /\ running /\ turn.step = "exit"
    /\ shutdownInProgress \/ TablesToFlush = {}
    /\ GoOffline
    /\ UNCHANGED <<storeVars, writes>>

(* Killed, out of memory, power: at any point, also between the transactions*)
(* of one turn.                                                             *)
ProcessCrashes ==
    /\ running
    /\ Fault
    /\ GoOffline
    /\ UNCHANGED <<journalVars, writes>>

(* Module load and preloadAll: recover the outbox, then build every cache   *)
(* and baseline from the raw rows.                                          *)
ProcessStarts ==
    /\ ~running
    /\ running' = TRUE
    /\ RecoverPersistenceOperations
    /\ cache' = rows'
    /\ flushBaselines' = rows'
    /\ UNCHANGED <<workerVars, transientPaths, dirtyRowKeys, fullDirty, dirty,
                   flushTimers, inFlightFlushes, lastCompleted,
                   shutdownInProgress, turnVars, writes>>

--------------------------------------------------------------------------------

Init == JournalInit /\ Offline /\ writes = 0

CallerStep ==
    \/ \E t \in Tables, r \in Rows :
         \/ \E v \in Values : WriteRow(t, r, v) \/ WriteTransientRow(t, r, v)
         \/ RemoveRow(t, r)
         \/ SetTransientPath(t, r)
    \/ \E t \in Tables : \/ \E content \in RootContents : WriteRoot(t, content)
                         \/ FlushTableSync(t)
    \/ \E batches \in AtomicCommits : CommitAtomicRowWrites(batches)

TimerStep == \E t \in Tables : TimerFires(t) \/ TimerFiresClean(t)

FlushStep ==
    \/ FlushReconcile
    \/ FlushRecover
    \/ \E t \in Tables : \/ FlushFindsFlight(t)
                         \/ FlushFindsNothing(t)
                         \/ FlushSubmits(t)
                         \/ FlushSubmitFails(t)
                         \/ FlushJournals(t)
    \/ FlushSettles
    \/ CommitApplies

FlushFailure ==
    \/ FlushReconcileFails
    \/ FlushRecoverFails
    \/ \E t \in Tables : FlushJournalFails(t)
    \/ FlushSettleFails
    \/ CommitFails

ReplyStep ==
    \/ WriteAcknowledged
    \/ WriteCompleteIgnored
    \/ WriteErrorReported
    \/ WorkerExits

ProcessStep ==
    \/ ShutdownSignal
    \/ ProcessExit
    \/ ExitHandlerFlushes
    \/ ProcessEnds
    \/ ProcessCrashes
    \/ ProcessStarts

Next ==
    \/ CallerStep
    \/ TimerStep
    \/ FlushStep
    \/ FlushFailure
    \/ ReplyStep
    \/ WorkerThread
    \/ WorkerCrashes
    \/ ProcessStep

Spec == Init /\ [][Next]_vars

--------------------------------------------------------------------------------
(* Invariants. *)

(* The types of the volatile and durable state of the store. *)
TypeOK ==
    /\ JournalTypeOK
    /\ WorkerTypeOK
    /\ running \in BOOLEAN
    /\ cache \in [Tables -> Content]
    /\ transientPaths \in [Tables -> SUBSET Rows]
    /\ dirty \subseteq Tables
    /\ dirtyRowKeys \in [Tables -> SUBSET Rows]
    /\ fullDirty \subseteq Tables
    /\ flushTimers \in [Tables -> {"none", "armed", "fired"}]
    /\ flushBaselines \in [Tables -> Content]
    /\ inFlightFlushes \in [Tables -> Flight \cup {NoOperation}]
    /\ lastCompleted \in [Tables -> Nat]
    /\ shutdownInProgress \in BOOLEAN
    /\ turn \in Turn
    /\ proposals \in [Tables -> Batch]
    /\ writes \in Nat

(* The in-memory flight and the outbox row of a table are the same          *)
(* operation, and the baseline is what the rows were before it (or are once *)
(* it is applied): "the exact batch and its identity" is durable before any *)
(* tracking is released (index.ts:932).                                     *)
FlightMatchesJournal ==
    running => \A t \in Tables :
      IF InFlight(t)
        THEN /\ Journalled(t)
             /\ outbox[t].operationId = inFlightFlushes[t].operationId
             /\ outbox[t].batch = inFlightFlushes[t].batch
             /\ rows[t] = IF outbox[t].state = "applied"
                            THEN Effective(t) ELSE flushBaselines[t]
        ELSE /\ ~Journalled(t)
             /\ rows[t] = flushBaselines[t]

(* The controller holds a lease only for the operation in flight, so no     *)
(* acknowledgment or recovery can find the "stale" or "unexpected" operation*)
(* the handlers throw on (index.ts:757-841).                                *)
LeaseMatchesFlight ==
    \A t \in Tables : Leased(t) =>
      /\ InFlight(t)
      /\ inFlightFlushes[t].submittedToWorker
      /\ leases[t].operationId = inFlightFlushes[t].operationId

(* Every row whose snapshot differs from what the journal will have         *)
(* produced is tracked, unless it is itself transient or the next flush     *)
(* diffs the whole table: "the fast path is never less correct"             *)
(* (index.ts:376).                                                          *)
DirtyRowsCovered ==
    DirtyRowsTracking => \A t \in Tables, r \in Rows :
      Snapshot(t)[r] # Effective(t)[r] =>
        r \in dirtyRowKeys[t] \/ t \in fullDirty \/ r \in transientPaths[t]

(* A table that is not dirty and not being flushed would survive a crash at *)
(* this instant: every persistent row read() returns is recoverable from    *)
(* the rows and the outbox, whatever the worker has done so far.            *)
CleanTablesAreDurable ==
    running => \A t \in Tables \ (dirty \cup {turn.table}) :
      \A r \in Rows \ transientPaths[t] : cache[t][r] = Recoverable(t)[r]

(* When an atomic commit reaches its transaction, no older operation of its *)
(* tables is left in the outbox to overwrite the new rows at recovery       *)
(* (index.ts:1204: "Retire every older durable outbox operation").          *)
CommitFindsNothingOlder ==
    turn.step = "commit" => \A t \in TouchedTables(proposals) :
      ~Journalled(t) /\ ~InFlight(t) /\ t \notin dirty

(* A shutdown that reports success has lost nothing: at its last step every *)
(* persistent row in memory is in the tables' own rows.                     *)
CleanShutdownIsDurable ==
    turn.caller = "shutdown" /\ turn.step = "exit" /\ turn.ok =>
      /\ TablesToFlush = {}
      /\ \A t \in Tables : \A r \in Rows \ transientPaths[t] :
           cache[t][r] = rows[t][r]

(* A table the worker blocks is blocked by the operation still in flight,   *)
(* or the notice that lifts the block is queued ahead of any newer write:   *)
(* an old failure never rejects a new flush.                                *)
BlockIsCurrent ==
    \A t \in Tables : blockedByTable[t] # 0 =>
      \/ Leased(t) /\ leases[t].operationId = blockedByTable[t]
      \/ \E i \in DOMAIN toWorker :
           /\ toWorker[i] = [type |-> "reconciled", table |-> t,
                             operationId |-> blockedByTable[t]]
           /\ \A j \in 1 .. i - 1 : ~(toWorker[j].type = "write" /\ toWorker[j].table = t)

(* The worker reports completion only of what the journal holds as applied: *)
(* a reply for the leased operation can always be acknowledged.             *)
CompletionIsDurable ==
    \A i \in DOMAIN toMain :
      toMain[i].type = "write-complete" /\ ReplyMatchesLease(toMain[i])
        => ReplyIsDurable(toMain[i])

(* A dirty table never holds the id of a timer that has already fired: that *)
(* id would keep handlePersistenceWorkerAcknowledged from re-arming it      *)
(* (index.ts:788).                                                          *)
NoStaleTimer == \A t \in dirty : flushTimers[t] # "fired"

--------------------------------------------------------------------------------
(* What makes those invariants inductive. *)

(* The shape of a main-thread turn: a table is being flushed exactly in the *)
(* flushing steps, and only a commit carries proposals.                     *)
TurnIsWellFormed ==
    /\ turn.table \in Tables <=> turn.step \in {"reconcile", "flush", "settle"}
    /\ turn.step \in {"idle", "commit", "exit"} => turn.rest = {}
    /\ turn.step = "idle" => turn = NoTurn
    /\ turn.caller = "none" => turn.step = "idle"
    /\ turn.caller = "timer" => turn.step \in {"flush", "settle"}
    /\ turn.step = "commit" => turn.caller = "commit"
    /\ turn.step = "exit" => turn.caller \in {"exit", "shutdown"}
    /\ turn.caller # "commit" => proposals = NoProposals

(* Within a turn: a synchronous flush has retired the earlier flight, and   *)
(* what is about to be settled is the whole difference to the cache.        *)
TurnOwnsItsFlight ==
    /\ turn.step = "flush" /\ turn.caller # "timer" => ~InFlight(turn.table)
    /\ turn.step = "settle" =>
         /\ InFlight(turn.table)
         /\ ~inFlightFlushes[turn.table].submittedToWorker
         /\ Effective(turn.table) = Snapshot(turn.table)

(* A table outside the dirty set is as the journal leaves it, unless its    *)
(* flush is under way.                                                      *)
CleanUnlessFlushing ==
    running => \A t \in Tables \ dirty :
      \/ turn.table = t /\ turn.step \in {"flush", "settle"}
      \/ \A r \in Rows \ transientPaths[t] : cache[t][r] = Effective(t)[r]

(* What a commit or a so far successful shutdown has behind it is flushed   *)
(* and acknowledged.                                                        *)
SweptTablesStayClean ==
    \A t \in Tables :
      \/ turn.caller = "commit" /\ t \in TouchedTables(proposals)
      \/ turn.caller = "shutdown" /\ turn.ok
      => t = turn.table \/ t \in turn.rest \/ (~InFlight(t) /\ t \notin dirty)

(* An atomic commit writes no transient row. *)
ProposalsArePersistent ==
    \A t \in Tables, r \in Rows :
      proposals[t][r] # Untouched => r \notin transientPaths[t]

Inv ==
    /\ TypeOK
    /\ TurnIsWellFormed
    /\ ~running => Offline
    /\ FlightMatchesJournal
    /\ LeaseMatchesFlight
    /\ DirtyRowsCovered
    /\ TurnOwnsItsFlight
    /\ CleanUnlessFlushing
    /\ SweptTablesStayClean
    /\ ProposalsArePersistent

--------------------------------------------------------------------------------
(* Action properties. *)

(* Operation ids are never reused and complete once, in order: a late       *)
(* acknowledgment cannot name a newer flight (index.ts:773-778).            *)
OperationsCompleteInOrder ==
    [][\A t \in Tables :
         /\ running /\ running' => lastCompleted'[t] >= lastCompleted[t]
         /\ InFlight(t)' /\ inFlightFlushes'[t] # inFlightFlushes[t] =>
              /\ inFlightFlushes'[t].operationId > lastCompleted'[t]
              /\ inFlightFlushes'[t].operationId >= nextOperationId]_vars

(* "Last-chance sync flush for any remaining dirty tables" (index.ts:1343): *)
(* when a signal's flush left tables dirty, the process does not end before *)
(* the exit handler has started to flush them again.                        *)
LastChanceFlush ==
    [][turn.caller = "shutdown" /\ turn.step = "exit" /\ ~running'
         => TablesToFlush = {}]_vars

--------------------------------------------------------------------------------
(* What the store implements, and liveness. *)

(* A process that is down has lost its memory: it holds what it would load. *)
Durable == INSTANCE DurableStore WITH
    mem <- [t \in Tables |-> IF running THEN Snapshot(t) ELSE Recoverable(t)],
    disk <- [t \in Tables |-> Recoverable(t)]

ImplementsDurableStore == Durable!Spec

(* A turn runs to its end and the worker takes its messages.  Every pass of *)
(* the event loop runs the timers that are due and the messages that have   *)
(* arrived, so neither is overtaken forever by callers' turns.              *)
Fairness ==
    /\ \A t \in Tables : SF_vars(TimerFires(t))
    /\ WF_vars(FlushStep)
    /\ WF_vars(ExitHandlerFlushes \/ ProcessEnds)
    /\ SF_vars(ReplyStep)
    /\ WF_vars(WorkerThread)

FairSpec == Spec /\ Fairness

(* Debounced writes reach the disk: a row that differs from its recoverable *)
(* value does not stay so, unless its row turns transient or the process    *)
(* ends.  ("debounce: flush 2s after last write", index.ts:159.)            *)
EveryWriteBecomesDurable ==
    \A t \in Tables, r \in Rows :
      running /\ r \notin transientPaths[t] /\ cache[t][r] # Recoverable(t)[r]
        ~> ~running \/ r \in transientPaths[t] \/ cache[t][r] = Recoverable(t)[r]
================================================================================
