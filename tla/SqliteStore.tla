------------------------------ MODULE SqliteStore ------------------------------
(***************************************************************************)
(* The durable half of the game store: server/src/gameStore/sqliteStore.ts *)
(*                                                                         *)
(* Every runtime table is one SQL table of (key, json) rows, and the       *)
(* write-ahead outbox `_persistence_outbox` holds at most one row          *)
(* modification per table (UNIQUE table_name) under an AUTOINCREMENT id    *)
(* that SQLite never reuses.  Each action below is one SQLite transaction: *)
(* it either happens entirely or, when it throws, not at all.              *)
(*                                                                         *)
(* A batch lists upserts and deletes; here it is a function on Rows that   *)
(* gives the new JSON of an upserted row, NoRow for a deleted one and      *)
(* Untouched for every other row.                                          *)
(***************************************************************************)
EXTENDS Naturals

CONSTANTS
    Tables,       \* the SQLite-backed tables (SQLITE_TABLES)
    Rows,         \* stored row keys of a table
    Values,       \* the JSON texts a row may hold
    NoRow,        \* "no row stored under this key"
    Untouched,    \* "this batch does not mention the row"
    NoOperation,  \* "no outbox row / no flight / no lease for this table"
    MaxFaults     \* bound: failures injected along one behaviour

VARIABLES
    rows,             \* rows[t][r]: the stored JSON of row r of table t
    outbox,           \* outbox[t]: the journalled operation of table t
    nextOperationId,  \* the id AUTOINCREMENT hands out next
    faults            \* failures injected so far, at most MaxFaults

journalVars == <<rows, outbox, nextOperationId>>

Content == [Rows -> Values \cup {NoRow}]

Batch == [Rows -> Values \cup {NoRow, Untouched}]

Operation == [operationId : Nat, batch : Batch, state : {"pending", "applied"}]

ASSUME RowAssumption ==
    /\ NoRow \notin Values
    /\ Untouched \notin Values \cup {NoRow}

ASSUME OperationAssumption == NoOperation \notin Operation

ASSUME FaultAssumption == MaxFaults \in Nat

(* Mutant of ApplyBatch: the batch replaces the table (replaceAll). *)
ApplyBatch_Replaces(content, batch) == [r \in Rows |-> batch[r]]

(* applyChangeStatements: upserts, then deletes, by key. *)
ApplyBatch(content, batch) ==
    [r \in Rows |-> IF batch[r] = Untouched THEN content[r] ELSE batch[r]]

Journalled(t) == outbox[t] # NoOperation

(* What table t holds once the journal is replayed: the state a restart     *)
(* loads, whatever the volatile half of the store was doing.                *)
Recoverable(t) ==
    IF Journalled(t) THEN ApplyBatch(rows[t], outbox[t].batch) ELSE rows[t]

--------------------------------------------------------------------------------

JournalInit ==
    /\ rows \in [Tables -> Content]
    /\ outbox = [t \in Tables |-> NoOperation]
    /\ nextOperationId = 1
    /\ faults = 0

(* Something outside the program goes wrong: SQLITE_BUSY after the busy     *)
(* timeout, a full disk, a thread or a process that dies.                   *)
Fault ==
    /\ faults < MaxFaults
    /\ faults' = faults + 1

(* A transaction that throws has rolled back. *)
TransactionFails == Fault /\ UNCHANGED journalVars

(* Mutant: a plain rowid, which SQLite hands out again once it is free. *)
EnqueuePersistenceOperation_ReusesIds(t, batch) ==
    /\ ~Journalled(t)
    /\ outbox' = [outbox EXCEPT ![t] = [operationId |-> nextOperationId,
                                        batch |-> batch,
                                        state |-> "pending"]]
    /\ UNCHANGED <<nextOperationId, rows>>

(* enqueuePersistenceOperation: one INSERT; the UNIQUE constraint on        *)
(* table_name rejects a second operation of the same table.                 *)
EnqueuePersistenceOperation(t, batch) ==
    /\ ~Journalled(t)
    /\ outbox' = [outbox EXCEPT ![t] = [operationId |-> nextOperationId,
                                        batch |-> batch,
                                        state |-> "pending"]]
    /\ nextOperationId' = nextOperationId + 1
    /\ UNCHANGED rows

(* applyPersistenceOperation: write the rows and mark the operation applied *)
(* in one transaction.                                                      *)
ApplyPersistenceOperation(t) ==
    /\ Journalled(t)
    /\ rows' = [rows EXCEPT ![t] = ApplyBatch(rows[t], outbox[t].batch)]
    /\ outbox' = [outbox EXCEPT ![t].state = "applied"]
    /\ UNCHANGED <<nextOperationId, faults>>

(* acknowledgePersistenceOperation: delete an applied operation.            *)
AcknowledgePersistenceOperation(t) ==
    /\ Journalled(t)
    /\ outbox[t].state = "applied"
    /\ outbox' = [outbox EXCEPT ![t] = NoOperation]
    /\ UNCHANGED <<rows, nextOperationId, faults>>

(* Mutant: the operation is deleted on the assumption that the worker has   *)
(* applied it already.                                                      *)
ReconcilePersistenceOperation_DeletesOnly(t) ==
    /\ Journalled(t)
    /\ outbox' = [outbox EXCEPT ![t] = NoOperation]
    /\ UNCHANGED <<rows, nextOperationId, faults>>

(* reconcilePersistenceOperation: (re-)apply and delete in one transaction. *)
ReconcilePersistenceOperation(t) ==
    /\ Journalled(t)
    /\ rows' = [rows EXCEPT ![t] = ApplyBatch(rows[t], outbox[t].batch)]
    /\ outbox' = [outbox EXCEPT ![t] = NoOperation]
    /\ UNCHANGED <<nextOperationId, faults>>

(* recoverPersistenceOperations: replay and delete the whole outbox in one  *)
(* transaction.  With one operation per table the id order is immaterial.   *)
RecoverPersistenceOperations ==
    /\ rows' = [t \in Tables |-> Recoverable(t)]
    /\ outbox' = [t \in Tables |-> NoOperation]
    /\ UNCHANGED <<nextOperationId, faults>>

(* applyAtomicChanges: the batches of several tables in one transaction,    *)
(* outside the journal.                                                     *)
ApplyAtomicChanges(batches) ==
    /\ rows' = [t \in Tables |-> ApplyBatch(rows[t], batches[t])]
    /\ UNCHANGED <<outbox, nextOperationId, faults>>

JournalTypeOK ==
    /\ rows \in [Tables -> Content]
    /\ outbox \in [Tables -> Operation \cup {NoOperation}]
    /\ nextOperationId \in Nat \ {0}
    /\ faults \in Nat
================================================================================
