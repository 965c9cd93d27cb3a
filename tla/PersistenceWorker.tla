--------------------------- MODULE PersistenceWorker ---------------------------
(***************************************************************************)
(* The off-loop SQLite writer: the controller the main thread runs         *)
(* (server/src/gameStore/persistenceWorker.ts) and the worker thread       *)
(* (persistenceWorker.worker.ts), joined by two FIFO message ports.        *)
(*                                                                         *)
(* The controller holds one lease per table for an operation handed to the *)
(* worker (pendingWrites and pendingByTable).  The worker applies exactly  *)
(* the journalled operation it is told about; after a failed apply it      *)
(* refuses the table until the main thread says the operation was          *)
(* reconciled.  The actions here are the two ends of the protocol; GameStore*)
(* conjoins the main-thread ones with what the cache does in the same turn.*)
(***************************************************************************)
EXTENDS SqliteStore, FiniteSets, Sequences

CONSTANT MaxPendingWrites   \* DEFAULT_MAX_PENDING_WRITES

ASSUME MaxPendingAssumption == MaxPendingWrites \in Nat

VARIABLES
    leases,          \* leases[t]: the unresolved operation of table t
    worker,          \* "absent" | "running" | "dead" (exit not yet observed)
    toWorker,        \* messages posted to the worker, oldest first
    toMain,          \* messages posted to the main thread, oldest first
    blockedByTable   \* worker: id of the failed operation that blocks t, or 0

workerVars == <<leases, worker, toWorker, toMain, blockedByTable>>

(* bound: operation.workerState is the worker that is not yet known to have *)
(* exited.                                                                  *)
Lease == [operationId : Nat, bound : BOOLEAN]

WorkerRequest == [type : {"write", "reconciled"}, operationId : Nat, table : Tables]

WorkerReply == [type : {"write-complete", "error"}, operationId : Nat, table : Tables]

ASSUME LeaseAssumption == NoOperation \notin Lease

Leased(t) == leases[t] # NoOperation

QueueFull == Cardinality({t \in Tables : Leased(t)}) >= MaxPendingWrites

(* A message posted to a worker that has died is dropped. *)
Post(request) ==
    toWorker' = IF worker = "dead" THEN toWorker ELSE Append(toWorker, request)

Reply(type, request) ==
    toMain' = Append(toMain, [type |-> type,
                              operationId |-> request.operationId,
                              table |-> request.table])

WorkerInit ==
    /\ leases = [t \in Tables |-> NoOperation]
    /\ worker = "absent"
    /\ toWorker = <<>>
    /\ toMain = <<>>
    /\ blockedByTable = [t \in Tables |-> 0]

--------------------------------------------------------------------------------
(* Main thread: the controller. *)

(* submitWrite throws before it registers anything: TABLE_WRITE_PENDING or  *)
(* QUEUE_FULL.                                                              *)
SubmitRejected(t) ==
    /\ Leased(t) \/ QueueFull
    /\ UNCHANGED workerVars

(* submitWrite: take the lease, start a worker if none runs, post.          *)
SubmitWrite(t, id) ==
    /\ ~Leased(t) /\ ~QueueFull
    /\ leases' = [leases EXCEPT ![t] = [operationId |-> id, bound |-> TRUE]]
    /\ worker' = IF worker = "absent" THEN "running" ELSE worker
    /\ Post([type |-> "write", operationId |-> id, table |-> t])
    /\ UNCHANGED <<toMain, blockedByTable>>

(* ensureWorker throws after the lease was taken: new Worker() failed.      *)
WorkerNotCreated(t, id) ==
    /\ ~Leased(t) /\ ~QueueFull
    /\ worker = "absent"
    /\ leases' = [leases EXCEPT ![t] = [operationId |-> id, bound |-> FALSE]]
    /\ UNCHANGED <<worker, toWorker, toMain, blockedByTable>>

(* finishAcknowledgedOperation without a notice: the worker itself reported *)
(* the operation complete.                                                  *)
FinishLease(t) ==
    /\ leases' = [leases EXCEPT ![t] = NoOperation]
    /\ UNCHANGED <<worker, toWorker, blockedByTable>>

(* Mutant: the worker is not told. *)
ReconcileLease_Silent(t) ==
    /\ leases' = [leases EXCEPT ![t] = NoOperation]
    /\ UNCHANGED <<worker, toWorker, toMain, blockedByTable>>

(* reconcileWrite: a worker that may still hold the operation is told, so   *)
(* that it lifts its block; then the lease is released.                     *)
ReconcileLease(t) ==
    /\ leases' = [leases EXCEPT ![t] = NoOperation]
    /\ IF Leased(t) /\ leases[t].bound
         THEN Post([type |-> "reconciled",
                    operationId |-> leases[t].operationId,
                    table |-> t])
         ELSE UNCHANGED toWorker
    /\ UNCHANGED <<worker, toMain, blockedByTable>>

(* Mutant: the leases of recovered operations are forgotten. *)
RecoverLeases_Kept == UNCHANGED workerVars

(* recover, called when no worker is active: every journalled operation's   *)
(* lease goes.                                                              *)
RecoverLeases ==
    /\ leases' = [t \in Tables |-> IF Journalled(t) THEN NoOperation ELSE leases[t]]
    /\ UNCHANGED <<worker, toWorker, toMain, blockedByTable>>

(* The "exit" event: undelivered replies are gone, and every lease of that  *)
(* worker is unbound but kept.                                              *)
WorkerExitObserved ==
    /\ worker = "dead"
    /\ worker' = "absent"
    /\ toMain' = <<>>
    /\ leases' = [t \in Tables |->
                    IF Leased(t) THEN [leases[t] EXCEPT !.bound = FALSE]
                                 ELSE NoOperation]
    /\ UNCHANGED <<toWorker, blockedByTable>>

--------------------------------------------------------------------------------
(* Worker thread: one message at a time, concurrently with the main thread. *)

HasRequest(type) == worker = "running" /\ toWorker # <<>> /\ Head(toWorker).type = type

(* The journalled operation a write request names is still in the outbox.   *)
RequestIsCurrent(request) ==
    /\ Journalled(request.table)
    /\ outbox[request.table].operationId = request.operationId

(* A write whose table is not blocked: applied, or a no-op when the main    *)
(* thread reconciled the operation first.                                   *)
WorkerAppliesWrite ==
    /\ HasRequest("write")
    /\ LET request == Head(toWorker) IN
         /\ blockedByTable[request.table] = 0
         /\ IF RequestIsCurrent(request)
              THEN ApplyPersistenceOperation(request.table)
              ELSE UNCHANGED <<journalVars, faults>>
         /\ Reply("write-complete", request)
    /\ toWorker' = Tail(toWorker)
    /\ UNCHANGED <<leases, worker, blockedByTable>>

(* Mutant: the failed apply is caught and reported as a completion. *)
WorkerRefusesWrite_Swallowed ==
    /\ HasRequest("write")
    /\ TransactionFails
    /\ Reply("write-complete", Head(toWorker))
    /\ toWorker' = Tail(toWorker)
    /\ UNCHANGED <<leases, worker, blockedByTable>>

(* reportWriteError: the transaction threw, or an earlier failure already   *)
(* blocks the table.                                                        *)
WorkerRefusesWrite ==
    /\ HasRequest("write")
    /\ LET request == Head(toWorker) IN
         /\ IF blockedByTable[request.table] = 0
              THEN /\ TransactionFails
                   /\ blockedByTable' = [blockedByTable EXCEPT
                                           ![request.table] = request.operationId]
              ELSE UNCHANGED <<journalVars, faults, blockedByTable>>
         /\ Reply("error", request)
    /\ toWorker' = Tail(toWorker)
    /\ UNCHANGED <<leases, worker>>

(* "reconciled": lift the block only if this very operation set it.         *)
WorkerReconciled ==
    /\ HasRequest("reconciled")
    /\ LET request == Head(toWorker) IN
         blockedByTable' = IF blockedByTable[request.table] = request.operationId
                             THEN [blockedByTable EXCEPT ![request.table] = 0]
                             ELSE blockedByTable
    /\ toWorker' = Tail(toWorker)
    /\ UNCHANGED <<leases, worker, toMain, journalVars, faults>>

(* The thread crashes or exits: its queue and its blocks go with it.        *)
WorkerDies ==
    /\ worker = "running"
    /\ worker' = "dead"
    /\ toWorker' = <<>>
    /\ blockedByTable' = [t \in Tables |-> 0]
    /\ Fault
    /\ UNCHANGED <<leases, toMain, journalVars>>

WorkerStep ==
    \/ WorkerAppliesWrite
    \/ WorkerRefusesWrite
    \/ WorkerReconciled

WorkerTypeOK ==
    /\ leases \in [Tables -> Lease \cup {NoOperation}]
    /\ worker \in {"absent", "running", "dead"}
    /\ toWorker \in Seq(WorkerRequest)
    /\ toMain \in Seq(WorkerReply)
    /\ blockedByTable \in [Tables -> Nat]
================================================================================
