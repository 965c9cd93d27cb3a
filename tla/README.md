# Verification of EveJS Frontier

EveJS Frontier is a game server in TypeScript: a single Node.js main thread
handles client packets, simulates space and mutates tables of game state that
live in memory; a journalled SQLite store makes them durable; worker threads and
child processes take work off the event loop; some Frontier features synchronize
the state with a blockchain. This directory holds TLA+ models of that program,
their TLC instances and TLAPS proofs. They are about what its sequential unit
tests hardly reach: five places where the main thread, a worker, a second process,
the chain or the death of the server interleave. Paths below are relative to
`src/server/src/` unless they say otherwise.

1. [Inventory](#1-inventory)
2. [Plan](#2-plan)
3. [Modules](#3-modules)
4. [Properties and runs](#4-properties-and-runs)
5. [What the models showed about the code](#5-what-the-models-showed-about-the-code)
6. [Proofs](#6-proofs)
7. [Abstractions and what is not modelled](#7-abstractions-and-what-is-not-modelled)

## 1. Inventory

| Component | State | Operations | Interacts with | Hard because |
|---|---|---|---|---|
| Row store and outbox, `gameStore/sqliteStore.ts` | one SQL table of `(key, json)` rows per runtime table; `_persistence_outbox` with at most one operation per table | enqueue, apply, acknowledge, reconcile, recover, atomic multi-table write | opened by two threads (WAL) | every transaction can be the last one before a crash |
| Row layout, `sqliteStore.ts` | groups of a wrapper table: a container row and one row per entity | explode, assemble, value of one row | partial and full flush | three conversions must agree |
| Worker and controller, `gameStore/persistenceWorker.ts`, `.worker.ts` | leases per table, message ports, blocked tables | submit, acknowledge, fail, reconcile, recover, exit | controller and worker exchange messages; both use the outbox | worker races the main thread on the same operation; dies at any time |
| Game store, `gameStore/index.ts` | cache, dirty set, dirty rows, baselines, timers, flights, transient paths | read, write, remove, debounced flush, sync flush, atomic commit, shutdown, restart | all services call it; it drives the worker | single flight, retries, ordering with atomic commits, exit paths |
| Assembly supervisor, `services/frontier/suiAssemblySupervisor*.ts` | leases, generation, journal and its revision, pending requests | acquire, cancel, release, assert, open and save the journal, gRPC relay, restart | child process over IPC | time-outs against late grants, fencing across restarts |
| Transactions and fuel, `suiAssemblyTransactions.ts`, `suiAssemblySync.ts`, `networkNodeFuelRuntime.ts` | journalled pending transaction, fuel intent of the item, what the chain was seen to hold | transfer, synchronization pass, recovery, acknowledgment | supervisor, chain, items table | lost answers, late execution, stale context, unflushed writes |
| Assembly logistics, `assemblyLogistics*.ts`, `smartAssemblyRequestRuntime.ts` | request queue, claims, receipts in the items table | create, cancel, claim, execute, finalize, reconcile, rollback | item store, chain refresh | checks before and after an await; two tables, no common transaction |
| Industry, `industryProduction*.ts`, `space/npc/npcIndustryJobService.ts` | lanes with escrow and record, worker's set, NPC checkpoint | start, advance, discontinue, transfer, NPC job | item store, timer | catch-up over several runs; paid run and checkpoint in different tables |
| Packet pipeline, `network/tcp/index.ts`, `network/clientSession.ts` | promise chains per connection, dispatch list, pause flag | data, decode, dispatch, send, encode, write, close | codec pool | results out of order, overload, sockets that close between steps |
| Task pool, `utils/serviceTaskPool.ts` | queue, workers, idle stack, pending tasks | run, drain, message, deadline, exit | worker threads | answer, deadline and exit event of one worker in any order |
| Action queue, `suiAssemblyActionQueue.ts` | on-chain objects, claims | create, claim, complete | chain | idempotence lies in the Move contract |
| Inventory, `services/inventory/itemStore.ts` | item tables | moves, splits, multi-item commits | game store | large but synchronous |
| Market, trade, contracts, corporations, characters, structures, fleets, chat, ... | tables of the game store | request handlers | game store | mostly sequential |
| Space, destiny, NPCs, `space/` | scenes, motion, behaviour trees | ticks, packets | sessions | real-valued simulation |
| Secondary services, gateways | HTTP | requests | everything | I/O |
| Market server (`src/externalservices/market-server`, Rust), scripts, docker, docs | - | - | - | separate programs and data |

What makes each of the modelled components correct:

* **Outbox**: an operation is applied exactly as it was recorded, ids are never
  reused, at most one per table is unresolved, replaying one is harmless.
* **Worker protocol**: every lease belongs to the operation in flight; a
  completion is reported only for what is stored; a failed table is blocked until
  that very operation was reconciled.
* **Game store**: what is not dirty survives a crash; a flush is one whole
  snapshot of a table; an atomic commit is never overtaken by an older operation;
  every change eventually reaches the disk; a shutdown that reports success lost
  nothing.
* **Row layout**: a flushed group is loaded exactly as it was; the fast path
  writes what the full diff would have written.
* **Supervisor**: two callers are not inside their actions at once, no lease
  stays with a caller that gave up, no accepted save is built on anything but the
  last one, and whoever asks to be admitted is admitted or refused.
* **Transactions and fuel**: at most one transaction has an open fate and it is the
  journalled one; each transfer is executed once; no fuel is made or lost.
* **Logistics**: items move only under a durable claim, a request is fulfilled only
  if they moved, its outcome is final, its entry stays until the move is reported.
* **Industry**: each paid run makes its products once and has room for them; what is
  due is settled; an NPC's lane is started once.
* **Packets and pool**: packets leave in the order they came, without gaps; no task
  and no worker is lost; nothing waits for ever.

`PROJECT.json` lists all components and, under "hazards", the places in the code
where these properties are at stake.

## 2. Plan

In the order in which they were written:

1. *Persistence core*: `SqliteStore`, `PersistenceWorker`, `GameStore`, the
   abstract `DurableStore`, `GroupedRows`, with proofs. **Done**; the proofs now
   include the message traffic, the worker's blocks and the timers.
2. `AssemblySupervisor`: both processes, leases, journal. **Done**, safety proved.
3. `AssemblyTransactions`, composed with the supervisor: one fuel transfer from the
   item to the chain and back. **Done**, safety proved.
4. `AssemblyLogistics`. **Done**, safety proved.
5. `IndustryProduction` with an NPC's job. **Done**, safety proved.
6. `ServiceTaskPool`, `PacketPipeline`, the abstract `OrderedChannels`. **Done**,
   safety and refinement proved.

What a continuation should take next: the tail of the controller (`drain` and
`shutdown` with their shared counters); sponsored transactions and the status
changes of assemblies (`suiAssemblyAdmin.ts`, `suiAssemblySync.ts:276-370`), which
share the executor's recovery; the market daemon client, whose requests survive a
reconnection or not.

## 3. Modules

```
SqliteStore <- PersistenceWorker <- GameStore <- MCGameStore
                                      |  \
                     DurableStore  <--+   GameStore_proofs <- GameStoreMessages
GroupedRows        <- MCGroupedRows,  GroupedRows_proofs
AssemblySupervisor <- MCSupervisor,  AssemblySupervisor_proofs
                   <- AssemblyTransactions <- MCTransactions,  AssemblyTransactions_proofs
AssemblyLogistics  <- MCLogistics,  AssemblyLogistics_proofs
IndustryProduction <- MCIndustry,   IndustryProduction_proofs
ServiceTaskPool    <- PacketPipeline <- MCPipeline,  PacketPipeline_proofs
                            |
       OrderedChannels  <---+
```

(`A <- B`: B extends A; the abstract `DurableStore` and `OrderedChannels` are
instantiated.)

**One thread.** The server's JavaScript runs a turn of its event loop to its end. A
turn that makes several durable changes, or that other processes can observe half
way, is a sequence of steps in which other *main-thread* actions are disabled
(`turn` in GameStore, `Idle` in AssemblyTransactions, `AtRest` in PacketPipeline),
while threads, processes, the chain and crashes are not.

### Persistence

**SqliteStore.** `rows[t]` is what the table's SQL rows say, `outbox[t]` the one
journalled operation of table `t` or `NoOperation`, `nextOperationId` the
AUTOINCREMENT sequence. A batch of upserts and deletes is a function from row keys
to a new value, `NoRow` (deleted) or `Untouched`. One action per transaction:
enqueue, apply, acknowledge, reconcile, recover, atomic changes.
`Recoverable(t)` is what a restart would load. `faults` counts everything that
goes wrong outside the program and bounds it by `MaxFaults`.

**PersistenceWorker.** The controller's `leases` (its `pendingWrites` and
`pendingByTable` in one), the two FIFO ports `toWorker` and `toMain`, the worker's
`blockedByTable`, and whether a worker thread is absent, running, or dead with its
exit not yet observed. The worker's actions take one message each; the main
thread's halves (`SubmitWrite`, `ReconcileLease`, `RecoverLeases`, ...) are
conjoined by GameStore with what the cache does in the same call.

**GameStore.** The state of `index.ts`, name by name (`cache`, `transientPaths`,
`dirty`, `dirtyRowKeys`, `fullDirty`, `flushTimers`, `flushBaselines`,
`inFlightFlushes`, `lastCompleted`, `shutdownInProgress`). A turn is kept in `turn`:
who called (a timer, a synchronous flush, a commit, a signal, the exit handler),
which step comes next (`reconcile` the earlier flight, `flush`, `settle` the
operation this turn journalled, `commit`, `exit`), for which table, which tables are
left.

| Code | Actions |
|---|---|
| `write`, `remove`, `setTransientPath` | `WriteRow`, `WriteTransientRow`, `RemoveRow`, `WriteRoot`, `SetTransientPath` |
| `flushTable` (timer) | `TimerFires`, `TimerFiresClean` |
| `flushTableSync`, `reconcileInFlightFlush` | `FlushTableSync`, `FlushReconcile`, `FlushReconcileFails` |
| `flushSqliteTable` | `FlushRecover`, `FlushFindsFlight`, `FlushFindsNothing`, `FlushSubmits`, `FlushJournals`, `FlushSettles` and their failures |
| `commitAtomicRowWrites` | `CommitAtomicRowWrites`, the flush steps, `CommitApplies`, `CommitFails` |
| `handleWorkerMessage`, `handlePersistenceWorkerAcknowledged`, exit listener | `WriteAcknowledged`, `WriteCompleteIgnored`, `WriteErrorReported`, `WorkerExits` |
| signals, `beforeExit`, `process.exit`, exit handler, start | `ShutdownSignal`, `ProcessExit`, `ExitHandlerFlushes`, `ProcessEnds`, `ProcessCrashes`, `ProcessStarts` |

**DurableStore.** What callers rely on, without journal, worker, timer or dirty
set: `mem` (the persistent part of what `read` returns) and `disk` (what a restart
loads). A table reaches the disk only as one whole snapshot of memory
(`Checkpoint`), a commit reaches memory and disk of all its tables in one step
(`CommitRows`), losing the process sets memory back to the disk (`Lose`).
GameStore implements it under `mem[t] = Snapshot(t)` while the process runs and
`Recoverable(t)` otherwise, `disk[t] = Recoverable(t)`. The step that journals a
batch is the checkpoint; the worker's apply, acknowledgments, reconciliation and
recovery are all invisible.

**GroupedRows.** One wrapper table with one group: the cached group, the stored
rows, the baseline and the tracked rows, with the three conversions as operators
on functions. A flush is one step here because GameStore takes it apart.

### Assemblies on the chain

**AssemblySupervisor.** The parent half (`phase`, `context`, `calls`: what each
caller of `runExclusive` is doing, with which context, waiting for what), the child
(`lease`, `queue`, `record`, its `file`) and the IPC channel (`toWorker`,
`toParent`). `generation` counts children; `store` is the parent's copy of the
journal. The actions take journals and RPC bodies as parameters.

| Code | Actions |
|---|---|
| `runExclusive` | `Acquire`, `AcquireAnswered`, `Release`, `ReleaseAnswered`, `Leave` |
| `request`: time-outs, cancellation, kill | `AcquireTimesOut`, `RpcTimesOut`, `Dies` |
| `openJournal`, `save`, `assertLease`, gRPC client | `OpenJournal`/`OpenAnswered`, `SaveJournal`/`SaveAnswered`, `AssertLease`/`AssertAnswered`, `Grpc`/`GrpcAnswered` |
| child: `handle` | `HandleAcquire`, `HandleCancel`, `HandleRelease`, `HandleAssert`, `HandleOpen`, `HandleSave`, `HandleSaveFails`, `HandleGrpc` |
| child: `expireLease`, `grantNext` | `LeaseLapses`, `LeaseTimerFires`, `GrantNext` |
| `spawn`, exit listener, restart | `ChildDies`, `ChannelCloses`, `ExitNoticed`, `Respawn`, `ServerRestarts` |

**AssemblyTransactions** extends it: `pc[c]` is where client `c` is in its operation
(a synchronization pass or a fuel transfer), `pending`, `seen` and `using` its
locals, `memory` and `disk` the item's fuel and intent before and after the
debounced flush (`FlushItems`: a transfer and an acknowledgment are in memory only until
it happens), `flushed` (history) the intents made by then, `made` the transactions built, `chain` the fate of each, `chainFuel` what the
executed ones left in the node on the chain. The
executor's recovery (`Recovers`, `Inquire`, `Informed`, `Retire`, `Finish`), the
journalled submission (`Journal`, `CallChain`), observation and acknowledgment
(`Read`, `Observed`, `Acknowledge`) and the transfer itself (`CanTransfer`,
`Transfer`) are its steps, one per await. The chain (external) executes a submitted
transaction at once, later, or never once its gas coin was used by another.

**AssemblyLogistics.** `queue` and `receipts` are what readers of the two tables
see, `queueDisk` and `itemsDisk` *all* contents a restart may find after a flush
that failed; `worker` is where the single-flight pass is.

| Code | Actions |
|---|---|
| `createRequest`, `cancelRequest`, `cancelRequestsForAssembly` | `Create`, `Cancel`, `CancelAll` |
| `mutate`, `writeState`, `restoreFailedWrite` | `Write`, `WriteFails`, `QueueRestored`, `ItemsRestored` inside every operation |
| `reconcileState` (on every read) | `Reconciliations` |
| `runPass`, `processRequest` | `BeginPass`, `Skip`, `FindReceipt`, `MarkReconciled`, `Settle`, `Claim`, `Validate`, `Commit` and its failures, `Release`, `Fail`, `Mark`, `Finalize` |
| `stop`, `start`, crash | `Stop`, `Restart` |

**IndustryProduction.** `items.lanes[l]` is a lane's escrowed input, output and job
record in the items table, `itemsDisk` the flushed copy, `tracked` the worker's set,
`npc`/`npcDisk` the NPC's checkpoint. `Turn(table)` is `advanceProduction`, a
function over the lanes because a blocked lane ends the loop. `overwritten` is a
history variable: a player's job took the place of the record the NPC would adopt.

### Packets

**ServiceTaskPool.** `queue`, `workers`, `idleWorkers`, `pending` and `serviceTask`
are the pool's fields; `threads` the worker threads and what they posted; `drain`
says that `_drain`'s loop is running; `settled` are promises whose continuations are
due; `abandoned` are queued tasks whose promise `new Worker()` has rejected.

**PacketPipeline** extends it with connections. `inbound[c]` is the chain
`inboundCodecTail`, `outbound[c]` the chain `_outboundWriteTail`,
`pendingDispatches` the list all connections share.

| Code | Actions |
|---|---|
| `run`, `_drain`, `_handleMessage`, `_handleWorkerFailure`, deadline | `Run`, `RunRejected`, `DrainStep`, `HandleMessage`, `LateMessageIgnored`, `WorkerFails`, `TaskTimesOut` |
| `socket.on("data")`, `queueInboundPacket` | `DataArrives`, `StartDecode`, `InboundDecoded` |
| `scheduleNextPacketDispatch` | `Dispatch` |
| `sendPacket`, `sendRawPayload`, `_outboundWriteTail` | `SendPacket`, `SendRawPayload`, `SendOverflows`, `OutboundEncoded`, `WriteNext` |

**OrderedChannels.** Per connection and direction: packets are accepted, the next
one is delivered, the connection closes. PacketPipeline implements it with
`received`/`dispatched` and `sent`/`written`.

## 4. Properties and runs

Every run ends within about a minute and a half on two threads.

| Run | Configuration | Checks |
|---|---|---|
| `worker_protocol` | worker on, 2 tables, 1 row, 1 value, 2 writes, 2 faults, 2 leases; 1.3 million states | journal, lease, durability, commit, shutdown and block invariants, order of completions, the refinement |
| `queue_limit` | worker on with one lease, 2 tables, 2 rows, 1 value, 2 writes, no faults; 2.2 million states | types, and fast-path coverage while QUEUE_FULL rejects flushes |
| `debounce` | as `worker_protocol` without faults, fair; 57 000 states | `EveryWriteBecomesDurable` |
| `last_chance` | worker off, 1 write, 1 fault | `LastChanceFlush`, violated (section 5) |
| `grouped_rows` | 2 entities, 2 values, 5 writes or restarts; 2 200 states | round trip, partial flush = full flush |
| `grouped_legacy` | the same, databases with a group blob | `FlushedGroupSurvivesRestart`, violated (section 5) |
| `supervisor` | 2 callers, queue of 1, 2 processes, 1 save, 2 faults; 266 000 states | exclusion, leases, journal, admission ends |
| `transactions` | 2 clients, 1 unit of fuel, 2 transfers, 4 transactions, 2 processes, 1 fault; 547 000 states | one open transaction, once-only, conservation, settlement |
| `applied_twice` | the same without faults, one server may die | `NeverAppliedTwice`, violated (section 5) |
| `logistics` | 2 requests, the supplier goes on and off line, 1 fault, 1 shutdown or crash; 129 000 states | receipts against requests, outcomes, retention, reporting |
| `industry` | 2 lanes, 2 units, NPC on lane 2 with 2 runs, 2 ticks, 1 fault, 1 crash; 170 000 states | conservation, the NPC's single start, settlement |
| `pipeline` | 1 connection, 2 packets in, 3 out, 2 workers, 3 pending tasks, 1 fault; 419 000 states | pool bookkeeping, waiting, the refinement, progress |

**Persistence.**

* `FlightMatchesJournal`: the in-memory flight and the outbox row are the same
  operation, and the stored rows are the baseline before it or after it.
* `LeaseMatchesFlight`: a lease is held only for the operation in flight, so the
  "stale" and "unexpected" errors of the acknowledgment handlers are unreachable.
* `CleanTablesAreDurable`: what is neither dirty nor being flushed survives a
  crash at this instant.
* `DirtyRowsCovered`: the tracked-row fast path misses no row.
* `CommitFindsNothingOlder`: when an atomic commit reaches SQLite, no older
  operation of its tables is left anywhere.
* `CleanShutdownIsDurable`: a successful shutdown flush has written everything.
* `BlockIsCurrent`: a block in the worker belongs to the operation in flight or
  its lifting notice is queued ahead of the next write.
* `CompletionIsDurable`: a completion the controller would accept names an
  operation recorded as applied.
* `NoStaleTimer`: a dirty table never holds the id of a timer that has fired.
* `OperationsCompleteInOrder`: completed ids only grow; a new flight's id is newer
  than every completed one (within one process: completions are counted in memory).
* `ImplementsDurableStore`: the refinement of section 3.
* `EveryWriteBecomesDurable`: a row that differs from its recoverable value does
  not stay so, unless it turns transient or the process ends.
* `FlushedGroupSurvivesRestart`, `FlushConverges`: the row layout round-trips, and
  a partial flush leaves exactly the rows of the full one.

**Supervisor and transactions.**

* `ExclusiveAdmission`: without a lapsed lease or a late reply, two callers are
  never inside their actions with leases of the same process.
* `NoAbandonedLease`: a lease in force has a caller who will end it, or the message
  that ends it is on its way.
* `JournalLineage`: a save replaces the very journal it was made from. The revision
  check of the child turns out to be a second line of defence: in the model the
  lease check and the FIFO channel already exclude a stale save, so the mutant that
  breaks this property is in the parent, which takes over a journal that was refused.
* `AdmissionEnds`: every call of `runExclusive` is admitted or refused.
* `OneUncertain`: a submitted transaction of open fate is the journalled one.
* `AppliedOnce`, `FuelConserved`, `TransfersSettle`: once, without loss, in the end.
  `excused` (history) records which of three failures of section 5 have happened: a
  server that died with an unflushed acknowledgment, a server that died with an
  unflushed transfer that had left for the chain, and a transfer with a stale context.
  `AppliedOnce` excepts only the first, so it and `OneUncertain` also cover the stale
  context; conservation and settlement except all three, and cover, for one, a crash
  that undoes a transfer which was not sent yet. `NeverAppliedTwice` is `AppliedOnce`
  without its exception.

**Logistics.**

* `FulfilledMoved`: fulfilled implies moved, for every combination of the contents
  that a restart may find in the two files.
* `MovedUnderClaim`: items move only for a durably claimed request with both
  endpoints online, whatever happened since the checks before the await.
* `OutcomeStands`: a terminal state is changed by nothing but the discovery that the
  items moved, and that by nothing.
* `KeptUntilFulfilled`: retention and the table limit do not remove a request whose
  items moved before it is fulfilled.
* `MovesReported`: such a request is fulfilled in the end. `revived` (history) are
  requests whose move only a restart brought to light, after a flush that had failed.

**Industry.**

* `RunsConserved`: a paid run has its place in the output slot (`RoomReserved`), and
  every unit is in stock, in escrow, in exactly one run or in one product
  (`UnitsConserved`), in memory and after a crash.
* `NpcStartsOnce`: the NPC pays for its lane once, although lane and checkpoint are
  written one after the other.
* `DueRunsSettle`: a due run ends: behind a lane with much to catch up, in a disabled
  lane, after a restart.

**Packets.**

* `TasksAccountedFor`: every worker is idle or has exactly the task that records it;
  every codec promise somebody waits for is queued, at a worker or settled.
* `NoTaskWaitsForAFreeWorker`: nobody's task waits beside an idle worker.
* `ImplementsOrderedChannels`: the refinement of section 3.
* `EveryPacketLeaves`: a connection with packets on the way delivers the next or
  closes, and paused reading resumes, even if no thread ever answers.

`TypeOK`, `TransactionsTypeOK`, `LogisticsTypeOK`, `IndustryTypeOK` and
`PipelineTypeOK` are the type invariants.

For each property of a passing run the modules hold a mutant of a mapped
definition (a `Name_Variant` operator just above it) that violates it: an outbox
without AUTOINCREMENT, a reconciliation that forgets to tell the worker, a worker
that stays in the idle list after it failed, a failed packet that is skipped, ...

### Bounds

*Persistence.* `MaxWrites` bounds cache changes (writes, removals, commits) and
`MaxFaults` failures of every kind: a transaction that throws, a worker that
cannot be started, a worker or a process that dies. Two writes suffice for a table
to be written again while its first flush is at the worker, or for one write and
one commit of both tables; two faults for a worker's death followed by a failed
recovery, a failed apply followed by a crash, or a crash during the recovery flush.
Operation ids grow to at most one per flush that found a difference and need no
bound. One row and one value per table are enough for the worker protocol, which
never looks inside a batch; `queue_limit` has the rows the diff does look at. Worker
off is covered by `last_chance` and by the proofs, which hold for both settings.
`RootContents` and `AtomicCommits` are the contents and row sets that callers use.
`MaxSteps` bounds group writes and restarts.

*Supervisor and transactions.* Two callers are needed for exclusion, and with a queue
of one a third request would be refused, which two callers also reach through
cancellations that are on their way. `MaxGenerations` 2 loses one child or server;
`MaxRevision`, `MaxIntents` and `MaxTxs` allow a save per process, a transfer while
another one's fate is open, and a second transaction for each. The items table is not
flushed once the last process runs, because no restart would read it. `MaxFaults` counts
lapses of live leases, time-outs and failed writes. Safety was also checked on larger
instances: two faults and two generations (5.5 million states), three generations
(3.7 million).

*Logistics.* Two requests let one be claimed while the other is reconciled. Which
endpoint is offline makes no difference to the code, so only one of them switches;
an instance with one request, two faults and both endpoints switching (259 000
states) confirms it.

*Industry.* Two lanes and two units let the first lane block the second and a run be
paid for by what another one returned. An instance with one lane and three units, and one with two
crashes (924 000 states), were checked too.

*Pipeline.* The source's limits (64, 16, 8, 256, 512) are scaled down in their order
(`InboundLimit` 2, `PauseAt` 2, `ResumeBelow` 1, `OutboundLimit` 3,
`MaxPendingTasks` 3) so that each is reached; a data event brings up to three frames,
one more than fit. Two connections, and three worker identities (4.8 million states),
were checked for safety.

`CHECK_DEADLOCK FALSE` is set where a bound ends the behaviours or the system may
really stop: no more calls, packets, faults or time.

### Fairness

* GameStore (`FairSpec`, used by `debounce`): a turn runs to its end and the worker
  thread takes its messages (weak fairness); timers and messages get strong fairness,
  because callers' turns interrupt them again and again, but each pass of Node's event
  loop runs the timers that are due and the messages that have arrived. Nothing is
  assumed of callers, signals, or failures: this run has no faults, since after a
  failed flush the code itself waits for the next write or synchronous flush
  ("PST-002 remains separate", `gameStore/index.ts:855`). A write re-arms the debounce
  timer (`index.ts:1035-1045`), so a table that is written more often than every two
  seconds for ever is never flushed by it. The run does not show that case: `MaxWrites`
  makes writes end, and strong fairness of the timer means that writers pause.
* Supervisor: the child handles its messages and its lease timer, exit events and
  answers are delivered, a released action ends; a call to a process that is gone
  times out. Nobody has to call, answer from the chain, or fail.
* Transactions: the same, and a pass is tried again whenever it could begin (a timer
  every few seconds, `suiAssemblySync.ts`), answers arrive.
* Logistics: a step of the worker that is due runs, a pass begins (a timer every
  second), the restores of a failed write are retried by that timer, a server that was
  shut down is started again, and a request whose receipt is there is looked at (its
  retry delay passes: strong fairness of `FindReceipt`).
* Industry: weak fairness of the worker's turn and of the NPC's, both on timers.
* Pipeline: a turn ends (weak), an immediate that is set runs and of the deadlines that
  stay due one fires (strong, because other events interrupt them). No thread has to
  answer.

## 5. What the models showed about the code

Three statements of the repository do not hold (findings in `PROJECT.json`):

* **The last-chance flush never follows a failed one** (`last_chance`). The exit
  handler is commented "Last-chance sync flush for any remaining dirty tables"
  (`gameStore/index.ts:1343`), but `flushDirtyTablesForShutdown` returns at once
  when `shutdownInProgress` is set (line 1300), which a signal or `beforeExit` has
  done before. A transient failure in the signal's flush (a busy database) is thus
  never retried: the process ends with dirty tables. The exit handler works for a
  direct `process.exit()`.
* **A partial flush can drop a legacy group** (`grouped_legacy`).
  `assembleFromRows` tolerates a whole-group blob "so the first flush cleanly
  converts it" (`gameStore/sqliteStore.ts:181`). A write of one entity marks that
  entity and the container row (`index.ts:1023-1024`); the partial flush then
  overwrites the blob by the empty skeleton and inserts only the one entity. The
  others are lost at the next start. (TLC's behaviour is a blob of two entities, the
  removal of one, and the flush: nothing is left of the other.) A full flush (a root or
  group write, or `EVEJS_GAMESTORE_DIRTY_ROWS=0`) converts correctly, and so does the
  migration tool.
* **An acknowledged fuel transfer can be executed twice** (`applied_twice`).
  `acknowledgeSuiNetworkNodeFuel` (`networkNodeFuelRuntime.ts:173`) clears the intent
  in the items table, which the debounce flushes later; the journal is then cleared
  durably at once. A server that dies in between finds the intent again and an empty
  journal, and the next pass sends the transfer a second time, although intent changes
  are to be persisted "before clearing the pending transaction"
  (`suiAssemblyTransactions.ts:86`).

Behaviour a maintainer should know, met while modelling (the properties are stated so
that they exclude exactly these cases, by name):

* *Stale context.* Only the reconciliation pass compares `supervisorGeneration`
  (`suiAssemblySync.ts:918`). A transfer admitted by a restarted supervisor runs with
  the observation of its predecessor (lines 1048-1063) and may count fuel twice
  (`excused` = "stale context"). The fuel loadout of a construction template
  (`smartAssemblyConstructionTemplateRuntime.ts:656`) is outside the queue altogether.
* *Unflushed transfer.* An operation of the fresh-state runner only marks the items
  table: `commitFuelDeposit` and `commitFuelWithdraw` (`networkNodeFuelRuntime.ts:938-944`)
  and the callers in the storage and industry runtimes pass no `flush`, and lines 870
  and 915 flush only at `options.flush === true`. The next pass may journal, submit and
  even acknowledge the transfer before the debounce has flushed it. A server that dies
  then has the inventory and the node of before the transfer, while the chain has
  executed it: the next observation counts the fuel a second time, or misses it
  (`docs/frontier-network-node-energy.md:21-22`, "This avoids duplicated fuel or partial
  transfers after a write failure", is about a failed write only). `excused` =
  "unflushed transfer" names this case; without it TLC finds `FuelConserved` violated.
* *Revived receipts.* When the flush of a move fails and the file nevertheless has it, a
  request settled meanwhile may change its outcome after a restart (`revived`);
  `docs/FRONTIER_SMART_ASSEMBLY_REQUESTS.md:207-216` describes the queue's half of this.
* *NPC lanes.* (a) `npcIndustryJobService.ts:551` starts a lane without
  `trackIndustryProduction`: once the NPC is gone, its run stays due until a restart or
  a look at the facility (`Unattended`). (b) The checkpoint is flushed at once, the paid
  run is not: after a crash the NPC is "started" with no record to adopt and stays
  suspended. (c) A player's job in that lane before the NPC looks again makes it start
  a second time (`overwritten`). (d) A failure in a blocked lane keeps the later lanes
  of the facility from advancing in that turn.
* *A pool that never drains again.* Tasks whose `new Worker()` threw stay in the queue
  and count against `maxPendingTasks` (`serviceTaskPool.ts:165`): that many of them
  while no worker exists make every later `run()` fail before it reaches `_drain`.
* *Back pressure.* Pausing the socket cannot stop the loop over frames that are already
  there: more than 64 small frames in one chunk close a connection that would otherwise
  only be paused. Decoding goes on for a connection that is already closed.

Caller obligations the models rely on and the code does not enforce:

* a caller that mutates a cached object in place must not write the same reference
  back to a row path: `isSameValue` sees no change (`index.ts:1467`);
* `setTransientPath(t, p, false)` marks nothing dirty and needs a root write in the
  same turn, which every caller in `itemStore.ts` does;
* a transient root path `"/"` would not be excluded from the flush (`index.ts:510`
  drops the result of `deletePath`); no caller uses one.

## 6. Proofs

All theorems hold for every value of the constants that satisfies the assumptions,
which only say that special values are distinct from the data and that parameters have
their types (`RowAssumption`, `OperationAssumption`, `LeaseAssumption`,
`FlightAssumption`, `FaultAssumption`, `MaxPendingAssumption`, `GameStoreAssumption`,
`GroupAssumption`, `GroupedRowsAssumption`, `LogisticsAssumption`,
`IndustryAssumption`, `PoolAssumption`, `PipelineAssumption`, `SupervisorAssumption`,
`TransactionsAssumption`). No set has to be finite.
Every strengthened invariant was first checked by TLC on the instance of the
component's run.

**GameStore.** `GameStore_proofs` begins with the types, which each step keeps, and a
few facts about batches; then comes the inductive invariant

```
Inv == TypeOK /\ TurnIsWellFormed /\ (~running => Offline)
       /\ FlightMatchesJournal /\ LeaseMatchesFlight /\ DirtyRowsCovered
       /\ TurnOwnsItsFlight /\ CleanUnlessFlushing /\ SweptTablesStayClean
       /\ ProposalsArePersistent
```

The properties of interest speak of the disk and the cache; what connects them is
the volatile bookkeeping in between. `FlightMatchesJournal` ties rows, outbox and
baseline together, so that the worker's and the recovery's steps change rows
without changing `Effective(t)`, the content the journal will have produced.
`CleanUnlessFlushing` compares the cache with `Effective`; together they give
`CleanTablesAreDurable`. `DirtyRowsCovered` is needed for the flush step itself: a
partial diff must produce all of `Snapshot(t)`, or the table would become clean
with rows missing. `LeaseMatchesFlight` makes every acknowledgment and recovery
find the operation it expects. `TurnOwnsItsFlight` carries, from one step of a turn
to the next, what was established before another thread could run;
`SweptTablesStayClean` does the same from table to table of a commit or shutdown
and yields `CommitFindsNothingOlder` and `CleanShutdownIsDurable`;
`ProposalsArePersistent` keeps a commit off the rows a snapshot leaves out. The
proof has one lemma per action and conjunct it can disturb and is assembled per
action, then for `Next`, then by temporal logic.

**Its messages** (`GameStoreMessages`). On top of `Inv`,

```
Traffic  == IdsInOrder /\ TimersAreFresh /\ Messages /\ CompletionIsDurable
Messages == WorkerIsThere /\ WritesInOrder /\ LeaseIsYoungest
            /\ CompletionsWereApplied /\ FailuresAreLifted
```

says what may be in the two ports at once: operation ids ascend in the queue to the
worker and are above those of all answers and blocks, no write of a leased table is
younger than its lease, a completion is never that of an operation the worker is
blocked by, and every write or block whose operation is no longer leased has the
notice that lifts it ahead in the queue, before the table's next write. From it follow
`BlockIsCurrent`, `CompletionIsDurable`, `NoStaleTimer` and
`OperationsCompleteInOrder`.

**Refinement** (the last part of `GameStore_proofs`): initial states map to initial states of
`DurableStore`; under `Inv`, cache changes map to `Put`, the journal INSERT to
`Checkpoint` (because the diff covers the whole snapshot), a commit's transaction
to `CommitRows`, the end or death of the process to `Lose`, and every other step
leaves both variables as they are.

**GroupedRows** (`GroupedRows_proofs`): `Inv` adds to the types that the stored
rows are the explosion of some group and that every difference to the cache is
tracked; the round trip and the exactness of partial flushes follow. The theorems
about them assume `~LegacyBlobs`, without which section 5 shows them false.

**AssemblyLogistics** (`AssemblyLogistics_proofs`). The obstacle is that a failed flush
leaves the file's content open. `IInv` therefore speaks of every content a restart may
find: each is `Legal` (every entry `Follows` the one readers see, is fulfilled only with a
receipt, and is not settled for good while the queue does not know of its receipt);
the receipts that readers see are in every possible items file; and `WorkerKnows`
carries whether the items of the worker's request have moved over its awaits. Each action
is shown to keep it and to write a legal queue. Proved are the types and the four
safety properties of the run.

**IndustryProduction** (`IndustryProduction_proofs`). Proved are the types,
`RunsConserved` and `NpcStartsOnce`, from an invariant about both copies of the table:
every lane is well-formed in them (in particular, a lane that runs has room for its
product: nothing but a run fills an output slot), and unless somebody overwrote the
record, a table with a start that the flushed checkpoint does not note still holds the
NPC's record, by which it recognises its start (`Adoptable`). The second half of
`RunsConserved`, that no unit is made or lost, counts the units of the lanes as a finite
set (`Held`), so that a turn, a start and a discontinuation leave the set as it is and
a player's transfer adds or removes one element; the library's facts about cardinality do
the rest.

**AssemblySupervisor** (`AssemblySupervisor_proofs`).

```
IInv     == Protocol /\ OwnerOK /\ AdmissionOK /\ JournalOK
Protocol == TypeOK /\ ProcessOK /\ PhasesOK /\ TalkOK
```

`Protocol` says what may be under way at once: which request may follow which in
`toWorker`, who may wait in the child's queue, and that a reply belongs to the call its
client still makes. The three properties rest on it, each with a part of
its own. `OwnerOK` gives `NoAbandonedLease`: a lease in force has an owner that is
inside, will be told, or has its cancellation or release ahead in the channel; without the order of
that channel a client that gave up and asks again could not be told from the old
request. `AdmissionOK` gives `ExclusiveAdmission`: while no call timed out under a
lease and none lapsed (`faults = 0`), every request that could end an admission is
awaited and at most one client is granted the lease of the present child. `JournalOK` gives
`JournalLineage`: what the executor opened, saves and is answered carries the revision
that fits the record, and the record is the file, so a save that is accepted is
built on the last one.

**AssemblyTransactions** (`AssemblyTransactions_proofs`). Every step of it is a step of
the supervisor, an answer of the chain or the death of the server (`SupervisorStep`), so
the supervisor's invariant carries over. Three more are stacked on it.

* `TurnInv`: of all clients, only one is `Engaged`, that is, holds the lease of the
  present child or awaits an answer that was given under it. `ExclusiveAdmission` is not
  enough here, because it stops at the first fault, and these properties do not: a
  client whose lease lapsed may still be inside its action, but nothing it asks for is
  served any more.
* `JournalInv == TransactionsTypeOK /\ FuelBounded /\ SInv /\ ClientOK /\ TalkTrue /\
  KnownOK /\ SyncOK /\ StoreOK /\ OneUncertain` (for all clients, with
  `SInv == Protocol /\ OwnerOK /\ AdmissionOK /\ JournalOK /\ TurnInv`). `ClientOK`: what a
  client knows of the transaction it recovers is true and stays so, and its context is
  that of its lease from the first guard on. `TalkTrue`: each answer under way is true
  when it arrives. `SyncOK`: whoever is engaged works on the transaction in the journal
  file, or nothing there can still happen or has. `StoreOK`: the parent's copy of the
  journal is the file, up to a save whose answer is under way. From these follow
  `OneUncertain` (a submitted transaction of open fate is in the file) and the types.
  `FuelBounded` shows that `RpcResults` leaves out no answer the chain can give.
* `FuelInv == PlansOK /\ BuildOK /\ ReadOK /\ (~Unflushed => OnceOK) /\ (excused = {} =>
  MoneyOK)`. `PlansOK`: an intent means the same amount in memory, on disk, in a
  snapshot and in a transaction. `OnceOK`: only the transaction in the file can have
  been executed for the intent there is, and the intent is acknowledged before the
  journal is cleared; this gives `AppliedOnce`. `MoneyOK`: item, observed fuel and
  intent make up the total, in memory and on disk, the chain holds what was observed,
  with the intent added once its transaction was executed, and a journalled transaction
  that can still execute is for that intent; this gives `FuelConserved`. Because no
  transfer is flushed when it is made, the disk needs its own share of the induction.
  `DiskOK` (in `PlansOK`): memory's intent is none, or the one on disk, or newer than
  the last flush. `DiskMoney` (in `MoneyOK`): as long as a crash would lose nothing that
  has executed (`Recorded`), the disk, too, says what the chain holds. A `Crash` that
  records no failure starts from `Recorded`, and memory becomes what the disk is. The
  conditions are those under which section 5 shows that the code does not keep the
  promise.

**PacketPipeline** (`PacketPipeline_proofs`).

```
IInv       == PoolInv /\ SessionInv
PoolInv    == PoolTypes /\ OnePlace /\ NobodyWaits
SessionInv == SessionTypes /\ TasksOfPackets
              /\ \A c \in Conns : DecodeChain(c) /\ WriteChain(c) /\ DispatchOrder(c)
```

`OnePlace`: each task is queued, at a worker or settled, and only an abandoned one is
both settled and in the pool. That exception is the heart of the argument: such a task
runs later on behalf of nobody, and `TasksOfPackets` shows that its result cannot be
taken for the decode its connection then waits for, because it is stale and older. So
the result that arrives is that of the first packet of the chain, the chains stay
gapless, and every step is one of `OrderedChannels` or invisible. A step of the pool
affects connections only through `Kept`: no task comes from nowhere, stale tasks stay
stale. `NobodyWaits` adds to `NoTaskWaitsForAFreeWorker` what holds while a `_drain`
begun by `run()` is under way. `TasksAccountedFor` needs the records of both sides
(`AccountsOK`): a worker of the pool is idle or has the one task that names it
(`WorkersOK`), and the promises that the packets wait for are those of the codec's
tasks, each settled once (`PromisesOK`).

**Model-checked only**: liveness (`EveryWriteBecomesDurable`, `AdmissionEnds`,
`TransfersSettle`, `MovesReported`, `DueRunsSettle`, `EveryPacketLeaves`), which the
proof system does not reach. Every invariant, action property and refinement that a
passing run checks is also a theorem. No recursive operator is used anywhere.

## 7. Abstractions and what is not modelled

**Persistence.**

* *Data.* Rows are opaque values compared for equality, as the code compares their
  JSON. In GameStore a table is flat; groups are GroupedRows' subject.
* *References.* The cache holds values. In-place mutation followed by no write is
  excluded as the source itself excludes it (`index.ts:376-380`).
* *Transient paths* are whole rows; a path inside a row would make that row's
  stored form a projection of it. Unmarking occurs together with a root write,
  as in every caller.
* *Messages* carry an operation id and a table. The payload the worker compares
  with the journal is the journalled batch itself, and ids are never reused.
* *Durability* means surviving the death of the process: the database runs with
  `synchronous = NORMAL`, under which a power failure may lose the last commits.
* *Faults.* A transaction that throws has no effect. `postMessage` to a live
  worker, the handlers' own errors and callback errors do not occur:
  `LeaseMatchesFlight` shows that the errors the handlers raise are unreachable.
* *Shutdown.* Hooks write in the same turn before the flush; the model has those
  writes as ordinary writes just before the signal. `beforeExit` is a signal.
* *Atomic commits.* `prepareAtomicRowWrite` tokens and ATOMIC_WRITE_CONFLICT change
  nothing and are left out; a commit proposes any row set of `AtomicCommits`.
* *Queue limit.* The default of 256 leases (`persistenceWorker.ts:48`) exceeds the
  107 SQLite tables, so only a controller configured with less can reject a flush;
  `queue_limit` checks that rejection with one slot.
* *Left out*: tables kept as JSON files and their seeding, reopening the database
  within one process, failure diagnostics, `drain` and `shutdown` of the controller
  with their shared counters (tests and tools only), migration and transfer tools.

**Supervisor and transactions.** A SIGTERM ends the child at once, and the old child is
gone before a restarted server reads the file. A forwarded gRPC call is atomic in the
child: its deadline of 10 s is far below the lease. There is no clock: renewals leave
no trace, and a lease that lapses under a live caller is a fault. Every transfer is
flushed by the debounce; the one caller that flushes at once, the construction
template, does not use the queue (section 5). The preparation of a transfer, with its
expiry and its single use, is left out: it is in memory only. The last refresh at
the end of a pass, the burning of fuel over time, assemblies other than the node, and
sponsored transactions are left out; fuel is counted in units.

**Logistics.** A receipt stands for the move it is written with (one row write of the
items table). Claim tokens are left out: there is one worker, and its claims are known
by their state. Time passes by lapses and expiries that may happen in any read; the
retry delay of a failed attempt is the worker skipping the request. Permission and
authorization refusals are nondeterministic. Every receipt found is that of its
request: the refusal of one with another fingerprint (LOGISTICS_IDEMPOTENCY_CONFLICT,
`assemblyLogisticsRuntime.ts:202`), which would fail the request for good, is not
modelled, and `MovesReported` says nothing of it. The two chain refreshes of an execution
are one, and the wrappers for chain-linked assemblies are left out. `Switched`,
`MaxFaults` and `MaxEnds` are bounds.

**Industry.** A recipe takes one unit and one tick and makes one product; a changed
blueprint is a player's job under another recipe; the reasons for which a lane stops are
one. Job ids and access rules are left out. Whether the facility is online is chosen in
each turn. The NPC is followed from its staged inputs to its completed runs. Its
transfer into the lane carries an idempotency key that may report an earlier transfer
as done; that is not modelled. After the last crash the flushed copy of the table has no
further use and is reset.

**Packets.** Limits on bytes are limits on packets. Frames are well-formed: a packet
that does not decrypt, or has an invalid length, is only logged and skipped by the code
(`network/tcp/index.ts:369-373`, `447-449`). Handshake, cipher and marshalling are left
out; in particular the two directions share one `sessionIV`
(`network/tcp/handshake.ts:922-946`), and whether both ends stay in step depends on the
client, which is not in the repository. A throw of `new Worker()` in an event handler
ends the process and is modelled only under `run()`; 'error' followed by 'exit' is one
event; closing the pool is not modelled. A raw payload's write only fails by closing
the connection: the code logs a failure that leaves the socket open and goes on with the
next payload (`clientSession.ts:610-613`), a gap that the channels do not show. Worker identities are reused once the pool has
dropped them; a late message of an earlier user would be ignored just as one of a
terminated worker is. Dispatched handlers may send at any time.

**Other components.**

* *Action queue* (`suiAssemblyActionQueue.ts`): that a retry finds its object is
  decided by the Move contract, which is not in the repository.
* *Sponsored transactions, status changes, market daemon client*: see section 2. They
  were read but not modelled.
* *Ownership records, repositories, migration and transfer tools*: sequential, run once.
* *Inventory* appears as far as logistics and industry use it; *trade, contracts,
  characters, skills, corporations, structures, fleets, chat* are synchronous request
  handlers over tables of the game store, without interleavings of their own.
* *Space simulation, movement, NPC behaviour trees* compute with real-valued positions in
  one tick; *codecs, HTTP gateways* are I/O; the *market server* is a separate Rust
  program; *scripts, docs, generated data* have no state.

The models cover a small share of a very large repository: most of its lines are
sequential game rules (and generated or transpiled copies of them), for which its own
tests are the better instrument.
