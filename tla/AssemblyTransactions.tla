-------------------------- MODULE AssemblyTransactions --------------------------
(***************************************************************************)
(* Fuel transfers between the inventory and a network node that lives on   *)
(* the chain, through the assembly supervisor:                             *)
(*                                                                         *)
(*  - the transaction executor (suiAssemblyTransactions.ts): one journalled*)
(*    transaction in flight, recovered before anything else happens;       *)
(*  - the synchronization worker (suiAssemblySync.ts): the pass that sends *)
(*    the pending transfer to the chain, and the runner of the operations  *)
(*    that need a fresh observation of it, such as a transfer;             *)
(*  - the fuel of the item (networkNodeFuelRuntime.ts): what the chain was *)
(*    last seen to hold, and one intent with what it is still to receive;  *)
(*  - the chain, as far as the code relies on it: it executes a signed     *)
(*    transaction at most once, at any time after it was submitted.        *)
(*                                                                         *)
(* Client Syncer runs the passes, the others run transfers.  Every RPC is  *)
(* a call of AssemblySupervisor, so the other client, a timeout, or the    *)
(* death of the supervisor can come between any two of them.               *)
(***************************************************************************)
EXTENDS AssemblySupervisor, Integers

CONSTANTS
    Syncer,        \* the client that runs reconcile
    Total,         \* units of fuel there are
    MaxIntents,    \* bound: transfers
    MaxTxs         \* bound: transactions built

(* A journal is its pending transaction. *)
NoTx == 0
Txs == 1..MaxTxs
NoIntent == 0

RpcBodies == [kind : {"query", "execute", "proof", "wait", "read", "build"}, tx : Txs \cup {NoTx}]
(* No transfer moves more than one unit. *)
RpcResults == [found : BOOLEAN, fuel : 0..MaxIntents * MaxTxs] \cup {NoResult}

ASSUME TransactionsAssumption ==
    /\ Syncer \in Clients
    /\ Total \in Nat /\ MaxIntents \in Nat /\ MaxTxs \in Nat
    /\ Journals = Txs \cup {NoTx} /\ InitialJournal = NoTx
    /\ Bodies = RpcBodies /\ Results = RpcResults

VARIABLES
    pc,        \* pc[c]: the call client c is about to make, or awaits
    using,     \* using[c]: the generation of the context that c's action took
    pending,   \* pending[c]: the transaction c is recovering
    submitted, \* the pass under way has journalled a transaction
    seen,      \* seen[c]: the fuel c's snapshot was taken from
    memory,    \* the items table: the inventory, the node's fuel
    disk,      \* what was last flushed of it
    flushed,   \* history: the intents made by then
    intents,   \* intents made so far
    made,      \* the transactions built so far: for which intent
    chain,     \* chain[tx]: what became of it
    chainFuel, \* what the node holds on the chain
    excused    \* history: the failures of Excuses that happened

chainVars == <<chain, chainFuel>>
txVars == <<pc, using, pending, submitted, seen, memory, disk, flushed, intents, made, chainVars, excused>>
allVars == <<vars, txVars>>

Places == {"start", "open", "query", "assert", "execute", "proof", "retire", "wait",
           "finish", "settled", "concluded", "read", "build", "journal", "end"}

(* delta: pending.quantityDelta, which is relative to observed. *)
Items == [inventory : Nat, observed : Nat, intent : Nat, delta : Int]

(* The snapshot of a client that has not read yet. *)
NoItems == [inventory |-> 0, observed |-> 0, intent |-> NoIntent, delta |-> 0]

Transactions == [intent : Nat, delta : Int]

(* The failures the code does not survive: a transfer by an operation whose *)
(* context is that of an earlier supervisor; a server that dies with an     *)
(* acknowledgment it had not flushed, or with a transfer it had not flushed *)
(* and that has left for the chain.                                         *)
Excuses == {"stale context", "unflushed acknowledgment", "unflushed transfer"}

TransactionsInit ==
    /\ SupervisorInit
    /\ pc = [c \in Clients |-> "start"]
    /\ using = [c \in Clients |-> 0]
    /\ pending = [c \in Clients |-> NoTx]
    /\ submitted = FALSE
    /\ memory = [inventory |-> Total, observed |-> 0, intent |-> NoIntent, delta |-> 0]
    /\ disk = memory
    /\ flushed = 0
    /\ seen = [c \in Clients |-> NoItems]
    /\ intents = 0
    /\ made = <<>>
    /\ chain = [tx \in Txs |-> "unknown"]
    /\ chainFuel = 0
    /\ excused = {}

--------------------------------------------------------------------------------
(* The fuel of a network node. *)

(* suiFuelTransferConflicts, projectedSuiFuel: a withdrawal that the chain  *)
(* can no longer serve is kept for retry but not counted.                   *)
Conflicts(items) == items.observed + items.delta < 0

Projected(items) == IF Conflicts(items) THEN items.observed ELSE items.observed + items.delta

(* projectSuiNetworkNodeFuel: the chain's quantity, the intent as it was. *)
Observe(items, fuel) == [items EXCEPT !.observed = fuel]

(* acknowledgeSuiNetworkNodeFuel *)
Acknowledge(items, intent) ==
    IF items.intent # intent \/ intent = NoIntent THEN items
    ELSE [items EXCEPT !.observed = Projected(items), !.intent = NoIntent, !.delta = 0]

(* Mutant: what the inventory holds is not looked at. *)
CanTransfer_AnyStock(items, amount) ==
    ~Conflicts(items) /\ Projected(items) + amount >= 0

CanTransfer(items, amount) ==
    /\ ~Conflicts(items)
    /\ items.inventory - amount >= 0
    /\ Projected(items) + amount >= 0

(* applyFuelDeltaToNodeItem: a new intent takes the place of the old one. *)
Transfer(items, amount) ==
    LET delta == Projected(items) + amount - items.observed
    IN  [inventory |-> items.inventory - amount, observed |-> items.observed,
         intent |-> IF delta = 0 THEN NoIntent ELSE intents + 1, delta |-> delta]

(* assertIdentityCurrent, assertFuelSnapshotCurrent *)
SameFuel(a, b) == a.intent = b.intent /\ Projected(a) = Projected(b)

--------------------------------------------------------------------------------
(* The chain. *)

Executed == {tx \in Txs : chain[tx] = "done"}

(* "sent": submitted, and it may still execute; "dead": another transaction *)
(* consumed one of its inputs.                                              *)
Fates == {"unknown", "sent", "done", "failed", "dead"}

(* Finality: the effects are definitive, read back by digest. *)
Settled(tx) == chain[tx] \in {"done", "failed"}

Becomes(tx, fate) == chain' = [chain EXCEPT ![tx] = fate]

Affordable(delta) == chainFuel + delta >= 0

(* The Move call succeeds, or it aborts: without the fuel it withdraws, or  *)
(* for another reason (a fault).                                            *)
Executes(tx) ==
    \/ /\ Affordable(made[tx].delta)
       /\ Becomes(tx, "done")
       /\ chainFuel' = chainFuel + made[tx].delta
       /\ UNCHANGED faults
    \/ /\ Becomes(tx, "failed")
       /\ IF Affordable(made[tx].delta) THEN FaultHappens ELSE UNCHANGED faults
       /\ UNCHANGED chainFuel

ExecutesLate ==
    \E tx \in Txs :
      /\ chain[tx] = "sent"
      /\ Executes(tx)
      /\ UNCHANGED <<processVars, calls, phase, context, store, toWorker, toParent, workerVars, file,
                     pc, using, pending, submitted, seen, memory, disk, flushed, intents, made, excused>>

(* Another user of the admin wallet spends the same gas coin. *)
Superseded ==
    \E tx \in 1..Len(made) :
      /\ chain[tx] \in {"unknown", "sent"}
      /\ FaultHappens
      /\ Becomes(tx, "dead")
      /\ UNCHANGED <<chainFuel, processVars, calls, phase, context, store, toWorker, toParent, workerVars, file,
                     pc, using, pending, submitted, seen, memory, disk, flushed, intents, made, excused>>

Found(found) == [found |-> found, fuel |-> 0]

(* What an RPC made under a valid lease does, and its answer. *)
Serve(body) ==
    \/ /\ body.kind \in {"query", "wait"}
       /\ HandleGrpc(Found(Settled(body.tx)))
       /\ UNCHANGED <<chainVars, faults>>
    \/ /\ body.kind = "proof"
       /\ HandleGrpc(Found(chain[body.tx] = "dead"))
       /\ UNCHANGED <<chainVars, faults>>
    \/ /\ body.kind = "read"
       /\ HandleGrpc([found |-> TRUE, fuel |-> chainFuel])
       /\ UNCHANGED <<chainVars, faults>>
    \/ /\ body.kind = "build"
       /\ HandleGrpc(Found(Affordable(seen[Syncer].delta)))
       /\ UNCHANGED <<chainVars, faults>>
    \/ /\ body.kind = "execute" /\ chain[body.tx] \in {"unknown", "sent"}
       /\ Executes(body.tx)
       /\ HandleGrpc(Found(TRUE))
    \/ /\ body.kind = "execute" /\ Settled(body.tx)
       /\ HandleGrpc(Found(TRUE))
       /\ UNCHANGED <<chainVars, faults>>
    \/ /\ body.kind = "execute" /\ chain[body.tx] = "dead"
       /\ HandleGrpc(NoResult)
       /\ UNCHANGED <<chainVars, faults>>
    (* It fails; it was submitted nevertheless, or it was not. *)
    \/ /\ FaultHappens
       /\ HandleGrpc(NoResult)
       /\ UNCHANGED chainFuel
       /\ \/ UNCHANGED chain
          \/ body.kind = "execute" /\ chain[body.tx] = "unknown" /\ Becomes(body.tx, "sent")

HandleRpc ==
    /\ toWorker # <<>> /\ Head(toWorker).op = "grpc"
    /\ IF LeaseValid(Head(toWorker))
       THEN Serve(Head(toWorker).body)
       ELSE HandleGrpc(NoResult) /\ UNCHANGED <<chainVars, faults>>
    /\ UNCHANGED <<pc, using, pending, submitted, seen, memory, disk, flushed, intents, made, excused>>

--------------------------------------------------------------------------------
(* The executor and the worker: the calls they make. *)

Ready(c, place) == phase[c] = "running" /\ calls[c].op = "none" /\ pc[c] = place

Goto(c, place) == pc' = [pc EXCEPT ![c] = place]

(* The action throws; runExclusive will release the lease. *)
Throws(c) == Goto(c, "end") /\ UNCHANGED vars

(* journalStore: the lease and the generation are compared before a request. *)
JournalUsable(c) == HasLease(c) /\ using[c] = generation

(* An RPC; the journal's pending transaction is its subject. *)
CallChain(c, kind) ==
    /\ Ready(c, kind)
    /\ IF HasLease(c)
       THEN Grpc(c, [kind |-> kind, tx |-> pending[c]]) /\ UNCHANGED pc
       ELSE Throws(c)

(* refresh begins with a snapshot of the identity of the assembly. *)
Read(c) ==
    /\ CallChain(c, "read")
    /\ seen' = [seen EXCEPT ![c] = memory]
    /\ UNCHANGED <<using, pending, submitted, memory, disk, flushed, intents, made, chainVars, excused>>

Inquire(c) ==
    /\ \E kind \in {"query", "execute", "proof", "wait", "build"} : CallChain(c, kind)
    /\ UNCHANGED <<using, pending, submitted, seen, memory, disk, flushed, intents, made, chainVars, excused>>

(* makeContext *)
Open(c) ==
    /\ Ready(c, "open")
    /\ OpenJournal(c)
    /\ UNCHANGED txVars

(* recover: the lease is asserted right before a transaction is submitted. *)
Assert(c) ==
    /\ Ready(c, "assert")
    /\ IF JournalUsable(c) THEN AssertLease(c) /\ UNCHANGED pc ELSE Throws(c)
    /\ UNCHANGED <<using, pending, submitted, seen, memory, disk, flushed, intents, made, chainVars, excused>>

(* execute: the snapshot is compared, the signed transaction journalled. *)
Journal(c) ==
    /\ Ready(c, "journal")
    /\ IF SameFuel(seen[c], memory) /\ JournalUsable(c)
       THEN /\ Len(made) < MaxTxs
            /\ made' = Append(made, [intent |-> seen[c].intent, delta |-> seen[c].delta])
            /\ SaveJournal(c, Len(made) + 1)
            /\ UNCHANGED pc
       ELSE Throws(c) /\ UNCHANGED made
    /\ UNCHANGED <<using, pending, submitted, seen, memory, disk, flushed, intents, chainVars, excused>>

(* retireIfSuperseded *)
Retire(c) ==
    /\ Ready(c, "retire")
    /\ IF JournalUsable(c) THEN SaveJournal(c, NoTx) /\ UNCHANGED pc ELSE Throws(c)
    /\ UNCHANGED <<using, pending, submitted, seen, memory, disk, flushed, intents, made, chainVars, excused>>

(* Mutant: only a transaction of this very pass is acknowledged. *)
Finish_NotOnRecovery(c) ==
    /\ Ready(c, "finish")
    /\ LET tx == pending[c]
           done == chain[tx] = "done"
       IN  /\ memory' = IF done /\ c = Syncer /\ submitted
                        THEN Acknowledge(memory, made[tx].intent) ELSE memory
           /\ IF JournalUsable(c)
              THEN /\ SaveJournal(c, NoTx)
                   /\ Goto(c, IF done /\ ~(c = Syncer /\ submitted) THEN "settled" ELSE "concluded")
              ELSE Throws(c)
    /\ UNCHANGED <<using, pending, submitted, seen, disk, flushed, intents, made, chainVars, excused>>

(* finish: the intent is acknowledged, then the journal cleared.  After a   *)
(* failed transaction, and at the end of a pass, the action is over.        *)
Finish(c) ==
    /\ Ready(c, "finish")
    /\ LET tx == pending[c]
           done == chain[tx] = "done"
       IN  /\ memory' = IF done THEN Acknowledge(memory, made[tx].intent) ELSE memory
           /\ IF JournalUsable(c)
              THEN /\ SaveJournal(c, NoTx)
                   /\ Goto(c, IF done /\ ~(c = Syncer /\ submitted) THEN "settled" ELSE "concluded")
              ELSE Throws(c)
    /\ UNCHANGED <<using, pending, submitted, seen, disk, flushed, intents, made, chainVars, excused>>

End(c) ==
    /\ Ready(c, "end")
    /\ Release(c)
    /\ Goto(c, "start")
    /\ using' = [using EXCEPT ![c] = 0]
    /\ pending' = [pending EXCEPT ![c] = NoTx]
    /\ submitted' = (submitted /\ c # Syncer)
    /\ seen' = [seen EXCEPT ![c] = NoItems]
    /\ UNCHANGED <<memory, disk, flushed, intents, made, chainVars, excused>>

Step(c) ==
    \/ Read(c) \/ Inquire(c) \/ Open(c) \/ Assert(c)
    \/ Journal(c) \/ Retire(c) \/ Finish(c) \/ End(c)

--------------------------------------------------------------------------------
(* The executor and the worker: what they make of an answer. *)

(* recover takes the pending transaction out of the journal; refresh follows. *)
Recovers(c, journal) ==
    /\ Goto(c, IF journal = NoTx THEN "read" ELSE "query")
    /\ pending' = [pending EXCEPT ![c] = journal]

(* Mutant: a transfer does not recover the pending transaction first. *)
Begins_NoRecovery(c) ==
    /\ AcquireAnswered(c)
    /\ IF Head(toParent).ok /\ store.generation # 0 /\ ~(c = Syncer /\ store.generation # generation)
       THEN /\ using' = [using EXCEPT ![c] = store.generation]
            /\ Recovers(c, IF c = Syncer THEN store.journal ELSE NoTx)
       ELSE /\ Goto(c, IF ~Head(toParent).ok THEN "start"
                       ELSE IF c = Syncer THEN "open" ELSE "end")
            /\ UNCHANGED <<using, pending>>
    /\ UNCHANGED <<submitted, seen, memory, disk, flushed, intents, made, chainVars, excused>>

(* The action begins.  Only reconcile replaces the context of a supervisor  *)
(* that was restarted; the others need one, and use the one there is.       *)
Begins(c) ==
    /\ AcquireAnswered(c)
    /\ IF Head(toParent).ok /\ store.generation # 0 /\ ~(c = Syncer /\ store.generation # generation)
       THEN /\ using' = [using EXCEPT ![c] = store.generation]
            /\ Recovers(c, store.journal)
       ELSE /\ Goto(c, IF ~Head(toParent).ok THEN "start"
                       ELSE IF c = Syncer THEN "open" ELSE "end")
            /\ UNCHANGED <<using, pending>>
    /\ UNCHANGED <<submitted, seen, memory, disk, flushed, intents, made, chainVars, excused>>

Opened(c) ==
    /\ pc[c] = "open"
    /\ OpenAnswered(c)
    /\ using' = [using EXCEPT ![c] = store'.generation]
    /\ Recovers(c, store'.journal)
    /\ UNCHANGED <<submitted, seen, memory, disk, flushed, intents, made, chainVars, excused>>

Asserted(c) ==
    /\ AssertAnswered(c)
    /\ Goto(c, IF Head(toParent).ok THEN "execute" ELSE "end")
    /\ UNCHANGED <<using, pending, submitted, seen, memory, disk, flushed, intents, made, chainVars, excused>>

Positive == Head(toParent).ok /\ Head(toParent).result.found

(* Mutant: a submission that failed is given up without proof. *)
Informed_NoProof(c) ==
    /\ GrpcAnswered(c)
    /\ \/ pc[c] = "query" /\ Goto(c, IF Positive THEN "wait" ELSE "assert")
       \/ pc[c] = "execute" /\ Goto(c, IF Positive THEN "wait" ELSE "proof")
       \/ pc[c] = "proof" /\ Goto(c, "retire")
       \/ pc[c] = "wait" /\ Goto(c, IF Positive THEN "finish" ELSE "end")
       \/ pc[c] = "build" /\ Goto(c, IF Positive THEN "journal" ELSE "end")
    /\ UNCHANGED <<using, pending, submitted, seen, memory, disk, flushed, intents, made, chainVars, excused>>

(* Mutant: a superseded transaction is retried for ever. *)
Informed_NeverRetires(c) ==
    /\ GrpcAnswered(c)
    /\ \/ pc[c] = "query" /\ Goto(c, IF Positive THEN "wait" ELSE "assert")
       \/ pc[c] = "execute" /\ Goto(c, IF Positive THEN "wait" ELSE "proof")
       \/ pc[c] = "proof" /\ Goto(c, "end")
       \/ pc[c] = "wait" /\ Goto(c, IF Positive THEN "finish" ELSE "end")
       \/ pc[c] = "build" /\ Goto(c, IF Positive THEN "journal" ELSE "end")
    /\ UNCHANGED <<using, pending, submitted, seen, memory, disk, flushed, intents, made, chainVars, excused>>

(* recover: executed already? else execute it; else is it superseded? *)
Informed(c) ==
    /\ GrpcAnswered(c)
    /\ \/ pc[c] = "query" /\ Goto(c, IF Positive THEN "wait" ELSE "assert")
       \/ pc[c] = "execute" /\ Goto(c, IF Positive THEN "wait" ELSE "proof")
       \/ pc[c] = "proof" /\ Goto(c, IF Positive THEN "retire" ELSE "end")
       \/ pc[c] = "wait" /\ Goto(c, IF Positive THEN "finish" ELSE "end")
       \/ pc[c] = "build" /\ Goto(c, IF Positive THEN "journal" ELSE "end")
    /\ UNCHANGED <<using, pending, submitted, seen, memory, disk, flushed, intents, made, chainVars, excused>>

Saved(c) ==
    /\ SaveAnswered(c)
    /\ LET ok == Head(toParent).ok
       IN  /\ IF ok /\ pc[c] \in {"journal", "settled"}
              THEN Recovers(c, calls[c].journal)
              ELSE Goto(c, "end") /\ UNCHANGED pending
           /\ submitted' = (submitted \/ (ok /\ pc[c] = "journal"))
    /\ UNCHANGED <<using, seen, memory, disk, flushed, intents, made, chainVars, excused>>

(* The observation holds for the fuel the snapshot was taken from. *)
Observed(c) == Positive /\ SameFuel(seen[c], memory)

(* refresh at the start of a pass: the snapshot the pass works on follows,  *)
(* and syncFuelIntent if it has an intent.                                  *)
PassReads(c) ==
    /\ c = Syncer /\ pc[c] = "read"
    /\ GrpcAnswered(c)
    /\ memory' = IF Observed(c) THEN Observe(memory, Head(toParent).result.fuel) ELSE memory
    /\ seen' = [seen EXCEPT ![c] = memory']
    /\ Goto(c, IF Observed(c) /\ memory.intent # NoIntent THEN "build" ELSE "end")
    /\ UNCHANGED <<using, pending, submitted, disk, flushed, intents, made, chainVars, excused>>

(* runWithSuiAssemblyState: refresh, and the operation in the same turn.    *)
(* None of the operations that come this way asks for a flush of what it    *)
(* writes (the deposit and the withdrawal flush only at options.flush):     *)
(* that is FlushItems, later.                                               *)
TransferReads(c) ==
    /\ c # Syncer /\ pc[c] = "read"
    /\ GrpcAnswered(c)
    /\ Observed(c)
    /\ LET fresh == Observe(memory, Head(toParent).result.fuel)
       IN  \E amount \in {1, -1} :
             IF CanTransfer(fresh, amount) /\ intents < MaxIntents
             THEN /\ memory' = Transfer(fresh, amount)
                  /\ intents' = intents + 1
                  /\ excused' = excused \cup
                       (IF using[c] = generation THEN {} ELSE {"stale context"})
             ELSE memory' = fresh /\ UNCHANGED <<intents, excused>>
    /\ Goto(c, "end")
    /\ UNCHANGED <<using, pending, submitted, seen, disk, flushed, made, chainVars>>

TransferFails(c) ==
    /\ c # Syncer /\ pc[c] = "read"
    /\ GrpcAnswered(c)
    /\ ~Observed(c)
    /\ Goto(c, "end")
    /\ UNCHANGED <<using, pending, submitted, seen, memory, disk, flushed, intents, made, chainVars, excused>>

Reply(c) ==
    \/ Begins(c) \/ Opened(c) \/ Asserted(c) \/ Informed(c) \/ Saved(c)
    \/ PassReads(c) \/ TransferReads(c) \/ TransferFails(c)
    \/ ReleaseAnswered(c) /\ UNCHANGED txVars

(* The call that was awaited is rejected, and the action throws. *)
Interrupted(c) ==
    IF phase[c] = "running" /\ calls[c].op # "none" THEN "end" ELSE pc[c]

RpcFails(c) ==
    /\ RpcTimesOut(c)
    /\ Goto(c, Interrupted(c))
    /\ UNCHANGED <<using, pending, submitted, seen, memory, disk, flushed, intents, made, chainVars, excused>>

ExitSeen ==
    /\ ExitNoticed
    /\ pc' = [c \in Clients |-> Interrupted(c)]
    /\ UNCHANGED <<using, pending, submitted, seen, memory, disk, flushed, intents, made, chainVars, excused>>

--------------------------------------------------------------------------------
(* The items table, and the death of the server. *)

(* The debounced flush, or one that another write of the table asked for.   *)
(* (No restart will read the disk after the last one the bound allows.)     *)
FlushItems ==
    /\ generation < MaxGenerations
    /\ disk' = memory
    /\ flushed' = intents
    /\ UNCHANGED <<vars, pc, using, pending, submitted, seen, memory, intents, made, chainVars, excused>>

(* Memory has acknowledged an executed transfer, and the disk has not. *)
AcknowledgmentLost ==
    disk.intent # memory.intent /\ \E tx \in Executed : made[tx].intent = disk.intent

(* The chain has executed a transfer the disk knows nothing of, or may yet. *)
TransferLost ==
    \E tx \in (Executed \cup {file}) \ {NoTx} :
      made[tx].intent > flushed /\ chain[tx] \notin {"failed", "dead"}

(* What was not flushed is gone.  A transfer that never left for the chain  *)
(* is undone as a whole; the two others are failures the code does not      *)
(* survive.                                                                 *)
Crash ==
    /\ ServerRestarts
    /\ memory' = disk
    /\ pc' = [c \in Clients |-> "start"]
    /\ using' = [c \in Clients |-> 0]
    /\ pending' = [c \in Clients |-> NoTx]
    /\ submitted' = FALSE
    /\ seen' = [c \in Clients |-> NoItems]
    /\ excused' = excused
         \cup (IF AcknowledgmentLost THEN {"unflushed acknowledgment"} ELSE {})
         \cup (IF TransferLost THEN {"unflushed transfer"} ELSE {})
    /\ flushed' = intents
    /\ UNCHANGED <<disk, intents, made, chainVars>>

(* The server has one thread: an action goes on to its next call before     *)
(* anything else happens there.                                             *)
Idle == \A c \in Clients : phase[c] = "running" => calls[c].op # "none"

ClientEvent(c) ==
    \/ Reply(c) \/ RpcFails(c)
    \/ (Acquire(c) \/ AcquireTimesOut(c)) /\ UNCHANGED txVars

ServerEvent ==
    /\ Idle
    /\ \/ \E c \in Clients : ClientEvent(c)
       \/ ExitSeen \/ FlushItems
       \/ Respawn /\ UNCHANGED txVars

HandleAnything ==
    \/ (HandleAcquire \/ HandleCancel \/ HandleRelease \/ HandleAssert) /\ UNCHANGED txVars
    \/ (HandleOpen \/ HandleSave \/ HandleSaveFails) /\ UNCHANGED txVars
    \/ HandleRpc

ChildStep == HandleAnything \/ (LeaseTimerFires /\ UNCHANGED txVars)

Environment ==
    \/ (LeaseLapses \/ ChildDies \/ ChannelCloses) /\ UNCHANGED txVars
    \/ ExecutesLate \/ Superseded \/ Crash

TransactionsNext ==
    \/ \E c \in Clients : Step(c)
    \/ ServerEvent \/ ChildStep \/ Environment

(* A death comes to be known, and a call that died with it times out. *)
DeathKnown ==
    \/ ExitSeen
    \/ Respawn /\ UNCHANGED txVars
    \/ \E c \in Clients :
         /\ calls[c].generation # generation
         /\ RpcFails(c) \/ (AcquireTimesOut(c) /\ UNCHANGED txVars)

(* The event loops, the timers, and a pass every five seconds: nobody is    *)
(* obliged to transfer anything, and nothing is obliged to fail.            *)
TransactionsFairness ==
    /\ WF_allVars(HandleAnything \/ (ChannelCloses /\ UNCHANGED txVars))
    /\ WF_allVars((LeaseTimerFires \/ (~HolderLives /\ LeaseLapses)) /\ UNCHANGED txVars)
    /\ WF_allVars(\E c \in Clients : Step(c))
    /\ SF_allVars(Idle /\ \E c \in Clients : Reply(c))
    /\ SF_allVars(Idle /\ DeathKnown)
    /\ SF_allVars(Idle /\ Acquire(Syncer) /\ UNCHANGED txVars)

TransactionsSpec ==
    TransactionsInit /\ [][TransactionsNext]_allVars /\ TransactionsFairness

--------------------------------------------------------------------------------
(* Properties. *)

TransactionsTypeOK ==
    /\ TypeOK
    /\ pc \in [Clients -> Places]
    /\ using \in [Clients -> Nat]
    /\ pending \in [Clients -> Txs \cup {NoTx}]
    /\ submitted \in BOOLEAN
    /\ seen \in [Clients -> Items]
    /\ memory \in Items /\ disk \in Items
    /\ intents \in 0..MaxIntents /\ flushed \in 0..intents
    /\ made \in Seq(Transactions) /\ Len(made) <= MaxTxs
    /\ chain \in [Txs -> Fates]
    /\ chainFuel \in Nat
    /\ excused \subseteq Excuses

(* A transaction whose fate is open is the one in the journal file: it was  *)
(* journalled before it was submitted, and stays there until its effects    *)
(* are definitive or cannot happen, whichever processes died in between.    *)
OneUncertain == \A tx \in Txs : chain[tx] = "sent" => file = tx

(* However often answers are lost, leases lapse and the supervisor or the   *)
(* server dies, no transfer is executed twice (unless the server died with  *)
(* an acknowledgment it had not flushed).                                   *)
AppliedOnce ==
    "unflushed acknowledgment" \notin excused =>
      \A t, u \in Executed : made[t].intent = made[u].intent => t = u

(* No fuel is made or lost: inventory and node hold all there is, and the   *)
(* chain holds what the node does or what it held before the pending        *)
(* transfer (unless one of the three failures of Excuses came before: an    *)
(* unflushed transfer that a crash undoes is no loss as long as it has not  *)
(* left for the chain).                                                     *)
FuelConserved ==
    excused = {} =>
      /\ memory.inventory + Projected(memory) = Total
      /\ chainFuel \in {memory.observed, Projected(memory)}

(* Every transfer reaches the chain and is acknowledged, whatever failed on *)
(* the way (unless one of the failures of Excuses did).                     *)
TransfersSettle == memory.intent # NoIntent ~> memory.intent = NoIntent \/ excused # {}

(* What the repository promises of it: "This avoids duplicated fuel"        *)
(* (docs/frontier-network-node-energy.md:21), and that a transaction found  *)
(* after a restart is reconciled "without applying the delta again"         *)
(* (frontierSuiAssemblyTransactions.test.ts:83).                            *)
NeverAppliedTwice ==
    \A t, u \in Executed : made[t].intent = made[u].intent => t = u
================================================================================
