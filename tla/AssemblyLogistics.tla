---------------------------- MODULE AssemblyLogistics ----------------------------
(***************************************************************************)
(* Autonomous item transfers between two assemblies                        *)
(* (server/src/services/frontier):                                         *)
(*                                                                         *)
(*  - the durable queue of requests (smartAssemblyRequestRuntime.ts);      *)
(*  - the worker that consumes the type logistics.transfer in single-flight*)
(*    passes (assemblyLogisticsWorker.ts) and executes a request           *)
(*    (assemblyLogisticsRuntime.ts);                                       *)
(*  - the items table, where a transfer and its receipt are one write      *)
(*    (transferAssemblyItemType of inventory/itemStore.ts): the receipts   *)
(*    there are stand for the moves that were made;                        *)
(*  - callers, who create and cancel requests, and assemblies that go on   *)
(*    and off line, at any time.                                           *)
(*                                                                         *)
(* Both tables flush every transition before they acknowledge it.  When    *)
(* that fails they go back to the previous snapshot, and refuse to write   *)
(* until the snapshot is flushed; what the file holds meanwhile is open.   *)
(* A table is therefore two variables: what its readers see, and the set   *)
(* of contents that a restart may find.                                    *)
(***************************************************************************)
EXTENDS Naturals

CONSTANTS
    Ids,          \* request identities, chosen by the callers
    NoId,         \* no request
    Switched,     \* bound: the endpoints that go on and off line
    MaxFaults,    \* bound: failed flushes and chain failures
    MaxEnds       \* bound: shutdowns and crashes

Endpoints == {"supplier", "requester"}

ASSUME LogisticsAssumption ==
    NoId \notin Ids /\ Switched \subseteq Endpoints /\ MaxFaults \in Nat /\ MaxEnds \in Nat

VARIABLES
    queue, queueDisk,     \* the requests; what the file may hold of them
    receipts, itemsDisk,  \* the receipts; what the file may hold of them
    worker,               \* the request the worker is at, and where
    listed,               \* the rest of its pass, as it was listed
    stopping,
    online,               \* the endpoints that are online
    faults, ends,
    revived               \* history: transfers refused, but found after a crash

vars == <<queue, queueDisk, receipts, itemsDisk, worker, listed, stopping,
          online, faults, ends, revived>>

Pending == {"queued", "claimed"}
Terminal == {"fulfilled", "failed", "cancelled", "expired"}

(* reconciled: logisticsReconciledAtMs is set.  A claim token is left out:  *)
(* only the worker claims, so a claim that is there is the one it made.     *)
Entries == [status : Pending \cup Terminal \cup {"absent"}, reconciled : BOOLEAN]
Entry(status) == [status |-> status, reconciled |-> FALSE]
Queues == [Ids -> Entries]

(* refreshing: execute awaits the chain; syncing: finishReceipt does.       *)
Places == {"idle", "claimed", "refreshing", "refused", "failed", "syncing", "marking"}
Idle == [at |-> "idle", id |-> NoId]

(* What a pass does with a request: what was listed is all it goes by.  One *)
(* that is fulfilled is passed over; of one that is claimed, or settled, it *)
(* looks only for a receipt.                                                *)
Kinds == {"none", "queued", "ended", "other"}
NotListed == [r \in Ids |-> "none"]

Kind(entry) ==
    CASE entry.status \in {"absent", "fulfilled"} -> "none"
      [] entry.status = "queued" -> "queued"
      [] entry.status \in Terminal \ {"fulfilled"} /\ ~entry.reconciled -> "ended"
      [] OTHER -> "other"

Listing(state) == [r \in Ids |-> Kind(state[r])]

LogisticsInit ==
    /\ queue = [r \in Ids |-> Entry("absent")] /\ queueDisk = {queue}
    /\ receipts = {} /\ itemsDisk = {receipts}
    /\ worker = Idle /\ listed = NotListed
    /\ stopping = FALSE
    /\ online = Endpoints
    /\ faults = 0 /\ ends = 0
    /\ revived = {}

FaultHappens ==
    /\ faults < MaxFaults
    /\ faults' = faults + 1

--------------------------------------------------------------------------------
(* The two tables. *)

(* pendingPersistenceRollback, pendingLogisticsPersistenceRollback *)
QueueSuspended == queueDisk # {queue}
ItemsSuspended == itemsDisk # {receipts}

(* writeState: written and flushed. *)
Write(state) ==
    /\ ~QueueSuspended
    /\ queue' = state
    /\ queueDisk' = {state}
    /\ UNCHANGED faults

(* Mutant: the cache keeps what was not flushed. *)
WriteFails_Kept(state) ==
    /\ ~QueueSuspended
    /\ FaultHappens
    /\ queue' = state
    /\ UNCHANGED queueDisk

(* It fails, and the rollback is flushed or remains to be done; or an       *)
(* earlier one remains to be done.                                          *)
WriteFails(state) ==
    /\ UNCHANGED queue
    /\ \/ QueueSuspended /\ UNCHANGED <<queueDisk, faults>>
       \/ /\ ~QueueSuspended
          /\ FaultHappens
          /\ queueDisk' \in {{queue}, {queue, state}}

(* reconcileState: what the clock may have done to a request since the last *)
(* look.  A terminal one goes when it is old or the table is full, but not  *)
(* before it was reconciled.                                                *)
Later(entry) ==
    {entry}
    \cup {e \in {Entry("expired")} : entry.status \in Pending}
    \cup {e \in {Entry("queued")} : entry.status = "claimed"}
    \cup {e \in {Entry("absent")} : entry.status \in Terminal /\ entry.reconciled}

Reconciliations ==
    {state \in [Ids -> UNION {Later(queue[r]) : r \in Ids}] :
        \A r \in Ids : state[r] \in Later(queue[r])}

(* mutate: the state is reconciled, a request that is in one of the states  *)
(* from becomes entry, and all of it is written.                            *)
Becomes(r, from, entry) ==
    \E state \in Reconciliations :
      /\ state[r].status \in from
      /\ Write([state EXCEPT ![r] = entry])

(* The write fails, or the request is not what it has to be: then only what *)
(* the reconciliation changed is written.                                   *)
Refused(r, from, entry, permitted) ==
    \E state \in Reconciliations :
      IF permitted /\ state[r].status \in from
      THEN WriteFails([state EXCEPT ![r] = entry])
      ELSE IF state = queue THEN UNCHANGED <<queue, queueDisk, faults>>
      ELSE Write(state) \/ WriteFails(state)

(* Any reader retries a rollback that remains to be done. *)
QueueRestored ==
    /\ QueueSuspended
    /\ queueDisk' = {queue}
    /\ UNCHANGED <<queue, receipts, itemsDisk, worker, listed, stopping,
                   online, faults, ends, revived>>

ItemsRestored ==
    /\ ItemsSuspended
    /\ itemsDisk' = {receipts}
    /\ UNCHANGED <<queue, queueDisk, receipts, worker, listed, stopping,
                   online, faults, ends, revived>>

--------------------------------------------------------------------------------
(* Callers of the queue. *)

Outside == UNCHANGED <<receipts, itemsDisk, worker, listed, stopping, online, ends, revived>>

(* createRequest; an identity may be used again once its request is gone. *)
Create(r) ==
    /\ Outside
    /\ \/ "requester" \in online /\ Becomes(r, {"absent"}, Entry("queued"))
       \/ Refused(r, {"absent"}, Entry("queued"), "requester" \in online)

Cancel(r) ==
    /\ Outside
    /\ \/ Becomes(r, Pending, Entry("cancelled"))
       \/ Refused(r, Pending, Entry("cancelled"), TRUE)

(* cancelRequestsForAssembly, when one of the two is removed. *)
CancelAll ==
    /\ Outside
    /\ \E state \in Reconciliations :
         LET cancelled == [r \in Ids |-> IF state[r].status \in Pending
                                         THEN Entry("cancelled") ELSE state[r]]
         IN  Write(cancelled) \/ WriteFails(cancelled)

(* Going on or off line. *)
EndpointsChange ==
    /\ \E switched \in SUBSET Switched : online' = (Endpoints \ Switched) \cup switched
    /\ UNCHANGED <<queue, queueDisk, receipts, itemsDisk, worker, listed,
                   stopping, faults, ends, revived>>

--------------------------------------------------------------------------------
(* The worker: a pass, and what it makes of each request in it. *)

At(place, r) == worker = [at |-> place, id |-> r]
Goto(place, r) == worker' = [at |-> place, id |-> r]
Done == worker' = Idle

(* runPass: listRequests reconciles, too. *)
BeginPass ==
    /\ worker = Idle /\ listed = NotListed /\ ~stopping
    /\ \E state \in Reconciliations :
         \/ state = queue /\ listed' = Listing(state) /\ UNCHANGED <<queue, queueDisk, faults>>
         \/ state # queue /\ Write(state) /\ listed' = Listing(state)
         \/ state # queue /\ WriteFails(state) /\ listed' = Listing(queue)
    /\ UNCHANGED <<receipts, itemsDisk, worker, stopping, online, ends, revived>>

(* The next request of the pass. *)
Takes(r) ==
    /\ worker = Idle /\ ~stopping
    /\ listed[r] # "none"
    /\ listed' = [listed EXCEPT ![r] = "none"]
    /\ UNCHANGED <<receipts, itemsDisk, stopping, online, ends, revived>>

(* It is not due for a retry, or there is nothing to do. *)
Skip(r) ==
    /\ Takes(r)
    /\ UNCHANGED <<queue, queueDisk, worker, faults>>

(* Mutant: a request that has ended is not looked at for a receipt. *)
FindReceipt_PendingOnly(r) ==
    /\ Takes(r)
    /\ listed[r] # "ended"
    /\ r \in receipts
    /\ Goto("syncing", r)
    /\ UNCHANGED <<queue, queueDisk, faults>>

(* Before anything else: the items may have moved in an earlier life. *)
FindReceipt(r) ==
    /\ Takes(r)
    /\ r \in receipts
    /\ Goto("syncing", r)
    /\ UNCHANGED <<queue, queueDisk, faults>>

(* markTerminalReconciled, of what the request is now. *)
MarkReconciled(r) ==
    \E status \in Terminal :
      \/ Becomes(r, {status}, [status |-> status, reconciled |-> TRUE])
      \/ Refused(r, {status}, [status |-> status, reconciled |-> TRUE], TRUE)

(* Mutant: the request is marked before the receipts are looked at. *)
Settle_NoReceiptCheck(r) ==
    /\ Takes(r)
    /\ listed[r] = "ended"
    /\ MarkReconciled(r)
    /\ UNCHANGED worker

(* It ended and moved nothing. *)
Settle(r) ==
    /\ Takes(r)
    /\ r \notin receipts
    /\ listed[r] = "ended"
    /\ MarkReconciled(r)
    /\ UNCHANGED worker

Claim(r) ==
    /\ Takes(r)
    /\ r \notin receipts /\ listed[r] = "queued"
    /\ LET permitted == "supplier" \in online
       IN  \/ permitted /\ Becomes(r, {"queued"}, Entry("claimed")) /\ Goto("claimed", r)
           \/ Refused(r, {"queued"}, Entry("claimed"), permitted) /\ UNCHANGED worker

(* assertClaim: validateClaim writes, too, so a claim is valid only when    *)
(* the table can be written.                                                *)
ClaimAsserted(r) ==
    /\ ~stopping /\ online = Endpoints
    /\ Becomes(r, {"claimed"}, Entry("claimed"))

ClaimInvalid(r) ==
    IF stopping THEN UNCHANGED <<queue, queueDisk, faults>>
    ELSE Refused(r, {"claimed"}, Entry("claimed"), online = Endpoints)

(* assertClaim, and execute until it awaits the chain.  It may refuse for   *)
(* good: ownership, access, range or construction.                          *)
Validate(r) ==
    /\ At("claimed", r)
    /\ \/ ClaimAsserted(r) /\ (Goto("refreshing", r) \/ Goto("failed", r))
       \/ ClaimInvalid(r) /\ Goto("refused", r)
    /\ UNCHANGED <<receipts, itemsDisk, listed, stopping, online, ends, revived>>

(* Mutant: what was asserted before the chain was awaited is taken as given. *)
Commit_Unasserted(r) ==
    /\ At("refreshing", r)
    /\ UNCHANGED <<queue, queueDisk, faults>>
    /\ ~ItemsSuspended
    /\ receipts' = receipts \cup {r} /\ itemsDisk' = {receipts'}
    /\ Goto("syncing", r)
    /\ UNCHANGED <<listed, stopping, online, ends, revived>>

(* The callback of runWithAssemblyLogisticsAuthority: one turn in which the *)
(* claim and the authority are checked again and the items move.            *)
Commit(r) ==
    /\ At("refreshing", r)
    /\ ClaimAsserted(r)
    /\ ~ItemsSuspended
    /\ receipts' = receipts \cup {r} /\ itemsDisk' = {receipts'}
    /\ Goto("syncing", r)
    /\ UNCHANGED <<listed, stopping, online, ends, revived>>

(* Mutant: a transfer that was not flushed is not taken back. *)
CommitFails_NoRollback(r) ==
    /\ At("refreshing", r)
    /\ ~stopping /\ online = Endpoints
    /\ queue[r].status = "claimed" /\ ~QueueSuspended /\ ~ItemsSuspended
    /\ FaultHappens
    /\ receipts' = receipts \cup {r} /\ itemsDisk' = {receipts, receipts'}
    /\ Goto("refused", r)
    /\ UNCHANGED <<queue, queueDisk, listed, stopping, online, ends, revived>>

(* The items table cannot be flushed: rollbackLogisticsWrite. *)
CommitFails(r) ==
    /\ At("refreshing", r)
    /\ ~stopping /\ online = Endpoints
    /\ queue[r].status = "claimed" /\ ~QueueSuspended /\ ~ItemsSuspended
    /\ FaultHappens
    /\ itemsDisk' \in {{receipts}, {receipts, receipts \cup {r}}}
    /\ Goto("refused", r)
    /\ UNCHANGED <<queue, queueDisk, receipts, listed, stopping, online, ends, revived>>

(* The chain or the claim refuses, or the transfer cannot be made now: too  *)
(* little stock or space, or an earlier rollback remains to be done.        *)
CommitRefused(r) ==
    /\ At("refreshing", r)
    /\ \/ UNCHANGED <<queue, queueDisk, faults>> /\ Goto("refused", r)
       \/ ClaimInvalid(r) /\ Goto("refused", r)
       \/ ClaimAsserted(r) /\ (Goto("refused", r) \/ Goto("failed", r))
    /\ UNCHANGED <<receipts, itemsDisk, listed, stopping, online, ends, revived>>

(* Mutant: a release does not ask whether the claim is still there. *)
Release_NoClaim(r) ==
    /\ At("refused", r)
    /\ \/ Becomes(r, Pending \cup Terminal, Entry("queued"))
       \/ Refused(r, Pending \cup Terminal, Entry("queued"), TRUE)
    /\ Done
    /\ UNCHANGED <<receipts, itemsDisk, listed, stopping, online, ends, revived>>

(* releaseClaim; the request will be tried again. *)
Release(r) ==
    /\ At("refused", r)
    /\ \/ Becomes(r, {"claimed"}, Entry("queued"))
       \/ Refused(r, {"claimed"}, Entry("queued"), TRUE)
    /\ Done
    /\ UNCHANGED <<receipts, itemsDisk, listed, stopping, online, ends, revived>>

(* failRequest *)
Fail(r) ==
    /\ At("failed", r)
    /\ LET permitted == "supplier" \in online
       IN  \/ permitted /\ Becomes(r, {"claimed"}, Entry("failed")) /\ Goto("marking", r)
           \/ Refused(r, {"claimed"}, Entry("failed"), permitted) /\ Done
    /\ UNCHANGED <<receipts, itemsDisk, listed, stopping, online, ends, revived>>

Mark(r) ==
    /\ At("marking", r)
    /\ MarkReconciled(r)
    /\ Done
    /\ UNCHANGED <<receipts, itemsDisk, listed, stopping, online, ends, revived>>

(* finishReceipt and finalizeCommittedRequest: whatever became of the       *)
(* request meanwhile, it is fulfilled once the chain has both inventories.  *)
Finalize(r) ==
    /\ At("syncing", r)
    /\ LET fulfilled == [status |-> "fulfilled", reconciled |-> TRUE]
       IN  \/ Becomes(r, Pending \cup Terminal, fulfilled)
           \/ Refused(r, Pending \cup Terminal, fulfilled, TRUE)
           \/ FaultHappens /\ UNCHANGED <<queue, queueDisk>>
    /\ Done
    /\ UNCHANGED <<receipts, itemsDisk, listed, stopping, online, ends, revived>>

--------------------------------------------------------------------------------
(* The server stops, or dies, and comes back. *)

(* stop *)
Stop ==
    /\ ~stopping
    /\ ends < MaxEnds /\ ends' = ends + 1
    /\ stopping' = TRUE
    /\ UNCHANGED <<queue, queueDisk, receipts, itemsDisk, worker, listed,
                   online, faults, revived>>

Restart ==
    /\ IF stopping THEN UNCHANGED ends ELSE ends < MaxEnds /\ ends' = ends + 1
    /\ queue' \in queueDisk /\ queueDisk' = {queue'}
    /\ receipts' \in itemsDisk /\ itemsDisk' = {receipts'}
    /\ worker' = Idle /\ listed' = NotListed
    /\ stopping' = FALSE
    /\ revived' = revived \cup (receipts' \ receipts)
    /\ UNCHANGED <<online, faults>>

--------------------------------------------------------------------------------
Considers(r) == Skip(r) \/ FindReceipt(r) \/ Settle(r) \/ Claim(r)

Works(r) ==
    \/ Validate(r) \/ Commit(r) \/ CommitFails(r) \/ CommitRefused(r)
    \/ Release(r) \/ Fail(r) \/ Mark(r) \/ Finalize(r)

LogisticsNext ==
    \/ \E r \in Ids : Create(r) \/ Cancel(r) \/ Considers(r) \/ Works(r)
    \/ BeginPass \/ CancelAll \/ EndpointsChange
    \/ QueueRestored \/ ItemsRestored
    \/ Stop \/ Restart

(* A pass every second, answers that come, a store that recovers; a request *)
(* that waits for a retry is due in some pass; a server that shuts down is  *)
(* started again.                                                           *)
LogisticsFairness ==
    /\ WF_vars(\E r \in Ids : Considers(r) \/ Works(r))
    /\ WF_vars(BeginPass)
    /\ WF_vars(QueueRestored) /\ WF_vars(ItemsRestored)
    /\ WF_vars(stopping /\ Restart)
    /\ \A r \in Ids : SF_vars(FindReceipt(r))

LogisticsSpec == LogisticsInit /\ [][LogisticsNext]_vars /\ LogisticsFairness

--------------------------------------------------------------------------------
(* Properties. *)

LogisticsTypeOK ==
    /\ queue \in Queues /\ queueDisk \subseteq Queues /\ queue \in queueDisk
    /\ receipts \subseteq Ids /\ itemsDisk \subseteq SUBSET Ids /\ receipts \in itemsDisk
    /\ worker \in [at : Places, id : Ids \cup {NoId}]
    /\ listed \in [Ids -> Kinds]
    /\ stopping \in BOOLEAN
    /\ online \subseteq Endpoints
    /\ faults \in 0..MaxFaults /\ ends \in 0..MaxEnds
    /\ revived \subseteq Ids

(* A request is fulfilled only if its items moved, whatever a restart finds *)
(* of either table: the two are flushed one after the other, each flush may *)
(* fail, and what a failed one left in the file is not known.               *)
FulfilledMoved ==
    \A requests \in queueDisk \cup {queue}, durable \in itemsDisk :
      \A r \in Ids : requests[r].status = "fulfilled" => r \in durable

(* Items move only for a request that a restart would find claimed, with    *)
(* both endpoints online, in a server that is not shutting down, however    *)
(* long ago the chain was asked; or a restart found the move in the file.   *)
MovedUnderClaim ==
    [][\A r \in receipts' \ receipts :
         \/ /\ \A requests \in queueDisk' : requests[r].status = "claimed"
            /\ online = Endpoints /\ ~stopping
         \/ r \in revived']_vars

(* Removed, and perhaps created again in the same write. *)
Removed(r) ==
    \/ queue'[r].status = "absent"
    \/ queue[r].status \in Terminal /\ queue[r].reconciled /\ queue'[r] = Entry("queued")

(* The outcome that a caller was told stands, through failed flushes and    *)
(* restarts: nothing but the discovery that its items have moved changes    *)
(* it, and nothing changes that.                                            *)
OutcomeStands ==
    [][\A r \in Ids :
         queue[r].status \in Terminal =>
           \/ queue'[r].status = queue[r].status
           \/ Removed(r)
           \/ queue'[r].status = "fulfilled" /\ r \in receipts']_vars

(* A request whose items moved stays in the queue until it is fulfilled,    *)
(* also when it was cancelled, or expired, before that was seen (but not    *)
(* when it was settled before a restart found the move).                    *)
KeptUntilFulfilled ==
    [][\A r \in receipts \ revived :
         queue[r].status \notin {"absent", "fulfilled"} => ~Removed(r)]_vars

(* Every request whose items moved is reported fulfilled in the end. *)
MovesReported ==
    \A r \in Ids : r \in receipts ~> queue[r].status \in {"fulfilled", "absent"}
================================================================================
