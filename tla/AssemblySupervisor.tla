--------------------------- MODULE AssemblySupervisor ---------------------------
(***************************************************************************)
(* The assembly supervisor: the parent half in the game server             *)
(* (server/src/services/frontier/suiAssemblySupervisor.ts) and the child   *)
(* process it forks (suiAssemblySupervisor.worker.ts), joined by the two   *)
(* directions of one IPC channel.                                          *)
(*                                                                         *)
(* The child serialises the operations of the server: it hands out one     *)
(* lease at a time, queues the other callers, and is the only writer of    *)
(* the transaction journal, which it saves under a lease and an expected   *)
(* revision.  A client is one caller of runExclusive.  The actions take    *)
(* journals and RPC bodies as parameters: AssemblyTransactions uses them   *)
(* with those of the transaction executor, and SupervisorSpec below runs   *)
(* them with clients that do anything the interface allows.                *)
(*                                                                         *)
(* Renewals leave no trace: there is no clock here, a lease lapses in some *)
(* step.  While its client is alive that step is a fault (the server       *)
(* stalled through several heartbeats) and bounded; the lease of a client  *)
(* that is gone lapses of itself.                                          *)
(***************************************************************************)
EXTENDS Naturals, Sequences

CONSTANTS
    Clients,          \* callers of runExclusive
    Nobody,           \* no client
    Journals,         \* contents of the journal file
    InitialJournal,   \* what readJournal makes up for a missing file
    Bodies, NoBody,   \* requests the child forwards to the chain
    Results, NoResult,\* the chain's answers
    MaxQueued,        \* EVEJS_SUI_ASSEMBLY_MAX_PENDING, 64 by default
    MaxGenerations,   \* bound: processes that may be lost, plus one
    MaxRevision,      \* bound: saves of one child process
    MaxFaults         \* bound: lapses of live leases, timeouts, failed writes

ASSUME SupervisorAssumption ==
    /\ Nobody \notin Clients
    /\ InitialJournal \in Journals
    /\ NoBody \notin Bodies /\ NoResult \in Results
    /\ MaxQueued \in Nat /\ MaxGenerations \in Nat
    /\ MaxRevision \in Nat /\ MaxFaults \in Nat

VARIABLES
    (* the parent, in the memory of the server *)
    generation,   \* child processes forked so far
    child,        \* "up" | "dead": not yet noticed | "closed": channel closed | "none"
    calls,        \* calls[c]: the RPC client c awaits (pending)
    phase,        \* phase[c]: where client c is in runExclusive
    context,      \* context[c]: the generation of c's lease (leaseContext)
    store,        \* the open journal: generation, revision, journal
    (* the channel *)
    toWorker,     \* requests, oldest first
    toParent,     \* replies, oldest first
    (* the child, in its memory *)
    lease,        \* activeLease
    queue,        \* acquireQueue
    record,       \* the cached journal record
    (* on disk, and the faults so far *)
    file,         \* the journal file
    faults

processVars == <<generation, child>>
workerVars == <<lease, queue, record>>
vars == <<processVars, calls, phase, context, store, toWorker, toParent,
          workerVars, file, faults>>

Phases == {"idle", "acquiring", "running", "releasing"}

Operations == {"acquire", "release", "assertLease", "openJournal", "saveJournal", "grpc"}

(* journal: what a saveJournal call makes the executor's journal when it    *)
(* succeeds.                                                                *)
Calls == [op : Operations \cup {"none"}, generation : Nat, journal : Journals]

NoCall == [op |-> "none", generation |-> 0, journal |-> InitialJournal]

(* A lease token is a client and the generation it was granted in: a client *)
(* asks for one lease at a time, and the channel keeps its requests in      *)
(* order.  awaited: the parent still holds the call in pending.  base is a  *)
(* history field: the journal that the saved one was made from.             *)
Requests == [op : Operations \cup {"cancelAcquire"}, client : Clients,
             generation : Nat, awaited : BOOLEAN, revision : Nat,
             journal : Journals, base : Journals, body : Bodies \cup {NoBody}]

Replies == [client : Clients, ok : BOOLEAN, revision : Nat, journal : Journals,
            result : Results]

Request(c, op) ==
    [op |-> op, client |-> c, generation |-> context[c], awaited |-> TRUE,
     revision |-> 0, journal |-> InitialJournal, base |-> InitialJournal,
     body |-> NoBody]

(* The executor saves what it made of its own copy of the journal. *)
SaveRequest(c, journal) ==
    [Request(c, "saveJournal") EXCEPT !.revision = store.revision,
                                      !.journal = journal, !.base = store.journal]

NoLease == [holder |-> Nobody, lapsed |-> FALSE]
NotOpen == [open |-> FALSE, revision |-> 0, journal |-> InitialJournal]
NoStore == [generation |-> 0, revision |-> 0, journal |-> InitialJournal]

FreshWorker ==
    /\ lease' = NoLease
    /\ queue' = <<>>
    /\ record' = NotOpen

FaultHappens ==
    /\ faults < MaxFaults
    /\ faults' = faults + 1

SupervisorInit ==
    /\ generation = 1 /\ child = "up"
    /\ calls = [c \in Clients |-> NoCall]
    /\ phase = [c \in Clients |-> "idle"]
    /\ context = [c \in Clients |-> 0]
    /\ store = NoStore
    /\ toWorker = <<>> /\ toParent = <<>>
    /\ lease = NoLease /\ queue = <<>> /\ record = NotOpen
    /\ file = InitialJournal
    /\ faults = 0

--------------------------------------------------------------------------------
(* The parent: requests. *)

(* currentLease: the client's lease is of the present child process. *)
HasLease(c) == context[c] = generation

(* fork: a new process with an empty memory, on a new channel. *)
Fork(requests) ==
    /\ generation' = generation + 1
    /\ child' = "up"
    /\ toWorker' = requests
    /\ toParent' = <<>>
    /\ FreshWorker

(* target.send, after request() has called spawn(): a channel known to be   *)
(* closed is replaced, what goes to a child that died unnoticed is lost.    *)
Transmit(request) ==
    \/ /\ child = "up"
       /\ toWorker' = Append(toWorker, request)
       /\ UNCHANGED <<processVars, toParent, workerVars>>
    \/ /\ child = "dead"
       /\ UNCHANGED <<processVars, toWorker, toParent, workerVars>>
    \/ /\ child \in {"closed", "none"}
       /\ Fork(<<request>>)

Call(c, request) ==
    /\ calls[c].op = "none"
    /\ Transmit(request)
    /\ calls' = [calls EXCEPT ![c] = [op |-> request.op, generation |-> generation',
                                      journal |-> request.journal]]
    /\ UNCHANGED <<file, faults>>

(* runExclusive: spawn(), note the generation, request "acquire". *)
Acquire(c) ==
    /\ phase[c] = "idle"
    /\ Call(c, Request(c, "acquire"))
    /\ phase' = [phase EXCEPT ![c] = "acquiring"]
    /\ context' = [context EXCEPT ![c] = generation']
    /\ UNCHANGED store

(* The finally of runExclusive. *)
Release(c) ==
    /\ phase[c] = "running"
    /\ Call(c, Request(c, "release"))
    /\ phase' = [phase EXCEPT ![c] = "releasing"]
    /\ UNCHANGED <<context, store>>

(* openJournal takes no lease and notes the generation it opened in. *)
OpenJournal(c) ==
    /\ phase[c] = "running"
    /\ Call(c, Request(c, "openJournal"))
    /\ UNCHANGED <<phase, context, store>>

(* journalStore.save *)
SaveJournal(c, journal) ==
    /\ phase[c] = "running"
    /\ HasLease(c) /\ store.generation = generation
    /\ store.revision < MaxRevision
    /\ Call(c, SaveRequest(c, journal))
    /\ UNCHANGED <<phase, context, store>>

(* journalStore.assertLease, and runExclusive inside runExclusive. *)
AssertLease(c) ==
    /\ phase[c] = "running"
    /\ HasLease(c)
    /\ Call(c, Request(c, "assertLease"))
    /\ UNCHANGED <<phase, context, store>>

(* The fetch of the client that createSuiGrpcClient builds. *)
Grpc(c, body) ==
    /\ phase[c] = "running"
    /\ HasLease(c)
    /\ Call(c, [Request(c, "grpc") EXCEPT !.body = body])
    /\ UNCHANGED <<phase, context, store>>

--------------------------------------------------------------------------------
(* The parent: replies, timeouts and the end of the child. *)

(* The oldest reply is for c, which awaits op. *)
Answered(c, op) ==
    /\ toParent # <<>>
    /\ Head(toParent).client = c
    /\ calls[c].op = op
    /\ toParent' = Tail(toParent)
    /\ calls' = [calls EXCEPT ![c] = NoCall]
    /\ UNCHANGED <<processVars, toWorker, workerVars, file, faults>>

(* Client c leaves runExclusive. *)
Leave(c) ==
    /\ phase' = [phase EXCEPT ![c] = "idle"]
    /\ context' = [context EXCEPT ![c] = 0]

(* acquire: the lease, or ASSEMBLY_SYNC_BUSY. *)
AcquireAnswered(c) ==
    /\ Answered(c, "acquire")
    /\ IF Head(toParent).ok
       THEN phase' = [phase EXCEPT ![c] = "running"] /\ UNCHANGED context
       ELSE Leave(c)
    /\ UNCHANGED store

(* release: its failure is ignored. *)
ReleaseAnswered(c) ==
    /\ Answered(c, "release")
    /\ Leave(c)
    /\ UNCHANGED store

AssertAnswered(c) ==
    /\ Answered(c, "assertLease")
    /\ UNCHANGED <<phase, context, store>>

GrpcAnswered(c) ==
    /\ Answered(c, "grpc")
    /\ UNCHANGED <<phase, context, store>>

(* Mutant: the reply is taken as a whole for its journal. *)
OpenAnswered_WholeReply(c) ==
    /\ Answered(c, "openJournal")
    /\ store' = [generation |-> calls[c].generation,
                 revision |-> Head(toParent).revision, journal |-> Head(toParent)]
    /\ UNCHANGED <<phase, context>>

OpenAnswered(c) ==
    /\ Answered(c, "openJournal")
    /\ store' = [generation |-> calls[c].generation,
                 revision |-> Head(toParent).revision,
                 journal |-> Head(toParent).journal]
    /\ UNCHANGED <<phase, context>>

(* Mutant: the executor takes over a journal that was not saved. *)
SaveAnswered_Always(c) ==
    /\ Answered(c, "saveJournal")
    /\ store' = [store EXCEPT !.journal = calls[c].journal,
                    !.revision = IF Head(toParent).ok THEN Head(toParent).revision ELSE @]
    /\ UNCHANGED <<phase, context>>

(* The executor takes over the journal only when it was saved. *)
SaveAnswered(c) ==
    /\ Answered(c, "saveJournal")
    /\ store' = IF Head(toParent).ok /\ store.generation = calls[c].generation
                THEN [store EXCEPT !.revision = Head(toParent).revision,
                                   !.journal = calls[c].journal]
                ELSE store
    /\ UNCHANGED <<phase, context>>

(* pending.delete(id): the request stays on its way, its reply finds no     *)
(* entry.                                                                   *)
Unawaited(requests, c) ==
    [i \in 1..Len(requests) |->
        [requests[i] EXCEPT !.awaited = @ /\ requests[i].client # c]]

(* findIndex and splice: s without the request or reply of client c, which  *)
(* has one at most.                                                         *)
Splice(s, i) == SubSeq(s, 1, i - 1) \o SubSeq(s, i + 1, Len(s))

Mentions(s, c) == \E i \in 1..Len(s) : s[i].client = c

Without(s, c) ==
    IF Mentions(s, c) THEN Splice(s, CHOOSE i \in 1..Len(s) : s[i].client = c) ELSE s

(* The child that c called is there: it was slow, and that is a fault.      *)
(* Otherwise it died and nobody told c.                                     *)
InService(c) == child = "up" /\ calls[c].generation = generation

(* The admission timeout: the client gives up and tells the child. *)
AcquireTimesOut(c) ==
    /\ calls[c].op = "acquire"
    /\ IF InService(c) THEN FaultHappens ELSE UNCHANGED faults
    /\ calls' = [calls EXCEPT ![c] = NoCall]
    /\ Leave(c)
    /\ toWorker' = IF InService(c)
                   THEN Append(Unawaited(toWorker, c),
                               [Request(c, "cancelAcquire") EXCEPT !.awaited = FALSE])
                   ELSE Unawaited(toWorker, c)
    /\ queue' = Unawaited(queue, c)
    /\ toParent' = Without(toParent, c)
    /\ UNCHANGED <<processVars, store, lease, record, file>>

(* Its memory goes, what was sent to it is never read, and what it sent is. *)
Dies ==
    /\ child' = "dead"
    /\ toWorker' = <<>>
    /\ FreshWorker

(* Any other timeout: a child that does not answer is killed (by a signal   *)
(* it does not handle), which also ends every lease.                        *)
RpcTimesOut(c) ==
    /\ calls[c].op \notin {"none", "acquire"}
    /\ IF calls[c].op = "release" THEN Leave(c) ELSE UNCHANGED <<phase, context>>
    /\ IF InService(c) THEN FaultHappens /\ Dies
       ELSE /\ toWorker' = Unawaited(toWorker, c)
            /\ UNCHANGED <<child, workerVars, faults>>
    /\ calls' = [calls EXCEPT ![c] = NoCall]
    /\ toParent' = Without(toParent, c)
    /\ UNCHANGED <<generation, store, file>>

ChildDies ==
    /\ child = "up"
    /\ generation < MaxGenerations
    /\ Dies
    /\ UNCHANGED <<generation, calls, phase, context, store, toParent, file, faults>>

(* The channel is closed (child.connected is false) after its last reply.   *)
ChannelCloses ==
    /\ child = "dead" /\ toParent = <<>>
    /\ child' = "closed"
    /\ UNCHANGED <<generation, calls, phase, context, store, toWorker,
                   toParent, workerVars, file, faults>>

(* The exit event of the current child: rejectPending. *)
ExitNoticed ==
    /\ child \in {"dead", "closed"}
    /\ child' = "none"
    /\ calls' = [c \in Clients |-> NoCall]
    /\ phase' = [c \in Clients |-> IF phase[c] = "running" THEN "running" ELSE "idle"]
    /\ context' = [c \in Clients |-> IF phase[c] = "running" THEN context[c] ELSE 0]
    /\ toParent' = <<>>
    /\ UNCHANGED <<generation, store, toWorker, workerVars, file, faults>>

(* restartTimer, or a heartbeat: spawn(). *)
Respawn ==
    /\ child \in {"closed", "none"}
    /\ Fork(<<>>)
    /\ UNCHANGED <<calls, phase, context, store, file, faults>>

(* The server dies and comes back: only the file is left. *)
ServerRestarts ==
    /\ generation < MaxGenerations
    /\ Fork(<<>>)
    /\ calls' = [c \in Clients |-> NoCall]
    /\ phase' = [c \in Clients |-> "idle"]
    /\ context' = [c \in Clients |-> 0]
    /\ store' = NoStore
    /\ UNCHANGED <<file, faults>>

--------------------------------------------------------------------------------
(* The child: one request at a time, oldest first. *)

LeaseHolder(request) ==
    /\ lease.holder = request.client
    /\ request.generation = generation

(* requireLease *)
LeaseValid(request) == LeaseHolder(request) /\ ~lease.lapsed

ReplyTo(request, ok, revision, journal, result) ==
    IF request.awaited
    THEN <<[client |-> request.client, ok |-> ok, revision |-> revision,
            journal |-> journal, result |-> result]>>
    ELSE <<>>

Ok(request) == ReplyTo(request, TRUE, 0, InitialJournal, NoResult)
Refusal(request) == ReplyTo(request, FALSE, 0, InitialJournal, NoResult)

(* Mutant: the next caller waits for another release. *)
GrantNext_Idle(waiting, replies) ==
    /\ lease' = NoLease
    /\ queue' = waiting
    /\ toParent' = toParent \o replies

(* expireLease and grantNext: the first in the queue gets the lease. *)
GrantNext(waiting, replies) ==
    IF waiting = <<>>
    THEN /\ lease' = NoLease
         /\ queue' = <<>>
         /\ toParent' = toParent \o replies
    ELSE /\ lease' = [holder |-> Head(waiting).client, lapsed |-> FALSE]
         /\ queue' = Tail(waiting)
         /\ toParent' = toParent \o Ok(Head(waiting)) \o replies

(* The next request is an op. *)
Receive(op) ==
    /\ toWorker # <<>>
    /\ Head(toWorker).op = op
    /\ toWorker' = Tail(toWorker)
    /\ UNCHANGED <<processVars, calls, phase, context, store>>

HandleAcquire ==
    /\ Receive("acquire")
    /\ LET request == Head(toWorker)
       IN  IF lease.holder = Nobody
           THEN /\ lease' = [holder |-> request.client, lapsed |-> FALSE]
                /\ toParent' = toParent \o Ok(request)
                /\ UNCHANGED queue
           ELSE /\ IF Len(queue) >= MaxQueued
                   THEN /\ toParent' = toParent \o Refusal(request)
                        /\ UNCHANGED queue
                   ELSE /\ queue' = Append(queue, request)
                        /\ UNCHANGED toParent
                /\ UNCHANGED lease
    /\ UNCHANGED <<record, file, faults>>

(* Mutant: only the queue is searched for the cancelled request. *)
HandleCancel_QueueOnly ==
    /\ Receive("cancelAcquire")
    /\ queue' = Without(queue, Head(toWorker).client)
    /\ UNCHANGED <<lease, toParent, record, file, faults>>

(* The cancelled request waits, or holds the lease, or is gone.  Its id is  *)
(* compared, not the expiry.  (An earlier lease of the same client, if it   *)
(* is still there, has lapsed: its release came first.)                     *)
HandleCancel ==
    /\ Receive("cancelAcquire")
    /\ LET request == Head(toWorker)
       IN  IF LeaseHolder(request) /\ ~Mentions(queue, request.client)
           THEN GrantNext(queue, <<>>)
           ELSE /\ queue' = Without(queue, request.client)
                /\ UNCHANGED <<lease, toParent>>
    /\ UNCHANGED <<record, file, faults>>

(* Mutant: whatever token it carries, a release ends the active lease. *)
HandleRelease_AnyToken ==
    /\ Receive("release")
    /\ GrantNext(queue, Ok(Head(toWorker)))
    /\ UNCHANGED <<record, file, faults>>

HandleRelease ==
    /\ Receive("release")
    /\ LET request == Head(toWorker)
       IN  IF LeaseValid(request)
           THEN GrantNext(queue, Ok(request))
           ELSE /\ toParent' = toParent \o Refusal(request)
                /\ UNCHANGED <<lease, queue>>
    /\ UNCHANGED <<record, file, faults>>

HandleAssert ==
    /\ Receive("assertLease")
    /\ LET request == Head(toWorker)
       IN  toParent' = toParent \o (IF LeaseValid(request) THEN Ok(request) ELSE Refusal(request))
    /\ UNCHANGED <<workerVars, file, faults>>

(* A record is read from the file once per process. *)
HandleOpen ==
    /\ Receive("openJournal")
    /\ record' = IF record.open THEN record
                 ELSE [open |-> TRUE, revision |-> 0, journal |-> file]
    /\ toParent' = toParent \o
           ReplyTo(Head(toWorker), TRUE, record'.revision, record'.journal, NoResult)
    /\ UNCHANGED <<lease, queue, file, faults>>

SaveAllowed(request) ==
    /\ LeaseValid(request)
    /\ record.open
    /\ request.revision = record.revision

(* saveJournal: a temporary file, fsync, rename; then the cached record. *)
HandleSave ==
    /\ Receive("saveJournal")
    /\ LET request == Head(toWorker)
       IN  /\ SaveAllowed(request)
           /\ file' = request.journal
           /\ record' = [record EXCEPT !.revision = @ + 1, !.journal = request.journal]
           /\ toParent' = toParent \o
                  ReplyTo(request, TRUE, record.revision + 1, InitialJournal, NoResult)
    /\ UNCHANGED <<lease, queue, faults>>

(* It throws: no lease, not open, another revision, or the write fails. *)
HandleSaveFails ==
    /\ Receive("saveJournal")
    /\ IF SaveAllowed(Head(toWorker)) THEN FaultHappens ELSE UNCHANGED faults
    /\ toParent' = toParent \o Refusal(Head(toWorker))
    /\ UNCHANGED <<workerVars, file>>

(* grpc: the lease is required, then the chain answers or does not.  A call *)
(* ends within its 10 s deadline, long before the lease it began under can  *)
(* lapse, so it is one step.                                                *)
HandleGrpc(result) ==
    /\ Receive("grpc")
    /\ LET request == Head(toWorker)
       IN  toParent' = toParent \o
               (IF LeaseValid(request)
                THEN ReplyTo(request, result # NoResult, 0, InitialJournal, result)
                ELSE Refusal(request))
    /\ UNCHANGED <<workerVars, file>>

(* The client that was granted the lease still uses it, or may learn of it. *)
HolderLives ==
    /\ lease.holder # Nobody
    /\ phase[lease.holder] # "idle"
    /\ context[lease.holder] = generation

(* expiresAt passes; the timer has not fired yet. *)
LeaseLapses ==
    /\ lease.holder # Nobody /\ ~lease.lapsed
    /\ IF HolderLives THEN FaultHappens ELSE UNCHANGED faults
    /\ lease' = [lease EXCEPT !.lapsed = TRUE]
    /\ UNCHANGED <<processVars, calls, phase, context, store, toWorker, toParent,
                   queue, record, file>>

LeaseTimerFires ==
    /\ lease.lapsed
    /\ GrantNext(queue, <<>>)
    /\ UNCHANGED <<processVars, calls, phase, context, store, toWorker, record,
                   file, faults>>

--------------------------------------------------------------------------------
HandleRequest ==
    \/ HandleAcquire \/ HandleCancel \/ HandleRelease \/ HandleAssert
    \/ HandleOpen \/ HandleSave \/ HandleSaveFails
    \/ \E result \in Results : HandleGrpc(result) /\ UNCHANGED faults

HandleReply(c) ==
    \/ AcquireAnswered(c) \/ ReleaseAnswered(c) \/ AssertAnswered(c)
    \/ GrpcAnswered(c) \/ OpenAnswered(c) \/ SaveAnswered(c)

ClientCalls(c) ==
    \/ Acquire(c) \/ OpenJournal(c) \/ AssertLease(c)
    \/ \E journal \in Journals : SaveJournal(c, journal)
    \/ \E body \in Bodies : Grpc(c, body)

Processes ==
    ChildDies \/ ChannelCloses \/ ExitNoticed \/ Respawn \/ ServerRestarts

SupervisorNext ==
    \/ \E c \in Clients :
         ClientCalls(c) \/ Release(c) \/ HandleReply(c) \/ AcquireTimesOut(c) \/ RpcTimesOut(c)
    \/ HandleRequest \/ LeaseLapses \/ LeaseTimerFires
    \/ Processes

(* Two event loops that run, an exit event that comes, a timer of the       *)
(* supervisor that fires, and callers whose action ends.  Nothing obliges a *)
(* caller to come, a lease that is in use to lapse, or a child to fail.     *)
SupervisorFairness ==
    /\ WF_vars(HandleRequest)
    /\ WF_vars(LeaseTimerFires)
    /\ WF_vars(~HolderLives /\ LeaseLapses)
    /\ WF_vars(ChannelCloses)
    /\ WF_vars(ExitNoticed)
    /\ \A c \in Clients :
         /\ WF_vars(HandleReply(c))
         /\ SF_vars(Release(c))
         /\ WF_vars(calls[c].generation # generation
                      /\ (AcquireTimesOut(c) \/ RpcTimesOut(c)))

SupervisorSpec == SupervisorInit /\ [][SupervisorNext]_vars /\ SupervisorFairness

--------------------------------------------------------------------------------
(* Properties. *)

TypeOK ==
    /\ generation \in Nat
    /\ child \in {"up", "dead", "closed", "none"}
    /\ calls \in [Clients -> Calls]
    /\ phase \in [Clients -> Phases]
    /\ context \in [Clients -> Nat]
    /\ store \in [generation : Nat, revision : Nat, journal : Journals]
    /\ toWorker \in Seq(Requests)
    /\ toParent \in Seq(Replies)
    /\ lease \in [holder : Clients \cup {Nobody}, lapsed : BOOLEAN]
    /\ queue \in Seq(Requests)
    /\ record \in [open : BOOLEAN, revision : Nat, journal : Journals]
    /\ file \in Journals
    /\ faults \in Nat

(* Admission is exclusive: as long as no lease lapsed and no reply came too *)
(* late, two callers of runExclusive are never inside their actions with a  *)
(* lease of the same process, whatever cancellations, releases of leases of *)
(* a lost process and refused callers the child has seen.                   *)
ExclusiveAdmission ==
    faults = 0 =>
      \A a, b \in Clients :
        phase[a] = "running" /\ phase[b] = "running" /\ HasLease(a) /\ HasLease(b) => a = b

(* A lease in force has an owner who will end it: a caller that acquires,   *)
(* runs or releases in this process, or a cancellation on its way.  In      *)
(* particular a caller that gave up waiting leaves no lease behind that     *)
(* blocks the others until it expires.                                      *)
NoAbandonedLease ==
    child = "up" /\ lease.holder # Nobody /\ ~lease.lapsed =>
      \/ HolderLives
      \/ \E i \in 1..Len(toWorker) :
           toWorker[i].client = lease.holder /\ toWorker[i].op \in {"cancelAcquire", "release"}

(* No journal update is lost: a save replaces the very journal it was made  *)
(* from, through timeouts, lapsed leases and any number of child processes, *)
(* each of which counts revisions from 0 again.                             *)
JournalLineage == [][file' # file => Head(toWorker).base = file]_vars

(* Every caller of runExclusive is admitted, refused or told of the failure *)
(* of the supervisor.                                                       *)
AdmissionEnds == \A c \in Clients : phase[c] = "acquiring" ~> phase[c] # "acquiring"
================================================================================
