----------------------- MODULE AssemblyTransactions_proofs -----------------------
(***************************************************************************)
(* Theorems about AssemblyTransactions, for every number of clients,       *)
(* transactions, intents, restarts and faults.                             *)
(*                                                                         *)
(* Three invariants are stacked.  TurnInv: of all clients only one holds   *)
(* the lease of the present process or awaits an answer that was given     *)
(* under it.  JournalInv: that client works on the transaction that is in  *)
(* the journal file, what it was told of its fate is true, and no other    *)
(* transaction's fate is open.  FuelInv: an intent is executed by one      *)
(* transaction, and what the item, the node and the intent hold together   *)
(* does not change, in memory and, as long as a crash would lose nothing   *)
(* that has left for the chain, on the disk.  Each rests on the one        *)
(* before; the steps of the supervisor and its own invariant come from     *)
(* AssemblySupervisor_proofs.                                              *)
(***************************************************************************)
EXTENDS AssemblyTransactions, AssemblySupervisor_proofs, FiniteSetTheorems

--------------------------------------------------------------------------------
(* Whose turn it is.                                                        *)

(* What the transactions do to the supervisor: a step of it, an answer of   *)
(* the chain that a fault made, or a fault of the chain.                    *)
FaultsOnly ==
    UNCHANGED <<processVars, calls, phase, context, store, toWorker, toParent, workerVars, file>>

ChainStep ==
    /\ FaultHappens \/ UNCHANGED faults
    /\ FaultsOnly \/ \E result \in Results : HandleGrpc(result)

SupervisorStep == SupervisorNext \/ ChainStep

(* c is inside its action with the lease of the present process. *)
Inside(c) == phase[c] = "running" /\ context[c] = generation

(* It holds the lease, and is inside.                                       *)
Holds(c) == lease.holder = c /\ Inside(c)

(* The i-th reply admits its client, *)
Admits(i) == toParent[i].ok /\ calls[toParent[i].client].op = "acquire"

(* or answers a call that was made under a valid lease. *)
UnderLease(i) ==
    toParent[i].ok /\ calls[toParent[i].client].op \in {"grpc", "saveJournal", "assertLease"}

(* Only a request to acquire is ever given up. *)
RequestsAwaited ==
    \A i \in DOMAIN toWorker :
      toWorker[i].op \notin {"acquire", "cancelAcquire"} =>
        toWorker[i].awaited /\ toWorker[i].generation = context[toWorker[i].client]

(* A reply answers the last request of its client. *)
RepliesLast == \A i \in DOMAIN toParent : NoRequest(toParent[i].client)

(* Who is inside its action has no request to acquire left behind. *)
InsideOnce ==
    \A c \in Clients : Inside(c) =>
      /\ \A i \in DOMAIN toWorker :
           toWorker[i].client = c => toWorker[i].op \notin {"acquire", "cancelAcquire"}
      /\ \A i \in DOMAIN queue : queue[i].client # c

(* Answers that are still under way come before the admission that ends     *)
(* their turn, and of the admissions the last one counts.                   *)
AdmitOK(i) ==
    Admits(i) =>
      /\ \A c \in Clients : ~Holds(c)
      /\ \A j \in DOMAIN toParent : i < j => ~UnderLease(j)
      /\ \A j \in DOMAIN toParent : i < j /\ Admits(j) => lease.holder # toParent[i].client

UnderLeaseOK(i) ==
    UnderLease(i) =>
      /\ Inside(toParent[i].client)
      /\ \A c \in Clients : Holds(c) => c = toParent[i].client
      /\ \A j \in DOMAIN toParent : UnderLease(j) => i = j

TurnOK == \A i \in DOMAIN toParent : AdmitOK(i) /\ UnderLeaseOK(i)

(* All of it together.                                                      *)
TurnInv == RequestsAwaited /\ RepliesLast /\ InsideOnce /\ TurnOK

(* c can act under the lease, or learn of what it did under it. *)
Engaged(c) == Holds(c) \/ \E i \in DOMAIN toParent : toParent[i].client = c /\ UnderLease(i)

(* A step engages nobody.                                                   *)
EngagedKept == \A d \in Clients : Engaged(d)' => Engaged(d) /\ generation' = generation

(* c, and from now on only c. *)
Admitted(c) ==
    /\ AcquireAnswered(c) /\ Head(toParent).ok
    /\ \A d \in Clients : Engaged(d)' => d = c

(* The supervisor's own invariant without its bound on faults. *)
SInv == Protocol /\ OwnerOK /\ AdmissionOK /\ JournalOK /\ TurnInv

(* A step of the chain keeps the types,                                     *)
LEMMA ChainTypes ==
    ASSUME TypeOK, ChainStep
    PROVE  TypeOK'
  <1>1. faults' \in Nat
    BY FaultTypes DEF ChainStep
  <1>2. CASE FaultsOnly
    BY <1>1, <1>2 DEF FaultsOnly, TypeOK, processVars, workerVars
  <1>3. ASSUME NEW result \in Results, HandleGrpc(result)
        PROVE  TypeOK'
    <2>1. PICK request : request = Head(toWorker) /\ request \in Requests
      BY <1>3, ReceiveTypes DEF HandleGrpc
    <2>2. /\ toWorker' \in Seq(Requests)
          /\ UNCHANGED <<generation, child, calls, phase, context, store, lease, queue, record, file>>
      BY <1>3, ReceiveTypes DEF HandleGrpc, Receive, processVars, workerVars
    <2>3. PICK ok \in BOOLEAN : ok = (result # NoResult)
      OBVIOUS
    <2>4. toParent \in Seq(Replies)
      BY DEF TypeOK
    <2>5. toParent \o ReplyTo(request, ok, 0, InitialJournal, result) \in Seq(Replies)
      BY <2>1, <2>4, Sending, SupervisorAssumption
    <2>6. toParent' \in Seq(Replies)
      BY <1>3, <2>1, <2>3, <2>4, <2>5, SendingPlain DEF HandleGrpc
    <2> QED BY <1>1, <2>2, <2>6 DEF TypeOK
  <1> QED BY <1>2, <1>3 DEF ChainStep

(* and the invariant of the supervisor, which answers of the chain respect  *)
(* whatever they are.                                                       *)
LEMMA ChainProtocol ==
    ASSUME Protocol, ChainStep
    PROVE  Protocol'
  <1>0. TypeOK /\ TypeOK'
    BY ChainTypes DEF Protocol
  <1>1. CASE FaultsOnly
    BY <1>0, <1>1 DEF FaultsOnly, Protocol, processVars, workerVars, ProcessOK, PhasesOK, TalkOK,
                      RequestOK, WaiterOK, ReplyOK, Awaits, NoReply, NoRequest, Ended, EndedBy
  <1>2. CASE Serves
    <2>1. PICK m : m = Head(toWorker)
      OBVIOUS
    <2>2. /\ Shifted /\ Answers(m) /\ m.op # "cancelAcquire"
          /\ UNCHANGED <<generation, child, calls, phase, context, store, lease, queue>>
      BY <1>0, <1>2, <2>1, ServesShape
    <2> QED BY <1>0, <2>1, <2>2, AnswersProtocol
  <1> QED BY <1>1, <1>2 DEF ChainStep, Serves

(* A step of the chain gives the lease to nobody.                           *)
LEMMA ChainOwner ==
    ASSUME Protocol, Protocol', OwnerOK, ChainStep
    PROVE  OwnerOK'
  <1>0. TypeOK
    BY DEF Protocol
  <1>1. CASE FaultsOnly
    BY <1>1 DEF FaultsOnly, processVars, workerVars, OwnerOK, Owns, Ended, EndedBy, Granted,
                Releasing, NotAsking
  <1>2. CASE Serves
    <2>1. PICK m : m = Head(toWorker)
      OBVIOUS
    <2>2. /\ Shifted /\ Answers(m)
          /\ m.op \in {"assertLease", "openJournal", "saveJournal", "grpc"}
          /\ UNCHANGED <<generation, child, calls, phase, context, store, lease, queue>>
      BY <1>0, <1>2, <2>1, ServesShape
    <2> QED BY <2>1, <2>2, AnswersOwner
  <1> QED BY <1>1, <1>2 DEF ChainStep, Serves

(* It leaves the order of the requests as it is.                            *)
LEMMA ChainAdmission ==
    ASSUME Protocol, AdmissionOK, ChainStep
    PROVE  AdmissionOK'
  <1>1. faults \in Nat
    BY DEF Protocol, TypeOK
  <1> SUFFICES ASSUME faults' = 0
               PROVE  AllAwaited' /\ OneGranted'
    BY DEF AdmissionOK
  <1>2. faults = 0 /\ AllAwaited /\ OneGranted
    BY <1>1 DEF ChainStep, FaultHappens, AdmissionOK
  <1>3. CASE FaultsOnly
    BY <1>2, <1>3 DEF FaultsOnly, processVars, workerVars, AllAwaited, OneGranted, Granted
  <1> QED BY <1>2, <1>3, ServesAdmission DEF ChainStep, Serves

(* It leaves the journal and what the supervisor knows of it.               *)
LEMMA ChainJournal ==
    ASSUME Protocol, JournalOK, ChainStep
    PROVE  JournalOK'
  <1>1. CASE FaultsOnly
    BY <1>1 DEF FaultsOnly, processVars, workerVars, JournalOK, SaveOK, AnswerOK, Fits
  <1> QED BY <1>1, ServesJournal DEF ChainStep, Serves

--------------------------------------------------------------------------------
(* Whose turn it is: calls, replies, timeouts and processes.                *)

(* At first nothing is said.                                                *)
LEMMA TurnInit == SupervisorInit => TurnInv
  BY NoElements DEF SupervisorInit, TurnInv, RequestsAwaited, RepliesLast, InsideOnce, TurnOK, Inside

(* What is awaited under a lease has a caller inside its action.            *)
LEMMA CallersInside ==
    ASSUME Protocol, TurnInv, NEW i \in DOMAIN toWorker,
           toWorker[i].op \in {"openJournal", "assertLease", "saveJournal", "grpc"}
    PROVE  /\ toWorker[i].awaited /\ toWorker[i].client \in Clients
           /\ toWorker[i].generation = context[toWorker[i].client]
           /\ Awaits(toWorker[i].client, toWorker[i].op)
           /\ phase[toWorker[i].client] = "running"
           /\ NoReply(toWorker[i].client)
  <1>1. PICK m : m = toWorker[i]
    OBVIOUS
  <1>2. /\ m.client \in Clients /\ m.op \notin {"none", "acquire", "release", "cancelAcquire"}
        /\ RequestOK(i)
    BY <1>1, ElementTypes DEF Protocol, TalkOK
  <1>3. m.awaited /\ m.generation = context[m.client]
    BY <1>1, <1>2 DEF TurnInv, RequestsAwaited
  <1>4. Awaits(m.client, m.op) /\ NoReply(m.client)
    BY <1>1, <1>2, <1>3 DEF RequestOK
  <1>5. calls[m.client].op \notin {"none", "acquire", "release"} /\ phase[m.client] \in Phases
    BY <1>2, <1>4 DEF Awaits, Protocol, TypeOK
  <1>6. phase[m.client] = "running"
    BY <1>2, <1>5 DEF Protocol, PhasesOK, Phases
  <1> QED BY <1>1, <1>2, <1>3, <1>4, <1>6

(* A call.                                                                  *)
LEMMA ClientCallsTurn ==
    ASSUME Protocol, TurnInv, NEW c \in Clients, ClientCalls(c) \/ Release(c)
    PROVE  TurnInv' /\ EngagedKept
  <1>0. /\ TypeOK /\ ProcessOK /\ TalkOK /\ generation \in Nat
        /\ \A d \in Clients : context[d] \in Nat /\ context[d] <= generation
    BY DEF Protocol, TypeOK, ProcessOK
  <1>1. PICK m \in Requests :
             /\ m.client = c /\ m.awaited /\ m.generation = context[c] /\ Call(c, m)
             /\ m.op \in Operations
             /\ \A d \in Clients \ {c} : context'[d] = context[d] /\ phase'[d] = phase[d]
             /\ \/ /\ m.op = "acquire" /\ phase[c] = "idle"
                   /\ phase'[c] = "acquiring" /\ context'[c] = generation'
                \/ /\ m.op = "release" /\ phase[c] = "running"
                   /\ phase'[c] = "releasing" /\ context'[c] = context[c]
                \/ /\ m.op \notin {"acquire", "release"} /\ phase[c] = "running"
                   /\ phase'[c] = "running" /\ context'[c] = context[c]
    BY <1>0, CallShape
  <1>2. /\ \A d \in Clients \ {c} : calls'[d] = calls[d]
        /\ \/ /\ child = "up" /\ SentMore(m)
              /\ UNCHANGED <<generation, child, toParent, lease, queue>>
           \/ UNCHANGED <<generation, child, toWorker, toParent, lease, queue>>
           \/ /\ generation' = generation + 1
              /\ toWorker' = <<m>> /\ toParent' = <<>> /\ queue' = <<>>
    BY <1>0, <1>1, CallEffects
  <1>3. /\ calls[c].op = "none"
        /\ m.op # "cancelAcquire"
    BY <1>1 DEF Call, Operations
  <1>4. m.op \notin {"acquire"} => m.generation = context'[c]
    BY <1>1
  <1>5. CASE generation' = generation /\ UNCHANGED <<toParent, lease, queue>>
             /\ (SentMore(m) \/ UNCHANGED toWorker)
    <2>1. \A i \in DOMAIN toWorker' : \/ i \in DOMAIN toWorker /\ toWorker'[i] = toWorker[i]
                                      \/ toWorker'[i] = m
      BY <1>5 DEF SentMore
    <2>2. \A i \in DOMAIN toWorker : toWorker[i].client \in Clients /\ toWorker[i].op # "none"
      BY <1>0, ElementTypes
    <2>3. \A i \in DOMAIN toParent : toParent[i].client \in Clients /\ toParent[i].client # c
      BY <1>0, <1>3, ElementTypes DEF TalkOK, ReplyOK
    <2>4. RequestsAwaited'
      <3>1. ASSUME NEW i \in DOMAIN toWorker, toWorker[i].op \notin {"acquire", "cancelAcquire"}
            PROVE  toWorker[i].awaited /\ toWorker[i].generation = context'[toWorker[i].client]
        <4>1. toWorker[i].awaited /\ toWorker[i].generation = context[toWorker[i].client]
          BY <3>1 DEF TurnInv, RequestsAwaited
        <4>2. toWorker[i].client # c
          BY <1>0, <1>3, <2>2, <3>1, <4>1 DEF TalkOK, RequestOK, Awaits
        <4> QED BY <1>1, <2>2, <4>1, <4>2
      <3> QED BY <1>1, <1>4, <2>1, <3>1 DEF RequestsAwaited
    <2>5. RepliesLast'
      <3>1. \A i \in DOMAIN toParent' : i \in DOMAIN toParent /\ toParent'[i] = toParent[i]
        BY <1>5
      <3>2. \A i \in DOMAIN toParent : NoRequest(toParent[i].client)'
        BY <1>1, <1>5, <2>1, <2>3 DEF TurnInv, RepliesLast, NoRequest
      <3> QED BY <3>1, <3>2 DEF RepliesLast, NoRequest
    <2>6. \A d \in Clients : Inside(d)' => Inside(d) /\ (d = c => m.op # "acquire")
      BY <1>1, <1>5 DEF Inside
    <2>7. InsideOnce'
      BY <1>1, <1>3, <1>5, <2>1, <2>6 DEF TurnInv, InsideOnce
    <2>8. \A d \in Clients : Holds(d)' => Holds(d)
      BY <1>5, <2>6 DEF Holds
    <2>9. \A i \in DOMAIN toParent :
            /\ Admits(i)' = Admits(i) /\ UnderLease(i)' = UnderLease(i)
            /\ Inside(toParent[i].client) => Inside(toParent[i].client)'
      BY <1>1, <1>2, <1>5, <2>3 DEF Admits, UnderLease, Inside
    <2>10. ASSUME NEW i \in DOMAIN toParent'
           PROVE  AdmitOK(i)' /\ UnderLeaseOK(i)'
      <3>1. i \in DOMAIN toParent /\ toParent' = toParent /\ lease' = lease
        BY <1>5
      <3>2. AdmitOK(i) /\ UnderLeaseOK(i)
        BY <3>1 DEF TurnInv, TurnOK
      <3> QED BY <2>8, <2>9, <3>1, <3>2 DEF AdmitOK, UnderLeaseOK
    <2>11. EngagedKept
      <3>1. \A i \in DOMAIN toParent' : i \in DOMAIN toParent /\ toParent'[i] = toParent[i]
        BY <1>5
      <3> QED BY <1>5, <2>8, <2>9, <3>1 DEF EngagedKept, Engaged
    <2> QED BY <2>4, <2>5, <2>7, <2>10, <2>11 DEF TurnInv, TurnOK
  <1>6. CASE generation' = generation + 1 /\ toWorker' = <<m>> /\ toParent' = <<>> /\ queue' = <<>>
    <2>1. \A i \in DOMAIN toWorker' : toWorker'[i] = m
      BY <1>6
    <2>2. RequestsAwaited'
      BY <1>1, <1>4, <2>1 DEF RequestsAwaited
    <2>3. RepliesLast' /\ TurnOK'
      BY <1>6, NoElements DEF RepliesLast, TurnOK
    <2>4. \A d \in Clients : ~Inside(d)'
      BY <1>0, <1>1, <1>6 DEF Inside
    <2>5. InsideOnce'
      BY <2>4 DEF InsideOnce
    <2>6. EngagedKept
      BY <1>6, <2>4, NoElements DEF EngagedKept, Engaged, Holds
    <2> QED BY <2>2, <2>3, <2>5, <2>6 DEF TurnInv
  <1> QED BY <1>2, <1>5, <1>6

(* A reply: who is admitted finds the replies of the turn before gone.      *)
LEMMA HandleReplyTurn ==
    ASSUME Protocol, TurnInv, NEW c \in Clients, HandleReply(c)
    PROVE  TurnInv' /\ (Admitted(c) \/ EngagedKept)
  <1>0. TypeOK /\ TalkOK /\ PhasesOK
    BY DEF Protocol
  <1>1. /\ 1 \in DOMAIN toParent /\ toParent[1].client = c
        /\ \A i \in DOMAIN toParent' :
             i \in Nat /\ 0 < i /\ i + 1 \in DOMAIN toParent /\ toParent'[i] = toParent[i + 1]
        /\ UNCHANGED <<generation, child, toWorker, lease, queue>>
        /\ \A d \in Clients \ {c} : /\ context'[d] = context[d] /\ phase'[d] = phase[d]
                                    /\ calls'[d] = calls[d]
        /\ \/ /\ calls[c].op = "acquire" /\ toParent[1].ok
              /\ phase'[c] = "running" /\ context'[c] = context[c]
           \/ phase'[c] = "idle" /\ context'[c] = 0
           \/ phase'[c] = phase[c] /\ context'[c] = context[c]
    BY <1>0, ReplyShape
  <1>2. /\ NoRequest(c) /\ ReplyOK(1)
        /\ \A i \in DOMAIN toWorker : toWorker[i].client \in Clients /\ toWorker[i].client # c
    BY <1>0, <1>1, ElementTypes DEF TurnInv, RepliesLast, TalkOK, NoRequest
  <1>3. \A i \in DOMAIN queue : queue[i].client # c
    <2>1. ASSUME NEW i \in DOMAIN queue, queue[i].client = c PROVE FALSE
      <3>1. WaiterOK(i) /\ ~NoReply(c)
        BY <1>0, <1>1, <2>1 DEF TalkOK, NoReply
      <3>2. Ended(c, 0)
        BY <2>1, <3>1 DEF WaiterOK
      <3> QED BY <1>2, <3>2 DEF Ended, EndedBy
    <2> QED BY <2>1
  <1>4. \A i \in DOMAIN toParent' : toParent[i + 1].client \in Clients /\ toParent[i + 1].client # c
    BY <1>0, <1>1, <1>2, ElementTypes DEF ReplyOK
  <1>5. RequestsAwaited'
    BY <1>1, <1>2 DEF TurnInv, RequestsAwaited
  <1>6. RepliesLast'
    BY <1>1 DEF TurnInv, RepliesLast, NoRequest
  <1>7. \A d \in Clients \ {c} : Inside(d)' = Inside(d)
    BY <1>1 DEF Inside
  <1>8. InsideOnce'
    BY <1>1, <1>2, <1>3, <1>7 DEF TurnInv, InsideOnce
  <1>9. \A d \in Clients : Holds(d)' =>
          Holds(d) \/ (d = c /\ lease.holder = c /\ Admits(1))
    <2>1. \A d \in Clients \ {c} : Holds(d)' => Holds(d)
      BY <1>1, <1>7 DEF Holds
    <2>2. Holds(c)' => Holds(c) \/ (lease.holder = c /\ Admits(1))
      BY <1>1 DEF Holds, Inside, Admits
    <2> QED BY <2>1, <2>2
  <1>10. \A i \in DOMAIN toParent' :
           Admits(i)' = Admits(i + 1) /\ UnderLease(i)' = UnderLease(i + 1)
    BY <1>1, <1>4 DEF Admits, UnderLease
  <1>11. AdmitOK(1)
    BY <1>1 DEF TurnInv, TurnOK
  <1>12. ASSUME NEW i \in DOMAIN toParent'
         PROVE  AdmitOK(i)' /\ UnderLeaseOK(i)'
    <2>1. /\ AdmitOK(i + 1) /\ UnderLeaseOK(i + 1)
          /\ i \in Nat /\ 0 < i /\ i + 1 \in DOMAIN toParent /\ 1 < i + 1
      BY <1>1 DEF TurnInv, TurnOK
    <2>2. ASSUME Admits(i)'
          PROVE  /\ \A d \in Clients : ~Holds(d)'
                 /\ \A j \in DOMAIN toParent' : i < j => ~UnderLease(j)'
                 /\ \A j \in DOMAIN toParent' : i < j /\ Admits(j)' => lease'.holder # toParent'[i].client
      <3>1. Admits(i + 1)
        BY <1>10, <2>2
      <3>2. \A d \in Clients : ~Holds(d)'
        BY <1>1, <1>9, <1>11, <2>1, <3>1 DEF AdmitOK
      <3>3. ASSUME NEW j \in DOMAIN toParent', i < j
            PROVE  ~UnderLease(j)' /\ (Admits(j)' => lease'.holder # toParent'[i].client)
        <4>1. j + 1 \in DOMAIN toParent /\ i + 1 < j + 1
          BY <1>1, <2>1, <3>3
        <4> QED BY <1>1, <1>10, <2>1, <3>1, <4>1 DEF AdmitOK
      <3> QED BY <3>2, <3>3
    <2>3. PICK r : r = toParent[i + 1] /\ r = toParent'[i]
      BY <1>1
    <2>4. ASSUME UnderLease(i)'
          PROVE  /\ Inside(r.client)'
                 /\ \A d \in Clients : Holds(d)' => d = r.client
                 /\ \A j \in DOMAIN toParent' : UnderLease(j)' => i = j
      <3>1. UnderLease(i + 1)
        BY <1>10, <2>4
      <3>2. Inside(r.client)'
        BY <1>4, <1>7, <2>1, <2>3, <3>1 DEF UnderLeaseOK
      <3>3. \A d \in Clients : Holds(d)' => d = r.client
        BY <1>9, <1>11, <2>1, <2>3, <3>1 DEF UnderLeaseOK, AdmitOK
      <3>4. ASSUME NEW j \in DOMAIN toParent', UnderLease(j)'
            PROVE  i = j
        <4>1. j + 1 \in DOMAIN toParent /\ UnderLease(j + 1) /\ j \in Nat
          BY <1>1, <1>10, <3>4
        <4>2. i + 1 = j + 1
          BY <2>1, <3>1, <4>1 DEF UnderLeaseOK
        <4> QED BY <2>1, <4>1, <4>2
      <3> QED BY <3>2, <3>3, <3>4
    <2> QED BY <2>3, <2>2, <2>4 DEF AdmitOK, UnderLeaseOK
  <1>13. Admitted(c) \/ EngagedKept
    <2>1. \A i \in DOMAIN toParent' : i + 1 \in DOMAIN toParent /\ 1 < i + 1 /\ toParent'[i] = toParent[i + 1]
      BY <1>1
    <2>2. CASE Admits(1)
      <3>1. AcquireAnswered(c) /\ Head(toParent).ok
        BY <1>1, <2>2 DEF Admits, HandleReply, ReleaseAnswered, AssertAnswered, GrpcAnswered,
                          OpenAnswered, SaveAnswered, Answered
      <3>2. \A d \in Clients : Engaged(d)' => d = c
        BY <1>1, <1>9, <1>10, <1>11, <2>1, <2>2 DEF AdmitOK, Engaged
      <3> QED BY <3>1, <3>2 DEF Admitted
    <2>3. CASE ~Admits(1)
      BY <1>1, <1>9, <1>10, <2>1, <2>3 DEF EngagedKept, Engaged
    <2> QED BY <2>2, <2>3
  <1> QED BY <1>5, <1>6, <1>8, <1>12, <1>13 DEF TurnInv, TurnOK

(* Without keeps the order of what is left.                                 *)
LEMMA WithoutOrder ==
    ASSUME NEW S, NEW s \in Seq(S), NEW c, NEW w, w = Without(s, c),
           NEW i \in DOMAIN w, NEW j \in DOMAIN w, i < j
    PROVE  \E k, l \in DOMAIN s : k < l /\ w[i] = s[k] /\ w[j] = s[l]
  <1>1. DOMAIN s = 1 .. Len(s) /\ Len(s) \in Nat
    OBVIOUS
  <1>2. CASE ~Mentions(s, c)
    BY <1>2 DEF Without
  <1>3. CASE Mentions(s, c)
    <2>1. PICK d : d = CHOOSE k \in 1..Len(s) : s[k].client = c
      OBVIOUS
    <2>2. d \in DOMAIN s
      BY <1>1, <1>3, <2>1 DEF Mentions
    <2>3. w = Splice(s, d)
      BY <1>3, <2>1 DEF Without
    <2>4. \A k \in DOMAIN w :
               /\ k \in Nat
               /\ k < d => k \in DOMAIN s /\ w[k] = s[k]
               /\ ~(k < d) => k + 1 \in DOMAIN s /\ w[k] = s[k + 1]
      BY <2>2, <2>3, TakingOut
    <2>5. PICK k, l : /\ k = (IF i < d THEN i ELSE i + 1) /\ k \in DOMAIN s /\ w[i] = s[k]
                      /\ l = (IF j < d THEN j ELSE j + 1) /\ l \in DOMAIN s /\ w[j] = s[l]
      BY <2>4
    <2>6. k < l
      BY <1>1, <2>2, <2>4, <2>5
    <2> QED BY <2>5, <2>6
  <1> QED BY <1>2, <1>3

(* The replies that are left, in the order they came, keep their turns when *)
(* their clients are where they were and nobody gets the lease.             *)
LEMMA FewerRepliesTurn ==
    ASSUME Protocol, Protocol', TurnOK, lease' = lease \/ lease' = NoLease,
           \A i, j \in DOMAIN toParent' : i < j =>
             \E k, l \in DOMAIN toParent : k < l /\ toParent'[i] = toParent[k] /\ toParent'[j] = toParent[l],
           \A i \in DOMAIN toParent' : \E k \in DOMAIN toParent :
             /\ toParent'[i] = toParent[k]
             /\ calls'[toParent[k].client] = calls[toParent[k].client]
             /\ Inside(toParent[k].client) => Inside(toParent[i].client)',
           \A d \in Clients : Inside(d)' => Inside(d)
    PROVE  TurnOK' /\ (generation' = generation => EngagedKept)
  <1>1. /\ \A i, j \in DOMAIN toParent : toParent[i].client = toParent[j].client => i = j
        /\ \A i, j \in DOMAIN toParent' : toParent'[i].client = toParent'[j].client => i = j
    BY DEF Protocol, TalkOK, ReplyOK
  <1>2. Nobody \notin Clients /\ NoLease.holder = Nobody
    BY SupervisorAssumption DEF NoLease
  <1>3. \A d \in Clients : Holds(d)' => Holds(d)
    BY <1>2 DEF Holds
  <1>4. \A i \in DOMAIN toParent', k \in DOMAIN toParent : toParent'[i] = toParent[k] =>
          /\ Admits(i)' = Admits(k) /\ UnderLease(i)' = UnderLease(k)
          /\ Inside(toParent[k].client) => Inside(toParent[i].client)'
    <2>1. ASSUME NEW i \in DOMAIN toParent', NEW k \in DOMAIN toParent, toParent'[i] = toParent[k]
          PROVE  /\ Admits(i)' = Admits(k) /\ UnderLease(i)' = UnderLease(k)
                 /\ Inside(toParent[k].client) => Inside(toParent[i].client)'
      <3>1. PICK h \in DOMAIN toParent :
             /\ toParent'[i] = toParent[h]
             /\ calls'[toParent[h].client] = calls[toParent[h].client]
             /\ Inside(toParent[h].client) => Inside(toParent[i].client)'
        OBVIOUS
      <3>2. h = k
        BY <1>1, <2>1, <3>1
      <3> QED BY <2>1, <3>1, <3>2 DEF Admits, UnderLease
    <2> QED BY <2>1
  <1>5. ASSUME NEW i \in DOMAIN toParent'
        PROVE  AdmitOK(i)' /\ UnderLeaseOK(i)'
    <2>1. PICK k \in DOMAIN toParent : toParent'[i] = toParent[k]
      OBVIOUS
    <2>2. PICK r : r = toParent[k] /\ r = toParent'[i]
      BY <2>1
    <2>3. /\ AdmitOK(k) /\ UnderLeaseOK(k) /\ Admits(i)' = Admits(k) /\ UnderLease(i)' = UnderLease(k)
          /\ r.client \in Clients
      BY <1>4, <2>1, <2>2, ElementTypes DEF TurnOK, Protocol
    <2>4. \A j \in DOMAIN toParent' : i < j =>
            \E l \in DOMAIN toParent : k < l /\ toParent'[j] = toParent[l]
      <3>1. ASSUME NEW j \in DOMAIN toParent', i < j
            PROVE  \E l \in DOMAIN toParent : k < l /\ toParent'[j] = toParent[l]
        <4>1. PICK h, l \in DOMAIN toParent :
                h < l /\ toParent'[i] = toParent[h] /\ toParent'[j] = toParent[l]
          BY <3>1
        <4>2. toParent[h] = toParent[k]
          BY <2>1, <4>1
        <4>3. h = k
          BY <1>1, <4>2
        <4> QED BY <4>1, <4>3
      <3> QED BY <3>1
    <2>5. Admits(i)' =>
                 /\ \A d \in Clients : ~Holds(d)'
                 /\ \A j \in DOMAIN toParent' : i < j => ~UnderLease(j)'
                 /\ \A j \in DOMAIN toParent' : i < j /\ Admits(j)' => lease'.holder # r.client
      BY <1>2, <1>3, <1>4, <2>2, <2>3, <2>4 DEF AdmitOK
    <2>6. ASSUME UnderLease(i)'
          PROVE  /\ Inside(r.client)'
                 /\ \A d \in Clients : Holds(d)' => d = r.client
                 /\ \A j \in DOMAIN toParent' : UnderLease(j)' => i = j
      <3>1. UnderLease(k) /\ Inside(r.client) /\ \A d \in Clients : Holds(d) => d = r.client
        BY <2>2, <2>3, <2>6 DEF UnderLeaseOK
      <3>2. ASSUME NEW j \in DOMAIN toParent', UnderLease(j)'
            PROVE  i = j
        <4>1. PICK l \in DOMAIN toParent : toParent'[j] = toParent[l]
          OBVIOUS
        <4>2. UnderLease(l)
          BY <1>4, <3>2, <4>1
        <4>3. k = l
          BY <2>3, <3>1, <4>2 DEF UnderLeaseOK
        <4>4. toParent'[i] = toParent'[j]
          BY <2>1, <4>1, <4>3
        <4> QED BY <1>1, <4>4
      <3>3. Inside(toParent[i].client)'
        BY <1>4, <2>1, <2>2, <3>1
      <3>4. Inside(r.client)'
        BY <2>2, <3>3 DEF Inside
      <3> QED BY <1>3, <3>1, <3>2, <3>4
    <2> QED BY <2>2, <2>5, <2>6 DEF AdmitOK, UnderLeaseOK
  <1>6. \A i \in DOMAIN toParent' : \E k \in DOMAIN toParent : toParent'[i] = toParent[k]
    OBVIOUS
  <1>7. generation' = generation => EngagedKept
    BY <1>3, <1>4, <1>6 DEF EngagedKept, Engaged
  <1> QED BY <1>5, <1>7 DEF TurnOK

(* A timeout.                                                               *)
LEMMA TimesOutTurn ==
    ASSUME Protocol, Protocol', TurnInv, NEW c \in Clients, AcquireTimesOut(c) \/ RpcTimesOut(c)
    PROVE  TurnInv' /\ EngagedKept
  <1>0. TypeOK /\ TalkOK /\ ProcessOK /\ toParent \in Seq(Replies)
    BY DEF Protocol, TypeOK
  <1>1. /\ UNCHANGED generation
        /\ \A d \in Clients \ {c} : /\ context'[d] = context[d] /\ phase'[d] = phase[d]
                                    /\ calls'[d] = calls[d]
        /\ \A i \in DOMAIN toParent' : \E k \in DOMAIN toParent : toParent'[i] = toParent[k]
        /\ \A i \in DOMAIN toParent' : toParent'[i].client # c
        /\ \/ /\ calls[c].op \in {"acquire", "release"}
              /\ phase'[c] = "idle" /\ context'[c] = 0
           \/ /\ calls[c].op \notin {"acquire", "release"}
              /\ phase'[c] = phase[c] /\ context'[c] = context[c]
        /\ \/ InService(c) /\ toWorker' = <<>> /\ lease' = NoLease /\ queue' = <<>>
           \/ /\ UNCHANGED <<child, lease, record>>
              /\ GivenUp(c)
              /\ DOMAIN queue' = DOMAIN queue
              /\ \A i \in DOMAIN queue : queue'[i].client = queue[i].client
              /\ \/ InService(c) /\ calls[c].op = "acquire" /\ Told(c)
                 \/ ~InService(c) /\ NotTold
    BY TimeoutShape
  <1>2. \A i, j \in DOMAIN toParent' : i < j =>
          \E k, l \in DOMAIN toParent : k < l /\ toParent'[i] = toParent[k] /\ toParent'[j] = toParent[l]
    <2>1. toParent' = Without(toParent, c)
      BY DEF AcquireTimesOut, RpcTimesOut
    <2> QED BY <1>0, <2>1, WithoutOrder
  <1>3. \A i \in DOMAIN toParent' : \E k \in DOMAIN toParent :
             /\ toParent'[i] = toParent[k]
             /\ calls'[toParent[k].client] = calls[toParent[k].client]
             /\ Inside(toParent[k].client) => Inside(toParent[i].client)'
    <2>1. ASSUME NEW i \in DOMAIN toParent'
          PROVE  \E k \in DOMAIN toParent :
                   /\ toParent'[i] = toParent[k]
                   /\ calls'[toParent[k].client] = calls[toParent[k].client]
                   /\ Inside(toParent[k].client) => Inside(toParent[i].client)'
      <3>1. PICK k \in DOMAIN toParent : toParent'[i] = toParent[k]
        BY <1>1
      <3>2. PICK d : d = toParent[k].client
        OBVIOUS
      <3>3. d \in Clients /\ d # c
        BY <1>0, <1>1, <3>1, <3>2, ElementTypes
      <3>4. calls'[d] = calls[d] /\ context'[d] = context[d] /\ phase'[d] = phase[d] /\ generation' = generation
        BY <1>1, <3>3
      <3>5. toParent'[i] = toParent[k] /\ calls'[toParent[k].client] = calls[toParent[k].client]
        BY <3>1, <3>2, <3>4
      <3>6. Inside(toParent[k].client) => Inside(toParent[i].client)'
        BY <3>2, <3>4, <3>1 DEF Inside
      <3> QED BY <3>5, <3>6
    <2> QED BY <2>1
  <1>4. \A d \in Clients : Inside(d)' => Inside(d) /\ (d = c => calls[c].op \notin {"acquire", "release"})
    BY <1>1 DEF Inside
  <1>5. TurnOK' /\ EngagedKept
    BY <1>1, <1>2, <1>3, <1>4, FewerRepliesTurn DEF TurnInv
  <1>6. CASE toWorker' = <<>> /\ queue' = <<>>
    BY <1>5, <1>6, NoElements DEF TurnInv, RequestsAwaited, RepliesLast, NoRequest, InsideOnce
  <1>7. CASE /\ GivenUp(c)
             /\ DOMAIN queue' = DOMAIN queue
             /\ \A i \in DOMAIN queue : queue'[i].client = queue[i].client
             /\ \/ InService(c) /\ calls[c].op = "acquire" /\ Told(c)
                \/ ~InService(c) /\ NotTold
    <2>1. \A i \in DOMAIN toWorker' :
            \/ i \in DOMAIN toWorker
            \/ toWorker'[i].client = c /\ toWorker'[i].op = "cancelAcquire" /\ calls[c].op = "acquire"
      BY <1>7 DEF Told, NotTold
    <2>2. ASSUME NEW i \in DOMAIN toWorker, toWorker[i].op \notin {"acquire", "cancelAcquire"}
          PROVE  /\ toWorker[i].client \in Clients /\ toWorker[i].client # c
                 /\ toWorker[i].awaited /\ toWorker[i].generation = context[toWorker[i].client]
      <3>1. toWorker[i].client \in Clients /\ RequestOK(i) /\ child = "up"
        BY <1>0, ElementTypes, NoElements DEF TalkOK, ProcessOK
      <3>2. toWorker[i].awaited /\ toWorker[i].generation = context[toWorker[i].client]
        BY <2>2 DEF TurnInv, RequestsAwaited
      <3>3. Awaits(toWorker[i].client, toWorker[i].op)
        BY <3>1, <3>2 DEF RequestOK
      <3>4. toWorker[i].client # c
        BY <1>7, <2>2, <3>1, <3>3 DEF Awaits, InService
      <3> QED BY <3>1, <3>2, <3>4
    <2>3. RequestsAwaited'
      <3>1. ASSUME NEW i \in DOMAIN toWorker', toWorker'[i].op \notin {"acquire", "cancelAcquire"}
            PROVE  toWorker'[i].awaited /\ toWorker'[i].generation = context'[toWorker'[i].client]
        <4>1. i \in DOMAIN toWorker
          BY <2>1, <3>1
        <4>2. /\ toWorker'[i].client = toWorker[i].client /\ toWorker'[i].op = toWorker[i].op
              /\ toWorker'[i].generation = toWorker[i].generation
              /\ toWorker'[i].awaited = (toWorker[i].awaited /\ toWorker[i].client # c)
          BY <1>7, <4>1 DEF GivenUp
        <4>3. /\ toWorker[i].client \in Clients /\ toWorker[i].client # c
              /\ toWorker[i].awaited /\ toWorker[i].generation = context[toWorker[i].client]
          BY <2>2, <3>1, <4>1, <4>2
        <4> QED BY <1>1, <4>2, <4>3
      <3> QED BY <3>1 DEF RequestsAwaited
    <2>4. RepliesLast'
      <3>1. ASSUME NEW i \in DOMAIN toParent', NEW j \in DOMAIN toWorker'
            PROVE  toWorker'[j].client # toParent'[i].client
        <4>1. PICK k \in DOMAIN toParent : toParent'[i] = toParent[k] /\ toParent[k].client # c
          BY <1>1
        <4>2. CASE j \in DOMAIN toWorker
          BY <1>7, <4>1, <4>2 DEF GivenUp, TurnInv, RepliesLast, NoRequest
        <4> QED BY <2>1, <4>1, <4>2
      <3> QED BY <3>1 DEF RepliesLast, NoRequest
    <2>5. InsideOnce'
      <3>1. ASSUME NEW d \in Clients, Inside(d)'
            PROVE  /\ \A i \in DOMAIN toWorker' :
                        toWorker'[i].client = d => toWorker'[i].op \notin {"acquire", "cancelAcquire"}
                   /\ \A i \in DOMAIN queue' : queue'[i].client # d
        <4>1. Inside(d) /\ (d = c => calls[c].op # "acquire")
          BY <1>4, <3>1
        <4>2. /\ \A i \in DOMAIN toWorker :
                   toWorker[i].client = d => toWorker[i].op \notin {"acquire", "cancelAcquire"}
              /\ \A i \in DOMAIN queue : queue[i].client # d
          BY <4>1 DEF TurnInv, InsideOnce
        <4> QED BY <1>7, <2>1, <4>1, <4>2 DEF GivenUp
      <3> QED BY <3>1 DEF InsideOnce
    <2> QED BY <1>5, <2>3, <2>4, <2>5 DEF TurnInv
  <1> QED BY <1>1, <1>6, <1>7

(* The end or the beginning of a process.                                   *)
LEMMA ProcessesTurn ==
    ASSUME Protocol, Protocol', TurnInv, Processes
    PROVE  TurnInv' /\ EngagedKept
  <1>1. /\ toWorker' = <<>> /\ queue' = <<>> /\ lease' = NoLease
        /\ \/ UNCHANGED generation
           \/ toParent' = <<>>
        /\ \/ UNCHANGED <<calls, phase, context>> /\ (toParent' = toParent \/ toParent' = <<>>)
           \/ toParent' = <<>>
    BY ProcessesShape
  <1>2. RequestsAwaited' /\ RepliesLast' /\ InsideOnce'
    BY <1>1, NoElements DEF RequestsAwaited, RepliesLast, NoRequest, InsideOnce
  <1>3. CASE toParent' = <<>>
    <2>1. \A d \in Clients : ~Engaged(d)'
      BY <1>1, <1>3, NoElements, SupervisorAssumption DEF Engaged, Holds, NoLease
    <2> QED BY <1>2, <1>3, <2>1, NoElements DEF TurnOK, TurnInv, EngagedKept
  <1>4. CASE toParent' = toParent /\ UNCHANGED <<generation, calls, phase, context>>
    <2>1. \A d : Inside(d)' = Inside(d)
      BY <1>4 DEF Inside
    <2>2. TurnOK' /\ EngagedKept
      BY <1>1, <1>4, <2>1, FewerRepliesTurn DEF TurnInv
    <2> QED BY <1>2, <2>2 DEF TurnInv
  <1> QED BY <1>1, <1>3, <1>4

--------------------------------------------------------------------------------
(* Whose turn it is: the requests the child handles.                        *)

(* A handled request leaves the requests and the queue as they were, but    *)
(* for its own.                                                             *)
LEMMA TalkHandled ==
    ASSUME Protocol, TurnInv, NEW A, Handles(A),
           \A i \in DOMAIN queue' : ~Inside(queue'[i].client)
    PROVE  /\ \A d : Inside(d)' = Inside(d)
           /\ \A i \in DOMAIN toParent : /\ Admits(i)' = Admits(i) /\ UnderLease(i)' = UnderLease(i)
                                         /\ i \in DOMAIN toParent' /\ toParent'[i] = toParent[i]
           /\ RequestsAwaited' /\ RepliesLast' /\ InsideOnce'
  <1>1. /\ UNCHANGED <<generation, calls, phase, context>>
        /\ Shifted \/ UNCHANGED toWorker
        /\ \A i \in DOMAIN toParent : i \in DOMAIN toParent' /\ toParent'[i] = toParent[i]
        /\ \A i \in DOMAIN toParent' : i \in DOMAIN toParent \/ toParent'[i].client \in A
        /\ \A a \in A : NoRequest(a)'
    BY DEF Handles, Replied
  <1>2. \A i \in DOMAIN toWorker' : \E k \in DOMAIN toWorker : toWorker'[i] = toWorker[k]
    BY <1>1 DEF Shifted
  <1>3. \A d : Inside(d)' = Inside(d)
    BY <1>1 DEF Inside
  <1>4. \A i \in DOMAIN toParent : Admits(i)' = Admits(i) /\ UnderLease(i)' = UnderLease(i)
    BY <1>1 DEF Admits, UnderLease
  <1>5. RequestsAwaited'
    BY <1>1, <1>2 DEF TurnInv, RequestsAwaited
  <1>6. RepliesLast'
    <2>1. ASSUME NEW i \in DOMAIN toParent'
          PROVE  NoRequest(toParent[i].client)'
      <3>1. PICK d : d = toParent'[i].client
        OBVIOUS
      <3>2. CASE i \in DOMAIN toParent
        <4>1. NoRequest(d)
          BY <1>1, <3>1, <3>2 DEF TurnInv, RepliesLast
        <4> QED BY <1>2, <3>1, <4>1 DEF NoRequest
      <3>3. CASE d \in A
        BY <1>1, <3>1, <3>3 DEF NoRequest
      <3> QED BY <1>1, <3>1, <3>2, <3>3
    <2> QED BY <2>1 DEF RepliesLast
  <1>7. InsideOnce'
    <2>1. ASSUME NEW d \in Clients, Inside(d)'
          PROVE  /\ \A i \in DOMAIN toWorker' :
                      toWorker'[i].client = d => toWorker'[i].op \notin {"acquire", "cancelAcquire"}
                 /\ \A i \in DOMAIN queue' : queue'[i].client # d
      BY <1>2, <1>3, <2>1 DEF TurnInv, InsideOnce
    <2> QED BY <2>1 DEF InsideOnce
  <1> QED BY <1>1, <1>3, <1>4, <1>5, <1>6, <1>7

(* What does not answer under the lease: the lease stays and nobody is      *)
(* admitted, or it goes to somebody outside who alone may be admitted.      *)
LEMMA HandledTurn ==
    ASSUME Protocol, Protocol', TurnInv, NEW A, Handles(A), NEW h, lease'.holder = h,
           \A i \in DOMAIN queue' : ~Inside(queue'[i].client),
           \A i \in DOMAIN toParent' : i \in DOMAIN toParent \/ ~UnderLease(i)',
           \/ /\ lease' = lease
              /\ \A i \in DOMAIN toParent' : i \in DOMAIN toParent \/ ~Admits(i)'
           \/ /\ h \in Clients => ~Inside(h) /\ NoReply(h)
              /\ \A i \in DOMAIN toParent' :
                   i \in DOMAIN toParent \/ (Admits(i)' => toParent'[i].client = h)
    PROVE  TurnInv' /\ EngagedKept
  <1>1. /\ \A d : Inside(d)' = Inside(d)
        /\ \A i \in DOMAIN toParent : /\ Admits(i)' = Admits(i) /\ UnderLease(i)' = UnderLease(i)
                                      /\ i \in DOMAIN toParent' /\ toParent'[i] = toParent[i]
        /\ RequestsAwaited' /\ RepliesLast' /\ InsideOnce'
    BY TalkHandled
  <1>2. /\ \A i, j \in DOMAIN toParent' : toParent'[i].client = toParent'[j].client => i = j
        /\ \A i \in DOMAIN toParent' : toParent'[i].client \in Clients
    <2>1. \A i \in DOMAIN toParent' : ReplyOK(i)'
      BY DEF Protocol, TalkOK
    <2>2. PICK s \in Seq(Replies) : s = toParent'
      BY DEF Protocol, TypeOK
    <2>3. \A i \in DOMAIN s : s[i] \in Replies
      BY Elements
    <2> QED BY <2>1, <2>2, <2>3 DEF ReplyOK, Replies
  <1>3. \A i \in DOMAIN toParent', j \in DOMAIN toParent : i < j => i \in DOMAIN toParent
    <2>1. DOMAIN toParent = 1 .. Len(toParent) /\ Len(toParent) \in Nat
      BY ElementTypes DEF Protocol
    <2>2. DOMAIN toParent' = 1 .. Len(toParent') /\ Len(toParent') \in Nat
      BY ElementTypes DEF Protocol
    <2> QED BY <2>1, <2>2
  <1>4. \A i \in DOMAIN toParent : AdmitOK(i) /\ UnderLeaseOK(i)
    BY DEF TurnInv, TurnOK
  <1>5. \A d \in Clients : Holds(d)' => Holds(d)
    BY <1>1 DEF Holds
  <1>6. ASSUME NEW i \in DOMAIN toParent', Admits(i)'
        PROVE  /\ \A d \in Clients : ~Holds(d)'
               /\ \A j \in DOMAIN toParent' : i < j => ~UnderLease(j)'
               /\ \A j \in DOMAIN toParent' : i < j /\ Admits(j)' => h # toParent'[i].client
    <2>1. CASE i \in DOMAIN toParent
      <3>1. Admits(i) /\ \A d \in Clients : ~Holds(d)
        BY <1>1, <1>4, <1>6, <2>1 DEF AdmitOK
      <3>2. \A j \in DOMAIN toParent' : i < j => ~UnderLease(j)'
        BY <1>1, <1>4, <2>1, <3>1 DEF AdmitOK
      <3>3. ASSUME NEW j \in DOMAIN toParent', i < j, Admits(j)'
            PROVE  h # toParent'[i].client
        <4>1. CASE h \in Clients => ~Inside(h) /\ NoReply(h)
          BY <1>1, <1>2, <2>1, <4>1 DEF NoReply
        <4>2. CASE lease' = lease /\ j \in DOMAIN toParent
          BY <1>1, <1>4, <2>1, <3>1, <3>3, <4>2 DEF AdmitOK
        <4> QED BY <3>3, <4>1, <4>2
      <3> QED BY <1>5, <3>1, <3>2, <3>3
    <2>2. CASE i \notin DOMAIN toParent
      <3>1. h \in Clients /\ ~Inside(h) /\ toParent'[i].client = h
        BY <1>2, <1>6, <2>2
      <3>2. \A j \in DOMAIN toParent' : i < j => j \notin DOMAIN toParent
        BY <1>3, <2>2
      <3>3. \A j \in DOMAIN toParent' : j \notin DOMAIN toParent /\ Admits(j)' => j = i
        BY <1>2, <1>6, <2>2, <3>1
      <3>4. i \in Nat
        BY ElementTypes DEF Protocol
      <3>5. \A d \in Clients : ~Holds(d)'
        BY <1>1, <3>1 DEF Holds
      <3> QED BY <3>2, <3>3, <3>4, <3>5
    <2> QED BY <2>1, <2>2
  <1>7. PICK s : s = toParent'
    OBVIOUS
  <1>8. ASSUME NEW i \in DOMAIN toParent', UnderLease(i)'
        PROVE  /\ Inside(s[i].client)
               /\ \A d \in Clients : Holds(d)' => d = s[i].client
               /\ \A j \in DOMAIN toParent' : UnderLease(j)' => i = j
    <2>1. i \in DOMAIN toParent /\ UnderLease(i) /\ s[i] = toParent[i]
      BY <1>1, <1>7, <1>8
    <2> QED BY <1>1, <1>4, <1>5, <2>1 DEF UnderLeaseOK
  <1>9. \A i \in DOMAIN toParent' : AdmitOK(i)' /\ UnderLeaseOK(i)'
    <2>1. ASSUME NEW i \in DOMAIN toParent'
          PROVE  AdmitOK(i)' /\ UnderLeaseOK(i)'
      <3>1. AdmitOK(i)'
        BY <1>6 DEF AdmitOK
      <3>2. UnderLeaseOK(i)'
        BY <1>1, <1>7, <1>8 DEF UnderLeaseOK
      <3> QED BY <3>1, <3>2
    <2> QED BY <2>1
  <1>10. EngagedKept
    <2>1. \A i \in DOMAIN toParent' : UnderLease(i)' =>
            i \in DOMAIN toParent /\ UnderLease(i) /\ toParent'[i] = toParent[i]
      BY <1>1
    <2>2. generation' = generation
      BY DEF Handles
    <2> QED BY <1>5, <2>1, <2>2 DEF EngagedKept, Engaged
  <1> QED BY <1>1, <1>9, <1>10 DEF TurnInv, TurnOK

(* Without a valid lease only a journal is opened.                          *)
LEMMA ServesUnderLease ==
    ASSUME TypeOK, Serves, NEW m, m = Head(toWorker), m.op # "openJournal", ~LeaseValid(m),
           NEW r \in Replies, toParent' = Append(toParent, r), m.awaited
    PROVE  ~r.ok
  <1>1. m \in Requests /\ toParent \in Seq(Replies)
    BY ServesShape, TakingIndexes DEF TypeOK, Shifted
  <1>2. toParent' = toParent \o Refusal(m)
    <2>1. CASE HandleAssert
      BY <2>1 DEF HandleAssert
    <2>2. CASE HandleOpen
      BY <2>2 DEF HandleOpen, Receive
    <2>3. CASE HandleSave
      BY <2>3 DEF HandleSave, SaveAllowed
    <2>4. CASE HandleSaveFails
      BY <2>4 DEF HandleSaveFails
    <2>5. ASSUME NEW result \in Results, HandleGrpc(result)
          PROVE  toParent' = toParent \o Refusal(m)
      BY <2>5 DEF HandleGrpc
    <2> QED BY <2>1, <2>2, <2>3, <2>4, <2>5 DEF Serves
  <1>3. PICK q : q = ReplyOf(m, FALSE, 0, InitialJournal, NoResult)
    OBVIOUS
  <1>4. q \in Replies /\ toParent \o Refusal(m) = Append(toParent, q)
    BY <1>1, <1>3, SendingPlain
  <1>5. ~q.ok
    BY <1>3 DEF ReplyOf
  <1>6. Append(toParent, r) = Append(toParent, q)
    BY <1>2, <1>4
  <1>7. Append(toParent, r)[Len(toParent) + 1] = r /\ Append(toParent, q)[Len(toParent) + 1] = q
    BY <1>1, <1>4, AddingIndexes
  <1> QED BY <1>6, <1>7, <1>5

(* An answer under the lease goes to the one who has it.                    *)
LEMMA ServesTurn ==
    ASSUME Protocol, Protocol', TurnInv, Serves
    PROVE  TurnInv' /\ EngagedKept
  <1>0. TypeOK /\ TalkOK
    BY DEF Protocol
  <1>1. PICK m : m = Head(toWorker)
    OBVIOUS
  <1>2. /\ Shifted /\ Answers(m)
        /\ m.op \in {"assertLease", "openJournal", "saveJournal", "grpc"}
        /\ UNCHANGED <<generation, child, calls, phase, context, store, lease, queue>>
    BY <1>0, <1>1, ServesShape
  <1>3. 1 \in DOMAIN toWorker /\ toWorker[1] = m
    BY <1>1, <1>2 DEF Shifted
  <1>4. PICK c \in Clients :
          /\ c = m.client /\ m.awaited /\ m.generation = context[c] /\ Awaits(c, m.op)
          /\ phase[c] = "running" /\ NoReply(c)
    BY <1>2, <1>3, CallersInside
  <1>5. PICK A \in SUBSET Clients :
          /\ Handles(A)
          /\ A \subseteq {c} /\ \A i \in DOMAIN queue : queue[i].client \notin A
    BY <1>1, <1>2, <1>4, AnswersHead
  <1>6. PICK r \in Replies : r.client = c /\ toParent' = Append(toParent, r)
    BY <1>2, <1>4 DEF Answers
  <1>7. /\ \A i \in DOMAIN toParent' : i \in DOMAIN toParent \/ i = Len(toParent) + 1
        /\ \A i \in DOMAIN toParent : i \in Nat /\ i <= Len(toParent) /\ toParent'[i] = toParent[i]
        /\ Len(toParent) + 1 \in DOMAIN toParent' /\ toParent'[Len(toParent) + 1] = r
        /\ Len(toParent) \in Nat
    BY <1>0, <1>6, AddingIndexes DEF TypeOK
  <1>8. PICK n \in Nat : n = Len(toParent) + 1
    BY <1>7
  <1>9. \A i \in DOMAIN queue' : ~Inside(queue'[i].client)
    <2>1. \A i \in DOMAIN queue : queue[i].client \in Clients
      BY <1>0, ElementTypes
    <2> QED BY <1>2, <2>1 DEF TurnInv, InsideOnce
  <1>10. /\ \A d : Inside(d)' = Inside(d)
         /\ \A i \in DOMAIN toParent : Admits(i)' = Admits(i) /\ UnderLease(i)' = UnderLease(i)
         /\ RequestsAwaited' /\ RepliesLast' /\ InsideOnce'
    BY <1>5, <1>9, TalkHandled
  <1>11. \A d : Holds(d)' = Holds(d)
    BY <1>2, <1>10 DEF Holds
  <1>12. ~Admits(n)'
    BY <1>2, <1>4, <1>6, <1>7, <1>8 DEF Admits, Awaits
  <1>13. UnderLease(n)' => Holds(c) /\ lease.holder = c
    <2>1. SUFFICES ASSUME UnderLease(n)' PROVE Holds(c) /\ lease.holder = c
      OBVIOUS
    <2>2. r.ok /\ m.op # "openJournal"
      BY <1>2, <1>4, <1>6, <1>7, <1>8, <2>1 DEF UnderLease, Awaits
    <2>3. LeaseValid(m)
      BY <1>0, <1>1, <1>4, <1>6, <2>2, ServesUnderLease
    <2> QED BY <1>4, <2>3 DEF LeaseValid, LeaseHolder, Holds, Inside
  <1>14. ASSUME NEW i \in DOMAIN toParent, UnderLease(n)'
         PROVE  ~Admits(i) /\ ~UnderLease(i)
    <2>1. AdmitOK(i) /\ UnderLeaseOK(i) /\ toParent[i].client # c
      BY <1>4 DEF TurnInv, TurnOK, NoReply
    <2> QED BY <1>13, <1>14, <2>1 DEF AdmitOK, UnderLeaseOK
  <1>15. ASSUME NEW i \in DOMAIN toParent
         PROVE  AdmitOK(i)' /\ UnderLeaseOK(i)'
    <2>1. AdmitOK(i) /\ UnderLeaseOK(i)
      BY DEF TurnInv, TurnOK
    <2>2. AdmitOK(i)'
      BY <1>2, <1>7, <1>8, <1>10, <1>11, <1>12, <1>14, <2>1 DEF AdmitOK
    <2>3. PICK d : d = toParent[i].client /\ d = toParent'[i].client
      BY <1>7
    <2>4. UnderLeaseOK(i)'
      BY <1>7, <1>8, <1>10, <1>11, <1>14, <2>1, <2>3 DEF UnderLeaseOK
    <2> QED BY <2>2, <2>4
  <1>16. AdmitOK(n)'
    BY <1>12 DEF AdmitOK
  <1>17. UnderLeaseOK(n)'
    <2>1. SUFFICES ASSUME UnderLease(n)'
                   PROVE  /\ Inside(toParent[n].client)'
                          /\ \A d \in Clients : Holds(d)' => d = toParent'[n].client
                          /\ \A j \in DOMAIN toParent' : UnderLease(j)' => n = j
      BY DEF UnderLeaseOK
    <2>2. toParent'[n].client = c
      BY <1>6, <1>7, <1>8
    <2>3. Inside(c)'
      BY <1>10, <1>13, <2>1 DEF Holds
    <2>4. \A d \in Clients : Holds(d)' => d = c
      BY <1>11, <1>13, <2>1 DEF Holds
    <2>5. \A j \in DOMAIN toParent' : UnderLease(j)' => n = j
      BY <1>7, <1>8, <1>10, <1>14, <2>1
    <2>6. Inside(toParent[n].client)'
      BY <2>2, <2>3 DEF Inside
    <2> QED BY <2>2, <2>4, <2>5, <2>6
  <1>18. \A i \in DOMAIN toParent' : i \in DOMAIN toParent \/ i = n
    BY <1>7, <1>8
  <1>19. EngagedKept
    <2>1. \A i \in DOMAIN toParent' : UnderLease(i)' =>
            \/ i \in DOMAIN toParent /\ UnderLease(i) /\ toParent'[i] = toParent[i]
            \/ toParent'[i].client = c /\ Holds(c)
      BY <1>6, <1>7, <1>8, <1>10, <1>13, <1>18
    <2> QED BY <1>2, <1>11, <2>1 DEF EngagedKept, Engaged
  <1> QED BY <1>10, <1>15, <1>16, <1>17, <1>18, <1>19 DEF TurnInv, TurnOK

(* The lease goes to the first in the queue, or to nobody.                  *)
LEMMA NextTurn ==
    ASSUME Protocol, Protocol', TurnInv, NextHolder, NEW A, Handles(A),
           \A a \in A : \/ queue # <<>> /\ queue[1].awaited /\ a = queue[1].client
                        \/ calls[a].op = "release"
    PROVE  TurnInv' /\ EngagedKept
  <1>0. TypeOK /\ TalkOK
    BY DEF Protocol
  <1>1. /\ UNCHANGED calls /\ Replied(A)
        /\ \A a \in A : calls[a].op # "none"
    BY DEF Handles
  <1>2. /\ \A i \in DOMAIN queue : queue[i].client \in Clients
        /\ \A i \in DOMAIN queue : ~Inside(queue[i].client)
    BY <1>0, ElementTypes DEF TurnInv, InsideOnce
  <1>3. \A i \in DOMAIN queue' : ~Inside(queue'[i].client)
    BY <1>2 DEF NextHolder
  <1>4. PICK h : h = lease'.holder
    OBVIOUS
  <1>5. /\ queue # <<>> => h = queue[1].client /\ 1 \in DOMAIN queue
        /\ queue = <<>> => h \notin Clients
    BY <1>4, SupervisorAssumption DEF NextHolder, NoLease
  <1>6. h \in Clients => ~Inside(h) /\ NoReply(h)
    <2>1. SUFFICES ASSUME queue # <<>> PROVE NoReply(h)
      BY <1>2, <1>5
    <2>2. WaiterOK(1)
      BY <1>0, <1>5, <2>1 DEF TalkOK
    <2>3. ASSUME NEW i \in DOMAIN toParent, toParent[i].client = h
          PROVE  FALSE
      <3>1. NoRequest(h)
        BY <2>3 DEF TurnInv, RepliesLast
      <3>2. Ended(h, 0)
        BY <1>5, <2>1, <2>2, <2>3 DEF WaiterOK, NoReply
      <3> QED BY <3>1, <3>2 DEF Ended, EndedBy, NoRequest
    <2> QED BY <2>3 DEF NoReply
  <1>7. ASSUME NEW a \in A
        PROVE  a = h \/ calls[a].op = "release"
    BY <1>5
  <1>8. \A a \in A : queue # <<>> /\ queue[1].awaited /\ a = queue[1].client => calls[a].op = "acquire"
    <2>1. queue # <<>> => WaiterOK(1)
      BY <1>0, <1>5 DEF TalkOK
    <2> QED BY <2>1 DEF WaiterOK, Awaits
  <1>9. ASSUME NEW i \in DOMAIN toParent', i \notin DOMAIN toParent
        PROVE  ~UnderLease(i)' /\ (Admits(i)' => toParent'[i].client = h)
    <2>1. PICK a \in A : a = toParent'[i].client
      BY <1>1, <1>9 DEF Replied
    <2>2. calls'[a].op \in {"acquire", "release"} /\ (calls'[a].op = "acquire" => a = h)
      BY <1>1, <1>7, <1>8
    <2> QED BY <2>1, <2>2 DEF UnderLease, Admits
  <1> QED BY <1>3, <1>4, <1>6, <1>9, HandledTurn

(* An acquisition.                                                          *)
LEMMA HandleAcquireTurn ==
    ASSUME Protocol, Protocol', TurnInv, HandleAcquire
    PROVE  TurnInv' /\ EngagedKept
  <1>0. TypeOK /\ TalkOK
    BY DEF Protocol
  <1>1. PICK m : m = Head(toWorker)
    OBVIOUS
  <1>2. /\ Shifted /\ m \in Requests /\ m.op = "acquire"
        /\ UNCHANGED <<generation, child, calls, phase, context, store, record, file, faults>>
        /\ \/ Answers(m) /\ Granting(m)
           \/ Answers(m) /\ UNCHANGED <<lease, queue>> /\ Refused(m)
           \/ Queueing(m)
    BY <1>0, <1>1, AcquireShape
  <1>3. /\ 1 \in DOMAIN toWorker /\ toWorker[1] = m /\ m.client \in Clients
        /\ m.awaited => Awaits(m.client, m.op)
    BY <1>1, <1>2, HeadRequest
  <1>4. ~Inside(m.client)
    BY <1>2, <1>3 DEF TurnInv, InsideOnce
  <1>5. NoReply(m.client)
    BY <1>3 DEF TurnInv, RepliesLast, NoReply, NoRequest
  <1>6. \A i \in DOMAIN queue : ~Inside(queue[i].client)
    <2>1. \A i \in DOMAIN queue : queue[i].client \in Clients
      BY <1>0, ElementTypes
    <2> QED BY <2>1 DEF TurnInv, InsideOnce
  <1>7. PICK h : h = lease'.holder
    OBVIOUS
  <1>8. CASE Answers(m) /\ UNCHANGED queue
    <2>1. PICK A \in SUBSET Clients :
            /\ Handles(A) /\ A \subseteq {m.client} /\ (~m.awaited => A = {})
      BY <1>1, <1>2, <1>8, AnswersHead
    <2>2. \A i \in DOMAIN toParent' : i \in DOMAIN toParent \/
                (toParent'[i].client = m.client /\ calls'[m.client].op = "acquire")
      BY <1>2, <1>3, <2>1 DEF Handles, Replied, Awaits
    <2>3. \A i \in DOMAIN toParent' : i \in DOMAIN toParent \/ ~UnderLease(i)'
      BY <2>2 DEF UnderLease
    <2>4. \A i \in DOMAIN queue' : ~Inside(queue'[i].client)
      BY <1>6, <1>8
    <2>5. CASE Granting(m)
      <3>1. h = m.client
        BY <1>7, <2>5 DEF Granting
      <3> QED BY <1>4, <1>5, <1>7, <2>1, <2>2, <2>3, <2>4, <3>1, HandledTurn
    <2>6. CASE UNCHANGED lease /\ Refused(m)
      <3>1. \A i \in DOMAIN toParent' : i \in DOMAIN toParent \/ ~Admits(i)'
        BY <2>6 DEF Refused, Admits
      <3> QED BY <1>7, <2>1, <2>3, <2>4, <2>6, <3>1, HandledTurn
    <2>7. CASE Queueing(m)
      <3>1. DOMAIN queue' = DOMAIN queue
        BY <1>8
      <3>2. DOMAIN Append(queue, m) # DOMAIN queue
        BY <1>0, <1>2 DEF TypeOK
      <3> QED BY <2>7, <3>1, <3>2 DEF Queueing
    <2> QED BY <1>2, <1>8, <2>5, <2>6, <2>7
  <1>9. CASE Queueing(m)
    <2>1. Handles({})
      BY <1>0, <1>2, <1>9, RepliedNone DEF Handles, Queueing
    <2>2. \A i \in DOMAIN queue' : (i \in DOMAIN queue /\ queue'[i] = queue[i]) \/ queue'[i] = m
      BY <1>0, <1>2, <1>9, AddingIndexes DEF Queueing, TypeOK
    <2>3. \A i \in DOMAIN queue' : ~Inside(queue'[i].client)
      BY <1>4, <1>6, <2>2
    <2>4. toParent' = toParent /\ lease' = lease
      BY <1>9 DEF Queueing
    <2> QED BY <1>7, <2>1, <2>3, <2>4, HandledTurn
  <1> QED BY <1>2, <1>8, <1>9 DEF Granting

(* A cancellation, a release, and the end of a lease.                       *)
LEMMA GrantsTurn ==
    ASSUME Protocol, Protocol', TurnInv, HandleCancel \/ HandleRelease \/ LeaseTimerFires
    PROVE  TurnInv' /\ EngagedKept
  <1>0. TypeOK /\ TalkOK
    BY DEF Protocol
  <1>1. PICK m : m = Head(toWorker)
    OBVIOUS
  <1>2. PICK h : h = lease'.holder
    OBVIOUS
  <1>3. \A i \in DOMAIN queue : ~Inside(queue[i].client)
    <2>1. \A i \in DOMAIN queue : queue[i].client \in Clients
      BY <1>0, ElementTypes
    <2> QED BY <2>1 DEF TurnInv, InsideOnce
  <1>4. CASE HandleCancel
    <2>1. /\ Shifted
          /\ UNCHANGED <<generation, calls, phase, context>>
          /\ \/ GrantNext(queue, <<>>)
             \/ Fewer /\ UNCHANGED <<lease, toParent>>
      BY <1>1, <1>4, CancelShape
    <2>2. CASE GrantNext(queue, <<>>)
      BY <2>1, <2>2, GrantShape, NextTurn
    <2>3. CASE Fewer /\ UNCHANGED <<lease, toParent>>
      <3>1. Handles({})
        BY <1>0, <2>1, <2>3, RepliedNone DEF Handles
      <3>2. \A i \in DOMAIN queue' : ~Inside(queue'[i].client)
        BY <1>3, <2>3 DEF Fewer
      <3> QED BY <1>2, <2>3, <3>1, <3>2, HandledTurn
    <2> QED BY <2>1, <2>2, <2>3
  <1>5. CASE HandleRelease
    <2>1. /\ Shifted /\ m \in Requests /\ m.op = "release" /\ m.awaited
          /\ UNCHANGED <<generation, calls, phase, context>>
          /\ \/ GrantNext(queue, Ok(m))
             \/ Answers(m) /\ UNCHANGED <<lease, queue>>
      BY <1>1, <1>5, ReleaseShape
    <2>2. CASE GrantNext(queue, Ok(m))
      BY <1>1, <1>5, <2>2, ReleaseGrant, NextTurn
    <2>3. CASE Answers(m) /\ UNCHANGED <<lease, queue>>
      <3>1. PICK A \in SUBSET Clients : Handles(A) /\ A \subseteq {m.client}
        BY <1>1, <2>1, <2>3, AnswersHead
      <3>2. Awaits(m.client, "release")
        BY <1>1, <2>1, HeadRequest
      <3>3. \A i \in DOMAIN toParent' : i \in DOMAIN toParent \/
                (toParent'[i].client = m.client /\ calls'[m.client].op = "release")
        BY <3>1, <3>2 DEF Handles, Replied, Awaits
      <3>4. \A i \in DOMAIN toParent' : i \in DOMAIN toParent \/ (~UnderLease(i)' /\ ~Admits(i)')
        BY <3>3 DEF UnderLease, Admits
      <3>5. \A i \in DOMAIN queue' : ~Inside(queue'[i].client)
        BY <1>3, <2>3
      <3> QED BY <1>2, <2>3, <3>1, <3>4, <3>5, HandledTurn
    <2> QED BY <2>1, <2>2, <2>3
  <1>6. CASE LeaseTimerFires
    BY <1>6, GrantShape, NextTurn DEF LeaseTimerFires, processVars
  <1> QED BY <1>4, <1>5, <1>6

(* Nothing of the talk changes.                                             *)
LEMMA QuietTurn ==
    ASSUME Protocol, Protocol', TurnInv, LeaseLapses \/ (ChainStep /\ FaultsOnly)
    PROVE  TurnInv' /\ EngagedKept
  <1>1. /\ UNCHANGED <<generation, calls, phase, context, toWorker, toParent, queue>>
        /\ lease'.holder = lease.holder
    <2>1. lease \in [holder : Clients \cup {Nobody}, lapsed : BOOLEAN]
      BY DEF Protocol, TypeOK
    <2> QED BY <2>1 DEF LeaseLapses, FaultsOnly, processVars, workerVars
  <1> QED BY <1>1 DEF TurnInv, RequestsAwaited, RepliesLast, NoRequest, InsideOnce, Inside, TurnOK,
                      AdmitOK, UnderLeaseOK, Admits, UnderLease, Holds, EngagedKept, Engaged

(* Every step of the supervisor, and every answer of the chain.             *)
LEMMA SupervisorStepKeeps ==
    ASSUME SInv, SupervisorStep \/ UNCHANGED vars
    PROVE  SInv' /\ (EngagedKept \/ \E c \in Clients : Admitted(c))
  <1>0. Protocol /\ OwnerOK /\ AdmissionOK /\ JournalOK /\ TurnInv
    BY DEF SInv
  <1>1. CASE [SupervisorNext]_vars
    <2>1. Protocol'
      BY <1>0, <1>1, ProtocolNext
    <2>2. OwnerOK' /\ AdmissionOK' /\ JournalOK'
      BY <1>0, <1>1, <2>1, OwnerNext, AdmissionNext, JournalNext
    <2>3. TurnInv' /\ (EngagedKept \/ \E c \in Clients : Admitted(c))
      <3>1. ASSUME NEW c \in Clients, ClientCalls(c) \/ Release(c)
            PROVE  TurnInv' /\ (EngagedKept \/ \E d \in Clients : Admitted(d))
        BY <1>0, <3>1, ClientCallsTurn
      <3>2. ASSUME NEW c \in Clients, HandleReply(c)
            PROVE  TurnInv' /\ (EngagedKept \/ \E d \in Clients : Admitted(d))
        BY <1>0, <3>2, HandleReplyTurn
      <3>3. ASSUME NEW c \in Clients, AcquireTimesOut(c) \/ RpcTimesOut(c)
            PROVE  TurnInv' /\ (EngagedKept \/ \E d \in Clients : Admitted(d))
        BY <1>0, <2>1, <3>3, TimesOutTurn
      <3>4. CASE HandleRequest
        BY <1>0, <2>1, <3>4, HandleAcquireTurn, GrantsTurn, ServesTurn DEF HandleRequest, Serves
      <3>5. CASE LeaseLapses \/ LeaseTimerFires
        BY <1>0, <2>1, <3>5, QuietTurn, GrantsTurn
      <3>6. CASE Processes
        BY <1>0, <2>1, <3>6, ProcessesTurn
      <3>7. CASE UNCHANGED vars
        BY <1>0, <3>7 DEF vars, processVars, workerVars, TurnInv, RequestsAwaited, RepliesLast, NoRequest,
              InsideOnce, Inside, TurnOK, AdmitOK, UnderLeaseOK, Admits, UnderLease, Holds,
              EngagedKept, Engaged
      <3> QED BY <1>1, <3>1, <3>2, <3>3, <3>4, <3>5, <3>6, <3>7 DEF SupervisorNext
    <2> QED BY <2>1, <2>2, <2>3 DEF SInv
  <1>2. CASE ChainStep
    <2>1. Protocol'
      BY <1>0, <1>2, ChainProtocol
    <2>2. OwnerOK' /\ AdmissionOK' /\ JournalOK'
      BY <1>0, <1>2, <2>1, ChainOwner, ChainAdmission, ChainJournal
    <2>3. TurnInv' /\ (EngagedKept \/ \E c \in Clients : Admitted(c))
      <3>1. CASE FaultsOnly
        BY <1>0, <1>2, <2>1, <3>1, QuietTurn
      <3>2. CASE Serves
        BY <1>0, <2>1, <3>2, ServesTurn
      <3> QED BY <1>2, <3>1, <3>2 DEF ChainStep, Serves
    <2> QED BY <2>1, <2>2, <2>3 DEF SInv
  <1> QED BY <1>1, <1>2 DEF SupervisorStep

--------------------------------------------------------------------------------
(* Types: every step of the transactions is a step of the supervisor.       *)

(* No intent is for more than one unit for each transfer so far, and the    *)
(* node has received no more than that for each executed transaction.       *)
Small(delta) == -intents <= delta /\ delta <= intents

(* Amounts are as large as the intents that made them; TLC's bound on       *)
(* results of the chain is no constraint.                                   *)
FuelBounded ==
    /\ Small(memory.delta) /\ Small(disk.delta)
    /\ \A c \in Clients : Small(seen[c].delta)
    /\ \A tx \in DOMAIN made : Small(made[tx].delta)
    /\ chainFuel <= MaxIntents * Cardinality(Executed)

(* A larger factor makes a larger product.                                  *)
LEMMA Products ==
    ASSUME NEW k \in Nat, NEW n \in Nat, NEW m \in Nat, n <= m
    PROVE  k * n <= k * m /\ k * n \in Nat /\ k * (n + 1) = k * n + k
  OBVIOUS

(* The constants of the transactions.                                       *)
LEMMA TransactionConstants ==
    /\ Txs \in SUBSET Nat /\ NoTx = 0 /\ NoTx \notin Txs
    /\ Journals = Txs \cup {NoTx} /\ InitialJournal = NoTx
    /\ \A tx \in Txs : 0 < tx /\ tx <= MaxTxs
    /\ \A kind \in {"query", "execute", "proof", "wait", "read", "build"}, tx \in Txs \cup {NoTx} :
         [kind |-> kind, tx |-> tx] \in Bodies
    /\ NoResult \in Results
    /\ \A found \in BOOLEAN, fuel \in 0 .. MaxIntents * MaxTxs :
         [found |-> found, fuel |-> fuel] \in Results
    /\ \A result \in Results : result # NoResult => result.found \in BOOLEAN /\ result.fuel \in Nat
  <1>1. MaxTxs \in Nat /\ MaxIntents \in Nat
    BY TransactionsAssumption
  <1>2. MaxIntents * MaxTxs \in Nat
    BY <1>1, Products
  <1>3. Txs \in SUBSET Nat /\ NoTx \notin Txs /\ \A tx \in Txs : 0 < tx /\ tx <= MaxTxs
    BY <1>1 DEF Txs, NoTx
  <1>4. /\ NoResult \in Results
        /\ Results = [found : BOOLEAN, fuel : 0 .. MaxIntents * MaxTxs] \cup {NoResult}
        /\ Bodies = [kind : {"query", "execute", "proof", "wait", "read", "build"}, tx : Txs \cup {NoTx}]
        /\ Journals = Txs \cup {NoTx} /\ InitialJournal = NoTx /\ NoTx = 0
    BY TransactionsAssumption, SupervisorAssumption DEF RpcBodies, RpcResults, NoTx
  <1>5. \A result \in Results : result # NoResult => result.found \in BOOLEAN /\ result.fuel \in Nat
    BY <1>2, <1>4
  <1>6. \A found \in BOOLEAN, fuel \in 0 .. MaxIntents * MaxTxs : [found |-> found, fuel |-> fuel] \in Results
    BY <1>4
  <1>7. \A kind \in {"query", "execute", "proof", "wait", "read", "build"}, tx \in Txs \cup {NoTx} :
         [kind |-> kind, tx |-> tx] \in Bodies
    BY <1>4
  <1> QED BY <1>3, <1>4, <1>5, <1>6, <1>7

(* What the node holds is an answer of the chain.                           *)
LEMMA ChainFuelBound ==
    ASSUME TransactionsTypeOK, FuelBounded
    PROVE  chainFuel \in 0 .. MaxIntents * MaxTxs
  <1>1. MaxTxs \in Nat /\ MaxIntents \in Nat /\ chainFuel \in Nat
    BY TransactionsAssumption DEF TransactionsTypeOK
  <1>2. Executed \subseteq 1 .. MaxTxs /\ IsFiniteSet(1 .. MaxTxs) /\ Cardinality(1 .. MaxTxs) = MaxTxs
    BY <1>1, FS_Interval DEF Executed, Txs
  <1>3. Cardinality(Executed) \in Nat /\ Cardinality(Executed) <= MaxTxs
    BY <1>2, <1>1, FS_Subset, FS_CardinalityType
  <1>4. PICK n \in Nat : n = Cardinality(Executed)
    BY <1>3
  <1>5. MaxIntents * n <= MaxIntents * MaxTxs
    BY <1>1, <1>3, <1>4, Products
  <1>6. chainFuel <= MaxIntents * n /\ MaxIntents * n \in Nat /\ MaxIntents * MaxTxs \in Nat
    BY <1>1, <1>4, Products DEF FuelBounded
  <1> QED BY <1>1, <1>5, <1>6

(* The requests that the steps make are among those of the supervisor.      *)
LEMMA StepCalls ==
    ASSUME TransactionsTypeOK, NEW c \in Clients, Step(c)
    PROVE  ClientCalls(c) \/ Release(c) \/ UNCHANGED vars
  <1>1. pending[c] \in Txs \cup {NoTx}
    BY DEF TransactionsTypeOK
  <1>2. ASSUME NEW kind \in {"query", "execute", "proof", "wait", "read", "build"}, CallChain(c, kind)
        PROVE  ClientCalls(c) \/ UNCHANGED vars
    <2>1. [kind |-> kind, tx |-> pending[c]] \in Bodies
      BY <1>1, TransactionConstants
    <2> QED BY <1>2, <2>1 DEF CallChain, Throws, ClientCalls
  <1>3. CASE Read(c)
    BY <1>2, <1>3 DEF Read
  <1>4. CASE Inquire(c)
    BY <1>2, <1>4 DEF Inquire
  <1>5. CASE Open(c) \/ Assert(c)
    BY <1>5 DEF Open, Assert, ClientCalls, Throws
  <1>6. NoTx \in Journals
    BY TransactionConstants
  <1>7. CASE Journal(c)
    <2>1. made \in Seq(Transactions)
      BY DEF TransactionsTypeOK
    <2>2. Len(made) \in Nat /\ MaxTxs \in Nat
      BY <2>1, TransactionsAssumption, Elements
    <2>3. Len(made) < MaxTxs => Len(made) + 1 \in Journals
      BY <2>2, TransactionConstants DEF Txs
    <2> QED BY <1>7, <2>3 DEF Journal, ClientCalls, Throws
  <1>8. CASE Retire(c) \/ Finish(c)
    BY <1>6, <1>8 DEF Retire, Finish, ClientCalls, Throws
  <1>9. CASE End(c)
    BY <1>9 DEF End
  <1> QED BY <1>3, <1>4, <1>5, <1>7, <1>8, <1>9 DEF Step

(* The answers of the chain are among those of the supervisor.              *)
LEMMA RpcAnswers ==
    ASSUME TransactionsTypeOK, FuelBounded, HandleRpc
    PROVE  ChainStep
  <1>1. chainFuel \in 0 .. MaxIntents * MaxTxs
    BY ChainFuelBound
  <1>2. 0 \in 0 .. MaxIntents * MaxTxs
    <2>1. MaxIntents \in Nat /\ MaxTxs \in Nat
      BY TransactionsAssumption
    <2> QED BY <2>1, Products
  <1>3. /\ NoResult \in Results
        /\ \A found \in BOOLEAN : Found(found) \in Results
        /\ [found |-> TRUE, fuel |-> chainFuel] \in Results
    BY <1>1, <1>2, TransactionConstants DEF Found
  <1>4. PICK body : body = Head(toWorker).body
    OBVIOUS
  <1>5. /\ Settled(body.tx) \in BOOLEAN /\ (chain[body.tx] = "dead") \in BOOLEAN
        /\ Affordable(seen[Syncer].delta) \in BOOLEAN /\ TRUE \in BOOLEAN
    BY DEF Settled, Affordable
  <1>6. CASE HandleGrpc(NoResult) /\ UNCHANGED <<chainVars, faults>>
    BY <1>3, <1>6 DEF ChainStep
  <1>7. CASE Serve(body)
    <2>1. FaultHappens \/ UNCHANGED faults
      BY <1>7 DEF Serve, Executes
    <2>2. \E result \in Results : HandleGrpc(result)
      BY <1>3, <1>5, <1>7 DEF Serve
    <2> QED BY <2>1, <2>2 DEF ChainStep
  <1> QED BY <1>4, <1>6, <1>7 DEF HandleRpc

(* Every step of the transactions is one of the supervisor, or none of its. *)
LEMMA StepsOfSupervisor ==
    ASSUME TransactionsTypeOK, FuelBounded, [TransactionsNext]_allVars
    PROVE  SupervisorStep \/ UNCHANGED vars
  <1>1. ASSUME NEW c \in Clients, Step(c)
        PROVE  SupervisorStep \/ UNCHANGED vars
    BY <1>1, StepCalls DEF SupervisorStep, SupervisorNext
  <1>2. ASSUME NEW c \in Clients, Reply(c)
        PROVE  HandleReply(c)
    BY <1>2 DEF Reply, Begins, Opened, Asserted, Informed, Saved, PassReads, TransferReads, TransferFails,
                HandleReply
  <1>3. ASSUME NEW c \in Clients, ClientEvent(c)
        PROVE  SupervisorStep
    BY <1>2, <1>3 DEF ClientEvent, RpcFails, SupervisorStep, SupervisorNext, ClientCalls
  <1>4. CASE ServerEvent
    BY <1>3, <1>4 DEF ServerEvent, ExitSeen, FlushItems, SupervisorStep, SupervisorNext, Processes
  <1>5. CASE ChildStep
    BY <1>5, RpcAnswers DEF ChildStep, HandleAnything, SupervisorStep, SupervisorNext, HandleRequest
  <1>6. CASE (LeaseLapses \/ ChildDies \/ ChannelCloses) /\ UNCHANGED txVars
    BY <1>6 DEF SupervisorStep, SupervisorNext, Processes
  <1>7. CASE ExecutesLate \/ Superseded
    BY <1>7 DEF ExecutesLate, Superseded, Executes, SupervisorStep, ChainStep, FaultsOnly
  <1>8. CASE Crash
    BY <1>8 DEF Crash, SupervisorStep, SupervisorNext, Processes
  <1>9. CASE UNCHANGED allVars
    BY <1>9 DEF allVars
  <1> QED BY <1>1, <1>4, <1>5, <1>6, <1>7, <1>8, <1>9 DEF TransactionsNext, Environment

--------------------------------------------------------------------------------
(* The invariant of the transactions.                                       *)

(* Places of a client that calls the chain.                                 *)
Rpcs == {"query", "execute", "proof", "wait", "read", "build"}

(* The journal has a pending transaction, *)
Recovering == {"query", "assert", "execute", "proof", "retire", "wait", "finish", "settled", "concluded"}

(* or it has none. *)
Fresh == {"read", "build", "journal"}

(* A client awaits the call of its place; two places are those of a call    *)
(* that has been made.                                                      *)
Expects(c) ==
    \/ calls[c].op = "none" /\ pc[c] \notin {"settled", "concluded"}
    \/ calls[c].op = "grpc" /\ pc[c] \in Rpcs
    \/ calls[c].op = "openJournal" /\ pc[c] = "open"
    \/ calls[c].op = "assertLease" /\ pc[c] = "assert"
    \/ calls[c].op = "saveJournal" /\ pc[c] \in {"journal", "retire", "settled", "concluded"}

PlaceOK(c) ==
    /\ phase[c] = "running" <=> pc[c] # "start"
    /\ phase[c] = "running" => Expects(c)

(* The context of an action is its lease's from the first guard on.  Only   *)
(* the syncer opens a journal, and not the one that is open.                *)
ContextOK(c) ==
    /\ \/ pc[c] \in {"execute", "proof", "retire", "settled", "concluded"}
       \/ pc[c] \in {"assert", "journal"} /\ calls[c].op # "none"
       => using[c] = context[c]
    /\ using[c] <= store.generation
    /\ pc[c] = "open" => c = Syncer /\ store.generation # generation
    /\ calls[c].op = "saveJournal" /\ context[c] = generation => store.generation = generation

(* What a client knows of the transaction it recovers stays true.           *)
RecoveryOK(c) ==
    /\ pc[c] \in Recovering => pending[c] \in DOMAIN made
    /\ pc[c] \in {"wait", "finish", "settled", "concluded"} => Settled(pending[c])
    /\ pc[c] = "retire" => chain[pending[c]] = "dead"
    /\ pc[c] = "journal" /\ calls[c].op # "none" => calls[c].journal \in DOMAIN made
    /\ pc[c] \in {"retire", "settled", "concluded"} => calls[c].op = "none" \/ calls[c].journal = NoTx

(* The call the worker holds is the one its client's place asks for.        *)
BodyOK(i) ==
    LET m == toWorker[i] IN
    m.op = "grpc" => m.body = [kind |-> pc[m.client], tx |-> pending[m.client]]

(* Every answer is true when it arrives.                                    *)
AnswerTrue(i) ==
    LET r == toParent[i]
        c == toParent[i].client
    IN
    /\ calls[c].op = "grpc" /\ r.ok =>
         /\ r.result # NoResult
         /\ r.result.found /\ pc[c] \in {"query", "execute", "wait"} => Settled(pending[c])
         /\ r.result.found /\ pc[c] = "proof" => chain[pending[c]] = "dead"
    /\ calls[c].op = "openJournal" => r.journal = file
    /\ calls[c].op = "saveJournal" /\ r.ok => file = calls[c].journal

(* Only transactions that were built have a fate or are journalled.         *)
KnownOK ==
    /\ \A tx \in Txs \ DOMAIN made : chain[tx] = "unknown"
    /\ file = NoTx \/ file \in DOMAIN made
    /\ store.journal = NoTx \/ store.journal \in DOMAIN made

(* What a client has in hand,                                               *)
ClientOK(c) == PlaceOK(c) /\ ContextOK(c) /\ RecoveryOK(c)

(* and what it is told.                                                     *)
TalkTrue ==
    /\ \A i \in DOMAIN toWorker : BodyOK(i)
    /\ \A i \in DOMAIN toParent : AnswerTrue(i)

(* Who is engaged works on the journal that is in the file: it recovers the *)
(* transaction there, or nothing that is there can still happen or has.     *)
SyncOK(c) ==
    Engaged(c) =>
      /\ using[c] = generation /\ pc[c] \in Recovering => pending[c] = store.journal
      /\ using[c] = generation /\ pc[c] \in Fresh => store.journal = NoTx
      /\ pc[c] \in Fresh => file = NoTx \/ chain[file] \in {"unknown", "dead"}
      /\ pc[c] = "journal" /\ calls[c].op # "none" => chain[calls[c].journal] \in {"unknown", "dead"}

(* A save under the lease whose answer is under way. *)
Saving == \E i \in DOMAIN toParent : UnderLease(i) /\ calls[toParent[i].client].op = "saveJournal"

(* An answer under the lease is under way.                                  *)
Answering == \E i \in DOMAIN toParent : UnderLease(i)

(* The parent's journal is the one in the file, up to a save it is about to *)
(* learn of; and in every process when the transaction there may have       *)
(* happened.                                                                *)
StoreOK ==
    /\ store.generation = generation /\ (child = "up" \/ Answering) => store.journal = file \/ Saving
    /\ store.generation # 0 /\ file # NoTx /\ chain[file] \in {"sent", "done", "failed"} =>
         store.journal = file

(* The inductive invariant of the journal.                                  *)
JournalInv ==
    /\ TransactionsTypeOK /\ FuelBounded
    /\ SInv
    /\ \A c \in Clients : ClientOK(c)
    /\ TalkTrue /\ KnownOK
    /\ \A c \in Clients : SyncOK(c)
    /\ StoreOK /\ OneUncertain

--------------------------------------------------------------------------------
(* Types of the transactions.                                               *)

(* The parts that are proved together.                                      *)
DataTypes ==
    /\ submitted \in BOOLEAN
    /\ seen \in [Clients -> Items]
    /\ memory \in Items /\ disk \in Items
    /\ intents \in 0 .. MaxIntents /\ flushed \in 0 .. intents
    /\ made \in Seq(Transactions) /\ Len(made) <= MaxTxs
    /\ excused \subseteq Excuses
    /\ Small(memory.delta) /\ Small(disk.delta)
    /\ \A c \in Clients : Small(seen[c].delta)
    /\ \A tx \in DOMAIN made : Small(made[tx].delta)

(* Types of a client's own state,                                           *)
ClientTypes ==
    /\ pc \in [Clients -> Places]
    /\ using \in [Clients -> Nat]
    /\ pending \in [Clients -> Txs \cup {NoTx}]

(* and of the chain's.                                                      *)
ChainData ==
    /\ chain \in [Txs -> Fates]
    /\ chainFuel \in Nat
    /\ chainFuel <= MaxIntents * Cardinality(Executed)

(* Together they are the types and the bounds.                              *)
LEMMA TypesTogether ==
    ASSUME TypeOK
    PROVE  TransactionsTypeOK /\ FuelBounded <=> DataTypes /\ ClientTypes /\ ChainData
  BY DEF TransactionsTypeOK, FuelBounded, DataTypes, ClientTypes, ChainData

(* An acknowledgment, an observation and a transfer leave small items.      *)
LEMMA ItemsTypes ==
    ASSUME NEW items \in Items, intents \in Nat, Small(items.delta)
    PROVE  /\ \A intent : Acknowledge(items, intent) \in Items /\ Small(Acknowledge(items, intent).delta)
           /\ \A fuel \in Nat : Observe(items, fuel) \in Items /\ Observe(items, fuel).delta = items.delta
           /\ \A amount \in {1, -1} : CanTransfer(items, amount) =>
                /\ Transfer(items, amount) \in Items
                /\ -(intents + 1) <= Transfer(items, amount).delta
                /\ Transfer(items, amount).delta <= intents + 1
  <1>1. items.inventory \in Nat /\ items.observed \in Nat /\ items.intent \in Nat /\ items.delta \in Int
    BY DEF Items
  <1>2. Projected(items) \in Nat
    BY <1>1 DEF Projected, Conflicts
  <1>3. ASSUME NEW intent
        PROVE  Acknowledge(items, intent) \in Items /\ Small(Acknowledge(items, intent).delta)
    <2>1. CASE Acknowledge(items, intent) = items
      BY <2>1
    <2>2. CASE Acknowledge(items, intent)
                 = [items EXCEPT !.observed = Projected(items), !.intent = NoIntent, !.delta = 0]
      <3>1. PICK z : z = [items EXCEPT !.observed = Projected(items), !.intent = NoIntent, !.delta = 0]
        OBVIOUS
      <3>2. z = [inventory |-> items.inventory, observed |-> Projected(items), intent |-> 0, delta |-> 0]
        BY <3>1 DEF Items, NoIntent
      <3>3. z \in Items /\ z.delta = 0
        BY <1>1, <1>2, <3>2 DEF Items
      <3> QED BY <2>2, <3>1, <3>3 DEF Small
    <2> QED BY <2>1, <2>2 DEF Acknowledge
  <1>4. \A fuel \in Nat : Observe(items, fuel) \in Items /\ Observe(items, fuel).delta = items.delta
    BY <1>1 DEF Observe, Items
  <1>5. ASSUME NEW amount \in {1, -1}, CanTransfer(items, amount)
        PROVE  /\ Transfer(items, amount) \in Items
               /\ -(intents + 1) <= Transfer(items, amount).delta
               /\ Transfer(items, amount).delta <= intents + 1
    <2>1. Projected(items) = items.observed + items.delta /\ items.inventory - amount \in Nat
      BY <1>1, <1>5 DEF CanTransfer, Projected, Conflicts
    <2>2. PICK delta \in Int : delta = Projected(items) + amount - items.observed
      BY <1>1, <1>2
    <2>3. -(intents + 1) <= delta /\ delta <= intents + 1
      BY <1>1, <2>1, <2>2 DEF Small
    <2> QED BY <1>1, <2>1, <2>2, <2>3 DEF Transfer, Items, NoIntent
  <1> QED BY <1>3, <1>4, <1>5

(* A change of one client.                                                  *)
LEMMA GotoTypes ==
    ASSUME ClientTypes, NEW c \in Clients, NEW place \in Places, Goto(c, place)
    PROVE  pc' \in [Clients -> Places]
  BY DEF ClientTypes, Goto

(* What a client is told to recover is a transaction.                       *)
LEMMA RecoversTypes ==
    ASSUME ClientTypes, NEW c \in Clients, NEW journal \in Txs \cup {NoTx}, Recovers(c, journal)
    PROVE  pc' \in [Clients -> Places] /\ pending' \in [Clients -> Txs \cup {NoTx}]
  BY DEF ClientTypes, Recovers, Goto, Places

(* No snapshot is as good as an empty one.                                  *)
LEMMA NoItemsTypes ==
    ASSUME DataTypes
    PROVE  NoItems \in Items /\ Small(NoItems.delta)
  <1>1. MaxIntents \in Nat /\ intents \in 0 .. MaxIntents
    BY TransactionsAssumption DEF DataTypes
  <1>2. intents \in Nat
    BY <1>1
  <1> QED BY <1>2 DEF NoItems, NoIntent, Items, Small

(* The steps of a client.                                                   *)
LEMMA StepTypes ==
    ASSUME DataTypes, ClientTypes, ChainData, NEW c \in Clients, Step(c)
    PROVE  DataTypes' /\ ClientTypes' /\ ChainData'
  <1>1. /\ UNCHANGED <<chainVars, disk, flushed, intents, excused>>
        /\ \A place \in {"end", "start", "settled", "concluded"} : Goto(c, place) => pc' \in [Clients -> Places]
    BY GotoTypes DEF Step, Read, Inquire, Open, Assert, Journal, Retire, Finish, End, txVars, Places
  <1>2. ChainData'
    BY <1>1 DEF ChainData, chainVars, Executed
  <1>3. ASSUME NEW kind, CallChain(c, kind)
        PROVE  pc' \in [Clients -> Places]
    BY <1>1, <1>3 DEF CallChain, Throws, ClientTypes
  <1>4. CASE Read(c)
    <2>1. UNCHANGED <<using, pending, submitted, memory, made>> /\ seen' = [seen EXCEPT ![c] = memory]
      BY <1>4 DEF Read
    <2>2. seen' \in [Clients -> Items] /\ \A d \in Clients : Small(seen'[d].delta)
      BY <2>1 DEF DataTypes
    <2> QED BY <1>1, <1>2, <1>3, <1>4, <2>1, <2>2 DEF Read, DataTypes, ClientTypes, Small
  <1>5. CASE Inquire(c)
    BY <1>1, <1>2, <1>3, <1>5 DEF Inquire, DataTypes, ClientTypes, Small
  <1>6. CASE Open(c)
    BY <1>1, <1>2, <1>6 DEF Open, txVars, DataTypes, ClientTypes, Small
  <1>7. CASE Assert(c) \/ Retire(c)
    BY <1>1, <1>2, <1>7 DEF Assert, Retire, Throws, DataTypes, ClientTypes, Small
  <1>8. CASE Journal(c)
    <2>1. /\ UNCHANGED <<using, pending, submitted, seen, memory>>
          /\ pc' \in [Clients -> Places]
          /\ \/ UNCHANGED made
             \/ /\ Len(made) < MaxTxs
                /\ made' = Append(made, [intent |-> seen[c].intent, delta |-> seen[c].delta])
      BY <1>1, <1>8 DEF Journal, Throws, ClientTypes
    <2>2. PICK t : t = [intent |-> seen[c].intent, delta |-> seen[c].delta]
      OBVIOUS
    <2>3. t \in Transactions /\ Small(t.delta) /\ made \in Seq(Transactions) /\ MaxTxs \in Nat
      BY <2>2, TransactionsAssumption DEF DataTypes, Items, Transactions
    <2>4. CASE Len(made) < MaxTxs /\ made' = Append(made, t)
      <3>1. made' \in Seq(Transactions) /\ Len(made') = Len(made) + 1 /\ Len(made) \in Nat
        BY <2>3, <2>4
      <3>2. \A tx \in DOMAIN made' : Small(made'[tx].delta)
        <4>1. \A tx \in DOMAIN made' : (tx \in DOMAIN made /\ made'[tx] = made[tx]) \/ made'[tx] = t
          BY <2>3, <2>4, AddingIndexes
        <4> QED BY <2>3, <4>1 DEF DataTypes
      <3>3. Len(made') <= MaxTxs
        BY <2>3, <2>4, <3>1
      <3>4. DataTypes'
        BY <1>1, <2>1, <3>1, <3>2, <3>3 DEF DataTypes, Small
      <3>5. ClientTypes'
        BY <2>1 DEF ClientTypes
      <3> QED BY <1>2, <3>4, <3>5
    <2>5. CASE UNCHANGED made
      BY <1>1, <1>2, <2>1, <2>5 DEF DataTypes, ClientTypes, Small
    <2> QED BY <2>1, <2>2, <2>4, <2>5
  <1>9. CASE Finish(c)
    <2>1. /\ UNCHANGED <<using, pending, submitted, seen, made>>
          /\ \/ memory' = memory
             \/ memory' = Acknowledge(memory, made[pending[c]].intent)
          /\ \/ Goto(c, "settled") \/ Goto(c, "concluded") \/ Goto(c, "end")
      BY <1>9 DEF Finish, Throws
    <2>2. memory' \in Items /\ Small(memory'.delta)
      <3>1. MaxIntents \in Nat /\ memory \in Items /\ intents \in 0 .. MaxIntents /\ Small(memory.delta)
        BY TransactionsAssumption DEF DataTypes
      <3>2. intents \in Nat
        BY <3>1
      <3> QED BY <2>1, <3>1, <3>2, ItemsTypes
    <2>3. pc' \in [Clients -> Places]
      BY <1>1, <2>1
    <2> QED BY <1>1, <1>2, <2>1, <2>2, <2>3 DEF DataTypes, ClientTypes, Small
  <1>10. CASE End(c)
    <2>1. seen' = [seen EXCEPT ![c] = NoItems] /\ UNCHANGED <<memory, made>> /\ submitted' \in BOOLEAN
      BY <1>10 DEF End, DataTypes
    <2>2. seen' \in [Clients -> Items] /\ \A d \in Clients : Small(seen'[d].delta)
      BY <2>1, NoItemsTypes DEF DataTypes
    <2>3. DataTypes'
      BY <1>1, <2>1, <2>2 DEF DataTypes, Small
    <2>4. ClientTypes'
      BY <1>1, <1>10, TransactionConstants DEF End, ClientTypes
    <2> QED BY <1>2, <2>3, <2>4
  <1> QED BY <1>4, <1>5, <1>6, <1>7, <1>8, <1>9, <1>10 DEF Step

(* The reply that is received is the first one.                             *)
LEMMA HeadReply ==
    ASSUME TypeOK, NEW c, NEW op, Answered(c, op)
    PROVE  /\ Head(toParent) \in Replies /\ Head(toParent) = toParent[1] /\ 1 \in DOMAIN toParent
           /\ toParent[1].client = c /\ calls[c].op = op
  BY TakingIndexes DEF Answered, TypeOK

(* An observation of the chain has its fuel.                                *)
LEMMA ObservedFuel ==
    ASSUME TypeOK, \A i \in DOMAIN toParent : AnswerTrue(i), NEW c, GrpcAnswered(c)
    PROVE  /\ Head(toParent).ok \in BOOLEAN
           /\ Head(toParent).ok => /\ Head(toParent).result.fuel \in Nat
                                   /\ Head(toParent).result.found \in BOOLEAN
  <1>1. PICK r : r = Head(toParent)
    OBVIOUS
  <1>2. r \in Replies /\ r = toParent[1] /\ 1 \in DOMAIN toParent /\ r.client = c /\ calls[c].op = "grpc"
    BY <1>1, HeadReply DEF GrpcAnswered
  <1>3. r.ok => r.result # NoResult
    BY <1>2 DEF AnswerTrue
  <1> QED BY <1>1, <1>2, <1>3, TransactionConstants DEF Replies

(* The answers to a client.                                                 *)
LEMMA ReplyTypes ==
    ASSUME TypeOK, DataTypes, ClientTypes, ChainData, \A i \in DOMAIN toParent : AnswerTrue(i),
           TypeOK', NEW c \in Clients, Reply(c)
    PROVE  DataTypes' /\ ClientTypes' /\ ChainData'
  <1>1. UNCHANGED <<chainVars, made>>
    BY DEF Reply, Begins, Opened, Asserted, Informed, Saved, PassReads, TransferReads, TransferFails, txVars
  <1>2. ChainData'
    BY <1>1 DEF ChainData, chainVars, Executed
  <1>3. /\ MaxIntents \in Nat /\ memory \in Items /\ disk \in Items /\ seen \in [Clients -> Items]
        /\ intents \in 0 .. MaxIntents /\ flushed \in 0 .. intents
        /\ Small(memory.delta) /\ Small(disk.delta) /\ \A d \in Clients : Small(seen[d].delta)
        /\ \A tx \in DOMAIN made : Small(made[tx].delta)
    BY TransactionsAssumption DEF DataTypes
  <1>4. store \in [generation : Nat, revision : Nat, journal : Txs \cup {NoTx}]
    BY TransactionConstants DEF TypeOK
  <1>5. store' \in [generation : Nat, revision : Nat, journal : Txs \cup {NoTx}]
    BY TransactionConstants DEF TypeOK
  <1>6. \A place \in Places : Goto(c, place) => pc' \in [Clients -> Places]
    BY GotoTypes
  <1>7. \A journal \in Txs \cup {NoTx} : Recovers(c, journal) =>
          pc' \in [Clients -> Places] /\ pending' \in [Clients -> Txs \cup {NoTx}]
    BY RecoversTypes
  <1>8. CASE Begins(c)
    <2>1. /\ UNCHANGED <<submitted, seen, memory, disk, flushed, intents, made, excused>>
          /\ \/ /\ using' = [using EXCEPT ![c] = store.generation]
                /\ Recovers(c, store.journal)
             \/ /\ UNCHANGED <<using, pending>>
                /\ Goto(c, "start") \/ Goto(c, "open") \/ Goto(c, "end")
      BY <1>8 DEF Begins
    <2>2. ClientTypes'
      BY <1>4, <1>6, <1>7, <2>1 DEF ClientTypes, Places
    <2> QED BY <1>2, <2>1, <2>2 DEF DataTypes, Small
  <1>9. CASE Opened(c)
    <2>1. /\ UNCHANGED <<submitted, seen, memory, disk, flushed, intents, made, excused>>
          /\ using' = [using EXCEPT ![c] = store'.generation]
          /\ Recovers(c, store'.journal)
      BY <1>9 DEF Opened
    <2>2. ClientTypes'
      BY <1>5, <1>7, <2>1 DEF ClientTypes
    <2> QED BY <1>2, <2>1, <2>2 DEF DataTypes, Small
  <1>10. CASE Asserted(c) \/ Informed(c) \/ TransferFails(c)
    <2>1. /\ UNCHANGED <<using, pending, submitted, seen, memory, disk, flushed, intents, made, excused>>
          /\ \E place \in Places : Goto(c, place)
      BY <1>10 DEF Asserted, Informed, TransferFails, Places
    <2>2. ClientTypes'
      BY <1>6, <2>1 DEF ClientTypes
    <2> QED BY <1>2, <2>1, <2>2 DEF DataTypes, Small
  <1>11. CASE Saved(c)
    <2>1. /\ UNCHANGED <<using, seen, memory, disk, flushed, intents, made, excused>>
          /\ Head(toParent).ok \in BOOLEAN
      BY <1>11, HeadReply DEF Saved, SaveAnswered, Replies
    <2>2. submitted' \in BOOLEAN
      BY <1>11 DEF Saved, DataTypes
    <2>3. calls[c].journal \in Txs \cup {NoTx}
      BY TransactionConstants DEF TypeOK, Calls
    <2>4. \/ Recovers(c, calls[c].journal)
          \/ Goto(c, "end") /\ UNCHANGED pending
      BY <1>11 DEF Saved
    <2>5. ClientTypes'
      BY <1>6, <1>7, <2>1, <2>3, <2>4 DEF ClientTypes, Places
    <2> QED BY <1>2, <2>1, <2>2, <2>5 DEF DataTypes, Small
  <1>12. CASE PassReads(c)
    <2>1. PICK fuel : fuel = Head(toParent).result.fuel
      OBVIOUS
    <2>2. Observed(c) => fuel \in Nat
      BY <1>12, <2>1, ObservedFuel DEF PassReads, Observed, Positive
    <2>3. /\ UNCHANGED <<using, pending, submitted, disk, flushed, intents, made, excused>>
          /\ memory' = memory \/ (fuel \in Nat /\ memory' = Observe(memory, fuel))
          /\ seen' = [seen EXCEPT ![c] = memory']
          /\ Goto(c, "build") \/ Goto(c, "end")
      BY <1>12, <2>1, <2>2 DEF PassReads
    <2>4. memory' \in Items /\ memory'.delta = memory.delta
      <3>1. intents \in Nat
        BY <1>3
      <3> QED BY <1>3, <2>3, <3>1, ItemsTypes
    <2>5. seen' \in [Clients -> Items] /\ \A d \in Clients : Small(seen'[d].delta)
      BY <1>3, <2>3, <2>4
    <2>6. ClientTypes'
      BY <1>6, <2>3 DEF ClientTypes, Places
    <2>7. DataTypes'
      BY <1>3, <2>3, <2>4, <2>5 DEF DataTypes, Small
    <2> QED BY <1>2, <2>6, <2>7
  <1>13. CASE TransferReads(c)
    <2>1. PICK fuel \in Nat : fuel = Head(toParent).result.fuel
      BY <1>13, ObservedFuel DEF TransferReads, Observed, Positive
    <2>2. PICK fresh : fresh = Observe(memory, fuel)
      OBVIOUS
    <2>3. PICK amount \in {1, -1} :
            \/ /\ CanTransfer(fresh, amount) /\ intents < MaxIntents
               /\ memory' = Transfer(fresh, amount)
               /\ intents' = intents + 1
               /\ excused' = excused \cup (IF using[c] = generation THEN {} ELSE {"stale context"})
            \/ memory' = fresh /\ UNCHANGED <<intents, excused>>
      BY <1>13, <2>1, <2>2 DEF TransferReads
    <2>4. UNCHANGED <<using, pending, submitted, seen, disk, flushed, made>> /\ Goto(c, "end")
      BY <1>13 DEF TransferReads
    <2>5. ClientTypes'
      BY <1>6, <2>4 DEF ClientTypes, Places
    <2>6. intents \in Nat /\ intents <= MaxIntents
      BY <1>3
    <2>7. fresh \in Items /\ Small(fresh.delta)
      BY <1>3, <2>2, <2>6, ItemsTypes
    <2>8. CASE memory' = fresh /\ UNCHANGED <<intents, excused>>
      BY <1>2, <2>4, <2>5, <2>7, <2>8 DEF DataTypes, Small
    <2>9. CASE /\ CanTransfer(fresh, amount) /\ intents < MaxIntents
               /\ memory' = Transfer(fresh, amount)
               /\ intents' = intents + 1
               /\ excused' = excused \cup (IF using[c] = generation THEN {} ELSE {"stale context"})
      <3>1. /\ memory' \in Items /\ -intents' <= memory'.delta /\ memory'.delta <= intents'
        BY <2>6, <2>7, <2>9, ItemsTypes
      <3>2. intents' = intents + 1 /\ intents < MaxIntents /\ MaxIntents \in Nat
        BY <1>3, <2>9
      <3>3. intents' \in 0 .. MaxIntents /\ flushed' \in 0 .. intents'
        BY <1>3, <2>4, <2>6, <3>2
      <3>4. excused' \subseteq Excuses
        BY <2>9 DEF DataTypes, Excuses
      <3>5. \A d \in Clients : seen[d].delta \in Int
        BY <1>3 DEF Items
      <3>6. \A tx \in DOMAIN made : made[tx].delta \in Int
        <4>1. made \in Seq(Transactions)
          BY DEF DataTypes
        <4>2. \A tx \in DOMAIN made : made[tx] \in Transactions
          BY <4>1, Elements
        <4> QED BY <4>2 DEF Transactions
      <3>7. \A delta \in Int : Small(delta) => Small(delta)'
        BY <2>6, <3>2 DEF Small
      <3>8. /\ \A d \in Clients : Small(seen[d].delta)'
            /\ \A tx \in DOMAIN made : Small(made[tx].delta)'
        BY <1>3, <2>4, <3>5, <3>6, <3>7 DEF Small
      <3>9. Small(memory.delta)' /\ Small(disk.delta)'
        <4>1. disk.delta \in Int
          BY <1>3 DEF Items
        <4> QED BY <1>3, <2>4, <3>1, <3>7, <4>1 DEF Small
      <3>10. DataTypes'
        BY <2>4, <2>9, <3>1, <3>3, <3>4, <3>8, <3>9 DEF DataTypes
      <3> QED BY <1>2, <2>5, <3>10
    <2> QED BY <2>3, <2>8, <2>9
  <1>14. CASE UNCHANGED txVars
    BY <1>2, <1>14 DEF txVars, DataTypes, ClientTypes, Small
  <1> QED BY <1>8, <1>9, <1>10, <1>11, <1>12, <1>13, <1>14 DEF Reply

(* A transaction is executed, aborts, is lost or may still come.            *)
LEMMA ChainDataKept ==
    ASSUME DataTypes, ChainData, NEW tx \in Txs, chain[tx] \notin {"done", "failed"},
           \/ tx \in DOMAIN made /\ Executes(tx)
           \/ UNCHANGED chainFuel /\ (Becomes(tx, "sent") \/ Becomes(tx, "dead") \/ UNCHANGED chain)
    PROVE  ChainData'
  <1>1. chain' \in [Txs -> Fates]
    BY DEF ChainData, Executes, Becomes, Fates
  <1>2. MaxIntents \in Nat /\ MaxTxs \in Nat /\ chainFuel \in Nat /\ intents \in 0 .. MaxIntents
    BY TransactionsAssumption DEF ChainData, DataTypes
  <1>3. IsFiniteSet(Executed) /\ Cardinality(Executed) \in Nat
    <2>1. Executed \subseteq 1 .. MaxTxs /\ IsFiniteSet(1 .. MaxTxs)
      BY <1>2, FS_Interval DEF Executed, Txs
    <2> QED BY <2>1, FS_Subset, FS_CardinalityType
  <1>4. CASE Executed' = Executed /\ UNCHANGED chainFuel
    BY <1>1, <1>4 DEF ChainData
  <1>5. CASE Affordable(made[tx].delta) /\ Becomes(tx, "done") /\ chainFuel' = chainFuel + made[tx].delta
             /\ tx \in DOMAIN made
    <2>1. Executed' = Executed \cup {tx} /\ tx \notin Executed
      BY <1>1, <1>5 DEF Executed, Becomes, ChainData
    <2>2. Cardinality(Executed') = Cardinality(Executed) + 1
      BY <1>3, <2>1, FS_AddElement
    <2>3. PICK n \in Nat : n = Cardinality(Executed)
      BY <1>3
    <2>4. made \in Seq(Transactions) /\ Small(made[tx].delta)
      BY <1>5 DEF DataTypes
    <2>5. PICK delta \in Int : delta = made[tx].delta /\ Small(delta)
      <3>1. made[tx] \in Transactions
        BY <1>5, <2>4, Elements
      <3> QED BY <2>4, <3>1 DEF Transactions
    <2>6. chainFuel' \in Nat
      BY <1>2, <1>5, <2>5 DEF Affordable
    <2>7. chainFuel' <= chainFuel + MaxIntents
      BY <1>2, <1>5, <2>5 DEF Small
    <2>8. chainFuel <= MaxIntents * n /\ MaxIntents * n \in Nat /\ MaxIntents * (n + 1) = MaxIntents * n + MaxIntents
      BY <1>2, <2>3, Products DEF ChainData
    <2>9. chainFuel' <= MaxIntents * (n + 1)
      BY <1>2, <2>6, <2>7, <2>8
    <2> QED BY <1>1, <2>2, <2>3, <2>6, <2>9 DEF ChainData
  <1>6. Becomes(tx, "sent") \/ Becomes(tx, "dead") \/ Becomes(tx, "failed") \/ UNCHANGED chain => Executed' = Executed
    BY DEF Becomes, Executed, ChainData
  <1> QED BY <1>4, <1>5, <1>6 DEF Executes

(* The rest of the steps.                                                   *)
LEMMA OtherTypes ==
    ASSUME TypeOK, DataTypes, ClientTypes, ChainData, SInv, \A c \in Clients : ClientOK(c),
           TalkTrue, KnownOK,
           \/ \E c \in Clients : ClientEvent(c)
           \/ ExitSeen \/ FlushItems \/ (Respawn /\ UNCHANGED txVars)
           \/ ChildStep \/ Environment \/ UNCHANGED allVars,
           TypeOK'
    PROVE  DataTypes' /\ ClientTypes' /\ ChainData'
  <1>1. CASE UNCHANGED txVars
    BY <1>1 DEF txVars, chainVars, DataTypes, ClientTypes, ChainData, Small, Executed
  <1>2. ASSUME NEW c \in Clients, Reply(c)
        PROVE  DataTypes' /\ ClientTypes' /\ ChainData'
    BY <1>2, ReplyTypes DEF TalkTrue
  <1>3. ASSUME NEW c \in Clients, RpcFails(c)
        PROVE  DataTypes' /\ ClientTypes' /\ ChainData'
    <2>1. UNCHANGED <<using, pending, submitted, seen, memory, disk, flushed, intents, made, chainVars, excused>>
      BY <1>3 DEF RpcFails
    <2>2. pc' \in [Clients -> Places]
      BY <1>3 DEF RpcFails, Goto, Interrupted, ClientTypes, Places
    <2> QED BY <2>1, <2>2 DEF DataTypes, ClientTypes, ChainData, chainVars, Small, Executed
  <1>4. CASE ExitSeen
    <2>1. UNCHANGED <<using, pending, submitted, seen, memory, disk, flushed, intents, made, chainVars, excused>>
      BY <1>4 DEF ExitSeen
    <2>2. pc' \in [Clients -> Places]
      BY <1>4 DEF ExitSeen, Interrupted, ClientTypes, Places
    <2> QED BY <2>1, <2>2 DEF DataTypes, ClientTypes, ChainData, chainVars, Small, Executed
  <1>5. CASE FlushItems
    <2>1. /\ UNCHANGED <<pc, using, pending, submitted, seen, memory, intents, made, chainVars, excused>>
          /\ disk' = memory /\ flushed' = intents
      BY <1>5 DEF FlushItems
    <2>2. flushed' \in 0 .. intents'
      BY <2>1, TransactionsAssumption DEF DataTypes
    <2> QED BY <2>1, <2>2 DEF DataTypes, ClientTypes, ChainData, chainVars, Small, Executed
  <1>6. CASE Crash
    <2>1. UNCHANGED <<disk, intents, made, chainVars>> /\ memory' = disk /\ submitted' = FALSE
          /\ flushed' = intents /\ seen' = [c \in Clients |-> NoItems]
      BY <1>6 DEF Crash
    <2>2. ClientTypes'
      BY <1>6, TransactionConstants DEF Crash, ClientTypes, Places
    <2>3. excused' \subseteq Excuses
      BY <1>6 DEF Crash, DataTypes, Excuses
    <2>4. seen' \in [Clients -> Items] /\ \A c \in Clients : Small(seen'[c].delta)
      BY <2>1, NoItemsTypes
    <2>5. flushed' \in 0 .. intents'
      BY <2>1, TransactionsAssumption DEF DataTypes
    <2>6. DataTypes'
      BY <2>1, <2>3, <2>4, <2>5 DEF DataTypes, Small
    <2> QED BY <2>1, <2>2, <2>6 DEF ChainData, chainVars, Executed
  <1>7. CASE ExecutesLate \/ Superseded
    <2>1. PICK tx \in Txs : /\ chain[tx] \in {"unknown", "sent"}
                            /\ \/ tx \in DOMAIN made /\ Executes(tx)
                               \/ UNCHANGED chainFuel /\ Becomes(tx, "dead")
      <3>1. CASE ExecutesLate
        BY <3>1 DEF ExecutesLate, KnownOK
      <3>2. CASE Superseded
        <4>1. PICK tx \in 1 .. Len(made) : /\ chain[tx] \in {"unknown", "sent"}
                                           /\ UNCHANGED chainFuel /\ Becomes(tx, "dead")
          BY <3>2 DEF Superseded
        <4>2. made \in Seq(Transactions) /\ Len(made) <= MaxTxs /\ MaxTxs \in Nat
          BY TransactionsAssumption DEF DataTypes
        <4>3. tx \in Txs
          BY <4>2 DEF Txs
        <4> QED BY <4>1, <4>3
      <3> QED BY <1>7, <3>1, <3>2
    <2>2. ChainData'
      BY <2>1, ChainDataKept
    <2>3. UNCHANGED <<pc, using, pending, submitted, seen, memory, disk, flushed, intents, made, excused>>
      BY <1>7 DEF ExecutesLate, Superseded
    <2> QED BY <2>2, <2>3 DEF DataTypes, ClientTypes, Small
  <1>8. CASE HandleRpc
    <2>1. UNCHANGED <<pc, using, pending, submitted, seen, memory, disk, flushed, intents, made, excused>>
      BY <1>8 DEF HandleRpc
    <2>2. PICK m : m = Head(toWorker)
      OBVIOUS
    <2>3. ChainData'
      <3>1. CASE UNCHANGED chainVars
        BY <3>1 DEF ChainData, chainVars, Executed
      <3>2. CASE /\ LeaseValid(m) /\ m.body.kind = "execute" /\ chain[m.body.tx] \in {"unknown", "sent"}
                 /\ \/ Executes(m.body.tx)
                    \/ UNCHANGED chainFuel /\ Becomes(m.body.tx, "sent")
        <4>1. /\ m.op = "grpc" /\ 1 \in DOMAIN toWorker /\ m = toWorker[1]
          BY <1>8, <2>2, TakingIndexes DEF HandleRpc, TypeOK
        <4>2. m.client \in Clients /\ phase[m.client] = "running"
          BY <4>1, CallersInside DEF SInv
        <4>3. BodyOK(1)
          BY <4>1 DEF TalkTrue
        <4>4. pc[m.client] = "execute" /\ pending[m.client] = m.body.tx
          BY <3>2, <4>1, <4>3 DEF BodyOK
        <4>5. m.body.tx \in DOMAIN made
          BY <4>2, <4>4 DEF ClientOK, RecoveryOK, Recovering
        <4>6. m.body.tx \in Txs
          <5>1. made \in Seq(Transactions) /\ Len(made) <= MaxTxs /\ MaxTxs \in Nat
            BY TransactionsAssumption DEF DataTypes
          <5> QED BY <4>5, <5>1, Elements DEF Txs
        <4> QED BY <3>2, <4>5, <4>6, ChainDataKept
      <3> QED BY <1>8, <2>2, <3>1, <3>2 DEF HandleRpc, Serve, chainVars
    <2> QED BY <2>1, <2>3 DEF DataTypes, ClientTypes, Small
  <1> QED BY <1>1, <1>2, <1>3, <1>4, <1>5, <1>6, <1>7, <1>8
          DEF ClientEvent, ChildStep, HandleAnything, Environment, allVars

(* The types, the supervisor's invariant and the turns are kept by every    *)
(* step.                                                                    *)
LEMMA TypesOfSteps ==
    ASSUME JournalInv, [TransactionsNext]_allVars
    PROVE  /\ TransactionsTypeOK' /\ FuelBounded' /\ SInv'
           /\ EngagedKept \/ \E c \in Clients : Admitted(c)
  <1>1. TransactionsTypeOK /\ FuelBounded /\ SInv /\ TalkTrue /\ KnownOK /\ \A c \in Clients : ClientOK(c)
    BY DEF JournalInv
  <1>2. SInv' /\ (EngagedKept \/ \E c \in Clients : Admitted(c))
    BY <1>1, StepsOfSupervisor, SupervisorStepKeeps
  <1>3. TypeOK /\ TypeOK'
    BY <1>1, <1>2 DEF SInv, Protocol
  <1>4. DataTypes /\ ClientTypes /\ ChainData
    BY <1>1, <1>3, TypesTogether
  <1>5. DataTypes' /\ ClientTypes' /\ ChainData'
    <2>1. ASSUME NEW c \in Clients, Step(c)
          PROVE  DataTypes' /\ ClientTypes' /\ ChainData'
      BY <1>4, <2>1, StepTypes
    <2>2. CASE \/ \E c \in Clients : ClientEvent(c)
               \/ ExitSeen \/ FlushItems \/ (Respawn /\ UNCHANGED txVars)
               \/ ChildStep \/ Environment \/ UNCHANGED allVars
      BY <1>1, <1>3, <1>4, <2>2, OtherTypes
    <2> QED BY <2>1, <2>2 DEF TransactionsNext, ServerEvent
  <1>6. TransactionsTypeOK' /\ FuelBounded'
    BY <1>3, <1>5 DEF TransactionsTypeOK, FuelBounded, DataTypes, ClientTypes, ChainData
  <1> QED BY <1>2, <1>6

--------------------------------------------------------------------------------
(* What a step leaves to the clients.                                       *)

(* d goes on undisturbed, *)
Still(d) ==
    /\ phase'[d] = phase[d] /\ context'[d] = context[d]
    /\ calls'[d] = calls[d] \/ (calls[d].op = "none" /\ calls'[d].op = "none")
    /\ pc'[d] = pc[d] /\ using'[d] = using[d] /\ pending'[d] = pending[d]

(* or its action is over. *)
Out(d) ==
    /\ \/ phase'[d] # "running" /\ pc'[d] = "start"
       \/ phase'[d] = "running" /\ calls'[d].op = "none" /\ pc'[d] = "end"
    /\ using'[d] <= store'.generation

(* What is known of a transaction stays so. *)
DataGrows ==
    /\ DOMAIN made \subseteq DOMAIN made'
    /\ \A tx \in Txs : chain[tx] \in {"done", "failed", "dead"} => chain'[tx] = chain[tx]

(* A new process has no journal open, and only the syncer opens it. *)
StoreFor(d) ==
    \/ generation < generation' /\ store' = store
    \/ /\ generation' = generation
       /\ \/ store'.generation = store.generation
          \/ store'.generation = generation /\ pc[d] # "open"

(* The transactions that were made are among those there can be.            *)
LEMMA MadeTxs ==
    ASSUME TransactionsTypeOK
    PROVE  DOMAIN made \subseteq Txs /\ DOMAIN made = 1 .. Len(made) /\ Len(made) \in Nat
  <1>1. made \in Seq(Transactions) /\ Len(made) <= MaxTxs /\ MaxTxs \in Nat
    BY TransactionsAssumption DEF TransactionsTypeOK
  <1>2. Len(made) \in Nat /\ DOMAIN made = 1 .. Len(made)
    BY <1>1, Elements
  <1> QED BY <1>1, <1>2 DEF Txs

(* A client that does nothing in a step stays right about what it knows.    *)
LEMMA ClientElsewhere ==
    ASSUME TransactionsTypeOK, TransactionsTypeOK', Protocol, Protocol',
           NEW d \in Clients, ClientOK(d), StoreFor(d), DataGrows, Still(d) \/ Out(d)
    PROVE  ClientOK(d)'
  <1>1. /\ generation \in Nat /\ generation' \in Nat /\ context[d] \in Nat /\ context[d] <= generation
        /\ store.generation \in Nat /\ store'.generation \in Nat /\ store.generation <= generation
        /\ using[d] \in Nat /\ using'[d] \in Nat /\ store'.generation <= generation'
        /\ DOMAIN made \subseteq Txs
    BY MadeTxs DEF TransactionsTypeOK, TypeOK, Protocol, ProcessOK
  <1>2. CASE Out(d)
    <2>1. PlaceOK(d)'
      BY <1>2 DEF Out, PlaceOK, Expects
    <2>2. ContextOK(d)'
      <3>1. phase'[d] # "running" => calls'[d].op # "saveJournal"
        BY DEF Protocol, PhasesOK, TypeOK, Phases
      <3> QED BY <1>2, <3>1 DEF Out, ContextOK
    <2>3. RecoveryOK(d)'
      BY <1>2 DEF Out, RecoveryOK, Recovering
    <2> QED BY <2>1, <2>2, <2>3 DEF ClientOK
  <1>3. CASE Still(d)
    <2>1. PlaceOK(d)'
      BY <1>3 DEF Still, PlaceOK, Expects, ClientOK
    <2>2. ContextOK(d)'
      <3>1. /\ \/ pc[d] \in {"execute", "proof", "retire", "settled", "concluded"}
               \/ pc[d] \in {"assert", "journal"} /\ calls'[d].op # "none"
               => using[d] = context[d]
            /\ using[d] <= store'.generation
        BY <1>1, <1>3 DEF Still, ContextOK, ClientOK, StoreFor
      <3>2. pc[d] = "open" => d = Syncer /\ store'.generation # generation'
        BY <1>1, <1>3 DEF ContextOK, ClientOK, StoreFor
      <3>3. calls'[d].op = "saveJournal" /\ context[d] = generation' => store'.generation = generation'
        BY <1>1, <1>3 DEF Still, ContextOK, ClientOK, StoreFor
      <3> QED BY <1>3, <3>1, <3>2, <3>3 DEF Still, ContextOK
    <2>3. RecoveryOK(d)'
      <3>1. RecoveryOK(d) /\ (pc[d] \in Recovering => pending[d] \in Txs)
        BY <1>1 DEF ClientOK, RecoveryOK
      <3> QED BY <1>3, <3>1 DEF Still, RecoveryOK, DataGrows, Settled, Recovering
    <2> QED BY <2>1, <2>2, <2>3 DEF ClientOK
  <1> QED BY <1>2, <1>3

(* The request of a client that does nothing says what it said,             *)
LEMMA BodyElsewhere ==
    ASSUME NEW i, NEW k, BodyOK(k), toWorker'[i].op = toWorker[k].op,
           toWorker'[i].client = toWorker[k].client, toWorker'[i].body = toWorker[k].body,
           pc'[toWorker[k].client] = pc[toWorker[k].client],
           pending'[toWorker[k].client] = pending[toWorker[k].client]
    PROVE  BodyOK(i)'
  BY DEF BodyOK

(* and an answer to it stays true.                                          *)
LEMMA AnswerElsewhere ==
    ASSUME TransactionsTypeOK, NEW i, NEW k \in DOMAIN toParent, AnswerTrue(k), toParent'[i] = toParent[k],
           NEW d \in Clients, d = toParent[k].client, ClientOK(d), Still(d), DataGrows,
           file' = file \/ (calls[d].op # "openJournal" /\ ~UnderLease(k))
    PROVE  AnswerTrue(i)'
  <1>1. pc[d] \in Recovering => pending[d] \in Txs
    BY MadeTxs DEF ClientOK, RecoveryOK
  <1>2. calls'[d].op = calls[d].op /\ (calls[d].op # "none" => calls'[d] = calls[d])
        /\ pc'[d] = pc[d] /\ pending'[d] = pending[d]
    BY DEF Still
  <1>3. PICK r : r = toParent[k]
    OBVIOUS
  <1>4. /\ calls[d].op = "grpc" /\ r.ok =>
             /\ r.result # NoResult
             /\ r.result.found /\ pc[d] \in {"query", "execute", "wait"} => Settled(pending[d])
             /\ r.result.found /\ pc[d] = "proof" => chain[pending[d]] = "dead"
        /\ calls[d].op = "openJournal" => r.journal = file
        /\ calls[d].op = "saveJournal" /\ r.ok => file = calls[d].journal
    BY <1>3 DEF AnswerTrue
  <1>5. /\ calls[d].op = "grpc" /\ r.ok =>
             /\ r.result # NoResult
             /\ r.result.found /\ pc[d] \in {"query", "execute", "wait"} => Settled(pending[d])'
             /\ r.result.found /\ pc[d] = "proof" => chain'[pending[d]] = "dead"
    BY <1>1, <1>2, <1>4 DEF Settled, DataGrows, Recovering
  <1>6. /\ calls[d].op = "openJournal" => r.journal = file'
        /\ calls[d].op = "saveJournal" /\ r.ok => file' = calls[d].journal
    BY <1>3, <1>4 DEF UnderLease
  <1>7. toParent'[i] = r /\ r.client = d
    BY <1>3
  <1> QED BY <1>2, <1>5, <1>6, <1>7 DEF AnswerTrue

(* At most one client is engaged, and only with a child that lives or whose *)
(* last answer is under way.                                                *)
LEMMA EngagedOne ==
    ASSUME SInv, NEW c \in Clients, NEW d \in Clients, Engaged(c), Engaged(d)
    PROVE  c = d
  <1>1. Holds(c) /\ Holds(d) => c = d
    BY DEF Holds
  <1>2. ASSUME NEW i \in DOMAIN toParent, UnderLease(i), NEW a \in Clients, Holds(a)
        PROVE  a = toParent[i].client
    BY <1>2 DEF SInv, TurnInv, TurnOK, UnderLeaseOK
  <1>3. ASSUME NEW i \in DOMAIN toParent, UnderLease(i), NEW j \in DOMAIN toParent, UnderLease(j)
        PROVE  i = j
    BY <1>3 DEF SInv, TurnInv, TurnOK, UnderLeaseOK
  <1>4. ASSUME NEW a \in Clients, NEW b \in Clients, Holds(a), Engaged(b)
        PROVE  a = b \/ Holds(b)
    BY <1>2, <1>4 DEF Engaged
  <1>5. CASE Holds(c) \/ Holds(d)
    BY <1>1, <1>4, <1>5
  <1>6. CASE ~Holds(c) /\ ~Holds(d)
    <2>1. PICK i \in DOMAIN toParent : toParent[i].client = c /\ UnderLease(i)
      BY <1>6 DEF Engaged
    <2>2. PICK j \in DOMAIN toParent : toParent[j].client = d /\ UnderLease(j)
      BY <1>6 DEF Engaged
    <2> QED BY <1>3, <2>1, <2>2
  <1> QED BY <1>5, <1>6

(* Who holds the lease of the present process has a process.                *)
LEMMA HoldsUp ==
    ASSUME Protocol, NEW c \in Clients, Holds(c)
    PROVE  child = "up"
  BY SupervisorAssumption DEF Protocol, ProcessOK, Holds, NoLease

(* As long as its process is the present one, an answer to a save is not    *)
(* lost: who waits for it learns that the journal was saved.                *)
SavingKept ==
    generation' = generation /\ (child' = "up" \/ Answering') =>
      (child = "up" \/ Answering) /\ (Saving => Saving')

(* A step in which only the clients of C go on. *)
Frame(C) ==
    /\ UNCHANGED <<store, file, chain>> /\ DOMAIN made \subseteq DOMAIN made'
    /\ generation' = generation \/ generation < generation'
    /\ \A d \in Clients \ C : Still(d) \/ Out(d)
    /\ \A i \in DOMAIN toWorker' :
         toWorker'[i].client \notin C /\ toWorker'[i].op = "grpc" =>
           \E k \in DOMAIN toWorker : /\ toWorker'[i].op = toWorker[k].op
                                      /\ toWorker'[i].client = toWorker[k].client
                                      /\ toWorker'[i].body = toWorker[k].body
                                      /\ Still(toWorker[k].client)
    /\ \A i \in DOMAIN toParent' :
         toParent'[i].client \notin C =>
           \/ \E k \in DOMAIN toParent : toParent'[i] = toParent[k] /\ Still(toParent[k].client)
           \/ /\ calls'[toParent'[i].client].op # "openJournal"
              /\ calls'[toParent'[i].client].op \in {"grpc", "saveJournal"} => ~toParent'[i].ok
    /\ SavingKept

(* What a client works on stays what it was while it does not move.         *)
LEMMA SyncElsewhere ==
    ASSUME NEW d \in Clients, SyncOK(d), Engaged(d)' => Engaged(d) /\ generation' = generation,
           Still(d) \/ Out(d), UNCHANGED <<store, file, chain>>
    PROVE  SyncOK(d)'
  <1>1. CASE Out(d)
    BY <1>1 DEF Out, SyncOK, Recovering, Fresh
  <1>2. CASE Still(d)
    BY <1>2 DEF Still, SyncOK
  <1> QED BY <1>1, <1>2

(* So does what the parent knows of the file, when no save is lost sight    *)
(* of.                                                                      *)
LEMMA StoreElsewhere ==
    ASSUME Protocol, StoreOK, SavingKept, UNCHANGED <<store, file, chain>>,
           generation' = generation \/ generation < generation'
    PROVE  StoreOK'
  <1>1. store.generation \in Nat /\ generation \in Nat /\ store.generation <= generation
    BY DEF Protocol, ProcessOK, TypeOK
  <1>2. generation < generation' => store.generation # generation'
    BY <1>1
  <1>3. store.generation = generation' /\ (child' = "up" \/ Answering') => store.journal = file \/ Saving'
    BY <1>2 DEF StoreOK, SavingKept
  <1> QED BY <1>3 DEF StoreOK

(* It keeps the invariant if they keep their part of it.                    *)
LEMMA FrameKeeps ==
    ASSUME JournalInv, TransactionsTypeOK', FuelBounded', SInv', NEW C \in SUBSET Clients, Frame(C),
           \A d \in Clients \ C : Engaged(d)' => Engaged(d) /\ generation' = generation,
           \A c \in C : ClientOK(c)' /\ SyncOK(c)',
           \A i \in DOMAIN toWorker' : toWorker'[i].client \in C => BodyOK(i)',
           \A i \in DOMAIN toParent' : toParent'[i].client \in C => AnswerTrue(i)'
    PROVE  JournalInv'
  <1>0. /\ UNCHANGED <<store, file, chain>> /\ DOMAIN made \subseteq DOMAIN made'
        /\ generation' = generation \/ generation < generation'
        /\ \A d \in Clients \ C : Still(d) \/ Out(d)
        /\ SavingKept
    BY DEF Frame
  <1>1. Protocol /\ Protocol' /\ TransactionsTypeOK /\ TypeOK /\ TypeOK'
    BY DEF JournalInv, SInv, Protocol
  <1>2. DataGrows /\ \A d : StoreFor(d)
    BY <1>0 DEF DataGrows, StoreFor
  <1>3. \A d \in Clients : ClientOK(d)'
    <2>1. ASSUME NEW d \in Clients \ C
          PROVE  ClientOK(d)'
      <3>1. ClientOK(d) /\ (Still(d) \/ Out(d)) /\ StoreFor(d)
        BY <1>0, <1>2 DEF JournalInv
      <3> QED BY <1>1, <1>2, <3>1, ClientElsewhere
    <2> QED BY <2>1
  <1>4. \A d \in Clients : SyncOK(d)'
    <2>1. ASSUME NEW d \in Clients \ C
          PROVE  SyncOK(d)'
      <3>1. SyncOK(d) /\ (Still(d) \/ Out(d)) /\ (Engaged(d)' => Engaged(d) /\ generation' = generation)
        BY <1>0 DEF JournalInv
      <3> QED BY <1>0, <3>1, SyncElsewhere
    <2> QED BY <2>1
  <1>5. \A i \in DOMAIN toWorker' : BodyOK(i)'
    <2>1. ASSUME NEW i \in DOMAIN toWorker', toWorker'[i].client \notin C, toWorker'[i].op = "grpc"
          PROVE  BodyOK(i)'
      <3>1. PICK k \in DOMAIN toWorker : /\ toWorker'[i].op = toWorker[k].op
                                         /\ toWorker'[i].client = toWorker[k].client
                                         /\ toWorker'[i].body = toWorker[k].body
                                         /\ Still(toWorker[k].client)
        BY <2>1 DEF Frame
      <3>2. BodyOK(k)
        BY DEF JournalInv, TalkTrue
      <3> QED BY <3>1, <3>2, BodyElsewhere DEF Still
    <2> QED BY <2>1 DEF BodyOK
  <1>6. \A i \in DOMAIN toParent' : AnswerTrue(i)'
    <2>1. ASSUME NEW i \in DOMAIN toParent', NEW k \in DOMAIN toParent,
                 toParent'[i] = toParent[k], Still(toParent[k].client)
          PROVE  AnswerTrue(i)'
      <3>1. PICK d \in Clients : d = toParent[k].client
        BY <1>1, ElementTypes
      <3>2. AnswerTrue(k) /\ ClientOK(d)
        BY DEF JournalInv, TalkTrue
      <3> QED BY <1>0, <1>1, <1>2, <2>1, <3>1, <3>2, AnswerElsewhere
    <2>2. ASSUME NEW i \in DOMAIN toParent', calls'[toParent'[i].client].op # "openJournal",
                 calls'[toParent'[i].client].op \in {"grpc", "saveJournal"} => ~toParent'[i].ok
          PROVE  AnswerTrue(i)'
      BY <2>2 DEF AnswerTrue
    <2> QED BY <2>1, <2>2 DEF Frame
  <1>7. KnownOK'
    BY <1>0 DEF JournalInv, KnownOK
  <1>8. StoreOK'
    BY <1>0, <1>1, StoreElsewhere DEF JournalInv
  <1>9. OneUncertain'
    BY <1>0 DEF JournalInv, OneUncertain
  <1> QED BY <1>3, <1>4, <1>5, <1>6, <1>7, <1>8, <1>9 DEF JournalInv, TalkTrue

(* Answers that stay where they are are not lost,                           *)
LEMMA SavingStays ==
    ASSUME \A i \in DOMAIN toParent : /\ i \in DOMAIN toParent' /\ toParent'[i] = toParent[i]
                                      /\ calls'[toParent[i].client].op = calls[toParent[i].client].op
    PROVE  Saving => Saving'
  BY DEF Saving, UnderLease

(* and who is engaged was engaged before.                                   *)
LEMMA AnsweringKept ==
    ASSUME Protocol, TypeOK', EngagedKept, Answering'
    PROVE  child = "up" \/ Answering
  <1>1. PICK i \in DOMAIN toParent' : UnderLease(i)'
    BY DEF Answering
  <1>2. PICK s \in Seq(Replies) : s = toParent'
    BY DEF TypeOK
  <1>3. s[i] \in Replies
    BY <1>1, <1>2, Elements
  <1>4. PICK d \in Clients : d = toParent'[i].client
    BY <1>2, <1>3 DEF Replies
  <1>5. Engaged(d)'
    BY <1>1, <1>4 DEF Engaged
  <1>6. Engaged(d)
    BY <1>5 DEF EngagedKept
  <1> QED BY <1>6, HoldsUp DEF Engaged, Answering

(* Who calls goes on, and the others do not: its request is the last.       *)
LEMMA CallsFrame ==
    ASSUME JournalInv, TypeOK', EngagedKept, NEW c \in Clients, NEW m \in Requests, Call(c, m),
           m.client = c, UNCHANGED <<store, chain>>, DOMAIN made \subseteq DOMAIN made',
           \A d \in Clients \ {c} : /\ phase'[d] = phase[d] /\ context'[d] = context[d]
                                    /\ pc'[d] = pc[d] /\ using'[d] = using[d] /\ pending'[d] = pending[d]
    PROVE  /\ Frame({c})
           /\ calls'[c] = [op |-> m.op, generation |-> generation', journal |-> m.journal]
           /\ calls[c].op = "none"
           /\ \A i \in DOMAIN toWorker' :
                toWorker'[i].client = c /\ toWorker'[i].op = "grpc" => toWorker'[i] = m
           /\ \A i \in DOMAIN toParent' : toParent'[i].client # c
  <1>1. Protocol /\ TurnInv /\ TypeOK
    BY DEF JournalInv, SInv, Protocol
  <1>2. /\ \A d \in Clients \ {c} : calls'[d] = calls[d]
        /\ calls'[c] = [op |-> m.op, generation |-> generation', journal |-> m.journal]
        /\ \/ /\ child = "up" /\ SentMore(m)
              /\ UNCHANGED <<generation, child, toParent, lease, queue, record>>
           \/ /\ child = "dead"
              /\ UNCHANGED <<generation, child, toWorker, toParent, lease, queue, record>>
           \/ /\ child \notin {"up", "dead"}
              /\ generation' = generation + 1 /\ child' = "up"
              /\ toWorker' = <<m>> /\ toParent' = <<>>
              /\ lease' = NoLease /\ queue' = <<>> /\ record' = NotOpen
    BY <1>1, CallEffects
  <1>3. calls[c].op = "none" /\ file' = file
    BY DEF Call
  <1>4. \A d \in Clients \ {c} : Still(d)
    BY <1>2 DEF Still
  <1>5. \A i \in DOMAIN toParent : toParent[i].client \in Clients \ {c}
    BY <1>1, <1>3, ElementTypes DEF Protocol, TalkOK, ReplyOK
  <1>6. \A k \in DOMAIN toWorker : toWorker[k].op = "grpc" => toWorker[k].client \in Clients \ {c}
    <2>1. ASSUME NEW k \in DOMAIN toWorker, toWorker[k].op = "grpc"
          PROVE  toWorker[k].client \in Clients \ {c}
      BY <1>1, <1>3, <2>1, CallersInside DEF Awaits
    <2> QED BY <2>1
  <1>7. /\ generation' = generation \/ generation < generation'
        /\ generation + 1 # generation
    BY <1>1, <1>2 DEF TypeOK
  <1>8. ASSUME NEW i \in DOMAIN toWorker'
        PROVE  toWorker'[i] = m \/ (i \in DOMAIN toWorker /\ toWorker'[i] = toWorker[i])
    <2>1. CASE toWorker' = <<m>>
      <3>1. DOMAIN <<m>> = {1} /\ <<m>>[1] = m
        OBVIOUS
      <3> QED BY <2>1, <3>1
    <2> QED BY <1>2, <2>1 DEF SentMore
  <1>9. toParent' = toParent \/ (toParent' = <<>> /\ generation' # generation)
    BY <1>2, <1>7
  <1>10. SavingKept
    <2>1. ASSUME toParent' = toParent
          PROVE  Saving => Saving'
      <3>1. \A i \in DOMAIN toParent : calls'[toParent[i].client].op = calls[toParent[i].client].op
        BY <1>2, <1>5
      <3> QED BY <2>1, <3>1, SavingStays
    <2>2. Answering' => child = "up" \/ Answering
      BY <1>1, AnsweringKept
    <2>3. generation' = generation /\ child' = "up" => child = "up"
      BY <1>2, <1>7
    <2> QED BY <1>9, <2>1, <2>2, <2>3 DEF SavingKept
  <1>11. \A i \in DOMAIN toParent' : /\ i \in DOMAIN toParent /\ toParent'[i] = toParent[i]
                                     /\ toParent[i].client \in Clients \ {c}
    BY <1>5, <1>9, NoElements
  <1>12. \A i \in DOMAIN toWorker' :
           toWorker'[i].client # c /\ toWorker'[i].op = "grpc" =>
             \E k \in DOMAIN toWorker : /\ toWorker'[i].op = toWorker[k].op
                                        /\ toWorker'[i].client = toWorker[k].client
                                        /\ toWorker'[i].body = toWorker[k].body
                                        /\ Still(toWorker[k].client)
    BY <1>4, <1>6, <1>8
  <1>13. \A i \in DOMAIN toWorker' :
           toWorker'[i].client = c /\ toWorker'[i].op = "grpc" => toWorker'[i] = m
    BY <1>6, <1>8
  <1>14. Frame({c})
    BY <1>3, <1>4, <1>7, <1>10, <1>11, <1>12 DEF Frame
  <1> QED BY <1>2, <1>3, <1>11, <1>13, <1>14

(* Nobody is admitted where no call ends.                                   *)
LEMMA NotAdmitted ==
    ASSUME TypeOK, UNCHANGED calls, NEW c \in Clients
    PROVE  ~Admitted(c)
  <1>1. SUFFICES ASSUME Admitted(c) PROVE FALSE
    OBVIOUS
  <1>2. calls[c].op = "acquire" /\ calls' = [calls EXCEPT ![c] = NoCall]
    BY <1>1 DEF Admitted, AcquireAnswered, Answered
  <1>3. calls'[c].op = "none"
    BY <1>2 DEF TypeOK, NoCall
  <1> QED BY <1>2, <1>3

(* A step that touches neither client nor file nor chain keeps the          *)
(* invariant.                                                               *)
LEMMA QuietKeeps ==
    ASSUME JournalInv, TransactionsTypeOK', FuelBounded', SInv', EngagedKept, Frame({})
    PROVE  JournalInv'
  <1>1. PICK none \in SUBSET Clients : none = {}
    OBVIOUS
  <1>2. \A d \in Clients : Engaged(d)' => Engaged(d) /\ generation' = generation
    BY DEF EngagedKept
  <1>3. Frame(none) /\ (\A d : d \notin none)
    BY <1>1
  <1> QED BY <1>2, <1>3, FrameKeeps

(* An answer says nothing of the journal or the chain. *)
Harmless(i) ==
    /\ calls[toParent'[i].client].op # "openJournal"
    /\ calls[toParent'[i].client].op \in {"grpc", "saveJournal"} => ~toParent'[i].ok

(* A handler of the worker that saves nothing is such a step,               *)
LEMMA HandledFrame ==
    ASSUME JournalInv, TypeOK', EngagedKept, NEW A, Handles(A),
           UNCHANGED <<child, store, file, chain, made, pc, using, pending>>,
           \A i \in DOMAIN toParent' : i \in DOMAIN toParent \/ Harmless(i)
    PROVE  Frame({})
  <1>1. Protocol /\ TypeOK
    BY DEF JournalInv, SInv, Protocol
  <1>2. /\ UNCHANGED <<generation, calls, phase, context>>
        /\ Shifted \/ UNCHANGED toWorker
        /\ \A i \in DOMAIN toParent : i \in DOMAIN toParent' /\ toParent'[i] = toParent[i]
    BY DEF Handles, Replied
  <1>3. \A d : Still(d)
    BY <1>2 DEF Still
  <1>4. \A i \in DOMAIN toWorker' : \E k \in DOMAIN toWorker : toWorker'[i] = toWorker[k]
    BY <1>2 DEF Shifted
  <1>5. SavingKept
    <2>1. Saving => Saving'
      BY <1>2, SavingStays
    <2>2. Answering' => child = "up" \/ Answering
      BY <1>1, AnsweringKept
    <2> QED BY <2>1, <2>2 DEF SavingKept
  <1>6. \A i \in DOMAIN toWorker' :
          \E k \in DOMAIN toWorker : /\ toWorker'[i].op = toWorker[k].op
                                     /\ toWorker'[i].client = toWorker[k].client
                                     /\ toWorker'[i].body = toWorker[k].body
                                     /\ Still(toWorker[k].client)
    BY <1>3, <1>4
  <1>7. \A i \in DOMAIN toParent' :
           \/ \E k \in DOMAIN toParent : toParent'[i] = toParent[k] /\ Still(toParent[k].client)
           \/ /\ calls'[toParent'[i].client].op # "openJournal"
              /\ calls'[toParent'[i].client].op \in {"grpc", "saveJournal"} => ~toParent'[i].ok
    BY <1>2, <1>3 DEF Harmless
  <1> QED BY <1>2, <1>3, <1>5, <1>6, <1>7 DEF Frame

(* Who waits for the lease or gives it up learns nothing of the journal.    *)
LEMMA GrantsFrame ==
    ASSUME JournalInv, TypeOK', EngagedKept,
           UNCHANGED <<child, store, file, chain, made, pc, using, pending>>,
           HandleAcquire \/ HandleCancel \/ HandleRelease \/ LeaseTimerFires
    PROVE  Frame({})
  <1>0. Protocol /\ TypeOK /\ TalkOK
    BY DEF JournalInv, SInv, Protocol
  <1>1. PICK m : m = Head(toWorker)
    OBVIOUS
  <1>2. ASSUME Shifted, UNCHANGED <<generation, calls, phase, context>>, toParent' = toParent
        PROVE  Frame({})
    <2>1. Handles({})
      BY <1>0, <1>2, RepliedNone DEF Handles
    <2>2. \A i \in DOMAIN toParent' : i \in DOMAIN toParent
      BY <1>2
    <2>3. PICK A : A = {} /\ Handles(A)
      BY <2>1
    <2> QED BY <2>2, <2>3, HandledFrame
  <1>3. ASSUME Shifted, Answers(m), UNCHANGED <<generation, calls, phase, context>>,
               m.op \in {"acquire", "release"}
        PROVE  Frame({})
    <2>1. PICK A \in SUBSET Clients : Handles(A) /\ A \subseteq {m.client} /\ (~m.awaited => A = {})
      BY <1>0, <1>1, <1>3, AnswersHead
    <2>2. m.awaited => Awaits(m.client, m.op)
      BY <1>0, <1>1, <1>3, HeadRequest
    <2>3. \A i \in DOMAIN toParent' : i \in DOMAIN toParent \/ Harmless(i)
      BY <1>3, <2>1, <2>2 DEF Handles, Replied, Awaits, Harmless
    <2> QED BY <2>1, <2>3, HandledFrame
  <1>4. ASSUME NEW A, Handles(A),
               \A a \in A : \/ queue # <<>> /\ queue[1].awaited /\ a = queue[1].client
                            \/ calls[a].op = "release"
        PROVE  Frame({})
    <2>1. queue # <<>> /\ queue[1].awaited => calls[queue[1].client].op = "acquire"
      BY <1>0, TakingIndexes DEF TypeOK, TalkOK, WaiterOK, Awaits
    <2>2. \A i \in DOMAIN toParent' : i \in DOMAIN toParent \/ Harmless(i)
      BY <1>4, <2>1 DEF Handles, Replied, Harmless
    <2> QED BY <1>4, <2>2, HandledFrame
  <1>5. CASE HandleAcquire
    BY <1>0, <1>1, <1>2, <1>3, <1>5, AcquireShape DEF Queueing
  <1>6. CASE HandleCancel
    <2>1. /\ Shifted
          /\ UNCHANGED <<generation, child, calls, phase, context, store, record, file>>
          /\ GrantNext(queue, <<>>) \/ toParent' = toParent
      BY <1>0, <1>1, <1>6, CancelShape
    <2>2. CASE GrantNext(queue, <<>>)
      BY <1>0, <1>4, <2>1, <2>2, GrantShape
    <2> QED BY <1>2, <2>1, <2>2
  <1>7. CASE HandleRelease
    <2>1. /\ Shifted /\ m.op = "release"
          /\ UNCHANGED <<generation, child, calls, phase, context, store, record, file>>
          /\ GrantNext(queue, Ok(m)) \/ Answers(m)
      BY <1>0, <1>1, <1>7, ReleaseShape
    <2>2. CASE GrantNext(queue, Ok(m))
      BY <1>0, <1>1, <1>4, <1>7, <2>2, ReleaseGrant
    <2> QED BY <1>3, <2>1, <2>2
  <1>8. CASE LeaseTimerFires
    BY <1>0, <1>4, <1>8, GrantShape DEF LeaseTimerFires, processVars
  <1> QED BY <1>5, <1>6, <1>7, <1>8

(* Nor does who learns of a lease or of a failure.                          *)
LEMMA ServesFrame ==
    ASSUME JournalInv, TypeOK', EngagedKept,
           UNCHANGED <<child, store, file, chain, made, pc, using, pending>>,
           \/ HandleAssert \/ HandleSaveFails \/ HandleGrpc(NoResult)
           \/ \E result \in Results : HandleGrpc(result) /\ ~LeaseValid(Head(toWorker))
    PROVE  Frame({})
  <1>0. Protocol /\ TypeOK
    BY DEF JournalInv, SInv, Protocol
  <1>1. PICK m : m = Head(toWorker)
    OBVIOUS
  <1>2. Serves
    BY TransactionConstants DEF Serves
  <1>3. /\ Shifted /\ Answers(m)
        /\ UNCHANGED <<generation, child, calls, phase, context, store, lease, queue>>
    BY <1>0, <1>1, <1>2, ServesShape
  <1>4. PICK A \in SUBSET Clients : Handles(A) /\ A \subseteq {m.client} /\ (~m.awaited => A = {})
    BY <1>0, <1>1, <1>3, AnswersHead
  <1>5. m \in Requests /\ (m.awaited => Awaits(m.client, m.op))
    BY <1>0, <1>1, <1>3, HeadRequest
  <1>6. CASE m.op = "assertLease"
    <2>1. \A i \in DOMAIN toParent' : i \in DOMAIN toParent \/ Harmless(i)
      BY <1>4, <1>5, <1>6 DEF Handles, Replied, Awaits, Harmless
    <2> QED BY <1>4, <2>1, HandledFrame
  <1>7. CASE m.op \in {"saveJournal", "grpc"}
    <2>1. toParent' = toParent \o Refusal(m)
      <3>1. LeaseValid(m) => ~HandleGrpc(NoResult) \/ toParent' = toParent \o ReplyTo(m, FALSE, 0, InitialJournal, NoResult)
        BY <1>1 DEF HandleGrpc
      <3> QED BY <1>1, <1>7, <3>1 DEF HandleAssert, Receive, HandleSaveFails, HandleGrpc, Refusal
    <2>2. PICK r \in Replies : r = ReplyOf(m, FALSE, 0, InitialJournal, NoResult)
      BY <1>0, <1>5, SendingPlain DEF TypeOK
    <2>3. toParent' = Append(toParent, r) \/ toParent' = toParent
      BY <1>0, <1>5, <2>1, <2>2, SendingPlain DEF TypeOK
    <2>4. \A i \in DOMAIN toParent' : i \in DOMAIN toParent \/ toParent'[i] = r
      BY <1>0, <2>3, NewAnswer
    <2>5. r.ok = FALSE /\ r.client = m.client
      BY <2>2 DEF ReplyOf
    <2>6. \A i \in DOMAIN toParent' : i \in DOMAIN toParent \/ toParent'[i].client \in A
      BY <1>4 DEF Handles, Replied
    <2>7. \A i \in DOMAIN toParent' : i \in DOMAIN toParent \/ Harmless(i)
      BY <1>4, <1>5, <1>7, <2>4, <2>5, <2>6 DEF Awaits, Harmless
    <2> QED BY <1>4, <2>7, HandledFrame
  <1> QED BY <1>1, <1>6, <1>7 DEF HandleAssert, HandleSaveFails, HandleGrpc, Receive

(* Who takes an answer leaves neither a request nor an answer behind.       *)
LEMMA ReplyLeft ==
    ASSUME JournalInv, NEW c \in Clients, HandleReply(c)
    PROVE  /\ UNCHANGED <<generation, child, toWorker, file>>
           /\ NoRequest(c) /\ calls[c].generation = generation
           /\ \A i \in DOMAIN toParent' :
                /\ toParent'[i].client \in Clients \ {c}
                /\ \E k \in DOMAIN toParent : toParent'[i] = toParent[k]
           /\ Answering' => Answering
           /\ calls[c].op # "saveJournal" \/ ~toParent[1].ok => (Saving => Saving')
  <1>1. Protocol /\ TypeOK /\ TalkOK /\ TurnInv
    BY DEF JournalInv, SInv, Protocol
  <1>2. /\ toParent # <<>> /\ 1 \in DOMAIN toParent /\ toParent[1].client = c
        /\ \A i \in DOMAIN toParent' :
             i \in Nat /\ 0 < i /\ i + 1 \in DOMAIN toParent /\ toParent'[i] = toParent[i + 1]
        /\ \A i \in DOMAIN toParent :
             i \in Nat /\ (i = 1 \/ (i - 1 \in DOMAIN toParent' /\ toParent'[i - 1] = toParent[i]))
        /\ UNCHANGED <<generation, child, toWorker, lease, queue, record, file, faults>>
        /\ \A d \in Clients \ {c} : calls'[d] = calls[d]
    BY <1>1, ReplyShape
  <1>3. NoRequest(c) /\ calls[c].generation = generation
    BY <1>1, <1>2 DEF TalkOK, ReplyOK, TurnInv, RepliesLast
  <1>4. \A i \in DOMAIN toParent : toParent[i].client \in Clients /\ (toParent[i].client = c => i = 1)
    BY <1>1, <1>2, ElementTypes DEF TalkOK, ReplyOK
  <1>5. ASSUME NEW i \in DOMAIN toParent'
        PROVE  /\ toParent'[i].client \in Clients \ {c}
               /\ \E k \in DOMAIN toParent : toParent'[i] = toParent[k]
    <2>1. i \in Nat /\ 0 < i /\ i + 1 \in DOMAIN toParent /\ toParent'[i] = toParent[i + 1] /\ i + 1 # 1
      BY <1>2
    <2> QED BY <1>4, <2>1
  <1>6. Answering' => Answering
    <2>1. SUFFICES ASSUME NEW i \in DOMAIN toParent', UnderLease(i)' PROVE Answering
      BY DEF Answering
    <2>2. PICK k \in DOMAIN toParent : toParent'[i] = toParent[k] /\ toParent[k].client \in Clients \ {c}
      BY <1>5
    <2>3. UnderLease(k)
      BY <1>2, <2>1, <2>2 DEF UnderLease
    <2> QED BY <2>3 DEF Answering
  <1>7. ASSUME calls[c].op # "saveJournal" \/ ~toParent[1].ok, Saving
        PROVE  Saving'
    <2>1. PICK k \in DOMAIN toParent : UnderLease(k) /\ calls[toParent[k].client].op = "saveJournal"
      BY <1>7 DEF Saving
    <2>2. k # 1
      BY <1>2, <1>7, <2>1 DEF UnderLease
    <2>3. k - 1 \in DOMAIN toParent' /\ toParent'[k - 1] = toParent[k] /\ toParent[k].client \in Clients \ {c}
      BY <1>2, <1>4, <2>2
    <2>4. PICK i \in DOMAIN toParent' : toParent'[i] = toParent[k]
      BY <2>3
    <2>5. UnderLease(i)' /\ calls'[toParent'[i].client].op = "saveJournal"
      BY <1>2, <2>1, <2>3, <2>4 DEF UnderLease
    <2> QED BY <2>5 DEF Saving
  <1> QED BY <1>2, <1>3, <1>5, <1>6, <1>7

(* It goes on, and the others do not.                                       *)
LEMMA ReplyFrame ==
    ASSUME JournalInv, NEW c \in Clients, HandleReply(c), calls[c].op # "saveJournal" \/ ~toParent[1].ok,
           UNCHANGED <<store, chain, made>>,
           \A d \in Clients \ {c} : pc'[d] = pc[d] /\ using'[d] = using[d] /\ pending'[d] = pending[d]
    PROVE  /\ Frame({c})
           /\ \A i \in DOMAIN toWorker' : toWorker'[i].client # c
           /\ \A i \in DOMAIN toParent' : toParent'[i].client # c
  <1>1. Protocol /\ TypeOK
    BY DEF JournalInv, SInv, Protocol
  <1>2. \A d \in Clients \ {c} : Still(d)
    <2>1. \A d \in Clients \ {c} : context'[d] = context[d] /\ phase'[d] = phase[d] /\ calls'[d] = calls[d]
      BY <1>1, ReplyShape
    <2> QED BY <2>1 DEF Still
  <1>3. /\ UNCHANGED <<generation, child, toWorker, file>>
        /\ NoRequest(c)
        /\ \A i \in DOMAIN toParent' :
             /\ toParent'[i].client \in Clients \ {c}
             /\ \E k \in DOMAIN toParent : toParent'[i] = toParent[k]
        /\ Answering' => Answering
        /\ Saving => Saving'
    BY ReplyLeft
  <1>4. \A i \in DOMAIN toWorker : toWorker[i].client \in Clients \ {c}
    BY <1>1, <1>3, ElementTypes DEF NoRequest
  <1>5. SavingKept
    BY <1>3 DEF SavingKept
  <1>6. Frame({c})
    BY <1>2, <1>3, <1>4, <1>5 DEF Frame
  <1> QED BY <1>3, <1>4, <1>6

(* The client whose call is given up,                                       *)
LEMMA TimeoutFrame ==
    ASSUME JournalInv, TypeOK', EngagedKept, NEW c \in Clients, UNCHANGED <<using, pending, chain, made>>,
           \/ AcquireTimesOut(c) /\ UNCHANGED pc
           \/ RpcTimesOut(c) /\ Goto(c, Interrupted(c))
    PROVE  Frame({})
  <1>1. /\ Protocol /\ TypeOK /\ TalkOK /\ TurnInv /\ PhasesOK /\ ClientOK(c)
        /\ pc \in [Clients -> Places]
    BY DEF JournalInv, SInv, Protocol, TransactionsTypeOK
  <1>2. /\ UNCHANGED <<generation, store, file>>
        /\ \A d \in Clients \ {c} : /\ context'[d] = context[d] /\ phase'[d] = phase[d]
                                    /\ calls'[d] = calls[d]
        /\ calls'[c].op = "none" /\ calls[c].op # "none"
        /\ \A i \in DOMAIN toParent' : \E k \in DOMAIN toParent : toParent'[i] = toParent[k]
        /\ \A k \in DOMAIN toParent : toParent[k].client # c =>
             \E i \in DOMAIN toParent' : toParent'[i] = toParent[k]
        /\ \A i \in DOMAIN toParent' : toParent'[i].client # c
        /\ \/ /\ calls[c].op \in {"acquire", "release"}
              /\ phase'[c] = "idle" /\ context'[c] = 0
           \/ /\ calls[c].op \notin {"acquire", "release"}
              /\ phase'[c] = phase[c] /\ context'[c] = context[c]
        /\ \/ InService(c) /\ child' = "dead" /\ toWorker' = <<>>
           \/ /\ UNCHANGED child /\ GivenUp(c)
              /\ \/ InService(c) /\ calls[c].op = "acquire" /\ Told(c)
                 \/ ~InService(c) /\ NotTold
    BY <1>1, TimeoutShape
  <1>3. ASSUME NEW d \in Clients
        PROVE  Still(d) \/ Out(d)
    <2>1. CASE d # c
      <3>1. pc'[d] = pc[d]
        BY <1>1, <2>1 DEF Goto
      <3> QED BY <1>2, <2>1, <3>1 DEF Still
    <2>2. CASE d = c /\ calls[c].op \in {"acquire", "release"}
      <3>1. phase[c] # "running" /\ pc[c] = "start"
        BY <1>1, <2>2 DEF PhasesOK, ClientOK, PlaceOK
      <3>2. pc'[c] = "start"
        BY <1>1, <3>1 DEF Goto, Interrupted
      <3> QED BY <1>1, <1>2, <2>2, <3>2 DEF Out, ClientOK, ContextOK
    <2>3. CASE d = c /\ calls[c].op \notin {"acquire", "release"}
      <3>1. phase[c] = "running"
        BY <1>1, <1>2, <2>3 DEF PhasesOK, TypeOK, Phases
      <3>2. RpcTimesOut(c) /\ Goto(c, Interrupted(c))
        BY <2>3 DEF AcquireTimesOut
      <3>3. pc'[c] = "end"
        BY <1>1, <1>2, <3>1, <3>2 DEF Goto, Interrupted
      <3> QED BY <1>1, <1>2, <2>3, <3>1, <3>3 DEF Out, ClientOK, ContextOK
    <2> QED BY <2>1, <2>2, <2>3
  <1>4. ASSUME NEW d \in Clients, d # c
        PROVE  Still(d)
    <2>1. pc'[d] = pc[d]
      BY <1>1, <1>4 DEF Goto
    <2> QED BY <1>2, <1>4, <2>1 DEF Still
  <1>5. ASSUME NEW i \in DOMAIN toWorker', toWorker'[i].op = "grpc"
        PROVE  \E k \in DOMAIN toWorker : /\ toWorker'[i].op = toWorker[k].op
                                          /\ toWorker'[i].client = toWorker[k].client
                                          /\ toWorker'[i].body = toWorker[k].body
                                          /\ Still(toWorker[k].client)
    <2>1. toWorker' # <<>>
      BY NoElements
    <2>2. /\ GivenUp(c)
          /\ \/ InService(c) /\ calls[c].op = "acquire" /\ Told(c)
             \/ ~InService(c) /\ NotTold
      BY <1>2, <2>1
    <2>3. i \in DOMAIN toWorker
      BY <1>5, <2>2 DEF Told, NotTold
    <2>4. /\ toWorker'[i].op = toWorker[i].op /\ toWorker'[i].client = toWorker[i].client
          /\ toWorker'[i].body = toWorker[i].body
      BY <2>2, <2>3 DEF GivenUp
    <2>5. toWorker[i].client \in Clients /\ Awaits(toWorker[i].client, "grpc") /\ child = "up"
      BY <1>1, <1>5, <2>3, <2>4, CallersInside, NoElements DEF Protocol, ProcessOK
    <2>6. toWorker[i].client # c
      BY <2>2, <2>5 DEF Awaits, InService
    <2> QED BY <1>4, <2>3, <2>4, <2>5, <2>6
  <1>6. \A k \in DOMAIN toParent : toParent[k].client \in Clients
    BY <1>1, ElementTypes
  <1>7. \A i \in DOMAIN toParent' : \E k \in DOMAIN toParent : toParent'[i] = toParent[k] /\ Still(toParent[k].client)
    BY <1>2, <1>4, <1>6
  <1>8. ASSUME Saving, child' = "up" \/ Answering'
        PROVE  Saving'
    <2>1. PICK k \in DOMAIN toParent : UnderLease(k) /\ calls[toParent[k].client].op = "saveJournal"
      BY <1>8 DEF Saving
    <2>2. CASE toParent[k].client # c
      <3>1. PICK i \in DOMAIN toParent' : toParent'[i] = toParent[k]
        BY <1>2, <2>2
      <3>2. UnderLease(i)' /\ calls'[toParent'[i].client].op = "saveJournal"
        BY <1>2, <1>6, <2>1, <2>2, <3>1 DEF UnderLease
      <3> QED BY <3>2 DEF Saving
    <2>3. CASE toParent[k].client = c
      <3>1. calls[c].generation = generation /\ calls[c].op = "saveJournal"
        BY <1>1, <2>1, <2>3 DEF TalkOK, ReplyOK
      <3>2. child' # "up"
        BY <1>2, <3>1 DEF InService
      <3>3. PICK i \in DOMAIN toParent' : UnderLease(i)'
        BY <1>8, <3>2 DEF Answering
      <3>4. PICK j \in DOMAIN toParent : toParent'[i] = toParent[j] /\ toParent[j].client # c
        BY <1>2
      <3>5. UnderLease(j)
        BY <1>2, <1>6, <3>3, <3>4 DEF UnderLease
      <3>6. j = k
        BY <1>1, <2>1, <3>5 DEF TurnInv, TurnOK, UnderLeaseOK
      <3> QED BY <2>3, <3>4, <3>6
    <2> QED BY <2>2, <2>3
  <1>9. SavingKept
    <2>1. Answering' => child = "up" \/ Answering
      BY <1>1, AnsweringKept
    <2>2. child' = "up" => child = "up"
      BY <1>2
    <2> QED BY <1>8, <2>1, <2>2 DEF SavingKept
  <1> QED BY <1>2, <1>3, <1>5, <1>7, <1>9 DEF Frame

(* The clients whose process is lost, or another one's,                     *)
LEMMA ProcessesFrame ==
    ASSUME JournalInv, TypeOK', EngagedKept, UNCHANGED <<using, pending, chain, made>>,
           \/ (Respawn \/ ChildDies \/ ChannelCloses) /\ UNCHANGED pc
           \/ ExitNoticed /\ pc' = [c \in Clients |-> Interrupted(c)]
    PROVE  Frame({})
  <1>1. Protocol /\ TypeOK /\ PhasesOK
    BY DEF JournalInv, SInv, Protocol
  <1>2. /\ toWorker' = <<>> /\ UNCHANGED <<store, file>>
        /\ \/ child' # "up" /\ UNCHANGED generation
           \/ /\ child' = "up" /\ generation' = generation + 1
              /\ toParent' = <<>>
        /\ \/ UNCHANGED <<calls, phase, context, pc>> /\ (toParent' = toParent \/ toParent' = <<>>)
           \/ /\ calls' = [c \in Clients |-> NoCall] /\ toParent' = <<>>
              /\ phase' = [c \in Clients |-> IF phase[c] = "running" THEN "running" ELSE "idle"]
              /\ context' = [c \in Clients |-> IF phase[c] = "running" THEN context[c] ELSE 0]
              /\ pc' = [c \in Clients |-> Interrupted(c)]
    <2>1. CASE ExitNoticed /\ pc' = [c \in Clients |-> Interrupted(c)]
      <3>1. toWorker' = <<>>
        BY <1>1, <2>1, ProcessesShape DEF Processes
      <3> QED BY <2>1, <3>1 DEF ExitNoticed
    <2>2. CASE (Respawn \/ ChildDies \/ ChannelCloses) /\ UNCHANGED pc
      <3>1. /\ toWorker' = <<>> /\ UNCHANGED file
            /\ \/ child' # "up" /\ UNCHANGED generation
               \/ /\ child' = "up" /\ generation' = generation + 1
                  /\ toParent' = <<>>
        BY <1>1, <2>2, ProcessesShape DEF Processes
      <3>2. UNCHANGED <<store, calls, phase, context>> /\ (toParent' = toParent \/ toParent' = <<>>)
        BY <2>2 DEF Respawn, ChildDies, ChannelCloses, Fork
      <3> QED BY <2>2, <3>1, <3>2
    <2> QED BY <2>1, <2>2
  <1>3. \A i : i \notin DOMAIN toWorker'
    BY <1>2, NoElements
  <1>4. \A d \in Clients : Still(d) \/ Out(d)
    <2>1. CASE UNCHANGED <<calls, phase, context, pc>>
      BY <2>1 DEF Still
    <2>2. ASSUME calls' = [c \in Clients |-> NoCall],
                 phase' = [c \in Clients |-> IF phase[c] = "running" THEN "running" ELSE "idle"],
                 context' = [c \in Clients |-> IF phase[c] = "running" THEN context[c] ELSE 0],
                 pc' = [c \in Clients |-> Interrupted(c)],
                 NEW d \in Clients
          PROVE  Still(d) \/ Out(d)
      <3>1. calls'[d].op = "none" /\ ClientOK(d)
        BY <2>2 DEF NoCall, JournalInv
      <3>2. CASE phase[d] = "running" /\ calls[d].op # "none"
        BY <1>2, <2>2, <3>1, <3>2 DEF Out, Interrupted, ClientOK, ContextOK
      <3>3. CASE phase[d] = "running" /\ calls[d].op = "none"
        BY <2>2, <3>1, <3>3 DEF Still, Interrupted
      <3>4. CASE phase[d] # "running"
        BY <1>2, <2>2, <3>1, <3>4 DEF Out, Interrupted, ClientOK, ContextOK, PlaceOK
      <3> QED BY <3>2, <3>3, <3>4
    <2> QED BY <1>2, <2>1, <2>2
  <1>5. /\ generation' = generation \/ generation < generation'
        /\ generation + 1 # generation
    BY <1>1, <1>2 DEF TypeOK
  <1>6. toParent' = <<>> \/ (toParent' = toParent /\ UNCHANGED <<calls, phase, context, pc, generation>> /\ child' # "up")
    BY <1>2
  <1>7. SavingKept
    <2>1. Answering' => child = "up" \/ Answering
      BY <1>1, AnsweringKept
    <2>2. CASE toParent' = <<>>
      <3>1. ~Answering'
        BY <2>2, NoElements DEF Answering
      <3> QED BY <1>2, <1>5, <3>1 DEF SavingKept
    <2>3. CASE toParent' = toParent /\ UNCHANGED calls /\ child' # "up"
      <3>1. Saving => Saving'
        BY <2>3, SavingStays
      <3> QED BY <2>1, <2>3, <3>1 DEF SavingKept
    <2> QED BY <1>6, <2>2, <2>3
  <1>8. \A i \in DOMAIN toParent' : \E k \in DOMAIN toParent : toParent'[i] = toParent[k] /\ Still(toParent[k].client)
    <2>1. CASE toParent' = <<>>
      BY <2>1, NoElements
    <2>2. CASE toParent' = toParent /\ UNCHANGED <<calls, phase, context, pc>>
      BY <2>2 DEF Still
    <2> QED BY <1>6, <2>1, <2>2
  <1> QED BY <1>2, <1>3, <1>4, <1>5, <1>7, <1>8 DEF Frame

(* and all of them when the supervisor does nothing.                        *)
LEMMA NothingFrame ==
    ASSUME JournalInv, UNCHANGED <<processVars, calls, phase, context, store, toWorker, toParent, file,
                                   using, pending, chain, made, pc>>
    PROVE  Frame({})
  <1>1. \A d : Still(d)
    BY DEF Still
  <1>2. Saving' = Saving /\ Answering' = Answering
    BY DEF Saving, Answering, UnderLease
  <1>3. SavingKept
    BY <1>2 DEF SavingKept, processVars
  <1> QED BY <1>1, <1>3 DEF Frame, processVars

(* The steps in which no client goes on with its action. *)
Quietly ==
    \/ (HandleAcquire \/ HandleCancel \/ HandleRelease \/ LeaseTimerFires) /\ UNCHANGED pc
    \/ (HandleAssert \/ HandleSaveFails) /\ UNCHANGED pc
    \/ HandleGrpc(NoResult) /\ UNCHANGED pc
    \/ (\E result \in Results : HandleGrpc(result) /\ ~LeaseValid(Head(toWorker))) /\ UNCHANGED pc
    \/ \E c \in Clients : AcquireTimesOut(c) /\ UNCHANGED pc
    \/ \E c \in Clients : RpcTimesOut(c) /\ Goto(c, Interrupted(c))
    \/ (Respawn \/ ChildDies \/ ChannelCloses) /\ UNCHANGED pc
    \/ ExitNoticed /\ pc' = [c \in Clients |-> Interrupted(c)]
    \/ (LeaseLapses \/ UNCHANGED vars) /\ UNCHANGED pc

(* and so is every step that calls and answers nothing.                     *)
LEMMA QuietFrame ==
    ASSUME JournalInv, SInv', UNCHANGED <<using, pending, chain, made>>, Quietly
    PROVE  EngagedKept /\ Frame({})
  <1>1. Protocol /\ Protocol' /\ TypeOK /\ TypeOK' /\ TurnInv
    BY DEF JournalInv, SInv, Protocol
  <1>2. CASE (HandleAcquire \/ HandleCancel \/ HandleRelease \/ LeaseTimerFires) /\ UNCHANGED pc
    <2>1. EngagedKept
      BY <1>1, <1>2, HandleAcquireTurn, GrantsTurn
    <2>2. UNCHANGED <<child, store, file>>
      BY <1>2 DEF HandleAcquire, HandleCancel, HandleRelease, LeaseTimerFires, Receive, processVars
    <2> QED BY <1>1, <1>2, <2>1, <2>2, GrantsFrame
  <1>3. CASE (\/ HandleAssert \/ HandleSaveFails \/ HandleGrpc(NoResult)
              \/ \E result \in Results : HandleGrpc(result) /\ ~LeaseValid(Head(toWorker))) /\ UNCHANGED pc
    <2>1. Serves
      BY <1>3, TransactionConstants DEF Serves
    <2>2. EngagedKept
      BY <1>1, <2>1, ServesTurn
    <2>3. UNCHANGED <<child, store, file>>
      BY <1>3 DEF HandleAssert, HandleSaveFails, HandleGrpc, Receive, processVars, workerVars
    <2> QED BY <1>1, <1>3, <2>2, <2>3, ServesFrame
  <1>4. ASSUME NEW c \in Clients, \/ AcquireTimesOut(c) /\ UNCHANGED pc
                                  \/ RpcTimesOut(c) /\ Goto(c, Interrupted(c))
        PROVE  EngagedKept /\ Frame({})
    <2>1. EngagedKept
      BY <1>1, <1>4, TimesOutTurn
    <2> QED BY <1>1, <1>4, <2>1, TimeoutFrame
  <1>5. CASE \/ (Respawn \/ ChildDies \/ ChannelCloses) /\ UNCHANGED pc
             \/ ExitNoticed /\ pc' = [c \in Clients |-> Interrupted(c)]
    <2>1. EngagedKept
      BY <1>1, <1>5, ProcessesTurn DEF Processes
    <2> QED BY <1>1, <1>5, <2>1, ProcessesFrame
  <1>6. CASE LeaseLapses /\ UNCHANGED pc
    <2>1. EngagedKept
      BY <1>1, <1>6, QuietTurn
    <2> QED BY <1>6, <2>1, NothingFrame DEF LeaseLapses
  <1>7. CASE UNCHANGED vars /\ UNCHANGED pc
    <2>1. EngagedKept
      BY <1>7 DEF vars, processVars, workerVars, EngagedKept, Engaged, Holds, Inside, UnderLease
    <2> QED BY <1>7, <2>1, NothingFrame DEF vars
  <1> QED BY <1>2, <1>3, <1>4, <1>5, <1>6, <1>7 DEF Quietly

(* They keep the invariant.                                                 *)
LEMMA QuietSteps ==
    ASSUME JournalInv, TransactionsTypeOK', FuelBounded', SInv',
           UNCHANGED <<using, pending, chain, made>>,
           \/ (HandleAcquire \/ HandleCancel \/ HandleRelease \/ LeaseTimerFires) /\ UNCHANGED pc
           \/ (HandleAssert \/ HandleSaveFails) /\ UNCHANGED pc
           \/ HandleGrpc(NoResult) /\ UNCHANGED pc
           \/ (\E result \in Results : HandleGrpc(result) /\ ~LeaseValid(Head(toWorker))) /\ UNCHANGED pc
           \/ \E c \in Clients : AcquireTimesOut(c) /\ UNCHANGED pc
           \/ \E c \in Clients : RpcTimesOut(c) /\ Goto(c, Interrupted(c))
           \/ (Respawn \/ ChildDies \/ ChannelCloses) /\ UNCHANGED pc
           \/ ExitNoticed /\ pc' = [c \in Clients |-> Interrupted(c)]
           \/ (LeaseLapses \/ UNCHANGED vars) /\ UNCHANGED pc
    PROVE  JournalInv'
  <1>1. Quietly
    BY DEF Quietly
  <1> QED BY <1>1, QuietFrame, QuietKeeps

--------------------------------------------------------------------------------
(* The calls of the clients.                                                *)

(* A client that makes a call, its own state being right, keeps the         *)
(* invariant:                                                               *)
LEMMA CallsKeep ==
    ASSUME JournalInv, TransactionsTypeOK', FuelBounded', SInv', NEW c \in Clients,
           ClientCalls(c) \/ Release(c), NEW m \in Requests, Call(c, m), m.client = c,
           UNCHANGED <<store, chain>>, DOMAIN made \subseteq DOMAIN made',
           \A d \in Clients \ {c} : /\ phase'[d] = phase[d] /\ context'[d] = context[d]
                                    /\ pc'[d] = pc[d] /\ using'[d] = using[d] /\ pending'[d] = pending[d],
           ClientOK(c)',
           Engaged(c) /\ generation' = generation /\ file' = file => SyncOK(c)',
           m.op = "grpc" => m.body = [kind |-> pc'[c], tx |-> pending'[c]]
    PROVE  JournalInv'
  <1>1. Protocol /\ TurnInv /\ TypeOK /\ TypeOK'
    BY DEF JournalInv, SInv, Protocol
  <1>2. EngagedKept
    BY <1>1, ClientCallsTurn
  <1>3. /\ Frame({c})
        /\ \A i \in DOMAIN toWorker' :
             toWorker'[i].client = c /\ toWorker'[i].op = "grpc" => toWorker'[i] = m
        /\ \A i \in DOMAIN toParent' : toParent'[i].client # c
    <2>1. \A d \in Clients \ {c} : /\ phase'[d] = phase[d] /\ context'[d] = context[d]
                                    /\ pc'[d] = pc[d] /\ using'[d] = using[d] /\ pending'[d] = pending[d]
      OBVIOUS
    <2>2. UNCHANGED <<store, chain>> /\ DOMAIN made \subseteq DOMAIN made' /\ JournalInv /\ Call(c, m)
          /\ m.client = c
      OBVIOUS
    <2> QED BY ONLY <1>1, <1>2, <2>1, <2>2, CallsFrame, Zenon
  <1>4. SyncOK(c)'
    <2>1. ~Engaged(c)' => SyncOK(c)'
      BY DEF SyncOK
    <2>2. Engaged(c)' => Engaged(c) /\ generation' = generation
      BY <1>2 DEF EngagedKept
    <2>3. file' = file
      BY <1>3 DEF Frame
    <2> QED BY <2>1, <2>2, <2>3
  <1>5. \A d \in Clients : Engaged(d)' => Engaged(d) /\ generation' = generation
    BY <1>2 DEF EngagedKept
  <1>6. \A i \in DOMAIN toWorker' : toWorker'[i].client = c => BodyOK(i)'
    <2>1. SUFFICES ASSUME NEW i \in DOMAIN toWorker', toWorker'[i].client = c, toWorker'[i].op = "grpc"
                   PROVE  toWorker'[i].body = [kind |-> pc'[c], tx |-> pending'[c]]
      BY DEF BodyOK
    <2> QED BY <1>3, <2>1
  <1>7. PICK C \in SUBSET Clients : C = {c}
    OBVIOUS
  <1>8. /\ Frame(C)
        /\ \A d \in Clients \ C : Engaged(d)' => Engaged(d) /\ generation' = generation
        /\ \A d \in C : ClientOK(d)' /\ SyncOK(d)'
        /\ \A i \in DOMAIN toWorker' : toWorker'[i].client \in C => BodyOK(i)'
        /\ \A i \in DOMAIN toParent' : toParent'[i].client \in C => AnswerTrue(i)'
    BY <1>3, <1>4, <1>5, <1>6, <1>7
  <1> QED BY <1>8, FrameKeeps

(* What every call changes of its client.                                   *)
LEMMA CallMade ==
    ASSUME Protocol, NEW c \in Clients, NEW m \in Requests, Call(c, m)
    PROVE  /\ calls'[c].op = m.op /\ calls'[c].journal = m.journal /\ calls[c].op = "none"
           /\ generation' = generation \/ generation < generation'
           /\ generation \in Nat /\ generation' \in Nat
           /\ context[c] \in Nat /\ context[c] <= generation
           /\ store.generation \in Nat /\ store.generation <= generation
  <1>1. TypeOK
    BY DEF Protocol
  <1>2. calls'[c] = [op |-> m.op, generation |-> generation', journal |-> m.journal]
    BY <1>1, CallEffects
  <1>3. generation' = generation \/ generation' = generation + 1
    BY <1>1, CallEffects
  <1>4. /\ generation \in Nat /\ context[c] \in Nat /\ context[c] <= generation
        /\ store.generation \in Nat /\ store.generation <= generation
    BY <1>1 DEF Protocol, ProcessOK, TypeOK
  <1> QED BY <1>2, <1>3, <1>4 DEF Call

(* the call for the lease,                                                  *)
LEMMA AcquireKeeps ==
    ASSUME JournalInv, TransactionsTypeOK', FuelBounded', SInv', NEW c \in Clients, Acquire(c),
           UNCHANGED txVars
    PROVE  JournalInv'
  <1>1. /\ Protocol /\ Protocol' /\ TypeOK /\ ClientOK(c) /\ TransactionsTypeOK
        /\ UNCHANGED <<pc, using, pending, made, chain>>
    BY DEF JournalInv, SInv, Protocol, txVars, chainVars
  <1>2. PICK m \in Requests : m = Request(c, "acquire")
    BY <1>1, RequestTypes DEF Operations
  <1>3. m.client = c /\ m.op = "acquire"
    BY <1>2 DEF Request
  <1>4. /\ Call(c, m) /\ UNCHANGED store /\ phase[c] = "idle"
        /\ phase'[c] = "acquiring"
        /\ \A d \in Clients \ {c} : phase'[d] = phase[d] /\ context'[d] = context[d]
    BY <1>1, <1>2 DEF Acquire, TypeOK
  <1>5. generation' = generation \/ generation < generation'
    BY <1>1, <1>4, CallMade
  <1>6. ClientOK(c)' /\ SyncOK(c)'
    <2>1. pc[c] = "start" /\ using[c] <= store.generation
      BY <1>1, <1>4 DEF ClientOK, PlaceOK, ContextOK
    <2>2. Out(c) /\ StoreFor(c) /\ DataGrows
      BY <1>1, <1>4, <1>5, <2>1 DEF Out, StoreFor, DataGrows
    <2>3. ClientOK(c)'
      BY <1>1, <2>2, ClientElsewhere
    <2>4. pc'[c] = "start"
      BY <1>1, <2>1
    <2> QED BY <2>3, <2>4 DEF SyncOK, Recovering, Fresh
  <1> QED BY <1>1, <1>3, <1>4, <1>6, CallsKeep DEF ClientCalls

(* The action throws.                                                       *)
LEMMA ThrowsKeeps ==
    ASSUME JournalInv, TransactionsTypeOK', FuelBounded', SInv', NEW c \in Clients, Throws(c),
           phase[c] = "running", calls[c].op = "none", UNCHANGED <<using, pending, chain, made>>
    PROVE  JournalInv'
  <1>1. /\ pc \in [Clients -> Places] /\ ClientOK(c)
        /\ pc' = [pc EXCEPT ![c] = "end"] /\ UNCHANGED vars
    BY DEF JournalInv, TransactionsTypeOK, Throws, Goto
  <1>2. \A d \in Clients : Still(d) \/ Out(d)
    <2>1. \A d \in Clients \ {c} : Still(d)
      BY <1>1 DEF Still, vars
    <2>2. Out(c)
      BY <1>1 DEF Out, vars, ClientOK, ContextOK
    <2> QED BY <2>1, <2>2
  <1>3. EngagedKept
    BY <1>1 DEF vars, processVars, workerVars, EngagedKept, Engaged, Holds, Inside, UnderLease
  <1>4. SavingKept
    BY <1>1 DEF vars, processVars, SavingKept, Saving, Answering, UnderLease
  <1>5. ASSUME NEW i \in DOMAIN toWorker, toWorker[i].op = "grpc"
        PROVE  Still(toWorker[i].client)
    <2>1. toWorker[i].client \in Clients /\ Awaits(toWorker[i].client, "grpc")
      BY <1>5, CallersInside DEF JournalInv, SInv
    <2>2. toWorker[i].client # c
      BY <2>1 DEF Awaits
    <2> QED BY <1>1, <2>1, <2>2 DEF Still, vars
  <1>6. ASSUME NEW i \in DOMAIN toParent
        PROVE  Still(toParent[i].client)
    <2>1. toParent[i].client \in Clients /\ ReplyOK(i)
      BY ElementTypes DEF JournalInv, SInv, Protocol, TalkOK
    <2>2. toParent[i].client # c
      BY <2>1 DEF ReplyOK
    <2> QED BY <1>1, <2>1, <2>2 DEF Still, vars
  <1>7. Frame({})
    BY <1>1, <1>2, <1>4, <1>5, <1>6 DEF Frame, vars, processVars
  <1> QED BY <1>3, <1>7, QuietKeeps

(* (the client goes on with the transaction it was working on)              *)
LEMMA SyncCalled ==
    ASSUME NEW c \in Clients, SyncOK(c), Engaged(c), UNCHANGED <<store, file, chain, generation>>,
           using'[c] = using[c], pending'[c] = pending[c],
           pc'[c] = pc[c] \/ (pc[c] \in Recovering /\ pc'[c] \in Recovering),
           pc'[c] = "journal" /\ calls'[c].op # "none" => chain[calls'[c].journal] \in {"unknown", "dead"}
    PROVE  SyncOK(c)'
  BY DEF SyncOK, Recovering, Fresh

(* What the calls of a running client have in common.                       *)
LEMMA CallFrom ==
    ASSUME JournalInv, TransactionsTypeOK', FuelBounded', SInv', NEW c \in Clients,
           NEW m \in Requests, Call(c, m), m.client = c,
           ClientCalls(c) \/ Release(c),
           UNCHANGED <<store, chain, context, phase>>, DOMAIN made \subseteq DOMAIN made',
           phase[c] = "running", UNCHANGED <<using, pending>>,
           \A d \in Clients \ {c} : pc'[d] = pc[d],
           pc'[c] = pc[c] \/ (pc[c] = "finish" /\ pc'[c] \in {"settled", "concluded"}),
           m.op \in {"grpc", "openJournal", "assertLease", "saveJournal"},
           m.op = "grpc" => pc[c] \in Rpcs /\ m.body = [kind |-> pc[c], tx |-> pending[c]],
           m.op = "openJournal" => pc[c] = "open",
           m.op = "assertLease" => pc[c] = "assert" /\ using[c] = context[c],
           m.op = "saveJournal" =>
             /\ using[c] = context[c] /\ store.generation = generation /\ context[c] = generation
             /\ \/ pc'[c] = "journal" /\ m.journal \in DOMAIN made' /\ chain[m.journal] = "unknown"
                \/ pc'[c] \in {"retire", "settled", "concluded"} /\ m.journal = NoTx,
           m.op # "saveJournal" => pc'[c] = pc[c]
    PROVE  JournalInv'
  <1>1. Protocol /\ TypeOK /\ ClientOK(c) /\ SyncOK(c)
    BY DEF JournalInv, SInv, Protocol
  <1>2. /\ calls'[c].op = m.op /\ calls'[c].journal = m.journal /\ calls[c].op = "none"
        /\ generation' = generation \/ generation < generation'
        /\ generation \in Nat /\ generation' \in Nat
        /\ context[c] \in Nat /\ context[c] <= generation
        /\ store.generation \in Nat /\ store.generation <= generation
    BY <1>1, CallMade
  <1>3. PlaceOK(c)'
    BY <1>2 DEF PlaceOK, Expects, Rpcs
  <1>4. ContextOK(c)'
    <2>1. ContextOK(c)
      BY <1>1 DEF ClientOK
    <2>2. \/ pc'[c] \in {"execute", "proof", "retire", "settled", "concluded"}
          \/ pc'[c] \in {"assert", "journal"}
          => using[c] = context[c]
      BY <1>2, <2>1 DEF ContextOK, Rpcs
    <2>3. pc'[c] = "open" => c = Syncer /\ store.generation # generation'
      BY <1>2, <2>1 DEF ContextOK
    <2>4. m.op = "saveJournal" /\ context[c] = generation' => store.generation = generation'
      BY <1>2
    <2> QED BY <1>2, <2>1, <2>2, <2>3, <2>4 DEF ContextOK
  <1>5. RecoveryOK(c)'
    <2>1. RecoveryOK(c)
      BY <1>1 DEF ClientOK
    <2> QED BY <1>2, <2>1 DEF RecoveryOK, Recovering, Settled, Rpcs
  <1>6. ClientOK(c)'
    BY <1>3, <1>4, <1>5 DEF ClientOK
  <1>7. ASSUME Engaged(c), generation' = generation, file' = file
        PROVE  SyncOK(c)'
    <2>1. pc'[c] = "journal" => chain[calls'[c].journal] \in {"unknown", "dead"}
      BY <1>2 DEF Rpcs
    <2>2. pc'[c] = pc[c] \/ (pc[c] \in Recovering /\ pc'[c] \in Recovering)
      BY DEF Recovering
    <2> QED BY <1>1, <1>7, <2>1, <2>2, SyncCalled
  <1>8. \A d \in Clients \ {c} : /\ phase'[d] = phase[d] /\ context'[d] = context[d]
                                 /\ pc'[d] = pc[d] /\ using'[d] = using[d] /\ pending'[d] = pending[d]
    OBVIOUS
  <1>9. m.op = "grpc" => m.body = [kind |-> pc'[c], tx |-> pending'[c]]
    OBVIOUS
  <1> QED BY <1>6, <1>7, <1>8, <1>9, CallsKeep

(* the release at its end,                                                  *)
LEMMA ReleaseKeeps ==
    ASSUME JournalInv, TransactionsTypeOK', FuelBounded', SInv', NEW c \in Clients, End(c)
    PROVE  JournalInv'
  <1>1. /\ Protocol /\ Protocol' /\ TypeOK /\ ClientOK(c) /\ TransactionsTypeOK
        /\ pc \in [Clients -> Places] /\ using \in [Clients -> Nat]
        /\ pending \in [Clients -> Txs \cup {NoTx}]
    BY DEF JournalInv, SInv, Protocol, TransactionsTypeOK
  <1>2. PICK m \in Requests : m = Request(c, "release")
    BY <1>1, RequestTypes DEF Operations
  <1>3. m.client = c /\ m.op = "release"
    BY <1>2 DEF Request
  <1>4. /\ Call(c, m) /\ UNCHANGED <<store, chain, made, context>> /\ phase[c] = "running"
        /\ phase' = [phase EXCEPT ![c] = "releasing"] /\ Release(c)
        /\ pc' = [pc EXCEPT ![c] = "start"] /\ using' = [using EXCEPT ![c] = 0]
        /\ pending' = [pending EXCEPT ![c] = NoTx]
    BY <1>1, <1>2 DEF End, Release, Goto, chainVars
  <1>5. /\ generation' = generation \/ generation < generation'
        /\ store.generation \in Nat
    BY <1>1, <1>4, CallMade
  <1>6. /\ \A d \in Clients \ {c} : /\ phase'[d] = phase[d] /\ context'[d] = context[d]
                                    /\ pc'[d] = pc[d] /\ using'[d] = using[d] /\ pending'[d] = pending[d]
        /\ pc'[c] = "start" /\ using'[c] = 0 /\ phase'[c] = "releasing"
    BY <1>1, <1>4 DEF TypeOK
  <1>7. ClientOK(c)' /\ SyncOK(c)'
    <2>1. Out(c) /\ StoreFor(c) /\ DataGrows
      BY <1>1, <1>4, <1>5, <1>6 DEF Out, StoreFor, DataGrows
    <2>2. ClientOK(c)'
      BY <1>1, <2>1, ClientElsewhere
    <2> QED BY <1>6, <2>2 DEF SyncOK, Recovering, Fresh
  <1>8. DOMAIN made \subseteq DOMAIN made'
    BY <1>4
  <1> QED BY <1>3, <1>4, <1>6, <1>7, <1>8, CallsKeep

(* a call to the chain,                                                     *)
LEMMA ChainCallKeeps ==
    ASSUME JournalInv, TransactionsTypeOK', FuelBounded', SInv', NEW c \in Clients,
           NEW kind \in Rpcs, CallChain(c, kind), UNCHANGED <<using, pending, made, chain>>
    PROVE  JournalInv'
  <1>1. /\ TypeOK /\ pending \in [Clients -> Txs \cup {NoTx}]
        /\ phase[c] = "running" /\ calls[c].op = "none" /\ pc[c] = kind
    BY DEF JournalInv, SInv, Protocol, TransactionsTypeOK, CallChain, Ready
  <1>2. CASE HasLease(c)
    <2>1. PICK body \in Bodies : body = [kind |-> kind, tx |-> pending[c]]
      BY <1>1, TransactionConstants DEF Rpcs
    <2>2. Grpc(c, body) /\ UNCHANGED pc
      BY <1>2, <2>1 DEF CallChain
    <2>3. PICK m \in Requests : m = [Request(c, "grpc") EXCEPT !.body = body]
      BY <1>1, RequestTypes
    <2>4. m.client = c /\ m.op = "grpc" /\ m.body = [kind |-> pc[c], tx |-> pending[c]]
      BY <1>1, <2>1, <2>3 DEF Request
    <2>5. Call(c, m) /\ UNCHANGED <<phase, context, store>> /\ ClientCalls(c)
      BY <2>2, <2>3 DEF Grpc, ClientCalls
    <2>6. UNCHANGED <<store, chain, context, phase>> /\ DOMAIN made \subseteq DOMAIN made'
      BY <2>5
    <2> QED BY <1>1, <2>2, <2>4, <2>5, <2>6, CallFrom
  <1>3. CASE ~HasLease(c)
    BY <1>1, <1>3, ThrowsKeeps DEF CallChain
  <1> QED BY <1>2, <1>3

(* the opening of the journal,                                              *)
LEMMA OpenKeeps ==
    ASSUME JournalInv, TransactionsTypeOK', FuelBounded', SInv', NEW c \in Clients, Open(c)
    PROVE  JournalInv'
  <1>1. TypeOK
    BY DEF JournalInv, SInv, Protocol
  <1>2. /\ phase[c] = "running" /\ pc[c] = "open" /\ OpenJournal(c)
        /\ UNCHANGED <<pc, using, pending, made, chain>>
    BY DEF Open, Ready, txVars, chainVars
  <1>3. PICK m \in Requests : m = Request(c, "openJournal")
    BY <1>1, RequestTypes DEF Operations
  <1>4. m.client = c /\ m.op = "openJournal"
    BY <1>3 DEF Request
  <1>5. Call(c, m) /\ UNCHANGED <<phase, context, store>> /\ ClientCalls(c)
    BY <1>2, <1>3 DEF OpenJournal, ClientCalls
  <1>6. UNCHANGED <<store, chain, context, phase>> /\ DOMAIN made \subseteq DOMAIN made'
    BY <1>2, <1>5
  <1> QED BY <1>2, <1>4, <1>5, <1>6, CallFrom

(* the assertion of the lease before an execution,                          *)
LEMMA AssertKeeps ==
    ASSUME JournalInv, TransactionsTypeOK', FuelBounded', SInv', NEW c \in Clients, Assert(c)
    PROVE  JournalInv'
  <1>1. TypeOK
    BY DEF JournalInv, SInv, Protocol
  <1>2. /\ phase[c] = "running" /\ calls[c].op = "none" /\ pc[c] = "assert"
        /\ UNCHANGED <<using, pending, made, chain>>
    BY DEF Assert, Ready, chainVars
  <1>3. CASE JournalUsable(c)
    <2>1. AssertLease(c) /\ UNCHANGED pc /\ using[c] = context[c]
      BY <1>3 DEF Assert, JournalUsable, HasLease
    <2>2. PICK m \in Requests : m = Request(c, "assertLease")
      BY <1>1, RequestTypes DEF Operations
    <2>3. m.client = c /\ m.op = "assertLease"
      BY <2>2 DEF Request
    <2>4. Call(c, m) /\ UNCHANGED <<phase, context, store>> /\ ClientCalls(c)
      BY <2>1, <2>2 DEF AssertLease, ClientCalls
    <2>5. UNCHANGED <<store, chain, context, phase>> /\ DOMAIN made \subseteq DOMAIN made'
      BY <1>2, <2>4
    <2> QED BY <1>2, <2>1, <2>3, <2>4, <2>5, CallFrom
  <1>4. CASE ~JournalUsable(c)
    BY <1>2, <1>4, ThrowsKeeps DEF Assert
  <1> QED BY <1>3, <1>4

(* A save of a journal: a new transaction, or none.                         *)
LEMMA SaveKeeps ==
    ASSUME JournalInv, TransactionsTypeOK', FuelBounded', SInv', NEW c \in Clients,
           NEW journal \in Journals, SaveJournal(c, journal), JournalUsable(c),
           UNCHANGED <<using, pending, chain>>, DOMAIN made \subseteq DOMAIN made',
           \/ UNCHANGED pc /\ pc[c] = "journal" /\ journal \in DOMAIN made' /\ chain[journal] = "unknown"
           \/ UNCHANGED pc /\ pc[c] = "retire" /\ journal = NoTx
           \/ /\ pc[c] = "finish" /\ journal = NoTx
              /\ Goto(c, "settled") \/ Goto(c, "concluded")
    PROVE  JournalInv'
  <1>1. TypeOK /\ pc \in [Clients -> Places]
    BY DEF JournalInv, SInv, Protocol, TransactionsTypeOK
  <1>2. PICK m \in Requests : m = SaveRequest(c, journal)
    BY <1>1, RequestTypes
  <1>3. m.client = c /\ m.op = "saveJournal" /\ m.journal = journal
    BY <1>2 DEF Request, SaveRequest
  <1>4. /\ Call(c, m) /\ UNCHANGED <<phase, context, store>> /\ ClientCalls(c)
        /\ phase[c] = "running" /\ store.generation = generation
        /\ using[c] = generation /\ context[c] = generation
    BY <1>2 DEF SaveJournal, ClientCalls, JournalUsable, HasLease
  <1>5. /\ \A d \in Clients \ {c} : pc'[d] = pc[d]
        /\ pc'[c] = pc[c] \/ (pc[c] = "finish" /\ pc'[c] \in {"settled", "concluded"})
        /\ \/ pc'[c] = "journal" /\ m.journal \in DOMAIN made' /\ chain[m.journal] = "unknown"
           \/ pc'[c] \in {"retire", "settled", "concluded"} /\ m.journal = NoTx
    BY <1>1, <1>3 DEF Goto
  <1>6. UNCHANGED <<store, chain, context, phase>>
    BY <1>4
  <1> QED BY <1>3, <1>4, <1>5, <1>6, CallFrom

(* the save of a transaction before it is submitted,                        *)
LEMMA JournalKeeps ==
    ASSUME JournalInv, TransactionsTypeOK', FuelBounded', SInv', NEW c \in Clients, Journal(c)
    PROVE  JournalInv'
  <1>1. TransactionsTypeOK /\ made \in Seq(Transactions) /\ seen \in [Clients -> Items] /\ KnownOK
    BY DEF JournalInv, TransactionsTypeOK
  <1>2. /\ phase[c] = "running" /\ calls[c].op = "none" /\ pc[c] = "journal"
        /\ UNCHANGED <<using, pending, chain>>
    BY DEF Journal, Ready, chainVars
  <1>3. CASE SameFuel(seen[c], memory) /\ JournalUsable(c)
    <2>1. PICK n : n = Len(made) + 1
      OBVIOUS
    <2>2. /\ Len(made) < MaxTxs /\ made' = Append(made, [intent |-> seen[c].intent, delta |-> seen[c].delta])
          /\ SaveJournal(c, n) /\ UNCHANGED pc
      BY <1>3, <2>1 DEF Journal
    <2>3. [intent |-> seen[c].intent, delta |-> seen[c].delta] \in Transactions
      BY <1>1 DEF Items, Transactions
    <2>4. /\ \A i \in DOMAIN made : i \in DOMAIN made'
          /\ n \in DOMAIN made'
      BY <1>1, <2>1, <2>2, <2>3, AddingIndexes
    <2>5. DOMAIN made = 1 .. Len(made) /\ Len(made) \in Nat
      BY <1>1, MadeTxs
    <2>6. n \in Txs \ DOMAIN made
      BY <2>1, <2>2, <2>5, TransactionsAssumption DEF Txs
    <2>7. chain[n] = "unknown"
      BY <1>1, <2>6 DEF KnownOK
    <2>8. n \in Journals
      BY <2>6, TransactionConstants
    <2> QED BY <1>2, <1>3, <2>2, <2>4, <2>7, <2>8, SaveKeeps
  <1>4. CASE ~(SameFuel(seen[c], memory) /\ JournalUsable(c))
    <2>1. Throws(c) /\ UNCHANGED made
      BY <1>4 DEF Journal
    <2> QED BY <1>2, <2>1, ThrowsKeeps
  <1> QED BY <1>3, <1>4

(* the save that clears one that cannot happen,                             *)
LEMMA RetireKeeps ==
    ASSUME JournalInv, TransactionsTypeOK', FuelBounded', SInv', NEW c \in Clients, Retire(c)
    PROVE  JournalInv'
  <1>1. /\ phase[c] = "running" /\ calls[c].op = "none" /\ pc[c] = "retire"
        /\ UNCHANGED <<using, pending, made, chain>>
    BY DEF Retire, Ready, chainVars
  <1>2. NoTx \in Journals
    BY TransactionConstants
  <1>3. DOMAIN made \subseteq DOMAIN made'
    BY <1>1
  <1>4. CASE JournalUsable(c)
    <2>1. SaveJournal(c, NoTx) /\ UNCHANGED pc
      BY <1>4 DEF Retire
    <2> QED BY <1>1, <1>2, <1>3, <1>4, <2>1, SaveKeeps
  <1>5. CASE ~JournalUsable(c)
    BY <1>1, <1>5, ThrowsKeeps DEF Retire
  <1> QED BY <1>4, <1>5

(* and the save that clears one that has happened.                          *)
LEMMA FinishKeeps ==
    ASSUME JournalInv, TransactionsTypeOK', FuelBounded', SInv', NEW c \in Clients, Finish(c)
    PROVE  JournalInv'
  <1>1. /\ phase[c] = "running" /\ calls[c].op = "none" /\ pc[c] = "finish"
        /\ UNCHANGED <<using, pending, made, chain>>
    BY DEF Finish, Ready, chainVars
  <1>2. NoTx \in Journals
    BY TransactionConstants
  <1>3. DOMAIN made \subseteq DOMAIN made'
    BY <1>1
  <1>4. CASE JournalUsable(c)
    <2>1. SaveJournal(c, NoTx) /\ (Goto(c, "settled") \/ Goto(c, "concluded"))
      BY <1>4 DEF Finish
    <2> QED BY <1>1, <1>2, <1>3, <1>4, <2>1, SaveKeeps
  <1>5. CASE ~JournalUsable(c)
    <2>1. Throws(c)
      BY <1>5 DEF Finish
    <2> QED BY <1>1, <2>1, ThrowsKeeps
  <1> QED BY <1>4, <1>5

(* So does every step a client makes between two answers.                   *)
LEMMA StepKeeps ==
    ASSUME JournalInv, TransactionsTypeOK', FuelBounded', SInv', NEW c \in Clients, Step(c)
    PROVE  JournalInv'
  <1>1. CASE Read(c) \/ Inquire(c)
    <2>1. PICK kind \in Rpcs : CallChain(c, kind)
      BY <1>1 DEF Read, Inquire, Rpcs
    <2>2. UNCHANGED <<using, pending, made, chain>>
      BY <1>1 DEF Read, Inquire, chainVars
    <2> QED BY <2>1, <2>2, ChainCallKeeps
  <1> QED BY <1>1, OpenKeeps, AssertKeeps, JournalKeeps, RetireKeeps, FinishKeeps, ReleaseKeeps DEF Step

--------------------------------------------------------------------------------
(* The answers.                                                             *)

(* Who awaits an answer is at the place of its call.                        *)
LEMMA AnswerPlace ==
    ASSUME JournalInv, NEW c \in Clients, NEW op \in Operations \ {"acquire", "release"}, Answered(c, op)
    PROVE  /\ phase[c] = "running"
           /\ op = "grpc" => pc[c] \in Rpcs
           /\ op = "openJournal" => pc[c] = "open"
           /\ op = "assertLease" => pc[c] = "assert"
           /\ op = "saveJournal" => pc[c] \in {"journal", "retire", "settled", "concluded"}
           /\ toParent # <<>> /\ Head(toParent) = toParent[1] /\ 1 \in DOMAIN toParent
           /\ toParent[1] \in Replies /\ AnswerTrue(1)
           /\ toParent[1].client = c /\ calls[c].op = op
           /\ calls' = [calls EXCEPT ![c] = NoCall] /\ calls'[c].op = "none"
  <1>1. TypeOK /\ PhasesOK /\ ClientOK(c)
    BY DEF JournalInv, SInv, Protocol
  <1>2. /\ Head(toParent) \in Replies /\ Head(toParent) = toParent[1] /\ 1 \in DOMAIN toParent
        /\ toParent[1].client = c /\ calls[c].op = op
    BY <1>1, HeadReply
  <1>3. phase[c] = "running"
    BY <1>1, <1>2 DEF PhasesOK, TypeOK, Phases, Operations
  <1>4. Expects(c)
    BY <1>1, <1>3 DEF ClientOK, PlaceOK
  <1>5. AnswerTrue(1)
    BY <1>2 DEF JournalInv, TalkTrue
  <1>6. /\ toParent # <<>> /\ calls' = [calls EXCEPT ![c] = NoCall]
        /\ calls'[c].op = "none"
    BY <1>1 DEF Answered, TypeOK, NoCall
  <1> QED BY <1>2, <1>3, <1>4, <1>5, <1>6 DEF Expects, Operations

(* A client that takes an answer, its own state being right, keeps the      *)
(* invariant:                                                               *)
LEMMA RepliesKeep ==
    ASSUME JournalInv, TransactionsTypeOK', FuelBounded', SInv', NEW c \in Clients, HandleReply(c),
           calls[c].op # "saveJournal" \/ ~toParent[1].ok, UNCHANGED <<store, chain, made>>,
           \A d \in Clients \ {c} : pc'[d] = pc[d] /\ using'[d] = using[d] /\ pending'[d] = pending[d],
           ClientOK(c)', SyncOK(c)'
    PROVE  JournalInv'
  <1>1. Protocol /\ TurnInv
    BY DEF JournalInv, SInv
  <1>2. /\ Frame({c})
        /\ \A i \in DOMAIN toWorker' : toWorker'[i].client # c
        /\ \A i \in DOMAIN toParent' : toParent'[i].client # c
    BY ReplyFrame
  <1>3. Admitted(c) \/ EngagedKept
    BY <1>1, HandleReplyTurn
  <1>4. \A d \in Clients \ {c} : Engaged(d)' => Engaged(d) /\ generation' = generation
    BY <1>3 DEF EngagedKept, Admitted
  <1>5. PICK C \in SUBSET Clients : C = {c}
    OBVIOUS
  <1>6. /\ Frame(C)
        /\ \A d \in Clients \ C : Engaged(d)' => Engaged(d) /\ generation' = generation
        /\ \A d \in C : ClientOK(d)' /\ SyncOK(d)'
        /\ \A i \in DOMAIN toWorker' : toWorker'[i].client \in C => BodyOK(i)'
        /\ \A i \in DOMAIN toParent' : toParent'[i].client \in C => AnswerTrue(i)'
    BY <1>2, <1>4, <1>5
  <1> QED BY <1>6, FrameKeeps

(* An action begins, or a client leaves.                                    *)
LEMMA LeavesKeeps ==
    ASSUME JournalInv, TransactionsTypeOK', FuelBounded', SInv', NEW c \in Clients, HandleReply(c),
           calls[c].op \in {"acquire", "release"}, phase'[c] = "idle",
           UNCHANGED <<store, chain, made, using, pending>>, UNCHANGED pc \/ Goto(c, "start")
    PROVE  JournalInv'
  <1>1. /\ Protocol /\ Protocol' /\ TypeOK /\ PhasesOK /\ ClientOK(c) /\ TransactionsTypeOK
        /\ pc \in [Clients -> Places]
    BY DEF JournalInv, SInv, Protocol, TransactionsTypeOK
  <1>2. phase[c] # "running" /\ pc[c] = "start" /\ using[c] <= store.generation
    BY <1>1 DEF PhasesOK, ClientOK, PlaceOK, ContextOK
  <1>3. /\ \A d \in Clients \ {c} : pc'[d] = pc[d]
        /\ pc'[c] = "start"
    BY <1>1, <1>2 DEF Goto
  <1>4. generation' = generation
    BY ReplyLeft
  <1>5. Out(c) /\ StoreFor(c) /\ DataGrows
    BY <1>2, <1>3, <1>4 DEF Out, StoreFor, DataGrows
  <1>6. ClientOK(c)'
    BY <1>1, <1>5, ClientElsewhere
  <1>7. SyncOK(c)'
    BY <1>3 DEF SyncOK, Recovering, Fresh
  <1> QED BY <1>3, <1>6, <1>7, RepliesKeep

(* the lease it was given,                                                  *)
LEMMA BeginsKeeps ==
    ASSUME JournalInv, TransactionsTypeOK', FuelBounded', SInv', NEW c \in Clients, Begins(c)
    PROVE  JournalInv'
  <1>1. /\ Protocol /\ TypeOK /\ PhasesOK /\ ClientOK(c) /\ KnownOK /\ StoreOK
        /\ pc \in [Clients -> Places] /\ using \in [Clients -> Nat]
        /\ pending \in [Clients -> Txs \cup {NoTx}] /\ phase \in [Clients -> Phases]
        /\ generation \in Nat /\ generation > 0 /\ store.generation \in Nat
    BY DEF JournalInv, SInv, Protocol, TransactionsTypeOK, ProcessOK, TypeOK
  <1>2. /\ AcquireAnswered(c) /\ HandleReply(c) /\ UNCHANGED <<store, chain, made, generation>>
        /\ calls' = [calls EXCEPT ![c] = NoCall] /\ calls[c].op = "acquire"
    BY DEF Begins, AcquireAnswered, HandleReply, Answered, chainVars, processVars
  <1>3. calls'[c].op = "none"
    BY <1>1, <1>2 DEF TypeOK, NoCall
  <1>4. CASE ~Head(toParent).ok
    <2>1. phase'[c] = "idle" /\ Goto(c, "start") /\ UNCHANGED <<using, pending>>
      BY <1>1, <1>2, <1>4 DEF Begins, AcquireAnswered, Leave
    <2> QED BY <1>2, <2>1, LeavesKeeps
  <1>5. CASE Head(toParent).ok
    <2>1. phase'[c] = "running" /\ context'[c] = context[c]
      BY <1>1, <1>2, <1>5 DEF AcquireAnswered
    <2>2. CASE store.generation # 0 /\ ~(c = Syncer /\ store.generation # generation)
      <3>1. using' = [using EXCEPT ![c] = store.generation] /\ Recovers(c, store.journal)
        BY <1>5, <2>2 DEF Begins
      <3>2. PICK place : place = (IF store.journal = NoTx THEN "read" ELSE "query")
        OBVIOUS
      <3>3. /\ \A d \in Clients \ {c} : pc'[d] = pc[d] /\ using'[d] = using[d] /\ pending'[d] = pending[d]
            /\ pc'[c] = place /\ using'[c] = store.generation /\ pending'[c] = store.journal
        BY <1>1, <3>1, <3>2 DEF Recovers, Goto
      <3>4. PlaceOK(c)'
        BY <1>3, <2>1, <3>2, <3>3 DEF PlaceOK, Expects
      <3>5. ContextOK(c)'
        BY <1>1, <1>2, <1>3, <3>2, <3>3 DEF ContextOK
      <3>6. RecoveryOK(c)'
        BY <1>1, <1>2, <1>3, <3>2, <3>3 DEF RecoveryOK, KnownOK, Recovering
      <3>7. store.journal = NoTx => file = NoTx \/ chain[file] \in {"unknown", "dead"}
        <4>1. file # NoTx => chain[file] \in Fates
          BY <1>1, MadeTxs DEF KnownOK, JournalInv, TransactionsTypeOK
        <4> QED BY <1>1, <2>2, <4>1 DEF StoreOK, Fates
      <3>8. file' = file
        BY <1>2, ReplyLeft
      <3>9. SyncOK(c)'
        BY <1>2, <1>3, <3>2, <3>3, <3>7, <3>8 DEF SyncOK, Recovering, Fresh
      <3> QED BY <1>2, <3>3, <3>4, <3>5, <3>6, <3>9, RepliesKeep DEF ClientOK
    <2>3. CASE ~(store.generation # 0 /\ ~(c = Syncer /\ store.generation # generation))
      <3>1. Goto(c, IF c = Syncer THEN "open" ELSE "end") /\ UNCHANGED <<using, pending>>
        BY <1>5, <2>3 DEF Begins
      <3>2. /\ \A d \in Clients \ {c} : pc'[d] = pc[d] /\ using'[d] = using[d] /\ pending'[d] = pending[d]
            /\ pc'[c] \in {"open", "end"} /\ (pc'[c] = "open" => c = Syncer)
        BY <1>1, <3>1 DEF Goto
      <3>3. PlaceOK(c)'
        BY <1>3, <2>1, <3>2 DEF PlaceOK, Expects
      <3>4. ContextOK(c)'
        BY <1>1, <1>2, <1>3, <2>3, <3>1, <3>2 DEF ContextOK, ClientOK
      <3>5. RecoveryOK(c)'
        BY <3>2 DEF RecoveryOK, Recovering
      <3>6. SyncOK(c)'
        BY <3>2 DEF SyncOK, Recovering, Fresh
      <3> QED BY <1>2, <3>2, <3>3, <3>4, <3>5, <3>6, RepliesKeep DEF ClientOK
    <2> QED BY <2>2, <2>3
  <1> QED BY <1>4, <1>5

(* An action goes on with what it has learnt.                               *)
LEMMA MovesKeep ==
    ASSUME JournalInv, TransactionsTypeOK', FuelBounded', SInv', NEW c \in Clients, HandleReply(c),
           NEW op \in {"grpc", "assertLease"}, Answered(c, op),
           UNCHANGED <<store, chain, made, using, pending, phase, context>>,
           NEW place, Goto(c, place), place \notin {"start", "open", "settled", "concluded"},
           place \in {"execute", "proof", "retire"} => using[c] = context[c],
           place \in Recovering => pc[c] \in Recovering,
           place \in Fresh => pc[c] \in Fresh,
           place \in {"wait", "finish"} => Settled(pending[c]),
           place = "retire" => chain[pending[c]] = "dead"
    PROVE  JournalInv'
  <1>1. ClientOK(c) /\ SyncOK(c) /\ pc \in [Clients -> Places]
    BY DEF JournalInv, TransactionsTypeOK
  <1>2. phase[c] = "running" /\ calls[c].op = op /\ calls'[c].op = "none"
    BY AnswerPlace DEF Operations
  <1>3. pc'[c] = place /\ \A d \in Clients \ {c} : pc'[d] = pc[d]
    BY <1>1 DEF Goto
  <1>4. /\ UNCHANGED <<generation, file>>
        /\ Protocol /\ TurnInv
    BY ReplyLeft DEF JournalInv, SInv
  <1>5. ClientOK(c)'
    <2>1. PlaceOK(c)'
      BY <1>2, <1>3 DEF PlaceOK, Expects
    <2>2. ContextOK(c)'
      BY <1>1, <1>2, <1>3, <1>4 DEF ContextOK, ClientOK
    <2>3. RecoveryOK(c)'
      BY <1>1, <1>2, <1>3 DEF RecoveryOK, ClientOK, Recovering, Settled
    <2> QED BY <2>1, <2>2, <2>3 DEF ClientOK
  <1>6. SyncOK(c)'
    <2>1. Engaged(c)' => Engaged(c)
      <3>1. Admitted(c) \/ EngagedKept
        BY <1>4, HandleReplyTurn
      <3>2. ~Admitted(c)
        BY <1>2 DEF Admitted, AcquireAnswered, Answered
      <3> QED BY <3>1, <3>2 DEF EngagedKept
    <2> QED BY <1>1, <1>2, <1>3, <1>4, <2>1 DEF SyncOK
  <1>7. calls[c].op # "saveJournal"
    BY <1>2
  <1> QED BY <1>3, <1>5, <1>6, <1>7, RepliesKeep

(* the lease that was asserted,                                             *)
LEMMA AssertedKeeps ==
    ASSUME JournalInv, TransactionsTypeOK', FuelBounded', SInv', NEW c \in Clients, Asserted(c)
    PROVE  JournalInv'
  <1>1. /\ AssertAnswered(c) /\ HandleReply(c) /\ Answered(c, "assertLease")
        /\ UNCHANGED <<store, chain, made, using, pending, phase, context>>
    BY DEF Asserted, AssertAnswered, HandleReply, chainVars
  <1>2. pc[c] = "assert" /\ calls[c].op = "assertLease"
    BY <1>1, AnswerPlace DEF Operations
  <1>3. using[c] = context[c]
    BY <1>2 DEF JournalInv, ClientOK, ContextOK
  <1>4. PICK place \in {"execute", "end"} : Goto(c, place)
    BY DEF Asserted
  <1> QED BY <1>1, <1>2, <1>3, <1>4, MovesKeep DEF Recovering, Fresh

(* what the chain says of the transaction,                                  *)
LEMMA InformedKeeps ==
    ASSUME JournalInv, TransactionsTypeOK', FuelBounded', SInv', NEW c \in Clients, Informed(c)
    PROVE  JournalInv'
  <1>1. /\ GrpcAnswered(c) /\ HandleReply(c) /\ Answered(c, "grpc")
        /\ UNCHANGED <<store, chain, made, using, pending, phase, context>>
    BY DEF Informed, GrpcAnswered, HandleReply, chainVars
  <1>2. /\ Head(toParent) = toParent[1] /\ AnswerTrue(1) /\ calls[c].op = "grpc"
        /\ toParent[1].client = c
    BY <1>1, AnswerPlace DEF Operations
  <1>3. /\ Positive /\ pc[c] \in {"query", "execute", "wait"} => Settled(pending[c])
        /\ Positive /\ pc[c] = "proof" => chain[pending[c]] = "dead"
    BY <1>2 DEF Positive, AnswerTrue
  <1>4. /\ pc[c] = "wait" => Settled(pending[c])
        /\ pc[c] \in {"execute", "proof"} => using[c] = context[c]
    BY DEF JournalInv, ClientOK, ContextOK, RecoveryOK
  <1>5. CASE pc[c] = "query" /\ Goto(c, IF Positive THEN "wait" ELSE "assert")
    <2>1. PICK place : Goto(c, place) /\ (\/ place = "wait" /\ Positive
                                          \/ place = "assert")
      BY <1>5
    <2> QED BY <1>1, <1>3, <1>5, <2>1, MovesKeep DEF Recovering, Fresh
  <1>6. CASE pc[c] = "execute" /\ Goto(c, IF Positive THEN "wait" ELSE "proof")
    <2>1. PICK place : Goto(c, place) /\ (\/ place = "wait" /\ Positive
                                          \/ place = "proof")
      BY <1>6
    <2> QED BY <1>1, <1>3, <1>4, <1>6, <2>1, MovesKeep DEF Recovering, Fresh
  <1>7. CASE pc[c] = "proof" /\ Goto(c, IF Positive THEN "retire" ELSE "end")
    <2>1. PICK place : Goto(c, place) /\ (\/ place = "retire" /\ Positive
                                          \/ place = "end")
      BY <1>7
    <2> QED BY <1>1, <1>3, <1>4, <1>7, <2>1, MovesKeep DEF Recovering, Fresh
  <1>8. CASE pc[c] = "wait" /\ Goto(c, IF Positive THEN "finish" ELSE "end")
    <2>1. PICK place \in {"finish", "end"} : Goto(c, place)
      BY <1>8
    <2> QED BY <1>1, <1>4, <1>8, <2>1, MovesKeep DEF Recovering, Fresh
  <1>9. CASE pc[c] = "build" /\ Goto(c, IF Positive THEN "journal" ELSE "end")
    <2>1. PICK place \in {"journal", "end"} : Goto(c, place)
      BY <1>9
    <2> QED BY <1>1, <1>9, <2>1, MovesKeep DEF Recovering, Fresh
  <1> QED BY <1>5, <1>6, <1>7, <1>8, <1>9 DEF Informed

(* what it says of the node,                                                *)
LEMMA ReadsKeep ==
    ASSUME JournalInv, TransactionsTypeOK', FuelBounded', SInv', NEW c \in Clients,
           PassReads(c) \/ TransferReads(c) \/ TransferFails(c)
    PROVE  JournalInv'
  <1>1. GrpcAnswered(c) /\ pc[c] = "read"
    BY DEF PassReads, TransferReads, TransferFails
  <1>2. HandleReply(c) /\ Answered(c, "grpc") /\ UNCHANGED <<store, phase, context>>
    BY <1>1 DEF GrpcAnswered, HandleReply
  <1>3. UNCHANGED <<chain, made, using, pending>>
    BY DEF PassReads, TransferReads, TransferFails, chainVars
  <1>4. UNCHANGED <<store, chain, made, using, pending, phase, context>>
    BY <1>2, <1>3
  <1>5. PICK place \in {"build", "end"} : Goto(c, place)
    BY DEF PassReads, TransferReads, TransferFails
  <1> QED BY <1>1, <1>2, <1>4, <1>5, MovesKeep DEF Recovering, Fresh

(* The journal is what the file holds: recovery begins, or begins anew.     *)
LEMMA JournalLearnt ==
    ASSUME JournalInv, TransactionsTypeOK', FuelBounded', SInv', NEW c \in Clients, HandleReply(c),
           phase[c] = "running", calls[c].op \notin {"acquire", "release"}, calls'[c].op = "none",
           UNCHANGED <<phase, context, chain, made>>,
           store'.journal = file, store'.generation = generation, using'[c] <= generation,
           \A d \in Clients \ {c} : pc'[d] = pc[d] /\ using'[d] = using[d] /\ pending'[d] = pending[d],
           \A d \in Clients \ {c} : store.generation = generation \/ pc[d] # "open",
           \A d \in Clients \ {c} : Engaged(d) => using[d] # generation,
           \/ pc'[c] = "end"
           \/ pending'[c] = file /\ pc'[c] = (IF file = NoTx THEN "read" ELSE "query")
    PROVE  JournalInv'
  <1>1. /\ Protocol /\ Protocol' /\ TypeOK /\ TurnInv /\ TransactionsTypeOK /\ KnownOK
        /\ generation \in Nat /\ store.generation \in Nat /\ store.generation <= generation
    BY DEF JournalInv, SInv, Protocol, ProcessOK, TypeOK
  <1>2. /\ UNCHANGED <<generation, child, toWorker, file>>
        /\ NoRequest(c)
        /\ \A i \in DOMAIN toParent' :
             /\ toParent'[i].client \in Clients \ {c}
             /\ \E k \in DOMAIN toParent : toParent'[i] = toParent[k]
    BY ReplyLeft
  <1>3. \A d \in Clients \ {c} : Still(d)
    <2>1. \A d \in Clients \ {c} : context'[d] = context[d] /\ phase'[d] = phase[d] /\ calls'[d] = calls[d]
      BY <1>1, ReplyShape
    <2> QED BY <2>1 DEF Still
  <1>4. DataGrows /\ \A d \in Clients \ {c} : StoreFor(d)
    BY <1>2 DEF DataGrows, StoreFor
  <1>5. EngagedKept
    <2>1. Admitted(c) \/ EngagedKept
      BY <1>1, HandleReplyTurn
    <2> QED BY <2>1 DEF Admitted, AcquireAnswered, Answered
  <1>6. \A d \in Clients : ClientOK(d)'
    <2>1. ASSUME NEW d \in Clients \ {c}
          PROVE  ClientOK(d)'
      <3>1. ClientOK(d) /\ Still(d) /\ StoreFor(d)
        BY <1>3, <1>4 DEF JournalInv
      <3> QED BY <1>1, <1>4, <3>1, ClientElsewhere
    <2>2. PlaceOK(c)'
      BY DEF PlaceOK, Expects
    <2>3. ContextOK(c)'
      BY DEF ContextOK
    <2>4. RecoveryOK(c)'
      BY <1>1 DEF RecoveryOK, KnownOK, Recovering
    <2> QED BY <2>1, <2>2, <2>3, <2>4 DEF ClientOK
  <1>7. \A d \in Clients : SyncOK(d)'
    <2>1. ASSUME NEW d \in Clients \ {c}
          PROVE  SyncOK(d)'
      <3>1. SyncOK(d) /\ Still(d) /\ (Engaged(d)' => Engaged(d) /\ using[d] # generation)
        BY <1>3, <1>5 DEF JournalInv, EngagedKept
      <3> QED BY <1>2, <3>1 DEF SyncOK, Still
    <2>2. SyncOK(c)'
      BY <1>2 DEF SyncOK, Recovering, Fresh
    <2> QED BY <2>1, <2>2
  <1>8. \A i \in DOMAIN toWorker' : BodyOK(i)'
    <2>1. ASSUME NEW i \in DOMAIN toWorker'
          PROVE  BodyOK(i)'
      <3>1. i \in DOMAIN toWorker /\ BodyOK(i) /\ toWorker'[i] = toWorker[i]
        BY <1>2 DEF JournalInv, TalkTrue
      <3>2. toWorker[i].client \in Clients \ {c}
        BY <1>1, <1>2, <3>1, ElementTypes DEF NoRequest
      <3> QED BY <3>1, <3>2, BodyElsewhere
    <2> QED BY <2>1
  <1>9. \A i \in DOMAIN toParent' : AnswerTrue(i)'
    <2>1. ASSUME NEW i \in DOMAIN toParent'
          PROVE  AnswerTrue(i)'
      <3>1. PICK k \in DOMAIN toParent : toParent'[i] = toParent[k]
        BY <1>2
      <3>2. PICK d \in Clients \ {c} : d = toParent[k].client
        BY <1>2, <3>1
      <3>3. AnswerTrue(k) /\ ClientOK(d) /\ Still(d)
        BY <1>3 DEF JournalInv, TalkTrue
      <3> QED BY <1>1, <1>2, <1>4, <3>1, <3>2, <3>3, AnswerElsewhere
    <2> QED BY <2>1
  <1>10. KnownOK' /\ StoreOK' /\ OneUncertain'
    BY <1>1, <1>2 DEF JournalInv, KnownOK, StoreOK, OneUncertain
  <1> QED BY <1>6, <1>7, <1>8, <1>9, <1>10 DEF JournalInv, TalkTrue

(* the journal that was opened,                                             *)
LEMMA OpenedKeeps ==
    ASSUME JournalInv, TransactionsTypeOK', FuelBounded', SInv', NEW c \in Clients, Opened(c)
    PROVE  JournalInv'
  <1>1. /\ pc[c] = "open" /\ OpenAnswered(c) /\ HandleReply(c) /\ Answered(c, "openJournal")
        /\ UNCHANGED <<phase, context, chain, made>>
    BY DEF Opened, OpenAnswered, HandleReply, chainVars
  <1>2. /\ phase[c] = "running" /\ calls[c].op = "openJournal" /\ calls'[c].op = "none"
        /\ AnswerTrue(1) /\ toParent[1].client = c /\ Head(toParent) = toParent[1]
    BY <1>1, AnswerPlace DEF Operations
  <1>3. calls[c].generation = generation /\ UNCHANGED <<generation, file>>
    BY <1>1, ReplyLeft
  <1>4. toParent[1].journal = file
    BY <1>2 DEF AnswerTrue
  <1>5. /\ store' = [generation |-> generation, revision |-> Head(toParent).revision, journal |-> file]
        /\ store'.generation = generation /\ store'.journal = file
    BY <1>1, <1>2, <1>3, <1>4 DEF OpenAnswered
  <1>6. /\ pc \in [Clients -> Places] /\ using \in [Clients -> Nat] /\ pending \in [Clients -> Txs \cup {NoTx}]
        /\ generation \in Nat /\ store.generation \in Nat /\ store.generation <= generation
        /\ \A d \in Clients : ClientOK(d)
    BY DEF JournalInv, SInv, Protocol, ProcessOK, TransactionsTypeOK, TypeOK
  <1>7. /\ \A d \in Clients \ {c} : pc'[d] = pc[d] /\ using'[d] = using[d] /\ pending'[d] = pending[d]
        /\ using'[c] = generation /\ pending'[c] = file
        /\ pc'[c] = (IF file = NoTx THEN "read" ELSE "query")
    BY <1>5, <1>6 DEF Opened, Recovers, Goto
  <1>8. c = Syncer /\ store.generation # generation
    BY <1>1, <1>6 DEF ClientOK, ContextOK
  <1>9. \A d \in Clients \ {c} : pc[d] # "open" /\ using[d] # generation
    <2>1. ASSUME NEW d \in Clients \ {c}
          PROVE  pc[d] # "open" /\ using[d] # generation
      <3>1. ContextOK(d) /\ using[d] \in Nat
        BY <1>6 DEF ClientOK
      <3> QED BY <1>6, <1>8, <3>1 DEF ContextOK
    <2> QED BY <2>1
  <1>10. using'[c] <= generation
    BY <1>6, <1>7
  <1>11. calls[c].op \notin {"acquire", "release"}
    BY <1>2
  <1> QED BY <1>1, <1>2, <1>5, <1>7, <1>9, <1>10, <1>11, JournalLearnt

(* and the journal that was saved.                                          *)
LEMMA SavedKeeps ==
    ASSUME JournalInv, TransactionsTypeOK', FuelBounded', SInv', NEW c \in Clients, Saved(c)
    PROVE  JournalInv'
  <1>1. /\ SaveAnswered(c) /\ HandleReply(c) /\ Answered(c, "saveJournal")
        /\ UNCHANGED <<phase, context, chain, made, using>>
    BY DEF Saved, SaveAnswered, HandleReply, chainVars
  <1>2. /\ phase[c] = "running" /\ calls[c].op = "saveJournal" /\ calls'[c].op = "none"
        /\ AnswerTrue(1) /\ toParent[1].client = c /\ Head(toParent) = toParent[1] /\ 1 \in DOMAIN toParent
    BY <1>1, AnswerPlace DEF Operations
  <1>3. calls[c].generation = generation /\ UNCHANGED <<generation, file>>
    BY <1>1, ReplyLeft
  <1>4. /\ pc \in [Clients -> Places] /\ using \in [Clients -> Nat] /\ pending \in [Clients -> Txs \cup {NoTx}]
        /\ generation \in Nat /\ store.generation \in Nat /\ store.generation <= generation
        /\ store \in [generation : Nat, revision : Nat, journal : Journals]
        /\ \A d \in Clients : ClientOK(d)
        /\ Protocol /\ Protocol' /\ TransactionsTypeOK /\ TurnInv
    BY DEF JournalInv, SInv, Protocol, ProcessOK, TransactionsTypeOK, TypeOK
  <1>5. using[c] <= store.generation /\ using[c] \in Nat
    BY <1>4 DEF ClientOK, ContextOK
  <1>6. CASE ~Head(toParent).ok
    <2>1. store' = store /\ Goto(c, "end") /\ UNCHANGED pending
      BY <1>1, <1>6 DEF SaveAnswered, Saved
    <2>2. pc'[c] = "end" /\ \A d \in Clients \ {c} : pc'[d] = pc[d]
      BY <1>4, <2>1 DEF Goto
    <2>3. Out(c) /\ StoreFor(c) /\ DataGrows
      BY <1>1, <1>2, <1>3, <1>5, <2>1, <2>2 DEF Out, StoreFor, DataGrows
    <2>4. ClientOK(c)'
      BY <1>4, <2>3, ClientElsewhere
    <2>5. SyncOK(c)'
      BY <2>2 DEF SyncOK, Recovering, Fresh
    <2> QED BY <1>1, <1>2, <1>6, <2>1, <2>2, <2>4, <2>5, RepliesKeep
  <1>7. CASE Head(toParent).ok
    <2>1. UnderLease(1) /\ file = calls[c].journal
      BY <1>2, <1>7 DEF UnderLease, AnswerTrue
    <2>2. context[c] = generation /\ Engaged(c)
      BY <1>2, <1>4, <2>1 DEF TurnInv, TurnOK, UnderLeaseOK, Inside, Engaged
    <2>3. store.generation = generation
      BY <1>2, <1>4, <2>2 DEF ClientOK, ContextOK
    <2>4. store'.journal = file /\ store'.generation = generation
      <3>1. store' = [store EXCEPT !.revision = Head(toParent).revision, !.journal = calls[c].journal]
        BY <1>1, <1>3, <1>7, <2>3 DEF SaveAnswered
      <3> QED BY <1>4, <2>1, <2>3, <3>1
    <2>5. \A d \in Clients \ {c} : Engaged(d) => using[d] # generation
      BY <2>2, EngagedOne DEF JournalInv
    <2>6. \/ Recovers(c, file)
          \/ Goto(c, "end") /\ UNCHANGED pending
      BY <1>7, <2>1 DEF Saved
    <2>7. /\ \A d \in Clients \ {c} : pc'[d] = pc[d] /\ using'[d] = using[d] /\ pending'[d] = pending[d]
          /\ \/ pc'[c] = "end"
             \/ pending'[c] = file /\ pc'[c] = (IF file = NoTx THEN "read" ELSE "query")
      BY <1>1, <1>4, <2>6 DEF Recovers, Goto
    <2>8. using'[c] <= generation /\ calls[c].op \notin {"acquire", "release"}
      BY <1>1, <1>2, <1>5, <2>3
    <2> QED BY <1>1, <1>2, <2>3, <2>4, <2>5, <2>7, <2>8, JournalLearnt
  <1> QED BY <1>6, <1>7

(* So does every answer a client takes.                                     *)
LEMMA ReplyKeeps ==
    ASSUME JournalInv, TransactionsTypeOK', FuelBounded', SInv', NEW c \in Clients, Reply(c)
    PROVE  JournalInv'
  <1>1. CASE ReleaseAnswered(c) /\ UNCHANGED txVars
    <2>1. HandleReply(c) /\ UNCHANGED <<store, chain, made, using, pending, pc>> /\ calls[c].op = "release"
      BY <1>1 DEF ReleaseAnswered, HandleReply, Answered, txVars, chainVars
    <2>2. phase'[c] = "idle"
      BY <1>1 DEF ReleaseAnswered, Leave, JournalInv, SInv, Protocol, TypeOK
    <2> QED BY <2>1, <2>2, LeavesKeeps
  <1> QED BY <1>1, BeginsKeeps, OpenedKeeps, AssertedKeeps, InformedKeeps, SavedKeeps, ReadsKeep DEF Reply

--------------------------------------------------------------------------------
(* The answers of the child.                                                *)

(* A call that is served: its client is inside its action, awaits it and    *)
(* gets one answer, the newest.                                             *)
LEMMA ServedCall ==
    ASSUME JournalInv, SInv', Serves, UNCHANGED <<pc, using, pending, made>>,
           NEW m, m = Head(toWorker)
    PROVE  /\ m \in Requests /\ 1 \in DOMAIN toWorker /\ toWorker[1] = m
           /\ m.client \in Clients /\ calls[m.client].op = m.op /\ phase[m.client] = "running"
           /\ m.op \in {"assertLease", "openJournal", "saveJournal", "grpc"}
           /\ m.awaited /\ m.generation = context[m.client]
           /\ NoReply(m.client)
           /\ LeaseValid(m) => Holds(m.client)
           /\ child = "up"
           /\ UNCHANGED <<generation, child, calls, phase, context, store, lease, queue>>
           /\ Shifted /\ Answers(m)
           /\ EngagedKept
           /\ \A d : Still(d)
           /\ Saving => Saving'
  <1>1. Protocol /\ TypeOK /\ TurnInv
    BY DEF JournalInv, SInv, Protocol
  <1>2. /\ Shifted /\ Answers(m)
        /\ m.op \in {"assertLease", "openJournal", "saveJournal", "grpc"}
        /\ UNCHANGED <<generation, child, calls, phase, context, store, lease, queue>>
    BY <1>1, ServesShape
  <1>3. /\ m \in Requests /\ m.client \in Clients /\ 1 \in DOMAIN toWorker /\ toWorker[1] = m
        /\ child = "up"
    BY <1>1, <1>2, HeadRequest
  <1>4. /\ toWorker[1].awaited /\ toWorker[1].generation = context[toWorker[1].client]
        /\ Awaits(toWorker[1].client, toWorker[1].op)
        /\ phase[toWorker[1].client] = "running"
        /\ NoReply(toWorker[1].client)
    <2>1. toWorker[1].op \in {"openJournal", "assertLease", "saveJournal", "grpc"}
      BY <1>2, <1>3
    <2> QED BY <1>1, <1>3, <2>1, CallersInside
  <1>5. /\ m.awaited /\ m.generation = context[m.client] /\ Awaits(m.client, m.op)
        /\ phase[m.client] = "running" /\ NoReply(m.client)
    BY <1>3, <1>4
  <1>6. LeaseValid(m) => Holds(m.client)
    BY <1>5 DEF LeaseValid, LeaseHolder, Holds, Inside
  <1>7. EngagedKept
    <2>1. Protocol'
      BY DEF SInv
    <2> QED BY <1>1, <2>1, ServesTurn
  <1>8. \A d : Still(d)
    BY <1>2 DEF Still
  <1>9. PICK A \in SUBSET Clients : Handles(A)
    BY <1>1, <1>2, AnswersHead
  <1>10. Saving => Saving'
    <2>1. \A i \in DOMAIN toParent : i \in DOMAIN toParent' /\ toParent'[i] = toParent[i]
      BY <1>9 DEF Handles, Replied
    <2> QED BY <1>2, <2>1, SavingStays
  <1> QED BY <1>2, <1>3, <1>5, <1>6, <1>7, <1>8, <1>10 DEF Awaits

(* It keeps the invariant if the answer is true, and the file and the chain *)
(* are what the engaged client takes them for.                              *)
LEMMA ServedKeeps ==
    ASSUME JournalInv, TransactionsTypeOK', FuelBounded', SInv', Serves,
           UNCHANGED <<pc, using, pending, made>>, DataGrows,
           NEW m, m = Head(toWorker), NEW r \in Replies, toParent' = Append(toParent, r), r.client = m.client,
           m.op = "grpc" /\ r.ok =>
             /\ r.result # NoResult
             /\ r.result.found /\ pc[m.client] \in {"query", "execute", "wait"} => Settled(pending[m.client])'
             /\ r.result.found /\ pc[m.client] = "proof" => chain'[pending[m.client]] = "dead",
           m.op = "openJournal" => r.journal = file',
           m.op = "saveJournal" /\ r.ok => file' = calls[m.client].journal,
           file' = file \/ \A k \in DOMAIN toParent : calls[toParent[k].client].op # "openJournal" /\ ~UnderLease(k),
           KnownOK', StoreOK', OneUncertain', \A d \in Clients : SyncOK(d)'
    PROVE  JournalInv'
  <1>1. Protocol /\ Protocol' /\ TransactionsTypeOK /\ TypeOK /\ TypeOK'
    BY DEF JournalInv, SInv, Protocol
  <1>2. /\ m \in Requests /\ m.client \in Clients /\ calls[m.client].op = m.op
        /\ UNCHANGED <<generation, calls, store>>
        /\ Shifted /\ \A d : Still(d)
    BY <1>1, ServedCall
  <1>3. \A d : StoreFor(d)
    BY <1>2 DEF StoreFor
  <1>4. \A d \in Clients : ClientOK(d)'
    <2>1. ASSUME NEW d \in Clients
          PROVE  ClientOK(d)'
      <3>1. ClientOK(d) /\ Still(d) /\ StoreFor(d)
        BY <1>2, <1>3 DEF JournalInv
      <3> QED BY <1>1, <3>1, ClientElsewhere
    <2> QED BY <2>1
  <1>5. \A i \in DOMAIN toWorker' : BodyOK(i)'
    <2>1. ASSUME NEW i \in DOMAIN toWorker'
          PROVE  BodyOK(i)'
      <3>1. PICK k \in DOMAIN toWorker : toWorker'[i] = toWorker[k]
        BY <1>2 DEF Shifted
      <3>2. BodyOK(k)
        BY DEF JournalInv, TalkTrue
      <3> QED BY <3>1, <3>2, BodyElsewhere
    <2> QED BY <2>1
  <1>6. \A i \in DOMAIN toParent' : AnswerTrue(i)'
    <2>1. ASSUME NEW i \in DOMAIN toParent', toParent'[i] = r
          PROVE  AnswerTrue(i)'
      <3>1. PICK d \in Clients : d = m.client
        BY <1>2
      <3>2. r.client = d /\ calls[d].op = m.op /\ UNCHANGED <<calls, pc, pending>>
        BY <1>2, <3>1
      <3>3. /\ calls[d].op = "grpc" /\ r.ok =>
                 /\ r.result # NoResult
                 /\ r.result.found /\ pc[d] \in {"query", "execute", "wait"} => Settled(pending[d])'
                 /\ r.result.found /\ pc[d] = "proof" => chain'[pending[d]] = "dead"
            /\ calls[d].op = "openJournal" => r.journal = file'
            /\ calls[d].op = "saveJournal" /\ r.ok => file' = calls[d].journal
        BY <3>1, <3>2
      <3> QED BY <2>1, <3>2, <3>3 DEF AnswerTrue
    <2>2. ASSUME NEW i \in DOMAIN toParent
          PROVE  AnswerTrue(i)'
      <3>1. PICK d \in Clients : d = toParent[i].client
        BY <1>1, ElementTypes
      <3>2. AnswerTrue(i) /\ ClientOK(d) /\ Still(d)
        BY <1>2 DEF JournalInv, TalkTrue
      <3>3. toParent'[i] = toParent[i]
        BY <1>1, ElementTypes
      <3>4. file' = file \/ (calls[d].op # "openJournal" /\ ~UnderLease(i))
        BY <3>1
      <3> QED BY <1>1, <3>1, <3>2, <3>3, <3>4, AnswerElsewhere
    <2>3. \A i \in DOMAIN toParent' : i \in DOMAIN toParent \/ toParent'[i] = r
      BY <1>1, NewAnswer
    <2> QED BY <2>1, <2>2, <2>3
  <1> QED BY <1>4, <1>5, <1>6 DEF JournalInv, TalkTrue

(* Where the file and the chain stay as they are, they are so taken.        *)
LEMMA ServedQuietly ==
    ASSUME JournalInv, SInv', Serves, UNCHANGED <<pc, using, pending, made, file, chain>>,
           NEW m, m = Head(toWorker)
    PROVE  DataGrows /\ KnownOK' /\ StoreOK' /\ OneUncertain' /\ \A d \in Clients : SyncOK(d)'
  <1>1. Protocol
    BY DEF JournalInv, SInv
  <1>2. /\ UNCHANGED <<generation, store, child>> /\ child = "up"
        /\ EngagedKept /\ (\A d : Still(d)) /\ (Saving => Saving')
    BY ServedCall
  <1>3. \A d \in Clients : SyncOK(d)'
    <2>1. ASSUME NEW d \in Clients
          PROVE  SyncOK(d)'
      <3>1. SyncOK(d) /\ (Engaged(d)' => Engaged(d) /\ generation' = generation) /\ Still(d)
        BY <1>2 DEF JournalInv, EngagedKept
      <3> QED BY <1>2, <3>1, SyncElsewhere
    <2> QED BY <2>1
  <1>4. SavingKept
    BY <1>2 DEF SavingKept
  <1>5. StoreOK'
    BY <1>1, <1>2, <1>4, StoreElsewhere DEF JournalInv
  <1>6. KnownOK' /\ OneUncertain' /\ DataGrows
    BY <1>2 DEF JournalInv, KnownOK, OneUncertain, DataGrows
  <1> QED BY <1>3, <1>5, <1>6

(* The journal that is opened is the one in the file.                       *)
LEMMA HandleOpenKeeps ==
    ASSUME JournalInv, TransactionsTypeOK', FuelBounded', SInv', HandleOpen, UNCHANGED txVars
    PROVE  JournalInv'
  <1>1. PICK m : m = Head(toWorker)
    OBVIOUS
  <1>2. Serves /\ UNCHANGED <<pc, using, pending, made, file, chain>>
    BY DEF Serves, HandleOpen, txVars, chainVars
  <1>3. m \in Requests /\ m.awaited /\ child = "up" /\ m.op = "openJournal"
    BY <1>1, <1>2, ServedCall DEF HandleOpen, Receive
  <1>4. TypeOK /\ TypeOK' /\ JournalOK
    BY DEF JournalInv, SInv, Protocol
  <1>5. PICK revision \in Nat, journal \in Journals : revision = record'.revision /\ journal = record'.journal
    BY <1>4 DEF TypeOK
  <1>6. journal = file
    BY <1>3, <1>4, <1>5 DEF JournalOK, HandleOpen
  <1>7. PICK r : r = ReplyOf(m, TRUE, revision, journal, NoResult)
    OBVIOUS
  <1>8. toParent' = toParent \o ReplyTo(m, TRUE, revision, journal, NoResult)
    BY <1>1, <1>5 DEF HandleOpen
  <1>9. r \in Replies /\ toParent' = Append(toParent, r)
    <2>1. toParent \in Seq(Replies) /\ NoResult \in Results
      BY <1>4, TransactionConstants DEF TypeOK
    <2>2. PICK yes \in BOOLEAN : yes = TRUE
      OBVIOUS
    <2>3. /\ ReplyOf(m, yes, revision, journal, NoResult) \in Replies
          /\ toParent \o ReplyTo(m, yes, revision, journal, NoResult)
               = Append(toParent, ReplyOf(m, yes, revision, journal, NoResult))
      BY ONLY <1>3, <2>1, Sending, Zenon
    <2> QED BY <1>7, <1>8, <2>2, <2>3
  <1>10. r.client = m.client /\ r.journal = file'
    BY <1>2, <1>6, <1>7 DEF ReplyOf
  <1>11. DataGrows /\ KnownOK' /\ StoreOK' /\ OneUncertain' /\ \A d \in Clients : SyncOK(d)'
    BY <1>1, <1>2, ServedQuietly
  <1> QED BY <1>1, <1>2, <1>3, <1>9, <1>10, <1>11, ServedKeeps

(* The answer to m is what the chain said, or that it failed. *)
Tells(m, result) ==
    \E r \in Replies : /\ toParent' = Append(toParent, r) /\ r.client = m.client
                       /\ (r.ok <=> result # NoResult)
                       /\ r.result = result

(* An RPC under a valid lease is the one of its client's place, about the   *)
(* transaction it recovers, and the answer is what the chain said.          *)
LEMMA RpcServed ==
    ASSUME JournalInv, SInv', NEW result \in Results, HandleGrpc(result), LeaseValid(Head(toWorker)),
           UNCHANGED <<pc, using, pending, made>>, NEW m, m = Head(toWorker)
    PROVE  /\ Serves /\ m.op = "grpc" /\ m.client \in Clients /\ Holds(m.client) /\ NoReply(m.client)
           /\ m.body = [kind |-> pc[m.client], tx |-> pending[m.client]]
           /\ Tells(m, result)
           /\ UNCHANGED <<file, store, generation>>
  <1>1. Serves
    BY DEF Serves
  <1>2. /\ m \in Requests /\ m.awaited /\ m.op = "grpc" /\ m.client \in Clients /\ NoReply(m.client)
        /\ 1 \in DOMAIN toWorker /\ toWorker[1] = m /\ Holds(m.client) /\ UNCHANGED <<store, generation>>
    <2>1. Head(toWorker).op = "grpc"
      BY DEF HandleGrpc, Receive
    <2> QED BY <1>1, <2>1, ServedCall
  <1>3. m.body = [kind |-> pc[m.client], tx |-> pending[m.client]]
    <2>1. BodyOK(1)
      BY <1>2 DEF JournalInv, TalkTrue
    <2> QED BY <1>2, <2>1 DEF BodyOK
  <1>4. PICK ok \in BOOLEAN : ok = (result # NoResult)
    BY Zenon
  <1>5. PICK r : r = ReplyOf(m, ok, 0, InitialJournal, result)
    OBVIOUS
  <1>6. toParent' = toParent \o ReplyTo(m, ok, 0, InitialJournal, result)
    BY <1>4 DEF HandleGrpc
  <1>7. r \in Replies /\ toParent' = Append(toParent, r)
    <2>1. toParent \in Seq(Replies)
      BY DEF JournalInv, SInv, Protocol, TypeOK
    <2>2. PICK none \in Nat : none = 0
      OBVIOUS
    <2>3. InitialJournal \in Journals
      BY SupervisorAssumption
    <2>4. /\ ReplyOf(m, ok, none, InitialJournal, result) \in Replies
          /\ toParent \o ReplyTo(m, ok, none, InitialJournal, result)
               = Append(toParent, ReplyOf(m, ok, none, InitialJournal, result))
      BY ONLY <1>2, <2>1, <2>3, ok \in BOOLEAN, none \in Nat, result \in Results, Sending, Zenon
    <2> QED BY <1>5, <1>6, <2>2, <2>4
  <1>8. r.client = m.client /\ (r.ok <=> result # NoResult) /\ r.result = result
    BY <1>4, <1>5 DEF ReplyOf
  <1> QED BY <1>1, <1>2, <1>3, <1>7, <1>8 DEF HandleGrpc, Tells

(* Only asking the chain changes nothing there.                             *)
LEMMA AskedKeeps ==
    ASSUME JournalInv, TransactionsTypeOK', FuelBounded', SInv', NEW result \in Results, HandleGrpc(result),
           LeaseValid(Head(toWorker)), UNCHANGED <<pc, using, pending, made>>, chain' = chain,
           NEW c, c = Head(toWorker).client,
           result # NoResult /\ result.found /\ pc[c] \in {"query", "execute", "wait"} => Settled(pending[c]),
           result # NoResult /\ result.found /\ pc[c] = "proof" => chain[pending[c]] = "dead"
    PROVE  JournalInv'
  <1>1. PICK m : m = Head(toWorker)
    OBVIOUS
  <1>2. m.client = c
    BY <1>1
  <1>3. Serves /\ m.op = "grpc" /\ UNCHANGED file /\ Tells(m, result)
    BY <1>1, RpcServed
  <1>4. PICK r \in Replies : /\ toParent' = Append(toParent, r) /\ r.client = m.client
                             /\ (r.ok <=> result # NoResult)
                             /\ r.result = result
    BY <1>3 DEF Tells
  <1>5. DataGrows /\ KnownOK' /\ StoreOK' /\ OneUncertain' /\ \A d \in Clients : SyncOK(d)'
    BY <1>1, <1>3, ServedQuietly
  <1>6. r.ok => /\ r.result # NoResult
                /\ r.result.found /\ pc[m.client] \in {"query", "execute", "wait"} => Settled(pending[m.client])'
                /\ r.result.found /\ pc[m.client] = "proof" => chain'[pending[m.client]] = "dead"
    BY <1>2, <1>4 DEF Settled
  <1> QED BY <1>1, <1>3, <1>4, <1>5, <1>6, ServedKeeps

(* What is submitted is in the file, and the parent knows it.               *)
LEMMA Submits ==
    ASSUME JournalInv, NEW c \in Clients, Holds(c), NoReply(c), pc[c] = "execute"
    PROVE  /\ pending[c] = file /\ store.journal = file /\ file \in DOMAIN made /\ file \in Txs
  <1>1. Protocol /\ TypeOK /\ TurnInv
    BY DEF JournalInv, SInv, Protocol
  <1>2. /\ using[c] = generation
        /\ using[c] \in Nat /\ store.generation \in Nat /\ generation \in Nat
        /\ using[c] <= store.generation /\ store.generation <= generation
    BY <1>1 DEF JournalInv, ClientOK, ContextOK, Holds, Inside, Protocol, ProcessOK, TransactionsTypeOK, TypeOK
  <1>3. pending[c] = store.journal
    BY <1>2 DEF JournalInv, SyncOK, Engaged, Recovering
  <1>4. ~Saving
    BY <1>1 DEF Saving, TurnInv, TurnOK, UnderLeaseOK, NoReply
  <1>5. child = "up"
    BY <1>1, HoldsUp
  <1>6. store.journal = file
    BY <1>2, <1>4, <1>5 DEF JournalInv, StoreOK
  <1>7. pending[c] \in DOMAIN made
    BY DEF JournalInv, ClientOK, RecoveryOK, Recovering
  <1>8. TransactionsTypeOK
    BY DEF JournalInv
  <1> QED BY <1>3, <1>6, <1>7, <1>8, MadeTxs

(* A fate that becomes known or is decided is not decided before.           *)
LEMMA FateGrows ==
    ASSUME TransactionsTypeOK, NEW tx \in Txs, chain[tx] \notin {"done", "failed", "dead"},
           NEW fate, chain' = [chain EXCEPT ![tx] = fate], UNCHANGED made
    PROVE  DataGrows /\ chain'[tx] = fate /\ \A t \in Txs : t # tx => chain'[t] = chain[t]
  BY DEF DataGrows, TransactionsTypeOK

(* What the chain does to the transaction in the file is known to be open   *)
(* by the parent and by the engaged client.                                 *)
LEMMA FileMoves ==
    ASSUME JournalInv, SInv', NEW tx \in Txs, tx = file, tx \in DOMAIN made, store.journal = file,
           chain[tx] \in {"unknown", "sent"},
           NEW fate, chain' = [chain EXCEPT ![tx] = fate], UNCHANGED <<made, file, store>>,
           Saving => Saving', UNCHANGED <<generation, child>>,
           \A d \in Clients : Engaged(d)' => Engaged(d) /\ pc[d] \notin Fresh,
           UNCHANGED <<calls, pc, using, pending>>
    PROVE  DataGrows /\ KnownOK' /\ StoreOK' /\ OneUncertain' /\ \A d \in Clients : SyncOK(d)'
  <1>1. TransactionsTypeOK
    BY DEF JournalInv
  <1>2. DataGrows /\ \A t \in Txs : t # tx => chain'[t] = chain[t]
    BY <1>1, FateGrows
  <1>3. KnownOK'
    BY <1>2 DEF JournalInv, KnownOK
  <1>4. OneUncertain'
    BY <1>2 DEF JournalInv, OneUncertain
  <1>5. StoreOK'
    BY DEF StoreOK
  <1>6. \A d \in Clients : SyncOK(d)'
    BY DEF JournalInv, SyncOK, Fresh
  <1> QED BY <1>2, <1>3, <1>4, <1>5, <1>6

(* A submission, answered or not.                                           *)
LEMMA SubmissionKeeps ==
    ASSUME JournalInv, TransactionsTypeOK', FuelBounded', SInv', NEW result \in Results, HandleGrpc(result),
           LeaseValid(Head(toWorker)), UNCHANGED <<pc, using, pending, made>>,
           NEW m, m = Head(toWorker), m.body.kind = "execute", chain[m.body.tx] \in {"unknown", "sent"},
           NEW fate, chain' = [chain EXCEPT ![m.body.tx] = fate],
           fate \in {"done", "failed"} \/ result = NoResult
    PROVE  JournalInv'
  <1>1. /\ Serves /\ m.op = "grpc" /\ m.client \in Clients /\ Holds(m.client) /\ NoReply(m.client)
        /\ m.body = [kind |-> pc[m.client], tx |-> pending[m.client]]
        /\ Tells(m, result) /\ UNCHANGED <<file, store, generation>>
    BY RpcServed
  <1>2. PICK r \in Replies : /\ toParent' = Append(toParent, r) /\ r.client = m.client
                             /\ (r.ok <=> result # NoResult)
                             /\ r.result = result
    BY <1>1 DEF Tells
  <1>3. pc[m.client] = "execute" /\ m.body.tx = pending[m.client]
    BY <1>1
  <1>4. /\ pending[m.client] = file /\ store.journal = file /\ file \in DOMAIN made /\ file \in Txs
    BY <1>1, <1>3, Submits
  <1>5. PICK tx \in Txs : tx = file
    BY <1>4
  <1>6. chain[tx] \in {"unknown", "sent"} /\ chain' = [chain EXCEPT ![tx] = fate] /\ tx = pending[m.client]
    BY <1>3, <1>4, <1>5
  <1>7. EngagedKept /\ UNCHANGED <<child, calls>> /\ (Saving => Saving')
    BY <1>1, ServedCall
  <1>8. \A d \in Clients : Engaged(d)' => Engaged(d) /\ pc[d] \notin Fresh
    <2>1. ASSUME NEW d \in Clients, Engaged(d)'
          PROVE  Engaged(d) /\ pc[d] \notin Fresh
      <3>1. Engaged(d) /\ Engaged(m.client) /\ SInv
        BY <1>1, <1>7, <2>1 DEF EngagedKept, Engaged, JournalInv
      <3>2. d = m.client
        BY <1>1, <3>1, EngagedOne
      <3> QED BY <1>3, <3>1, <3>2 DEF Fresh
    <2> QED BY <2>1
  <1>9. DataGrows /\ KnownOK' /\ StoreOK' /\ OneUncertain' /\ \A d \in Clients : SyncOK(d)'
    BY <1>1, <1>4, <1>5, <1>6, <1>7, <1>8, FileMoves
  <1>10. r.ok => /\ r.result # NoResult
                 /\ r.result.found /\ pc[m.client] \in {"query", "execute", "wait"} => Settled(pending[m.client])'
                 /\ r.result.found /\ pc[m.client] = "proof" => chain'[pending[m.client]] = "dead"
    <2>1. chain'[tx] = fate /\ UNCHANGED pending
      BY <1>6, FateGrows DEF JournalInv
    <2>2. fate \in {"done", "failed"} => Settled(pending[m.client])'
      BY <1>6, <2>1 DEF Settled
    <2> QED BY <1>2, <1>3, <2>2
  <1> QED BY <1>1, <1>2, <1>9, <1>10, ServedKeeps

(* So does the chain when it answers the worker's call,                     *)
LEMMA HandleRpcKeeps ==
    ASSUME JournalInv, TransactionsTypeOK', FuelBounded', SInv', HandleRpc
    PROVE  JournalInv'
  <1>1. UNCHANGED <<pc, using, pending, made>>
    BY DEF HandleRpc
  <1>2. CASE ~LeaseValid(Head(toWorker))
    <2>1. HandleGrpc(NoResult) /\ UNCHANGED chain
      BY <1>2 DEF HandleRpc, chainVars
    <2> QED BY <1>1, <2>1, QuietSteps
  <1>3. CASE LeaseValid(Head(toWorker))
    <2>1. PICK m : m = Head(toWorker)
      OBVIOUS
    <2>2. PICK c : c = Head(toWorker).client
      OBVIOUS
    <2>3. Serve(m.body)
      BY <1>3, <2>1 DEF HandleRpc
    <2>4. HandleGrpc(NoResult) /\ chain' = chain => JournalInv'
      <3>1. ASSUME HandleGrpc(NoResult), chain' = chain PROVE JournalInv'
        <4>1. UNCHANGED <<using, pending, chain, made>> /\ UNCHANGED pc
          BY <1>1, <3>1
        <4> QED BY <3>1, <4>1, QuietSteps
      <3> QED BY <3>1
    <2>5. ASSUME NEW result \in Results, HandleGrpc(result)
          PROVE  m.body = [kind |-> pc[c], tx |-> pending[c]]
      BY <1>1, <1>3, <2>1, <2>2, <2>5, RpcServed
    <2>6. \A found \in BOOLEAN, fuel \in 0 .. MaxIntents * MaxTxs : [found |-> found, fuel |-> fuel] \in Results
      BY TransactionConstants
    <2>7. 0 \in 0 .. MaxIntents * MaxTxs
      BY TransactionsAssumption
    <2>8. \A found \in BOOLEAN : Found(found) \in Results
      BY <2>6, <2>7 DEF Found
    <2>9. ASSUME NEW result \in Results, HandleGrpc(result), chain' = chain,
                 result.found /\ pc[c] \in {"query", "execute", "wait"} => Settled(pending[c]),
                 result.found /\ pc[c] = "proof" => chain[pending[c]] = "dead"
          PROVE  JournalInv'
      BY <1>1, <1>3, <2>2, <2>9, AskedKeeps
    <2>10. CASE m.body.kind \in {"query", "wait"} /\ HandleGrpc(Found(Settled(m.body.tx))) /\ UNCHANGED <<chainVars, faults>>
      <3>1. PICK found \in BOOLEAN : found = Settled(m.body.tx)
        <4>1. Settled(m.body.tx) \in BOOLEAN
          BY DEF Settled
        <4> QED BY <4>1, Zenon
      <3>2. PICK result \in Results : result = Found(found)
        BY <2>8
      <3>3. HandleGrpc(result) /\ chain' = chain
        BY <2>10, <3>1, <3>2 DEF chainVars
      <3>4. pc[c] \in {"query", "wait"} /\ found = Settled(pending[c])
        BY <2>5, <2>10, <3>1, <3>3
      <3> QED BY <2>9, <3>2, <3>3, <3>4 DEF Found
    <2>11. CASE m.body.kind = "proof" /\ HandleGrpc(Found(chain[m.body.tx] = "dead")) /\ UNCHANGED <<chainVars, faults>>
      <3>1. PICK found \in BOOLEAN : found = (chain[m.body.tx] = "dead")
        BY Zenon
      <3>2. PICK result \in Results : result = Found(found)
        BY <2>8
      <3>3. HandleGrpc(result) /\ chain' = chain
        BY <2>11, <3>1, <3>2 DEF chainVars
      <3>4. pc[c] = "proof" /\ found = (chain[pending[c]] = "dead")
        BY <2>5, <2>11, <3>1, <3>3
      <3> QED BY <2>9, <3>2, <3>3, <3>4 DEF Found
    <2>12. CASE m.body.kind = "read" /\ HandleGrpc([found |-> TRUE, fuel |-> chainFuel]) /\ UNCHANGED <<chainVars, faults>>
      <3>1. PICK result \in Results : result = [found |-> TRUE, fuel |-> chainFuel]
        <4>1. chainFuel \in 0 .. MaxIntents * MaxTxs
          BY ChainFuelBound DEF JournalInv
        <4> QED BY <2>6, <4>1
      <3>2. HandleGrpc(result) /\ chain' = chain
        BY <2>12, <3>1 DEF chainVars
      <3>3. pc[c] = "read"
        BY <2>5, <2>12, <3>2
      <3> QED BY <2>9, <3>2, <3>3
    <2>13. CASE m.body.kind = "build" /\ HandleGrpc(Found(Affordable(seen[Syncer].delta))) /\ UNCHANGED <<chainVars, faults>>
      <3>1. PICK found \in BOOLEAN : found = Affordable(seen[Syncer].delta)
        <4>1. Affordable(seen[Syncer].delta) \in BOOLEAN
          BY DEF Affordable
        <4> QED BY <4>1, Zenon
      <3>2. PICK result \in Results : result = Found(found)
        BY <2>8
      <3>3. HandleGrpc(result) /\ chain' = chain
        BY <2>13, <3>1, <3>2 DEF chainVars
      <3>4. pc[c] = "build"
        BY <2>5, <2>13, <3>3
      <3> QED BY <2>9, <3>3, <3>4
    <2>14. CASE m.body.kind = "execute" /\ chain[m.body.tx] \in {"unknown", "sent"}
                /\ Executes(m.body.tx) /\ HandleGrpc(Found(TRUE))
      <3>1. PICK fate \in {"done", "failed"} : chain' = [chain EXCEPT ![m.body.tx] = fate]
        BY <2>14 DEF Executes, Becomes
      <3>2. PICK result \in Results : result = Found(TRUE)
        BY <2>8
      <3>3. HandleGrpc(result)
        BY <2>14, <3>2
      <3> QED BY <1>1, <1>3, <2>1, <2>14, <3>1, <3>3, SubmissionKeeps
    <2>15. CASE m.body.kind = "execute" /\ Settled(m.body.tx) /\ HandleGrpc(Found(TRUE)) /\ UNCHANGED <<chainVars, faults>>
      <3>1. PICK result \in Results : result = Found(TRUE)
        BY <2>8
      <3>2. HandleGrpc(result) /\ chain' = chain
        BY <2>15, <3>1 DEF chainVars
      <3>3. pc[c] = "execute" /\ Settled(pending[c])
        BY <2>5, <2>15, <3>2
      <3> QED BY <2>9, <3>2, <3>3
    <2>16. CASE HandleGrpc(NoResult) /\ UNCHANGED <<chainVars, faults>>
      BY <2>4, <2>16 DEF chainVars
    <2>17. CASE m.body.kind = "execute" /\ chain[m.body.tx] = "unknown" /\ Becomes(m.body.tx, "sent")
                /\ HandleGrpc(NoResult)
      <3>1. PICK result \in Results : result = NoResult
        BY TransactionConstants
      <3>2. HandleGrpc(result) /\ chain' = [chain EXCEPT ![m.body.tx] = "sent"]
        BY <2>17, <3>1 DEF Becomes
      <3> QED BY <1>1, <1>3, <2>1, <2>17, <3>1, <3>2, SubmissionKeeps
    <2> QED BY <2>3, <2>4, <2>10, <2>11, <2>12, <2>13, <2>14, <2>15, <2>16, <2>17 DEF Serve
  <1> QED BY <1>2, <1>3

(* Who may save works on the journal in the file, and nobody else is about  *)
(* to learn of it.                                                          *)
LEMMA SaverKnows ==
    ASSUME JournalInv, NEW c \in Clients, Holds(c), NoReply(c), calls[c].op = "saveJournal"
    PROVE  /\ store.generation = generation /\ store.journal = file
           /\ using[c] = generation
           /\ pc[c] \in {"journal", "retire", "settled", "concluded"}
           /\ \A k \in DOMAIN toParent : calls[toParent[k].client].op # "openJournal" /\ ~UnderLease(k)
           /\ \A tx \in Txs : chain[tx] # "sent"
           /\ calls[c].journal = NoTx \/ (pc[c] = "journal" /\ calls[c].journal \in DOMAIN made
                                          /\ chain[calls[c].journal] \in {"unknown", "dead"})
  <1>1. Protocol /\ TypeOK /\ TurnInv
    BY DEF JournalInv, SInv, Protocol
  <1>2. PlaceOK(c) /\ ContextOK(c) /\ RecoveryOK(c) /\ SyncOK(c)
    BY DEF JournalInv, ClientOK
  <1>3. pc[c] \in {"journal", "retire", "settled", "concluded"}
    BY <1>2 DEF PlaceOK, Expects, Holds, Inside
  <1>4. store.generation = generation /\ using[c] = generation
    BY <1>2, <1>3 DEF ContextOK, Holds, Inside
  <1>5. \A k \in DOMAIN toParent : ~UnderLease(k)
    BY <1>1 DEF TurnInv, TurnOK, UnderLeaseOK, NoReply
  <1>6. child = "up"
    BY <1>1, HoldsUp
  <1>7. store.journal = file
    BY <1>4, <1>5, <1>6 DEF JournalInv, StoreOK, Saving
  <1>8. \A k \in DOMAIN toParent : calls[toParent[k].client].op # "openJournal"
    <2>1. ASSUME NEW d \in Clients, calls[d].op = "openJournal"
          PROVE  FALSE
      <3>1. phase[d] = "running"
        BY <1>1, <2>1 DEF Protocol, PhasesOK, TypeOK, Phases
      <3>2. PlaceOK(d) /\ ContextOK(d)
        BY DEF JournalInv, ClientOK
      <3>3. pc[d] = "open"
        BY <2>1, <3>1, <3>2 DEF PlaceOK, Expects
      <3> QED BY <1>4, <3>2, <3>3 DEF ContextOK
    <2> QED BY <1>1, <2>1, ElementTypes
  <1>9. pc[c] \in Recovering => pending[c] = file /\ chain[file] \in {"done", "failed", "dead"}
    BY <1>2, <1>3, <1>4, <1>7 DEF SyncOK, Engaged, RecoveryOK, Settled, Recovering
  <1>10. pc[c] = "journal" => file = NoTx \/ chain[file] \in {"unknown", "dead"}
    BY <1>2 DEF SyncOK, Engaged, Fresh
  <1>11. \A tx \in Txs : chain[tx] # "sent"
    <2>1. ASSUME NEW tx \in Txs, chain[tx] = "sent"
          PROVE  FALSE
      <3>1. file = tx /\ tx # NoTx
        BY <2>1, TransactionConstants DEF JournalInv, OneUncertain
      <3> QED BY <1>3, <1>9, <1>10, <2>1, <3>1 DEF Recovering
    <2> QED BY <2>1
  <1>12. calls[c].journal = NoTx \/ (pc[c] = "journal" /\ calls[c].journal \in DOMAIN made
                                     /\ chain[calls[c].journal] \in {"unknown", "dead"})
    BY <1>2, <1>3 DEF RecoveryOK, SyncOK, Engaged
  <1> QED BY <1>3, <1>4, <1>5, <1>7, <1>8, <1>11, <1>12

(* A save: what it replaces can no longer happen, or has.                   *)
LEMMA HandleSaveKeeps ==
    ASSUME JournalInv, TransactionsTypeOK', FuelBounded', SInv', HandleSave, UNCHANGED txVars
    PROVE  JournalInv'
  <1>1. PICK m : m = Head(toWorker)
    OBVIOUS
  <1>2. Serves /\ UNCHANGED <<pc, using, pending, made, chain>>
    BY DEF Serves, HandleSave, txVars, chainVars
  <1>3. Protocol /\ TypeOK /\ TypeOK' /\ JournalOK
    BY DEF JournalInv, SInv, Protocol
  <1>4. LeaseValid(m) /\ file' = m.journal
    BY <1>1 DEF HandleSave, SaveAllowed
  <1>5. /\ m \in Requests /\ m.awaited /\ m.client \in Clients /\ calls[m.client].op = m.op
        /\ NoReply(m.client) /\ Holds(m.client) /\ child = "up"
        /\ UNCHANGED <<generation, child, calls, store>> /\ EngagedKept
    BY <1>1, <1>2, <1>4, ServedCall
  <1>6. m.op = "saveJournal" /\ m.journal = calls[m.client].journal
    BY <1>1, <1>3, <1>5, SaveLineage
  <1>7. PICK c \in Clients : c = m.client
    BY <1>5
  <1>8. Holds(c) /\ NoReply(c) /\ calls[c].op = "saveJournal" /\ file' = calls[c].journal
    BY <1>4, <1>5, <1>6, <1>7
  <1>9. /\ store.generation = generation /\ store.journal = file
        /\ using[c] = generation
        /\ pc[c] \in {"journal", "retire", "settled", "concluded"}
        /\ \A k \in DOMAIN toParent : calls[toParent[k].client].op # "openJournal" /\ ~UnderLease(k)
        /\ \A tx \in Txs : chain[tx] # "sent"
        /\ calls[c].journal = NoTx \/ (pc[c] = "journal" /\ calls[c].journal \in DOMAIN made
                                       /\ chain[calls[c].journal] \in {"unknown", "dead"})
    BY <1>8, SaverKnows
  <1>10. PICK revision \in Nat : revision = record.revision + 1
    BY <1>3 DEF TypeOK
  <1>11. PICK r : r = ReplyOf(m, TRUE, revision, InitialJournal, NoResult)
    OBVIOUS
  <1>12. r \in Replies /\ toParent' = Append(toParent, r)
    <2>1. toParent \in Seq(Replies) /\ NoResult \in Results /\ InitialJournal \in Journals
      BY <1>3, TransactionConstants, SupervisorAssumption DEF TypeOK
    <2>2. PICK yes \in BOOLEAN : yes = TRUE
      OBVIOUS
    <2>3. /\ ReplyOf(m, yes, revision, InitialJournal, NoResult) \in Replies
          /\ toParent \o ReplyTo(m, yes, revision, InitialJournal, NoResult)
               = Append(toParent, ReplyOf(m, yes, revision, InitialJournal, NoResult))
      BY ONLY <1>5, <2>1, Sending, Zenon
    <2>4. toParent' = toParent \o ReplyTo(m, yes, revision, InitialJournal, NoResult)
      BY <1>1, <1>10, <2>2 DEF HandleSave
    <2> QED BY <1>11, <2>2, <2>3, <2>4
  <1>13. r.client = m.client /\ r.ok
    BY <1>11 DEF ReplyOf
  <1>14. DataGrows
    BY <1>2 DEF DataGrows
  <1>15. KnownOK'
    BY <1>2, <1>5, <1>8, <1>9 DEF JournalInv, KnownOK
  <1>16. OneUncertain'
    BY <1>2, <1>9 DEF OneUncertain
  <1>17. StoreOK'
    <2>1. Saving'
      <3>1. Len(toParent) + 1 \in DOMAIN toParent' /\ toParent'[Len(toParent) + 1] = r
        BY <1>3, <1>12, ElementTypes DEF TypeOK
      <3> QED BY <1>5, <1>6, <1>13, <3>1 DEF Saving, UnderLease
    <2>2. file' = NoTx \/ chain'[file'] \in {"unknown", "dead"}
      BY <1>2, <1>8, <1>9
    <2> QED BY <2>1, <2>2 DEF StoreOK
  <1>18. \A d \in Clients : SyncOK(d)'
    <2>1. ASSUME NEW d \in Clients, Engaged(d)'
          PROVE  SyncOK(d)'
      <3>1. Engaged(d) /\ Engaged(c) /\ SInv
        BY <1>5, <1>8, <2>1 DEF EngagedKept, Engaged, JournalInv
      <3>2. d = c
        BY <3>1, EngagedOne
      <3>3. SyncOK(c)
        BY DEF JournalInv
      <3> QED BY <1>2, <1>5, <1>8, <1>9, <3>1, <3>2, <3>3 DEF SyncOK, Fresh
    <2> QED BY <2>1 DEF SyncOK
  <1> QED BY <1>1, <1>2, <1>6, <1>7, <1>8, <1>9, <1>12, <1>13, <1>14, <1>15, <1>16, <1>17, <1>18, ServedKeeps

--------------------------------------------------------------------------------
(* The chain by itself, and the death of the server.                        *)

(* So does the chain alone, when the fate of a transaction changes by       *)
(* itself.                                                                  *)
LEMMA ChainAloneKeeps ==
    ASSUME JournalInv, TransactionsTypeOK', FuelBounded', SInv', FaultsOnly,
           UNCHANGED <<pc, using, pending, made>>, DataGrows,
           KnownOK', StoreOK', OneUncertain', \A d \in Clients : SyncOK(d)'
    PROVE  JournalInv'
  <1>1. Protocol /\ Protocol' /\ TransactionsTypeOK /\ TypeOK
    BY DEF JournalInv, SInv, Protocol
  <1>2. /\ \A d : Still(d) /\ StoreFor(d)
        /\ UNCHANGED <<toWorker, toParent, file>>
    BY DEF FaultsOnly, Still, StoreFor, processVars
  <1>3. \A d \in Clients : ClientOK(d)'
    <2>1. ASSUME NEW d \in Clients
          PROVE  ClientOK(d)'
      <3>1. ClientOK(d) /\ Still(d) /\ StoreFor(d)
        BY <1>2 DEF JournalInv
      <3> QED BY <1>1, <3>1, ClientElsewhere
    <2> QED BY <2>1
  <1>4. \A i \in DOMAIN toWorker' : BodyOK(i)'
    <2>1. ASSUME NEW i \in DOMAIN toWorker'
          PROVE  BodyOK(i)'
      <3>1. BodyOK(i) /\ toWorker'[i] = toWorker[i]
        BY <1>2 DEF JournalInv, TalkTrue
      <3> QED BY <3>1, BodyElsewhere
    <2> QED BY <2>1
  <1>5. \A i \in DOMAIN toParent' : AnswerTrue(i)'
    <2>1. ASSUME NEW i \in DOMAIN toParent
          PROVE  AnswerTrue(i)'
      <3>1. PICK d \in Clients : d = toParent[i].client
        BY <1>1, ElementTypes
      <3>2. AnswerTrue(i) /\ ClientOK(d) /\ Still(d) /\ toParent'[i] = toParent[i]
        BY <1>2 DEF JournalInv, TalkTrue
      <3> QED BY <1>1, <1>2, <3>1, <3>2, AnswerElsewhere
    <2> QED BY <1>2, <2>1
  <1> QED BY <1>3, <1>4, <1>5 DEF JournalInv, TalkTrue

(* What was submitted executes at last: it is in the file.                  *)
LEMMA ExecutesLateKeeps ==
    ASSUME JournalInv, TransactionsTypeOK', FuelBounded', SInv', ExecutesLate
    PROVE  JournalInv'
  <1>1. FaultsOnly /\ UNCHANGED <<pc, using, pending, made>>
    BY DEF ExecutesLate, FaultsOnly, processVars, workerVars
  <1>2. PICK tx \in Txs : chain[tx] = "sent" /\ Executes(tx)
    BY DEF ExecutesLate
  <1>3. PICK fate \in {"done", "failed"} : chain' = [chain EXCEPT ![tx] = fate]
    BY <1>2 DEF Executes, Becomes
  <1>4. tx = file /\ tx # NoTx /\ tx \in DOMAIN made
    BY <1>2, TransactionConstants DEF JournalInv, OneUncertain, KnownOK
  <1>5. TransactionsTypeOK
    BY DEF JournalInv
  <1>6. DataGrows /\ chain'[tx] = fate /\ \A t \in Txs : t # tx => chain'[t] = chain[t]
    BY <1>1, <1>2, <1>3, <1>5, FateGrows
  <1>7. \A d : Engaged(d)' <=> Engaged(d)
    BY <1>1 DEF FaultsOnly, Engaged, Holds, Inside, UnderLease, processVars, workerVars
  <1>8. \A d \in Clients : Engaged(d) => pc[d] \notin Fresh
    BY <1>2, <1>4 DEF JournalInv, SyncOK
  <1>9. \A d \in Clients : SyncOK(d)'
    BY <1>1, <1>7, <1>8 DEF JournalInv, SyncOK, FaultsOnly, processVars, Fresh
  <1>10. KnownOK' /\ OneUncertain'
    BY <1>1, <1>4, <1>6 DEF JournalInv, KnownOK, OneUncertain, FaultsOnly
  <1>11. StoreOK'
    <2>1. Saving' = Saving /\ Answering' = Answering
      BY <1>1 DEF FaultsOnly, Saving, Answering, UnderLease
    <2>2. store.generation # 0 => store.journal = file
      BY <1>2, <1>4 DEF JournalInv, StoreOK
    <2>3. UNCHANGED <<store, file, generation, child>>
      BY <1>1 DEF FaultsOnly, processVars
    <2>4. store.generation = generation => store.generation # 0
      BY DEF JournalInv, SInv, Protocol, ProcessOK, TypeOK
    <2> QED BY <2>1, <2>2, <2>3, <2>4 DEF StoreOK
  <1> QED BY <1>1, <1>6, <1>9, <1>10, <1>11, ChainAloneKeeps

(* What lost its gas coin never executes.                                   *)
LEMMA SupersededKeeps ==
    ASSUME JournalInv, TransactionsTypeOK', FuelBounded', SInv', Superseded
    PROVE  JournalInv'
  <1>1. FaultsOnly /\ UNCHANGED <<pc, using, pending, made>>
    BY DEF Superseded, FaultsOnly, processVars, workerVars
  <1>2. PICK tx \in 1 .. Len(made) : chain[tx] \in {"unknown", "sent"} /\ chain' = [chain EXCEPT ![tx] = "dead"]
    BY DEF Superseded, Becomes
  <1>3. TransactionsTypeOK
    BY DEF JournalInv
  <1>4. tx \in Txs /\ tx \in DOMAIN made
    BY <1>2, <1>3, MadeTxs
  <1>5. DataGrows /\ chain'[tx] = "dead" /\ \A t \in Txs : t # tx => chain'[t] = chain[t]
    BY <1>1, <1>2, <1>3, <1>4, FateGrows
  <1>6. \A d : Engaged(d)' <=> Engaged(d)
    BY <1>1 DEF FaultsOnly, Engaged, Holds, Inside, UnderLease, processVars, workerVars
  <1>7. KnownOK' /\ OneUncertain'
    BY <1>1, <1>4, <1>5 DEF JournalInv, KnownOK, OneUncertain, FaultsOnly
  <1>8. KnownOK /\ DOMAIN made \subseteq Txs
    BY <1>3, MadeTxs DEF JournalInv
  <1>9. \A t \in Txs : chain'[t] = chain[t] \/ chain'[t] = "dead"
    BY <1>5
  <1>10. \A d \in Clients : SyncOK(d)'
    <2>1. ASSUME NEW d \in Clients, Engaged(d)
          PROVE  SyncOK(d)'
      <3>1. SyncOK(d) /\ RecoveryOK(d)
        BY DEF JournalInv, ClientOK
      <3>2. UNCHANGED <<file, calls, store, generation>>
        BY <1>1 DEF FaultsOnly, processVars
      <3>3. pc[d] \in Fresh => file = NoTx \/ chain'[file] \in {"unknown", "dead"}
        BY <1>8, <1>9, <2>1, <3>1 DEF SyncOK, KnownOK
      <3>4. pc[d] = "journal" /\ calls[d].op # "none" => chain'[calls[d].journal] \in {"unknown", "dead"}
        BY <1>8, <1>9, <2>1, <3>1 DEF SyncOK, RecoveryOK
      <3> QED BY <1>1, <2>1, <3>1, <3>2, <3>3, <3>4 DEF SyncOK
    <2> QED BY <1>6, <2>1 DEF SyncOK
  <1>11. StoreOK'
    <2>1. Saving' = Saving /\ Answering' = Answering
      BY <1>1 DEF FaultsOnly, Saving, Answering, UnderLease
    <2>2. UNCHANGED <<store, file, generation, child>>
      BY <1>1 DEF FaultsOnly, processVars
    <2>3. file # NoTx /\ chain'[file] \in {"sent", "done", "failed"} => chain[file] \in {"sent", "done", "failed"}
      BY <1>8, <1>9 DEF KnownOK
    <2> QED BY <2>1, <2>2, <2>3 DEF JournalInv, StoreOK
  <1> QED BY <1>1, <1>5, <1>7, <1>10, <1>11, ChainAloneKeeps

(* Nobody does anything, and nothing is under way.                          *)
Blank ==
    /\ \A c \in Clients : pc[c] = "start" /\ using[c] = 0 /\ phase[c] = "idle" /\ calls[c].op = "none"
    /\ store = NoStore /\ generation > 0
    /\ toWorker = <<>> /\ toParent = <<>>

(* What clients know, and what is said to them.                             *)
Knowing ==
    /\ \A c \in Clients : ClientOK(c) /\ SyncOK(c)
    /\ TalkTrue /\ StoreOK

(* Where no client has begun, nothing is known that could be untrue.        *)
LEMMA BlankKnows == Blank => Knowing
  <1> SUFFICES ASSUME Blank PROVE Knowing
    OBVIOUS
  <1>1. DOMAIN toWorker = {} /\ DOMAIN toParent = {}
    BY DEF Blank
  <1>2. ASSUME NEW c \in Clients
        PROVE  ClientOK(c) /\ SyncOK(c)
    <2>1. /\ pc[c] = "start" /\ using[c] = 0 /\ phase[c] = "idle" /\ calls[c].op = "none"
          /\ store.generation = 0
      BY DEF Blank, NoStore
    <2>2. PlaceOK(c) /\ ContextOK(c)
      BY <2>1 DEF PlaceOK, ContextOK
    <2>3. RecoveryOK(c) /\ SyncOK(c)
      BY <2>1 DEF RecoveryOK, Recovering, SyncOK, Fresh
    <2> QED BY <2>2, <2>3 DEF ClientOK
  <1>3. TalkTrue
    BY <1>1 DEF TalkTrue
  <1>4. StoreOK
    <2>1. store.generation = 0 /\ generation # 0
      BY DEF Blank, NoStore
    <2> QED BY <2>1 DEF StoreOK
  <1> QED BY <1>2, <1>3, <1>4 DEF Knowing

(* The server starts again with what is in the file.                        *)
LEMMA CrashKeeps ==
    ASSUME JournalInv, TransactionsTypeOK', FuelBounded', SInv', Crash
    PROVE  JournalInv'
  <1>1. Blank'
    <2>1. generation \in Nat
      BY DEF JournalInv, TransactionsTypeOK, TypeOK
    <2>2. \A c \in Clients : /\ pc'[c] = "start" /\ using'[c] = 0 /\ phase'[c] = "idle"
                             /\ calls'[c].op = "none"
      BY DEF Crash, ServerRestarts, NoCall
    <2>3. store' = NoStore /\ generation' > 0 /\ toWorker' = <<>> /\ toParent' = <<>>
      <3>1. store' = NoStore /\ Fork(<<>>)
        BY DEF Crash, ServerRestarts
      <3>2. generation' = generation + 1 /\ toWorker' = <<>> /\ toParent' = <<>>
        BY <3>1, Zenon DEF Fork
      <3>3. generation' > 0
        BY <2>1, <3>2
      <3> QED BY <3>1, <3>2, <3>3
    <2> QED BY <2>2, <2>3 DEF Blank
  <1>2. Knowing'
    BY <1>1, BlankKnows, PTL
  <1>3. KnownOK' /\ OneUncertain'
    BY TransactionConstants DEF JournalInv, KnownOK, OneUncertain, Crash, ServerRestarts, NoStore, chainVars
  <1> QED BY <1>2, <1>3 DEF JournalInv, Knowing

(* Nothing has been built, so nothing has happened on the chain.            *)
LEMMA ChainNothing ==
    ASSUME TransactionsInit
    PROVE  Executed = {} /\ chainFuel = 0 /\ made = <<>> /\ \A tx \in Txs : chain[tx] = "unknown"
  BY DEF TransactionsInit, Executed

(* Before the first step nothing is known and nothing happened.             *)
LEMMA JournalInvInit == TransactionsInit => JournalInv
  <1> SUFFICES ASSUME TransactionsInit PROVE JournalInv
    OBVIOUS
  <1>1. SupervisorInit
    BY DEF TransactionsInit
  <1>2. Protocol /\ OwnerOK /\ AdmissionOK /\ JournalOK
    BY <1>1, ProtocolInit, OwnerInit, AdmissionInit, JournalInit
  <1>3. SInv
    BY <1>1, <1>2, TurnInit DEF SInv
  <1>4. TransactionsTypeOK
    <2>1. memory \in Items /\ Total \in Nat /\ MaxIntents \in Nat /\ MaxTxs \in Nat
      BY TransactionsAssumption DEF TransactionsInit, Items, NoIntent
    <2>2. made \in Seq(Transactions) /\ Len(made) = 0
      BY DEF TransactionsInit
    <2>3. TypeOK
      BY <1>2 DEF Protocol
    <2>4. /\ pc \in [Clients -> Places] /\ using \in [Clients -> Nat]
          /\ pending \in [Clients -> Txs \cup {NoTx}] /\ submitted \in BOOLEAN
      BY DEF TransactionsInit, Places
    <2>5. /\ seen \in [Clients -> Items] /\ disk \in Items
          /\ intents \in 0 .. MaxIntents /\ flushed \in 0 .. intents
      BY <2>1 DEF TransactionsInit, NoItems, NoIntent, Items
    <2>6. /\ chain \in [Txs -> Fates] /\ chainFuel \in Nat /\ excused = {}
      BY DEF TransactionsInit, Fates
    <2> QED BY <2>1, <2>2, <2>3, <2>4, <2>5, <2>6 DEF TransactionsTypeOK
  <1>5. FuelBounded
    <2>1. Cardinality(Executed) = 0 /\ MaxIntents * 0 = 0
      <3>1. Executed = {}
        BY ChainNothing
      <3>2. Cardinality(Executed) = 0
        BY <3>1, FS_EmptySet, Zenon
      <3>3. MaxIntents * 0 = 0
        BY TransactionsAssumption
      <3> QED BY <3>2, <3>3
    <2>2. DOMAIN made = {}
      BY ChainNothing
    <2>3. \A c \in Clients : seen[c].delta = 0
      BY DEF TransactionsInit, NoItems
    <2> QED BY <2>1, <2>2, <2>3, ChainNothing DEF TransactionsInit, FuelBounded, Small
  <1>6. Blank
    BY <1>1 DEF TransactionsInit, SupervisorInit, Blank, NoCall
  <1>7. /\ \A c \in Clients : ClientOK(c) /\ SyncOK(c)
        /\ TalkTrue /\ StoreOK
    BY <1>6, BlankKnows DEF Knowing
  <1>8. KnownOK /\ OneUncertain
    BY <1>1, ChainNothing, TransactionConstants DEF SupervisorInit, KnownOK, OneUncertain, NoStore
  <1> QED BY <1>3, <1>4, <1>5, <1>7, <1>8 DEF JournalInv

(* Every step keeps the invariant.                                          *)
LEMMA JournalInvStep ==
    ASSUME JournalInv, [TransactionsNext]_allVars
    PROVE  JournalInv'
  <1>1. TransactionsTypeOK' /\ FuelBounded' /\ SInv'
    BY TypesOfSteps
  <1>2. CASE \E c \in Clients : Step(c)
    BY <1>1, <1>2, StepKeeps
  <1>3. CASE \E c \in Clients : Reply(c)
    BY <1>1, <1>3, ReplyKeeps
  <1>4. CASE \E c \in Clients : Acquire(c) /\ UNCHANGED txVars
    BY <1>1, <1>4, AcquireKeeps
  <1>5. CASE \E c \in Clients : RpcFails(c) \/ (AcquireTimesOut(c) /\ UNCHANGED txVars)
    BY <1>1, <1>5, QuietSteps DEF RpcFails, txVars, chainVars
  <1>6. CASE ExitSeen \/ FlushItems \/ (Respawn /\ UNCHANGED txVars)
    BY <1>1, <1>6, QuietSteps DEF ExitSeen, FlushItems, txVars, chainVars
  <1>7. CASE (HandleAcquire \/ HandleCancel \/ HandleRelease \/ HandleAssert \/ HandleSaveFails
              \/ LeaseTimerFires \/ LeaseLapses \/ ChildDies \/ ChannelCloses) /\ UNCHANGED txVars
    BY <1>1, <1>7, QuietSteps DEF txVars, chainVars
  <1>8. CASE HandleOpen /\ UNCHANGED txVars
    BY <1>1, <1>8, HandleOpenKeeps
  <1>9. CASE HandleSave /\ UNCHANGED txVars
    BY <1>1, <1>9, HandleSaveKeeps
  <1>10. CASE HandleRpc
    BY <1>1, <1>10, HandleRpcKeeps
  <1>11. CASE ExecutesLate \/ Superseded \/ Crash
    BY <1>1, <1>11, ExecutesLateKeeps, SupersededKeeps, CrashKeeps
  <1>12. CASE UNCHANGED allVars
    BY <1>1, <1>12, QuietSteps DEF allVars, txVars, chainVars
  <1>13. CASE TransactionsNext
    BY <1>2, <1>3, <1>4, <1>5, <1>6, <1>7, <1>8, <1>9, <1>10, <1>11, <1>13
       DEF TransactionsNext, ServerEvent, ClientEvent, ChildStep, HandleAnything, Environment
  <1> QED BY <1>12, <1>13

(* In every reachable state each client, each answer under way and the      *)
(* parent's journal are right about the file and the chain                  *)
(* (suiAssemblyTransactions.ts, suiAssemblySync.ts).                        *)
THEOREM JournalInvariant == TransactionsSpec => []JournalInv
  BY JournalInvInit, JournalInvStep, PTL DEF TransactionsSpec

(* The types of the executor, the worker, the items and the chain; in       *)
(* particular no chain holds less than nothing of the fuel.                 *)
THEOREM TransactionsTyped == TransactionsSpec => []TransactionsTypeOK
  <1>1. JournalInv => TransactionsTypeOK
    BY DEF JournalInv
  <1> QED BY <1>1, JournalInvariant, PTL

(* A transaction whose fate is open is the one in the journal file          *)
(* (suiAssemblyTransactions.ts: journalled before it is submitted, cleared  *)
(* only when its effects are definitive or cannot happen).                  *)
THEOREM UncertainIsJournalled == TransactionsSpec => []OneUncertain
  <1>1. JournalInv => OneUncertain
    BY DEF JournalInv
  <1> QED BY <1>1, JournalInvariant, PTL

--------------------------------------------------------------------------------
(* The invariant of the fuel.                                               *)

(* An acknowledgment that was not flushed was lost.                         *)
Unflushed == "unflushed acknowledgment" \in excused

(* Somewhere it says that the n-th intent is to add delta to the node. *)
Planned(n, delta) ==
    \/ memory.intent = n /\ memory.delta = delta
    \/ disk.intent = n /\ disk.delta = delta
    \/ \E c \in Clients : seen[c].intent = n /\ seen[c].delta = delta
    \/ \E tx \in DOMAIN made : made[tx].intent = n /\ made[tx].delta = delta

(* What memory is to send, the disk is too, or it was not flushed since.    *)
DiskOK == memory.intent \in {NoIntent, disk.intent} \/ memory.intent > flushed

(* It says the same wherever it says so.  No intent adds nothing; no        *)
(* transaction is built for it.                                             *)
PlansOK ==
    /\ \A n, delta : Planned(n, delta) => n \in 0 .. intents /\ (n = NoIntent => delta = 0)
    /\ \A n, a, b : Planned(n, a) /\ Planned(n, b) => a = b
    /\ \A tx \in DOMAIN made : made[tx].intent # NoIntent
    /\ DiskOK

(* Only the syncer builds transactions, for the intent it saw. *)
BuildOK(c) == pc[c] \in {"build", "journal"} => c = Syncer /\ seen[c].intent # NoIntent

(* What the chain was asked for is still so when the answer arrives. *)
ReadOK(i) ==
    UnderLease(i) /\ pc[toParent[i].client] = "read" => toParent[i].result.fuel = chainFuel

(* Only the transaction in the file can have been executed for intent n. *)
Apart(n) == \A tx \in Executed : tx # file => made[tx].intent # n

(* The intent there is, and the one in the file, belong to no other         *)
(* executed transaction; executed transactions have different intents.      *)
AppliedApart ==
    /\ Apart(memory.intent)
    /\ file # NoTx => Apart(made[file].intent)
    /\ \A t, u \in Executed : made[t].intent = made[u].intent => t = u

(* Before the journal of an executed transaction is cleared, its intent is  *)
(* acknowledged. *)
AcknowledgedOK(c) ==
    pc[c] \in {"settled", "concluded"} /\ chain[pending[c]] = "done" =>
      memory.intent # made[pending[c]].intent

(* A transaction that is to be journalled is for the intent there is. *)
JournalledOK(c) ==
    Engaged(c) /\ pc[c] = "journal" /\ calls[c].op # "none" =>
      made[calls[c].journal].intent = memory.intent

(* What AppliedOnce needs of the clients.                                   *)
OnceOK == AppliedApart /\ \A c \in Clients : AcknowledgedOK(c) /\ JournalledOK(c)

(* The item's fuel and the node's make up the total.                        *)
Holding(items) ==
    /\ items.inventory + items.observed + items.delta = Total
    /\ items.observed + items.delta >= 0

(* The chain has executed the intent there is.                              *)
Reached == \E tx \in Executed : made[tx].intent = memory.intent

(* It has executed the intent on the disk.                                  *)
OnDisk == \E tx \in Executed : made[tx].intent = disk.intent

(* Whatever it has executed the disk knows of, and does not wait for when   *)
(* memory no longer does: a crash would lose nothing.                       *)
Recorded == ~AcknowledgmentLost /\ \A tx \in Executed : made[tx].intent <= flushed

(* Then the disk, too, says what the chain holds.                           *)
DiskMoney ==
    Recorded =>
      /\ OnDisk => chainFuel = disk.observed + disk.delta
      /\ ~OnDisk => chainFuel = disk.observed

(* The chain holds what it was seen to hold, and what the intent adds once  *)
(* its transaction was executed.  As long as a journalled transaction can   *)
(* execute, it is for that intent.                                          *)
MoneyOK ==
    /\ Holding(memory) /\ Holding(disk)
    /\ Reached => chainFuel = memory.observed + memory.delta
    /\ ~Reached => chainFuel = memory.observed
    /\ file # NoTx /\ chain[file] \in {"unknown", "sent"} => memory.intent = made[file].intent
    /\ DiskMoney

(* The inductive invariant of the fuel: each part as long as what the code  *)
(* does not promise has not happened.                                       *)
FuelInv ==
    /\ PlansOK
    /\ \A c \in Clients : BuildOK(c)
    /\ \A i \in DOMAIN toParent : ReadOK(i)
    /\ ~Unflushed => OnceOK
    /\ excused = {} => MoneyOK

(* With the two invariants the properties hold.                             *)
LEMMA FuelProperties ==
    ASSUME TransactionsTypeOK, FuelInv
    PROVE  AppliedOnce /\ FuelConserved
  <1>1. /\ memory \in Items /\ chainFuel \in Nat /\ Total \in Nat
    BY TransactionsAssumption DEF TransactionsTypeOK
  <1>2. AppliedOnce
    BY DEF FuelInv, OnceOK, AppliedApart, AppliedOnce, Unflushed
  <1>3. ASSUME excused = {}
        PROVE  /\ memory.inventory + Projected(memory) = Total
               /\ chainFuel \in {memory.observed, Projected(memory)}
    <2>1. /\ memory.inventory \in Nat /\ memory.observed \in Nat /\ memory.delta \in Int
      BY <1>1 DEF Items
    <2>2. /\ memory.inventory + memory.observed + memory.delta = Total
          /\ memory.observed + memory.delta >= 0
          /\ chainFuel \in {memory.observed, memory.observed + memory.delta}
      BY <1>3 DEF FuelInv, MoneyOK, Holding
    <2>3. Projected(memory) = memory.observed + memory.delta
      BY <2>1, <2>2 DEF Projected, Conflicts
    <2> QED BY <2>1, <2>2, <2>3
  <1> QED BY <1>2, <1>3 DEF FuelConserved

--------------------------------------------------------------------------------
(* The fuel: steps that leave the intents and the chain.                    *)

(* An intent that is taken up is a new one.                                 *)
LEMMA PlansKeep ==
    ASSUME PlansOK, intents \in Nat, intents' = intents \/ intents' = intents + 1, NEW extra,
           \A n, delta : Planned(n, delta)' =>
             \/ Planned(n, delta)
             \/ n = NoIntent /\ delta = 0
             \/ n = intents + 1 /\ intents' = intents + 1 /\ delta = extra,
           \A tx \in DOMAIN made' : made'[tx].intent # NoIntent, DiskOK'
    PROVE  PlansOK'
  <1>1. \A n, delta : Planned(n, delta) => n \in 0 .. intents /\ (n = NoIntent => delta = 0)
    BY DEF PlansOK
  <1>2. \A n, a, b : Planned(n, a) /\ Planned(n, b) => a = b
    BY DEF PlansOK
  <1>3. \A n \in 0 .. intents : n \in 0 .. intents' /\ n # intents + 1
    OBVIOUS
  <1>4. NoIntent \in 0 .. intents' /\ NoIntent # intents + 1 /\ (intents' = intents + 1 => intents + 1 \in 0 .. intents')
    BY DEF NoIntent
  <1>5. \A n, delta : Planned(n, delta)' => n \in 0 .. intents' /\ (n = NoIntent => delta = 0)
    BY <1>1, <1>3, <1>4
  <1>6. ASSUME NEW n, NEW a, NEW b, Planned(n, a)', Planned(n, b)'
        PROVE  a = b
    <2>1. CASE Planned(n, a)
      <3>1. n \in 0 .. intents /\ (n = NoIntent => a = 0) /\ n # intents + 1
        BY <1>1, <1>3, <2>1
      <3> QED BY <1>2, <1>6, <2>1, <3>1
    <2>2. CASE Planned(n, b)
      <3>1. n \in 0 .. intents /\ (n = NoIntent => b = 0) /\ n # intents + 1
        BY <1>1, <1>3, <2>2
      <3> QED BY <1>2, <1>6, <2>2, <3>1
    <2>3. CASE ~Planned(n, a) /\ ~Planned(n, b)
      BY <1>4, <1>6, <2>3
    <2> QED BY <2>1, <2>2, <2>3
  <1>7. PlansOK' <=> /\ \A n, delta : Planned(n, delta)' => n \in 0 .. intents' /\ (n = NoIntent => delta = 0)
                     /\ \A n, a, b : Planned(n, a)' /\ Planned(n, b)' => a = b
                     /\ \A tx \in DOMAIN made' : made'[tx].intent # NoIntent
                     /\ DiskOK'
    BY DEF PlansOK
  <1> QED BY <1>5, <1>6, <1>7

(* Nothing new for d to be right about. *)
Follows(d) ==
    /\ pc'[d] \in {"settled", "concluded"} => pc'[d] = pc[d] /\ pending'[d] = pending[d]
    /\ pc'[d] = "journal" /\ calls'[d].op # "none" => pc[d] = "journal" /\ calls'[d] = calls[d]
    /\ pc'[d] \in {"build", "journal"} => d = Syncer /\ seen'[d].intent # NoIntent

(* Who is admitted has no call. *)
TurnKept ==
    EngagedKept \/ \E c \in Clients : calls'[c].op = "none" /\ \A d \in Clients : Engaged(d)' => d = c

(* The types that the lemmas on fuel use.                                   *)
LEMMA IntentsTypes ==
    ASSUME JournalInv
    PROVE  intents \in Nat /\ memory \in Items /\ disk \in Items /\ seen \in [Clients -> Items]
           /\ made \in Seq(Transactions) /\ DOMAIN made \subseteq Txs /\ Executed \subseteq DOMAIN made
  <1>1. TransactionsTypeOK /\ KnownOK
    BY DEF JournalInv
  <1>2. intents \in 0 .. MaxIntents /\ MaxIntents \in Nat
    BY <1>1, TransactionsAssumption DEF TransactionsTypeOK
  <1>3. DOMAIN made \subseteq Txs
    BY <1>1, MadeTxs
  <1>4. Executed \subseteq DOMAIN made
    BY <1>1 DEF KnownOK, Executed
  <1>5. intents \in Nat
    BY <1>2
  <1>6. memory \in Items /\ disk \in Items /\ seen \in [Clients -> Items] /\ made \in Seq(Transactions)
    BY <1>1 DEF TransactionsTypeOK
  <1> QED BY <1>3, <1>4, <1>5, <1>6

(* What the disk says of the chain's fuel stays true while neither changes: *)
(* an intent that memory drops or takes up was not executed on the disk.    *)
LEMMA DiskStays ==
    ASSUME JournalInv, PlansOK, DiskMoney, UNCHANGED <<disk, flushed, chain, chainFuel>>,
           \A tx \in Executed : made'[tx] = made[tx],
           memory'.intent \in {memory.intent, NoIntent, intents + 1}
    PROVE  DiskMoney'
  <1>1. intents \in Nat /\ Executed \subseteq DOMAIN made /\ Executed' = Executed
    BY IntentsTypes DEF Executed
  <1>2. OnDisk' <=> OnDisk
    BY <1>1 DEF OnDisk
  <1>3. OnDisk => disk.intent \notin {NoIntent, intents + 1}
    <2>1. Planned(disk.intent, disk.delta)
      BY DEF Planned
    <2>2. disk.intent \in 0 .. intents
      BY <2>1 DEF PlansOK
    <2>3. disk.intent # intents + 1
      BY <1>1, <2>2
    <2> QED BY <1>1, <2>3 DEF OnDisk, PlansOK
  <1>4. /\ AcknowledgmentLost <=> disk.intent # memory.intent /\ OnDisk
        /\ AcknowledgmentLost' <=> disk'.intent # memory'.intent /\ OnDisk'
    BY DEF AcknowledgmentLost, OnDisk
  <1>5. Recorded' => Recorded
    BY <1>1, <1>2, <1>3, <1>4 DEF Recorded
  <1> QED BY <1>2, <1>5 DEF DiskMoney

(* What is flushed, if anything is. *)
MayFlush == UNCHANGED <<disk, flushed>> \/ (disk' = memory' /\ flushed' = intents)

(* A step that changes neither the file, the chain nor the intent.          *)
LEMMA SteadyKeeps ==
    ASSUME JournalInv, FuelInv, UNCHANGED <<file, chain, chainFuel, intents, excused, made>>,
           memory'.intent = memory.intent, memory'.delta = memory.delta,
           memory'.inventory = memory.inventory,
           excused = {} => memory'.observed = memory.observed,
           MayFlush,
           \A d \in Clients : seen'[d] \in {seen[d], memory, memory', NoItems},
           \A d \in Clients : Follows(d), TurnKept,
           \A i \in DOMAIN toParent' : ReadOK(i)'
    PROVE  FuelInv'
  <1>1. intents \in Nat
    BY IntentsTypes
  <1>2. PlansOK'
    <2>1. PlansOK
      BY DEF FuelInv
    <2>2. ASSUME NEW n, NEW delta, Planned(n, delta)'
          PROVE  Planned(n, delta) \/ (n = NoIntent /\ delta = 0)
      BY <2>2 DEF Planned, MayFlush, NoItems
    <2>3. DiskOK' /\ \A tx \in DOMAIN made' : made'[tx].intent # NoIntent
      BY <2>1 DEF PlansOK, DiskOK, MayFlush
    <2>4. intents' = intents
      OBVIOUS
    <2> QED BY <1>1, <2>1, <2>2, <2>3, <2>4, PlansKeep
  <1>3. \A c \in Clients : BuildOK(c)'
    BY DEF Follows, BuildOK
  <1>4. ASSUME ~Unflushed'
        PROVE  OnceOK'
    <2>1. OnceOK
      BY <1>4 DEF FuelInv, Unflushed
    <2>2. AppliedApart'
      BY <2>1 DEF OnceOK, AppliedApart, Apart, Executed
    <2>3. ASSUME NEW d \in Clients
          PROVE  AcknowledgedOK(d)'
      <3>1. AcknowledgedOK(d) /\ Follows(d)
        BY <2>1 DEF OnceOK
      <3> QED BY <3>1 DEF AcknowledgedOK, Follows
    <2>4. ASSUME NEW d \in Clients, Engaged(d)', pc'[d] = "journal", calls'[d].op # "none"
          PROVE  made'[calls'[d].journal].intent = memory'.intent
      <3>1. Engaged(d)
        BY <2>4 DEF TurnKept, EngagedKept
      <3>2. JournalledOK(d) /\ Follows(d)
        BY <2>1 DEF OnceOK
      <3> QED BY <2>4, <3>1, <3>2 DEF JournalledOK, Follows
    <2> QED BY <2>2, <2>3, <2>4 DEF OnceOK, JournalledOK
  <1>5. ASSUME excused' = {}
        PROVE  MoneyOK'
    <2>1. MoneyOK /\ memory'.observed = memory.observed
      BY <1>5 DEF FuelInv
    <2>2. Reached' <=> Reached
      BY DEF Reached, Executed
    <2>3. CASE UNCHANGED <<disk, flushed>>
      <3>1. DiskMoney'
        BY <2>1, <2>3, DiskStays DEF MoneyOK, FuelInv
      <3> QED BY <2>1, <2>2, <2>3, <3>1 DEF MoneyOK, Holding
    <2>4. CASE disk' = memory'
      <3>1. OnDisk' <=> Reached'
        BY <2>4 DEF OnDisk, Reached
      <3>2. DiskMoney'
        BY <2>1, <2>2, <2>4, <3>1 DEF MoneyOK, DiskMoney
      <3> QED BY <2>1, <2>2, <2>4, <3>2 DEF MoneyOK, Holding
    <2> QED BY <2>3, <2>4 DEF MayFlush
  <1> QED BY <1>2, <1>3, <1>4, <1>5 DEF FuelInv

(* Answers to reads that were under way stay true.                          *)
ReadsFollow ==
    \A i \in DOMAIN toParent' :
      UnderLease(i)' /\ pc'[toParent'[i].client] = "read" =>
        \E k \in DOMAIN toParent :
          toParent'[i] = toParent[k] /\ UnderLease(k) /\ pc[toParent[k].client] = "read"

(* The chain's answers under way stay true while its fuel does not change.  *)
LEMMA ReadsStay ==
    ASSUME FuelInv, ReadsFollow, UNCHANGED chainFuel
    PROVE  \A i \in DOMAIN toParent' : ReadOK(i)'
  <1>1. SUFFICES ASSUME NEW i \in DOMAIN toParent', UnderLease(i)', pc'[toParent'[i].client] = "read"
                 PROVE  toParent'[i].result.fuel = chainFuel'
    BY DEF ReadOK
  <1>2. PICK k \in DOMAIN toParent :
          toParent'[i] = toParent[k] /\ UnderLease(k) /\ pc[toParent[k].client] = "read"
    BY <1>1 DEF ReadsFollow
  <1>3. ReadOK(k)
    BY DEF FuelInv
  <1> QED BY <1>2, <1>3 DEF ReadOK

(* A step in which no client goes on.                                       *)
LEMMA FrameFollows ==
    ASSUME JournalInv, JournalInv', FuelInv, Frame({}), UNCHANGED seen
    PROVE  ReadsFollow /\ \A d \in Clients : Follows(d)
  <1>1. \A d \in Clients : Still(d) \/ Out(d)
    BY DEF Frame
  <1>2. \A d \in Clients : Follows(d)
    <2>1. ASSUME NEW d \in Clients
          PROVE  Follows(d)
      <3>1. CASE Out(d)
        BY <3>1 DEF Out, Follows
      <3>2. CASE Still(d)
        <4>1. BuildOK(d)
          BY DEF FuelInv
        <4> QED BY <3>2, <4>1 DEF Still, Follows, BuildOK
      <3> QED BY <1>1, <3>1, <3>2
    <2> QED BY <2>1
  <1>3. ASSUME NEW i \in DOMAIN toParent', UnderLease(i)', pc'[toParent'[i].client] = "read"
        PROVE  \E k \in DOMAIN toParent :
                 toParent'[i] = toParent[k] /\ UnderLease(k) /\ pc[toParent[k].client] = "read"
    <2>1. CASE \E k \in DOMAIN toParent : toParent'[i] = toParent[k] /\ Still(toParent[k].client)
      <3>1. PICK k \in DOMAIN toParent : toParent'[i] = toParent[k] /\ Still(toParent[k].client)
        BY <2>1
      <3>2. PICK d : d = toParent[k].client
        OBVIOUS
      <3>3. toParent'[i].client = d /\ calls'[d].op \in {"grpc", "saveJournal", "assertLease"} /\ toParent[k].ok
        BY <1>3, <3>1, <3>2 DEF UnderLease
      <3>4. calls[d].op = calls'[d].op /\ pc[d] = "read"
        BY <1>3, <3>1, <3>2, <3>3 DEF Still
      <3> QED BY <3>1, <3>2, <3>3, <3>4 DEF UnderLease
    <2>2. CASE calls'[toParent'[i].client].op \in {"grpc", "saveJournal"} => ~toParent'[i].ok
      <3>1. PICK s \in Seq(Replies) : s = toParent'
        BY DEF JournalInv, SInv, Protocol, TypeOK
      <3>2. s[i] \in Replies
        BY <1>3, <3>1, Elements
      <3>3. PICK d \in Clients : d = toParent'[i].client
        BY <3>1, <3>2 DEF Replies
      <3>4. PlaceOK(d)' /\ pc'[d] = "read"
        BY <1>3, <3>3 DEF JournalInv, ClientOK
      <3>5. calls'[d].op \in {"none", "grpc"}
        BY <3>4 DEF PlaceOK, Expects
      <3> QED BY <1>3, <2>2, <3>3, <3>5 DEF UnderLease
    <2> QED BY <2>1, <2>2 DEF Frame
  <1> QED BY <1>2, <1>3 DEF ReadsFollow

(* A step that moves neither intents nor transactions keeps the invariant.  *)
LEMMA QuietFuel ==
    ASSUME JournalInv, JournalInv', FuelInv, Quietly, UNCHANGED <<using, pending, chain, made>>,
           UNCHANGED <<chainFuel, intents, excused, memory, seen>>, MayFlush
    PROVE  FuelInv'
  <1>1. EngagedKept /\ Frame({})
    <2>1. SInv'
      BY DEF JournalInv
    <2> QED BY <2>1, QuietFrame
  <1>2. ReadsFollow /\ \A d \in Clients : Follows(d)
    BY <1>1, FrameFollows
  <1>3. \A i \in DOMAIN toParent' : ReadOK(i)'
    BY <1>2, ReadsStay
  <1>4. TurnKept
    BY <1>1 DEF TurnKept
  <1>5. file' = file
    BY <1>1 DEF Frame
  <1> QED BY <1>2, <1>3, <1>4, <1>5, SteadyKeeps

--------------------------------------------------------------------------------
(* The fuel: the calls of the clients.                                      *)

(* Answers to who does not call follow from answers that were there.        *)
LEMMA CallReads ==
    ASSUME JournalInv, NEW c \in Clients, Step(c), \A d \in Clients \ {c} : pc'[d] = pc[d]
    PROVE  /\ ReadsFollow
           /\ \A d \in Clients \ {c} : calls'[d] = calls[d]
  <1>1. Protocol /\ TypeOK /\ TransactionsTypeOK
    BY DEF JournalInv, SInv, Protocol
  <1>2. calls[c].op = "none"
    BY DEF Step, Read, Inquire, Open, Assert, Journal, Retire, Finish, End, CallChain, Ready
  <1>3. \A i \in DOMAIN toParent : toParent[i].client \in Clients \ {c}
    BY <1>1, <1>2, ElementTypes DEF Protocol, TalkOK, ReplyOK
  <1>4. /\ toParent' = toParent \/ toParent' = <<>>
        /\ \A d \in Clients \ {c} : calls'[d] = calls[d]
    <2>1. CASE ClientCalls(c) \/ Release(c)
      <3>1. PICK m \in Requests : Call(c, m)
        BY <1>1, <2>1, CallShape
      <3> QED BY <1>1, <3>1, CallEffects
    <2>2. CASE UNCHANGED vars
      BY <2>2 DEF vars
    <2> QED BY <1>1, <2>1, <2>2, StepCalls
  <1>5. ReadsFollow
    BY <1>3, <1>4, NoElements DEF ReadsFollow, UnderLease
  <1> QED BY <1>4, <1>5

(* No call admits anybody.                                                  *)
LEMMA CallTurn ==
    ASSUME JournalInv, SInv', NEW c \in Clients, Step(c)
    PROVE  EngagedKept
  <1>1. Protocol /\ Protocol' /\ TurnInv /\ TransactionsTypeOK
    BY DEF JournalInv, SInv
  <1>2. CASE ClientCalls(c) \/ Release(c)
    BY <1>1, <1>2, ClientCallsTurn
  <1>3. CASE UNCHANGED vars
    BY <1>3 DEF vars, processVars, workerVars, EngagedKept, Engaged, Holds, Inside, UnderLease
  <1> QED BY <1>1, <1>2, <1>3, StepCalls

(* Who goes on leaves the others where they are.                            *)
LEMMA StepAlone ==
    ASSUME TransactionsTypeOK, NEW c \in Clients, Step(c)
    PROVE  /\ \A d \in Clients \ {c} : pc'[d] = pc[d] /\ pending'[d] = pending[d] /\ seen'[d] = seen[d]
           /\ UNCHANGED <<disk, flushed, intents, chain, chainFuel, excused, file>>
  <1>1. /\ pc \in [Clients -> Places] /\ pending \in [Clients -> Txs \cup {NoTx}] /\ seen \in [Clients -> Items]
    BY DEF TransactionsTypeOK
  <1>2. UNCHANGED <<disk, flushed, intents, chain, chainFuel, excused>>
    BY DEF Step, Read, Inquire, Open, Assert, Journal, Retire, Finish, End, txVars, chainVars
  <1>3. UNCHANGED file
    <2>1. CASE ClientCalls(c) \/ Release(c)
      BY <2>1 DEF ClientCalls, Acquire, OpenJournal, AssertLease, SaveJournal, Grpc, Release, Call
    <2>2. CASE UNCHANGED vars
      BY <2>2 DEF vars
    <2> QED BY <2>1, <2>2, StepCalls
  <1>4. ASSUME NEW d \in Clients \ {c}
        PROVE  pc'[d] = pc[d] /\ pending'[d] = pending[d] /\ seen'[d] = seen[d]
    <2>1. \A place : Goto(c, place) => pc'[d] = pc[d]
      BY <1>1 DEF Goto
    <2>2. Throws(c) => pc'[d] = pc[d]
      BY <2>1 DEF Throws
    <2>3. \A kind : CallChain(c, kind) => pc'[d] = pc[d]
      BY <2>2 DEF CallChain
    <2>4. CASE Read(c)
      BY <1>1, <2>3, <2>4 DEF Read
    <2>5. CASE Inquire(c)
      BY <2>3, <2>5 DEF Inquire
    <2>6. CASE Open(c)
      BY <2>6 DEF Open, txVars
    <2>7. CASE Assert(c)
      BY <2>2, <2>7 DEF Assert
    <2>8. CASE Journal(c)
      BY <2>2, <2>8 DEF Journal
    <2>9. CASE Retire(c)
      BY <2>2, <2>9 DEF Retire
    <2>10. CASE Finish(c)
      BY <2>1, <2>2, <2>10 DEF Finish
    <2>11. CASE End(c)
      BY <1>1, <2>1, <2>11 DEF End
    <2> QED BY <2>4, <2>5, <2>6, <2>7, <2>8, <2>9, <2>10, <2>11 DEF Step
  <1> QED BY <1>2, <1>3, <1>4

(* A call that settles nothing.                                             *)
LEMMA PlainCall ==
    ASSUME JournalInv, JournalInv', FuelInv, NEW c \in Clients, Step(c), UNCHANGED <<memory, made>>,
           seen'[c] \in {seen[c], memory, NoItems},
           pc'[c] \notin {"settled", "concluded", "journal"},
           pc'[c] = "build" => pc[c] = "build" /\ seen'[c] = seen[c]
    PROVE  FuelInv'
  <1>1. TransactionsTypeOK /\ SInv'
    BY DEF JournalInv
  <1>2. /\ \A d \in Clients \ {c} : pc'[d] = pc[d] /\ pending'[d] = pending[d] /\ seen'[d] = seen[d]
        /\ UNCHANGED <<disk, flushed, intents, chain, chainFuel, excused, file>>
    BY <1>1, StepAlone
  <1>3. ReadsFollow /\ \A d \in Clients \ {c} : calls'[d] = calls[d]
    BY <1>2, CallReads
  <1>4. TurnKept
    BY <1>1, CallTurn DEF TurnKept
  <1>5. \A i \in DOMAIN toParent' : ReadOK(i)'
    BY <1>2, <1>3, ReadsStay
  <1>6. \A d \in Clients : BuildOK(d)
    BY DEF FuelInv
  <1>7. ASSUME NEW d \in Clients
        PROVE  Follows(d)
    <2>1. CASE d = c
      BY <1>6, <2>1 DEF Follows, BuildOK
    <2>2. CASE d # c
      BY <1>2, <1>3, <1>6, <2>2 DEF Follows, BuildOK
    <2> QED BY <2>1, <2>2
  <1>8. MayFlush /\ \A d \in Clients : seen'[d] \in {seen[d], memory, memory', NoItems}
    BY <1>2 DEF MayFlush
  <1> QED BY ONLY JournalInv, FuelInv, <1>2, <1>4, <1>5, <1>7, <1>8, UNCHANGED <<memory, made>>, SteadyKeeps

(* So are all but a journalling and a finish.                               *)
LEMMA PlainSteps ==
    ASSUME JournalInv, JournalInv', FuelInv, NEW c \in Clients,
           \/ Read(c) \/ Inquire(c) \/ Open(c) \/ Assert(c) \/ Retire(c) \/ End(c)
           \/ Journal(c) /\ Throws(c) /\ UNCHANGED made
    PROVE  FuelInv'
  <1>1. TransactionsTypeOK
    BY DEF JournalInv
  <1>2. pc \in [Clients -> Places] /\ seen \in [Clients -> Items] /\ memory \in Items
    BY <1>1 DEF TransactionsTypeOK
  <1>3. Step(c) /\ UNCHANGED <<memory, made>>
    BY DEF Step, Read, Inquire, Open, Assert, Journal, Retire, End, txVars
  <1>4. \A place : Goto(c, place) => pc'[c] = place
    BY <1>2 DEF Goto
  <1>5. Throws(c) => pc'[c] = "end"
    BY <1>4 DEF Throws
  <1>6. \A kind : CallChain(c, kind) => pc'[c] = "end" \/ (pc[c] = kind /\ pc'[c] = kind)
    BY <1>5 DEF CallChain, Ready
  <1>7. CASE Read(c)
    <2>1. seen'[c] = memory /\ (pc'[c] = "end" \/ pc'[c] = "read")
      BY <1>2, <1>6, <1>7 DEF Read
    <2> QED BY <1>3, <2>1, PlainCall
  <1>8. CASE ~Read(c)
    <2>1. seen'[c] = seen[c] \/ (seen'[c] = NoItems /\ End(c))
      BY <1>2, <1>8 DEF Inquire, Open, Assert, Journal, Retire, End, txVars
    <2>2. /\ pc'[c] \notin {"settled", "concluded", "journal"}
          /\ pc'[c] = "build" => pc[c] = "build"
      <3>1. CASE Inquire(c)
        BY <1>6, <3>1 DEF Inquire
      <3>2. CASE Open(c)
        BY <3>2 DEF Open, txVars, Ready
      <3>3. CASE Assert(c)
        BY <1>5, <3>3 DEF Assert, Ready
      <3>4. CASE Retire(c)
        BY <1>5, <3>4 DEF Retire, Ready
      <3>5. CASE End(c)
        BY <1>4, <3>5 DEF End
      <3>6. CASE Throws(c)
        BY <1>5, <3>6
      <3> QED BY <1>8, <3>1, <3>2, <3>3, <3>4, <3>5, <3>6
    <2>3. End(c) => pc'[c] = "start"
      BY <1>4 DEF End
    <2> QED BY <1>3, <2>1, <2>2, <2>3, PlainCall
  <1> QED BY <1>7, <1>8

(* Who asks to be admitted settles nothing.                                 *)
LEMMA AcquireFuel ==
    ASSUME JournalInv, JournalInv', FuelInv, NEW c \in Clients, Acquire(c), UNCHANGED txVars
    PROVE  FuelInv'
  <1>1. Protocol /\ Protocol' /\ TurnInv /\ TypeOK /\ UNCHANGED file
    BY DEF JournalInv, SInv, Protocol, Acquire, Call
  <1>2. EngagedKept
    BY <1>1, ClientCallsTurn DEF ClientCalls
  <1>3. PICK m \in Requests : Call(c, m)
    BY <1>1, CallShape DEF ClientCalls
  <1>4. /\ toParent' = toParent \/ toParent' = <<>>
        /\ \A d \in Clients \ {c} : calls'[d] = calls[d]
    BY <1>1, <1>3, CallEffects
  <1>5. calls[c].op = "none" /\ phase[c] # "running"
    BY DEF Acquire, Call
  <1>6. pc[c] = "start"
    BY <1>5 DEF JournalInv, ClientOK, PlaceOK
  <1>7. \A i \in DOMAIN toParent : toParent[i].client \in Clients \ {c}
    BY <1>1, <1>5, ElementTypes DEF Protocol, TalkOK, ReplyOK
  <1>8. UNCHANGED <<pc, pending, seen, memory, disk, flushed, intents, made, chain, chainFuel, excused>>
    BY DEF txVars, chainVars
  <1>9. ReadsFollow
    BY <1>4, <1>7, <1>8, NoElements DEF ReadsFollow, UnderLease
  <1>10. ASSUME NEW d \in Clients
         PROVE  Follows(d)
    <2>1. BuildOK(d)
      BY DEF FuelInv
    <2> QED BY <1>4, <1>6, <1>8, <2>1 DEF Follows, BuildOK
  <1>11. TurnKept /\ MayFlush /\ \A i \in DOMAIN toParent' : ReadOK(i)'
    BY <1>2, <1>8, <1>9, ReadsStay DEF TurnKept, MayFlush
  <1> QED BY <1>1, <1>8, <1>10, <1>11, SteadyKeeps

(* More transactions, for the ones there are nothing changes.               *)
LEMMA MadeMore ==
    ASSUME JournalInv, UNCHANGED <<file, chain>>, memory'.intent = memory.intent,
           \A tx \in DOMAIN made : made'[tx] = made[tx]
    PROVE  /\ AppliedApart => AppliedApart'
           /\ Reached' <=> Reached
           /\ file # NoTx => made'[file] = made[file]
           /\ \A d \in Clients : AcknowledgedOK(d) /\ pc'[d] = pc[d] /\ pending'[d] = pending[d] => AcknowledgedOK(d)'
  <1>1. Executed \subseteq DOMAIN made /\ Executed' = Executed
    BY IntentsTypes DEF Executed
  <1>2. file # NoTx => file \in DOMAIN made
    BY DEF JournalInv, KnownOK
  <1>3. AppliedApart => AppliedApart'
    BY <1>1, <1>2 DEF AppliedApart, Apart
  <1>4. Reached' <=> Reached
    BY <1>1 DEF Reached
  <1>5. \A d \in Clients : pc[d] \in {"settled", "concluded"} => pending[d] \in DOMAIN made
    BY DEF JournalInv, ClientOK, RecoveryOK, Recovering
  <1> QED BY <1>2, <1>3, <1>4, <1>5 DEF AcknowledgedOK

(* A transaction is journalled for the intent there is.                     *)
LEMMA JournalFuel ==
    ASSUME JournalInv, JournalInv', FuelInv, NEW c \in Clients, Journal(c)
    PROVE  FuelInv'
  <1>1. TransactionsTypeOK /\ made \in Seq(Transactions) /\ seen \in [Clients -> Items] /\ SInv'
    BY DEF JournalInv, TransactionsTypeOK
  <1>2. CASE ~(SameFuel(seen[c], memory) /\ JournalUsable(c))
    <2>1. Throws(c) /\ UNCHANGED made
      BY <1>2 DEF Journal
    <2> QED BY <2>1, PlainSteps
  <1>3. CASE SameFuel(seen[c], memory) /\ JournalUsable(c)
    <2>1. PICK n : n = Len(made) + 1
      OBVIOUS
    <2>2. PICK t : t = [intent |-> seen[c].intent, delta |-> seen[c].delta]
      OBVIOUS
    <2>3. /\ made' = Append(made, t) /\ SaveJournal(c, n)
          /\ UNCHANGED <<pc, pending, seen, memory, disk, flushed, intents, chain, chainFuel, excused>>
          /\ pc[c] = "journal"
      BY <1>3, <2>1, <2>2 DEF Journal, chainVars, Ready
    <2>4. t \in Transactions
      BY <1>1, <2>2 DEF Items, Transactions
    <2>5. /\ \A i \in DOMAIN made : i \in DOMAIN made' /\ made'[i] = made[i]
          /\ made'[n] = t
          /\ \A i \in DOMAIN made' : i \in DOMAIN made \/ i = n
      BY <1>1, <2>1, <2>3, <2>4, AddingIndexes
    <2>6. UNCHANGED file /\ Step(c)
      BY <2>3 DEF SaveJournal, Call, Step
    <2>7. calls'[c].journal = n
      <3>1. TypeOK
        BY <1>1 DEF TransactionsTypeOK
      <3>2. calls'[c] = [op |-> SaveRequest(c, n).op, generation |-> generation', journal |-> SaveRequest(c, n).journal]
        BY <2>3, <3>1 DEF SaveJournal, Call, TypeOK
      <3>3. SaveRequest(c, n).journal = n
        BY DEF SaveRequest, Request
      <3> QED BY <3>2, <3>3
    <2>8. seen[c].intent = memory.intent /\ seen[c].intent # NoIntent
      BY <1>3, <2>3 DEF SameFuel, FuelInv, BuildOK
    <2>9. PlansOK'
      <3>1. intents \in Nat /\ PlansOK
        BY IntentsTypes DEF FuelInv
      <3>2. ASSUME NEW k, NEW delta, Planned(k, delta)'
            PROVE  Planned(k, delta)
        BY <2>2, <2>3, <2>5, <3>2 DEF Planned
      <3>3. \A tx \in DOMAIN made' : made'[tx].intent # NoIntent
        BY <2>2, <2>5, <2>8, <3>1 DEF PlansOK
      <3>4. DiskOK'
        BY <2>3, <3>1 DEF PlansOK, DiskOK
      <3> QED BY <2>3, <3>1, <3>2, <3>3, <3>4, PlansKeep
    <2>10. ReadsFollow /\ \A d \in Clients \ {c} : calls'[d] = calls[d]
      BY <2>3, <2>6, CallReads
    <2>11. \A i \in DOMAIN toParent' : ReadOK(i)'
      BY <2>3, <2>10, ReadsStay
    <2>12. EngagedKept
      BY <1>1, <2>6, CallTurn
    <2>13. /\ AppliedApart => AppliedApart'
           /\ Reached' <=> Reached
           /\ file # NoTx => made'[file] = made[file]
           /\ \A d \in Clients : AcknowledgedOK(d) => AcknowledgedOK(d)'
      BY <2>3, <2>5, <2>6, MadeMore
    <2>14. ASSUME OnceOK, NEW d \in Clients
           PROVE  JournalledOK(d)'
      <3>1. CASE d = c
        BY <2>2, <2>3, <2>5, <2>7, <2>8, <3>1 DEF JournalledOK
      <3>2. CASE d # c
        <4>1. calls'[d] = calls[d] /\ JournalledOK(d)
          BY <2>10, <2>14, <3>2 DEF OnceOK
        <4>2. Engaged(d)' => Engaged(d)
          BY <2>12 DEF EngagedKept
        <4>3. pc[d] = "journal" /\ calls[d].op # "none" => calls[d].journal \in DOMAIN made
          BY DEF JournalInv, ClientOK, RecoveryOK
        <4> QED BY <2>3, <2>5, <4>1, <4>2, <4>3 DEF JournalledOK
      <3> QED BY <3>1, <3>2
    <2>15. \A d \in Clients : BuildOK(d)'
      BY <2>3 DEF FuelInv, BuildOK
    <2>16. OnceOK => OnceOK'
      BY <2>13, <2>14 DEF OnceOK
    <2>17. ASSUME MoneyOK
           PROVE  MoneyOK'
      <3>1. \A tx \in Executed : made'[tx] = made[tx]
        BY <2>5, IntentsTypes
      <3>2. DiskMoney'
        BY <2>3, <2>17, <3>1, DiskStays DEF MoneyOK, FuelInv
      <3> QED BY <2>3, <2>6, <2>13, <2>17, <3>2 DEF MoneyOK, Holding
    <2> QED BY <2>3, <2>9, <2>11, <2>15, <2>16, <2>17 DEF FuelInv, Unflushed
  <1> QED BY <1>2, <1>3

(* The transaction that was executed for the intent there is, is the one in *)
(* the file.                                                                *)
LEMMA ReachedByFile ==
    ASSUME AppliedApart, Reached
    PROVE  file \in Executed /\ made[file].intent = memory.intent
  BY DEF AppliedApart, Apart, Reached

(* A finish acknowledges the intent of the executed transaction.            *)
LEMMA FinishFuel ==
    ASSUME JournalInv, JournalInv', FuelInv, NEW c \in Clients, Finish(c)
    PROVE  FuelInv'
  <1>1. TransactionsTypeOK /\ SInv' /\ pc \in [Clients -> Places] /\ Step(c)
    BY DEF JournalInv, TransactionsTypeOK, Step
  <1>2. PICK tx : tx = pending[c]
    OBVIOUS
  <1>3. /\ pc[c] = "finish" /\ UNCHANGED <<pending, seen, disk, flushed, intents, made, chain, chainFuel, excused>>
        /\ memory' = IF chain[tx] = "done" THEN Acknowledge(memory, made[tx].intent) ELSE memory
    BY <1>2 DEF Finish, Ready, chainVars
  <1>4. pc'[c] \in {"settled", "concluded", "end"}
    <2>1. \A place : Goto(c, place) => pc'[c] = place
      BY <1>1 DEF Goto
    <2> QED BY <2>1 DEF Finish, Throws
  <1>5. /\ \A d \in Clients \ {c} : pc'[d] = pc[d]
        /\ UNCHANGED file
    BY <1>1, StepAlone
  <1>6. tx \in DOMAIN made /\ DOMAIN made \subseteq Txs
    BY <1>1, <1>2, <1>3, MadeTxs DEF JournalInv, ClientOK, RecoveryOK, Recovering
  <1>7. PlansOK /\ made[tx].intent # NoIntent /\ \A t \in DOMAIN made : made[t].intent # NoIntent
    BY <1>6 DEF FuelInv, PlansOK
  <1>8. /\ intents \in Nat /\ memory \in Items /\ Executed \subseteq DOMAIN made
    BY IntentsTypes
  <1>9. /\ memory.inventory \in Nat /\ memory.observed \in Nat /\ memory.delta \in Int
    BY <1>8 DEF Items
  <1>10. CASE chain[tx] = "done" /\ memory.intent = made[tx].intent
    <2>1. /\ memory'.intent = NoIntent /\ memory'.delta = 0
          /\ memory'.inventory = memory.inventory /\ memory'.observed = Projected(memory)
      BY <1>3, <1>7, <1>8, <1>10 DEF Acknowledge, Items
    <2>2. tx \in Executed /\ Reached
      BY <1>6, <1>10 DEF Executed, Reached
    <2>3. ReadsFollow /\ \A d \in Clients \ {c} : calls'[d] = calls[d]
      BY <1>1, <1>5, CallReads
    <2>4. EngagedKept /\ \A i \in DOMAIN toParent' : ReadOK(i)'
      BY <1>1, <1>3, <2>3, CallTurn, ReadsStay
    <2>5. PlansOK'
      <3>1. ASSUME NEW k, NEW delta, Planned(k, delta)'
            PROVE  Planned(k, delta) \/ (k = NoIntent /\ delta = 0)
        BY <1>3, <2>1, <3>1 DEF Planned
      <3>2. DiskOK' /\ \A t \in DOMAIN made' : made'[t].intent # NoIntent
        BY <1>3, <1>7, <2>1 DEF PlansOK, DiskOK
      <3> QED BY <1>3, <1>7, <1>8, <3>1, <3>2, PlansKeep
    <2>6. \A d \in Clients : BuildOK(d)'
      BY <1>3, <1>4, <1>5 DEF FuelInv, BuildOK
    <2>7. ASSUME OnceOK
          PROVE  OnceOK'
      <3>1. chain[file] = "done"
        BY <2>2, <2>7, ReachedByFile DEF OnceOK, Executed
      <3>2. AppliedApart'
        BY <1>3, <1>5, <1>7, <1>8, <2>1, <2>7 DEF OnceOK, AppliedApart, Apart, Executed
      <3>3. ASSUME NEW d \in Clients
            PROVE  AcknowledgedOK(d)'
        <4>1. pc'[d] \in {"settled", "concluded"} => pending[d] \in DOMAIN made
          BY <1>2, <1>5, <1>6 DEF JournalInv, ClientOK, RecoveryOK, Recovering
        <4> QED BY <1>3, <1>7, <2>1, <4>1 DEF AcknowledgedOK
      <3>4. ASSUME NEW d \in Clients, Engaged(d)', pc'[d] = "journal"
            PROVE  FALSE
        <4>1. d # c /\ Engaged(d) /\ pc[d] = "journal"
          BY <1>4, <1>5, <2>4, <3>4 DEF EngagedKept
        <4>2. file = NoTx \/ chain[file] \in {"unknown", "dead"}
          BY <4>1 DEF JournalInv, SyncOK, Fresh
        <4>3. file \in Executed
          BY <2>2, <2>7, ReachedByFile DEF OnceOK
        <4> QED BY <3>1, <4>2, <4>3 DEF Executed, Txs, NoTx
      <3> QED BY <3>2, <3>3, <3>4 DEF OnceOK, JournalledOK
    <2>8. ASSUME MoneyOK, OnceOK
          PROVE  MoneyOK'
      <3>1. chain[file] = "done"
        BY <2>2, <2>8, ReachedByFile DEF OnceOK, Executed
      <3>2. /\ memory.inventory + memory.observed + memory.delta = Total
            /\ memory.observed + memory.delta >= 0
            /\ chainFuel = memory.observed + memory.delta
        BY <2>2, <2>8 DEF MoneyOK, Holding
      <3>3. Projected(memory) = memory.observed + memory.delta
        BY <1>9, <3>2 DEF Projected, Conflicts
      <3>4. Holding(memory)'
        BY <1>9, <2>1, <3>2, <3>3 DEF Holding
      <3>5. Holding(disk)'
        BY <1>3, <2>8 DEF MoneyOK, Holding
      <3>6. ~Reached'
        BY <1>3, <1>7, <1>8, <2>1 DEF Reached, Executed
      <3>7. DiskMoney'
        BY <1>3, <1>7, <2>1, <2>8, DiskStays DEF MoneyOK
      <3> QED BY <1>3, <1>5, <2>1, <3>1, <3>2, <3>3, <3>4, <3>5, <3>6, <3>7 DEF MoneyOK
    <2>9. ~Unflushed' => OnceOK'
      BY <1>3, <2>7 DEF FuelInv, Unflushed
    <2>10. excused' = {} => MoneyOK'
      BY <1>3, <2>8 DEF FuelInv, Unflushed
    <2> QED BY <2>4, <2>5, <2>6, <2>9, <2>10 DEF FuelInv
  <1>11. CASE chain[tx] = "done" => memory.intent # made[tx].intent
    <2>1. memory' = memory
      BY <1>3, <1>11 DEF Acknowledge
    <2>2. ReadsFollow /\ \A d \in Clients \ {c} : calls'[d] = calls[d]
      BY <1>1, <1>5, CallReads
    <2>3. EngagedKept /\ \A i \in DOMAIN toParent' : ReadOK(i)'
      BY <1>1, <1>3, <2>2, CallTurn, ReadsStay
    <2>4. PlansOK'
      <3>1. ASSUME NEW k, NEW delta, Planned(k, delta)'
            PROVE  Planned(k, delta)
        BY <1>3, <2>1, <3>1 DEF Planned
      <3>2. DiskOK' /\ \A t \in DOMAIN made' : made'[t].intent # NoIntent
        BY <1>3, <1>7, <2>1 DEF PlansOK, DiskOK
      <3> QED BY <1>3, <1>7, <1>8, <3>1, <3>2, PlansKeep
    <2>5. \A d \in Clients : BuildOK(d)'
      BY <1>3, <1>4, <1>5 DEF FuelInv, BuildOK
    <2>6. ASSUME NEW t \in DOMAIN made
          PROVE  made'[t] = made[t]
      BY <1>3
    <2>7. /\ AppliedApart => AppliedApart'
          /\ Reached' <=> Reached
          /\ \A d \in Clients : AcknowledgedOK(d) /\ pc'[d] = pc[d] /\ pending'[d] = pending[d] => AcknowledgedOK(d)'
      BY <1>3, <1>5, <2>1, <2>6, MadeMore
    <2>8. ASSUME OnceOK
          PROVE  OnceOK'
      <3>1. ASSUME NEW d \in Clients
            PROVE  AcknowledgedOK(d)'
        <4>1. CASE d = c
          BY <1>2, <1>3, <1>11, <2>1, <4>1 DEF AcknowledgedOK
        <4>2. CASE d # c
          BY <1>3, <1>5, <2>7, <2>8, <4>2 DEF OnceOK
        <4> QED BY <4>1, <4>2
      <3>2. ASSUME NEW d \in Clients, Engaged(d)', pc'[d] = "journal", calls'[d].op # "none"
            PROVE  made'[calls'[d].journal].intent = memory'.intent
        <4>1. d # c /\ Engaged(d) /\ pc[d] = "journal" /\ calls'[d] = calls[d]
          BY <1>4, <1>5, <2>2, <2>3, <3>2 DEF EngagedKept
        <4> QED BY <1>3, <2>1, <2>8, <3>2, <4>1 DEF OnceOK, JournalledOK
      <3> QED BY <2>7, <2>8, <3>1, <3>2 DEF OnceOK, JournalledOK
    <2>9. ~Unflushed' => OnceOK'
      BY <1>3, <2>8 DEF FuelInv, Unflushed
    <2>10. ASSUME excused' = {}
           PROVE  MoneyOK'
      <3>1. MoneyOK
        BY <1>3, <2>10 DEF FuelInv
      <3>2. DiskMoney'
        BY <1>3, <1>7, <2>1, <3>1, DiskStays DEF MoneyOK
      <3> QED BY <1>3, <1>5, <2>1, <2>7, <3>1, <3>2 DEF MoneyOK, Holding
    <2> QED BY <2>3, <2>4, <2>5, <2>9, <2>10 DEF FuelInv
  <1> QED BY <1>10, <1>11

(* No call of a client breaks it.                                           *)
LEMMA StepFuel ==
    ASSUME JournalInv, JournalInv', FuelInv, NEW c \in Clients, Step(c)
    PROVE  FuelInv'
  BY PlainSteps, JournalFuel, FinishFuel DEF Step

--------------------------------------------------------------------------------
(* The fuel: the answers.                                                   *)

(* Who is answered no longer calls, the other answers stay.                 *)
LEMMA ReplyReads ==
    ASSUME JournalInv, NEW c \in Clients, HandleReply(c), \A d \in Clients \ {c} : pc'[d] = pc[d]
    PROVE  /\ ReadsFollow /\ TurnKept /\ UNCHANGED file
           /\ calls'[c].op = "none" /\ \A d \in Clients \ {c} : calls'[d] = calls[d]
  <1>1. Protocol /\ TurnInv /\ TypeOK
    BY DEF JournalInv, SInv, Protocol
  <1>2. calls' = [calls EXCEPT ![c] = NoCall]
    BY DEF HandleReply, AcquireAnswered, ReleaseAnswered, AssertAnswered, GrpcAnswered, OpenAnswered,
           SaveAnswered, Answered
  <1>3. calls'[c].op = "none" /\ \A d \in Clients \ {c} : calls'[d] = calls[d]
    BY <1>1, <1>2 DEF TypeOK, NoCall
  <1>4. /\ UNCHANGED file
        /\ \A i \in DOMAIN toParent' : /\ toParent'[i].client \in Clients \ {c}
                                       /\ \E k \in DOMAIN toParent : toParent'[i] = toParent[k]
    BY ReplyLeft
  <1>5. ReadsFollow
    BY <1>3, <1>4 DEF ReadsFollow, UnderLease
  <1>6. TurnKept
    BY <1>1, <1>3, HandleReplyTurn DEF TurnKept, Admitted
  <1> QED BY <1>3, <1>4, <1>5, <1>6

(* An answer that changes no intent.                                        *)
LEMMA PlainReply ==
    ASSUME JournalInv, JournalInv', FuelInv, NEW c \in Clients, HandleReply(c),
           UNCHANGED <<disk, flushed, intents, made, chain, chainFuel, excused>>,
           memory'.intent = memory.intent, memory'.delta = memory.delta,
           memory'.inventory = memory.inventory,
           excused = {} => memory'.observed = memory.observed,
           \A d \in Clients \ {c} : pc'[d] = pc[d] /\ pending'[d] = pending[d] /\ seen'[d] = seen[d],
           seen'[c] = seen[c] \/ seen'[c] = memory',
           pc'[c] \notin {"settled", "concluded"},
           pc'[c] \in {"build", "journal"} => c = Syncer /\ seen'[c].intent # NoIntent
    PROVE  FuelInv'
  <1>1. /\ ReadsFollow /\ TurnKept /\ UNCHANGED file
        /\ calls'[c].op = "none" /\ \A d \in Clients \ {c} : calls'[d] = calls[d]
    BY ReplyReads
  <1>2. \A i \in DOMAIN toParent' : ReadOK(i)'
    BY <1>1, ReadsStay
  <1>3. ASSUME NEW d \in Clients
        PROVE  Follows(d)
    <2>1. CASE d = c
      BY <1>1, <2>1 DEF Follows
    <2>2. CASE d # c
      <3>1. BuildOK(d)
        BY DEF FuelInv
      <3> QED BY <1>1, <2>2, <3>1 DEF Follows, BuildOK
    <2> QED BY <2>1, <2>2
  <1>4. \A d \in Clients : seen'[d] \in {seen[d], memory, memory', NoItems}
    OBVIOUS
  <1>5. UNCHANGED <<file, chain, chainFuel, intents, excused, made>> /\ MayFlush
    BY <1>1 DEF MayFlush
  <1> QED BY <1>1, <1>2, <1>3, <1>4, <1>5, SteadyKeeps

(* Most answers only send their client elsewhere.                           *)
LEMMA MovedOn ==
    ASSUME JournalInv, JournalInv', FuelInv, NEW c \in Clients, HandleReply(c),
           UNCHANGED <<memory, seen, disk, flushed, intents, made, chain, chainFuel, excused>>,
           \A d \in Clients \ {c} : pc'[d] = pc[d] /\ pending'[d] = pending[d],
           pc'[c] \notin {"settled", "concluded", "build", "journal"}
           \/ (pc'[c] = "journal" /\ pc[c] = "build")
    PROVE  FuelInv'
  <1>1. BuildOK(c)
    BY DEF FuelInv
  <1>2. /\ pc'[c] \notin {"settled", "concluded"}
        /\ pc'[c] \in {"build", "journal"} => c = Syncer /\ seen'[c].intent # NoIntent
    BY <1>1 DEF BuildOK
  <1>3. /\ memory'.intent = memory.intent /\ memory'.delta = memory.delta
        /\ memory'.inventory = memory.inventory /\ memory'.observed = memory.observed
        /\ \A d \in Clients \ {c} : seen'[d] = seen[d]
        /\ seen'[c] = seen[c] \/ seen'[c] = memory'
        /\ UNCHANGED <<disk, flushed, intents, made, chain, chainFuel, excused>>
    OBVIOUS
  <1> QED BY <1>2, <1>3, PlainReply

(* Nor do the answers that leave intents and transactions alone.            *)
LEMMA PlainReplies ==
    ASSUME JournalInv, JournalInv', FuelInv, NEW c \in Clients,
           \/ Begins(c) \/ Opened(c) \/ Asserted(c) \/ Informed(c) \/ Saved(c) \/ TransferFails(c)
           \/ ReleaseAnswered(c) /\ UNCHANGED txVars
    PROVE  FuelInv'
  <1>1. HandleReply(c)
    BY DEF HandleReply, Begins, Opened, Asserted, Informed, Saved, TransferFails
  <1>2. UNCHANGED <<memory, seen, disk, flushed, intents, made, chain, chainFuel, excused>>
    BY DEF Begins, Opened, Asserted, Informed, Saved, TransferFails, txVars, chainVars
  <1>3. /\ pc \in [Clients -> Places] /\ pending \in [Clients -> Txs \cup {NoTx}]
        /\ PhasesOK /\ ClientOK(c)
    BY DEF JournalInv, TransactionsTypeOK, SInv, Protocol
  <1>4. /\ \A place : Goto(c, place) => pc'[c] = place /\ \A d \in Clients \ {c} : pc'[d] = pc[d]
        /\ \A journal : Recovers(c, journal) =>
             /\ pc'[c] \in {"read", "query"}
             /\ \A d \in Clients \ {c} : pc'[d] = pc[d] /\ pending'[d] = pending[d]
    BY <1>3 DEF Goto, Recovers
  <1>5. \A d \in Clients \ {c} : pc'[d] = pc[d] /\ pending'[d] = pending[d]
    BY <1>4 DEF Begins, Opened, Asserted, Informed, Saved, TransferFails, txVars
  <1>6. \/ pc'[c] \notin {"settled", "concluded", "build", "journal"}
        \/ pc'[c] = "journal" /\ pc[c] = "build"
    <2>1. CASE Begins(c)
      BY <1>4, <2>1 DEF Begins
    <2>2. CASE Opened(c)
      BY <1>4, <2>2 DEF Opened
    <2>3. CASE Asserted(c)
      BY <1>4, <2>3 DEF Asserted
    <2>4. CASE Informed(c)
      BY <1>4, <2>4 DEF Informed
    <2>5. CASE Saved(c)
      BY <1>4, <2>5 DEF Saved
    <2>6. CASE TransferFails(c)
      BY <1>4, <2>6 DEF TransferFails
    <2>7. CASE ReleaseAnswered(c) /\ UNCHANGED txVars
      <3>1. calls[c].op = "release" /\ pc'[c] = pc[c]
        BY <2>7 DEF ReleaseAnswered, Answered, txVars
      <3>2. phase[c] # "running"
        BY <1>3, <3>1 DEF PhasesOK
      <3> QED BY <1>3, <3>1, <3>2 DEF ClientOK, PlaceOK
    <2> QED BY <2>1, <2>2, <2>3, <2>4, <2>5, <2>6, <2>7
  <1> QED BY <1>1, <1>2, <1>5, <1>6, MovedOn

(* Who looks for fresh fuel under the lease sees all there is: the transfer *)
(* that is pending did not reach the chain.                                 *)
LEMMA FreshFuel ==
    ASSUME JournalInv, FuelInv, excused = {}, NEW c \in Clients, Engaged(c), pc[c] \in Fresh
    PROVE  ~Reached /\ chainFuel = memory.observed
  <1>1. MoneyOK /\ AppliedApart
    BY DEF FuelInv, Unflushed, OnceOK
  <1>2. file = NoTx \/ chain[file] \in {"unknown", "dead"}
    BY DEF JournalInv, SyncOK
  <1>3. ~Reached
    BY <1>1, <1>2, ReachedByFile DEF Executed, Txs, NoTx
  <1> QED BY <1>1, <1>3 DEF MoneyOK

(* The answer to a read is what the chain holds, and its client has its turn. *)
LEMMA ReadAnswer ==
    ASSUME JournalInv, FuelInv, NEW c \in Clients, GrpcAnswered(c), pc[c] = "read", Positive
    PROVE  /\ Engaged(c) /\ Head(toParent).result.fuel = chainFuel /\ chainFuel \in Nat
           /\ \A i \in DOMAIN toParent : UnderLease(i) => i = 1
           /\ calls[c].op = "grpc"
  <1>1. /\ Answered(c, "grpc") /\ TypeOK /\ TurnOK /\ chainFuel \in Nat
    BY DEF GrpcAnswered, JournalInv, SInv, Protocol, TurnInv, TransactionsTypeOK
  <1>2. /\ Head(toParent) = toParent[1] /\ 1 \in DOMAIN toParent
        /\ toParent[1].client = c /\ calls[c].op = "grpc"
    BY <1>1, HeadReply
  <1>3. UnderLease(1)
    BY <1>2 DEF UnderLease, Positive
  <1>4. toParent[1].result.fuel = chainFuel
    BY <1>2, <1>3 DEF FuelInv, ReadOK
  <1>5. \A i \in DOMAIN toParent : UnderLease(i) => i = 1
    BY <1>1, <1>2, <1>3 DEF TurnOK, UnderLeaseOK
  <1> QED BY <1>1, <1>2, <1>3, <1>4, <1>5 DEF Engaged

(* To observe the fuel then changes nothing.                                *)
LEMMA ReadFuel ==
    ASSUME JournalInv, JournalInv', FuelInv, NEW c \in Clients, GrpcAnswered(c), pc[c] = "read",
           UNCHANGED <<disk, flushed, intents, made, chain, chainFuel, excused, pending>>,
           memory' = memory \/ (Positive /\ memory' = Observe(memory, Head(toParent).result.fuel)),
           \A d \in Clients \ {c} : pc'[d] = pc[d] /\ seen'[d] = seen[d],
           seen'[c] = seen[c] \/ seen'[c] = memory',
           pc'[c] = "end" \/ (pc'[c] = "build" /\ c = Syncer /\ seen'[c] = memory' /\ memory.intent # NoIntent)
    PROVE  FuelInv'
  <1>1. HandleReply(c) /\ memory \in Items
    BY IntentsTypes DEF HandleReply
  <1>2. /\ memory'.intent = memory.intent /\ memory'.delta = memory.delta
        /\ memory'.inventory = memory.inventory
    BY <1>1 DEF Observe, Items
  <1>3. ASSUME excused = {}
        PROVE  memory'.observed = memory.observed
    <2>1. CASE Positive /\ memory' = Observe(memory, Head(toParent).result.fuel)
      <3>1. Engaged(c) /\ Head(toParent).result.fuel = chainFuel
        BY <2>1, ReadAnswer
      <3>2. chainFuel = memory.observed
        BY <1>3, <3>1, FreshFuel DEF Fresh
      <3> QED BY <1>1, <2>1, <3>1, <3>2 DEF Observe, Items
    <2> QED BY <2>1
  <1>4. /\ pc'[c] \notin {"settled", "concluded"}
        /\ pc'[c] \in {"build", "journal"} => c = Syncer /\ seen'[c].intent # NoIntent
    BY <1>2
  <1>5. \A d \in Clients \ {c} : pc'[d] = pc[d] /\ pending'[d] = pending[d] /\ seen'[d] = seen[d]
    OBVIOUS
  <1>6. UNCHANGED <<disk, flushed, intents, made, chain, chainFuel, excused>>
    OBVIOUS
  <1> QED BY <1>1, <1>2, <1>3, <1>4, <1>5, <1>6, PlainReply

(* What a transfer makes of the items: the units go from the inventory to   *)
(* the intent.                                                              *)
LEMMA TransferHolds ==
    ASSUME NEW items \in Items, NEW amount \in {1, -1}, CanTransfer(items, amount), intents \in Nat,
           NEW after, after = Transfer(items, amount)
    PROVE  /\ (after.intent = NoIntent /\ after.delta = 0) \/ after.intent = intents + 1
           /\ after.observed = items.observed
           /\ Holding(items) => Holding(after)
  <1>1. /\ items.inventory \in Nat /\ items.observed \in Nat /\ items.delta \in Int /\ amount \in Int
    BY DEF Items
  <1>2. Projected(items) = items.observed + items.delta /\ Projected(items) + amount >= 0
    BY <1>1 DEF CanTransfer, Projected
  <1>3. /\ after.inventory = items.inventory - amount /\ after.observed = items.observed
        /\ after.delta = Projected(items) + amount - items.observed
        /\ after.intent = IF after.delta = 0 THEN NoIntent ELSE intents + 1
    BY DEF Transfer
  <1>4. Holding(items) => Holding(after)
    BY <1>1, <1>2, <1>3, TransactionsAssumption DEF Holding
  <1> QED BY <1>3, <1>4

(* A transfer takes up a new intent, for fuel that was just observed.       *)
LEMMA TransferFuel ==
    ASSUME JournalInv, JournalInv', FuelInv, NEW c \in Clients, GrpcAnswered(c), pc[c] = "read", Positive,
           NEW fresh, fresh = Observe(memory, Head(toParent).result.fuel),
           NEW amount \in {1, -1}, CanTransfer(fresh, amount),
           memory' = Transfer(fresh, amount), intents' = intents + 1,
           excused' = excused \cup (IF using[c] = generation THEN {} ELSE {"stale context"}),
           Goto(c, "end"), UNCHANGED <<pending, seen, disk, flushed, made, chain, chainFuel>>
    PROVE  FuelInv'
  <1>1. /\ HandleReply(c) /\ memory \in Items /\ intents \in Nat /\ pc \in [Clients -> Places]
        /\ made \in Seq(Transactions) /\ DOMAIN made \subseteq Txs /\ Executed \subseteq DOMAIN made
    BY IntentsTypes DEF HandleReply, JournalInv, TransactionsTypeOK
  <1>2. /\ Engaged(c) /\ Head(toParent).result.fuel = chainFuel /\ chainFuel \in Nat
        /\ \A i \in DOMAIN toParent : UnderLease(i) => i = 1
        /\ calls[c].op = "grpc"
    BY ReadAnswer
  <1>3. fresh \in Items /\ fresh.observed = chainFuel /\ fresh.inventory = memory.inventory /\ fresh.delta = memory.delta
    BY <1>1, <1>2 DEF Observe, Items
  <1>4. /\ (memory'.intent = NoIntent /\ memory'.delta = 0) \/ memory'.intent = intents + 1
        /\ memory'.observed = chainFuel
        /\ Holding(fresh) => Holding(memory')
    BY <1>1, <1>3, TransferHolds
  <1>5. pc'[c] = "end" /\ \A d \in Clients \ {c} : pc'[d] = pc[d]
    BY <1>1 DEF Goto
  <1>6. /\ ReadsFollow /\ TurnKept /\ UNCHANGED file
        /\ calls'[c].op = "none" /\ \A d \in Clients \ {c} : calls'[d] = calls[d]
    BY <1>1, <1>5, ReplyReads
  <1>7. \A i \in DOMAIN toParent' : ReadOK(i)'
    BY <1>6, ReadsStay
  <1>8. \A d \in Clients : BuildOK(d)'
    BY <1>5 DEF FuelInv, BuildOK
  <1>9. PlansOK /\ \A n, delta : Planned(n, delta) => n \in 0 .. intents
    BY DEF FuelInv, PlansOK
  <1>10. \A tx \in DOMAIN made : made[tx].intent # memory'.intent
    <2>1. ASSUME NEW tx \in DOMAIN made
          PROVE  made[tx].intent # memory'.intent
      <3>1. PICK n : n = made[tx].intent
        OBVIOUS
      <3>2. Planned(n, made[tx].delta) /\ n # NoIntent
        BY <1>9, <3>1 DEF Planned, PlansOK
      <3>3. n \in 0 .. intents
        BY <1>9, <3>2
      <3>4. n # intents + 1
        <4>1. intents \in Nat
          BY <1>1
        <4> QED BY ONLY <3>3, <4>1
      <3> QED BY <1>4, <3>1, <3>2, <3>4
    <2> QED BY <2>1
  <1>11. PlansOK'
    <2>1. PICK extra : extra = memory'.delta
      OBVIOUS
    <2>2. ASSUME NEW n, NEW delta, Planned(n, delta)'
          PROVE  \/ Planned(n, delta)
                 \/ n = NoIntent /\ delta = 0
                 \/ n = intents + 1 /\ intents' = intents + 1 /\ delta = extra
      BY <1>4, <2>1, <2>2 DEF Planned
    <2>3. DiskOK' /\ \A tx \in DOMAIN made' : made'[tx].intent # NoIntent
      <3>1. intents + 1 > flushed
        <4>1. intents \in Nat /\ flushed \in 0 .. intents
          BY <1>1 DEF JournalInv, TransactionsTypeOK
        <4> QED BY ONLY <4>1
      <3> QED BY <1>4, <1>9, <3>1 DEF PlansOK, DiskOK
    <2>4. intents' = intents \/ intents' = intents + 1
      OBVIOUS
    <2>5. PlansOK /\ intents \in Nat
      BY <1>1, <1>9
    <2> QED BY ONLY <2>2, <2>3, <2>4, <2>5, PlansKeep
  <1>12. ASSUME OnceOK
         PROVE  OnceOK'
    <2>1. AppliedApart'
      BY <1>1, <1>6, <1>10, <1>12 DEF OnceOK, AppliedApart, Apart, Executed
    <2>2. ASSUME NEW d \in Clients
          PROVE  AcknowledgedOK(d)'
      <3>1. pc'[d] \in {"settled", "concluded"} => pending[d] \in DOMAIN made
        BY <1>5 DEF JournalInv, ClientOK, RecoveryOK, Recovering
      <3> QED BY <1>10, <3>1 DEF AcknowledgedOK
    <2>3. ASSUME NEW d \in Clients, Engaged(d)', pc'[d] = "journal", calls'[d].op # "none"
          PROVE  FALSE
      <3>1. Engaged(d)
        BY <1>6, <2>3 DEF TurnKept, EngagedKept
      <3>2. d = c
        BY <1>2, <3>1, EngagedOne DEF JournalInv
      <3> QED BY <1>5, <2>3, <3>2
    <2> QED BY <2>1, <2>2, <2>3 DEF OnceOK, JournalledOK
  <1>13. ASSUME excused' = {}
         PROVE  MoneyOK'
    <2>1. excused = {} /\ using[c] = generation
      BY <1>13
    <2>2. ~Reached /\ chainFuel = memory.observed /\ MoneyOK
      BY <1>2, <2>1, FreshFuel DEF Fresh, FuelInv
    <2>3. Holding(memory')
      BY <1>3, <1>4, <2>2 DEF MoneyOK, Holding
    <2>4. ~Reached'
      BY <1>1, <1>10 DEF Reached, Executed
    <2>5. file = NoTx
      <3>1. store.journal = NoTx
        BY <1>2, <2>1 DEF JournalInv, SyncOK, Fresh
      <3>2. store.generation = generation
        <4>1. using[c] <= store.generation /\ store.generation <= generation
          BY DEF JournalInv, ClientOK, ContextOK, SInv, Protocol, ProcessOK
        <4>2. generation \in Nat /\ store.generation \in Nat
          BY DEF JournalInv, SInv, Protocol, TypeOK
        <4> QED BY <2>1, <4>1, <4>2
      <3>3. /\ 1 \in DOMAIN toParent /\ toParent[1].client = c /\ UnderLease(1)
        <4>1. Answered(c, "grpc") /\ TypeOK
          BY DEF GrpcAnswered, JournalInv, SInv, Protocol
        <4> QED BY <4>1, HeadReply DEF UnderLease, Positive
      <3>4. Answering /\ ~Saving
        BY <1>2, <3>3 DEF Answering, Saving
      <3> QED BY <3>1, <3>2, <3>4 DEF JournalInv, StoreOK
    <2>6. DiskMoney'
      BY <1>4, <1>9, <2>2, DiskStays DEF MoneyOK
    <2>7. Holding(disk)'
      BY <2>2 DEF MoneyOK, Holding
    <2> QED BY <1>4, <1>6, <2>3, <2>4, <2>5, <2>6, <2>7 DEF MoneyOK, Holding
  <1>14. ~Unflushed' => OnceOK'
    <2>1. Unflushed => Unflushed'
      BY DEF Unflushed
    <2> QED BY <1>12, <2>1 DEF FuelInv
  <1> QED BY <1>7, <1>8, <1>11, <1>13, <1>14 DEF FuelInv

(* No answer breaks it.                                                     *)
LEMMA ReplyFuel ==
    ASSUME JournalInv, JournalInv', FuelInv, NEW c \in Clients, Reply(c)
    PROVE  FuelInv'
  <1>1. /\ pc \in [Clients -> Places] /\ seen \in [Clients -> Items]
    BY DEF JournalInv, TransactionsTypeOK
  <1>2. \A place : Goto(c, place) => pc'[c] = place /\ \A d \in Clients \ {c} : pc'[d] = pc[d]
    BY <1>1 DEF Goto
  <1>3. CASE PassReads(c)
    <2>1. /\ GrpcAnswered(c) /\ pc[c] = "read" /\ c = Syncer
          /\ UNCHANGED <<disk, flushed, intents, made, chain, chainFuel, excused, pending>>
          /\ memory' = memory \/ (Positive /\ memory' = Observe(memory, Head(toParent).result.fuel))
      BY <1>3 DEF PassReads, Observed, chainVars
    <2>2. seen'[c] = memory' /\ \A d \in Clients \ {c} : seen'[d] = seen[d]
      BY <1>1, <1>3 DEF PassReads
    <2>3. pc'[c] = "end" \/ (pc'[c] = "build" /\ memory.intent # NoIntent)
      BY <1>2, <1>3 DEF PassReads
    <2>4. \A d \in Clients \ {c} : pc'[d] = pc[d]
      BY <1>2, <1>3 DEF PassReads
    <2> QED BY <2>1, <2>2, <2>3, <2>4, ReadFuel
  <1>4. CASE TransferReads(c)
    <2>1. /\ GrpcAnswered(c) /\ pc[c] = "read" /\ Positive /\ Goto(c, "end")
          /\ UNCHANGED <<pending, seen, disk, flushed, made, chain, chainFuel>>
      BY <1>4 DEF TransferReads, Observed, chainVars
    <2>2. PICK fresh : fresh = Observe(memory, Head(toParent).result.fuel)
      OBVIOUS
    <2>3. PICK amount \in {1, -1} :
            IF CanTransfer(fresh, amount) /\ intents < MaxIntents
            THEN /\ memory' = Transfer(fresh, amount)
                 /\ intents' = intents + 1
                 /\ excused' = excused \cup
                      (IF using[c] = generation THEN {} ELSE {"stale context"})
            ELSE memory' = fresh /\ UNCHANGED <<intents, excused>>
      BY <1>4, <2>2 DEF TransferReads
    <2>4. CASE CanTransfer(fresh, amount) /\ intents < MaxIntents
      BY <2>1, <2>2, <2>3, <2>4, TransferFuel
    <2>5. CASE ~(CanTransfer(fresh, amount) /\ intents < MaxIntents)
      <3>1. memory' = fresh /\ UNCHANGED <<intents, excused>>
        BY <2>3, <2>5
      <3>2. UNCHANGED <<disk, flushed, intents, made, chain, chainFuel, excused, pending>>
        BY <2>1, <3>1
      <3>3. pc'[c] = "end" /\ \A d \in Clients \ {c} : pc'[d] = pc[d] /\ seen'[d] = seen[d]
        BY <1>2, <2>1
      <3>4. seen'[c] = seen[c]
        BY <2>1
      <3> QED BY <2>1, <2>2, <3>1, <3>2, <3>3, <3>4, ReadFuel
    <2> QED BY <2>4, <2>5
  <1> QED BY <1>3, <1>4, PlainReplies DEF Reply

--------------------------------------------------------------------------------
(* The fuel: the answers of the child.                                      *)

(* A call that is served, and what its client is told of the fuel.          *)
LEMMA ServedReads ==
    ASSUME JournalInv, SInv', FuelInv, Serves, UNCHANGED <<pc, using, pending, made, chainFuel>>,
           NEW m, m = Head(toWorker),
           \/ pc[m.client] # "read"
           \/ \E r \in Replies : /\ toParent' = Append(toParent, r) /\ r.client = m.client
                                 /\ r.ok => r.result.fuel = chainFuel
    PROVE  \A i \in DOMAIN toParent' : ReadOK(i)'
  <1>1. /\ m.awaited /\ Answers(m) /\ UNCHANGED calls /\ toParent \in Seq(Replies)
    BY ServedCall DEF JournalInv, SInv, Protocol, TypeOK
  <1>2. PICK r \in Replies : /\ r.client = m.client /\ toParent' = Append(toParent, r)
                             /\ pc[m.client] = "read" => (r.ok => r.result.fuel = chainFuel)
    BY <1>1 DEF Answers
  <1>3. \A i \in DOMAIN toParent' : toParent'[i] = r \/ (i \in DOMAIN toParent /\ toParent'[i] = toParent[i])
    BY <1>1, <1>2, AddingIndexes
  <1>4. \A i \in DOMAIN toParent : ReadOK(i)
    BY DEF FuelInv
  <1>5. ASSUME NEW i \in DOMAIN toParent', UnderLease(i)', pc'[toParent'[i].client] = "read"
        PROVE  toParent'[i].result.fuel = chainFuel'
    <2>1. CASE toParent'[i] = r
      BY <1>2, <1>5, <2>1 DEF UnderLease
    <2>2. CASE i \in DOMAIN toParent /\ toParent'[i] = toParent[i]
      <3>1. UnderLease(i) /\ pc[toParent[i].client] = "read"
        BY <1>1, <1>5, <2>2 DEF UnderLease
      <3> QED BY <1>4, <2>2, <3>1 DEF ReadOK
    <2> QED BY <1>3, <2>1, <2>2
  <1> QED BY <1>5 DEF ReadOK

(* If neither the file nor the chain changes, that is all there is to it.   *)
LEMMA ServedFuel ==
    ASSUME JournalInv, JournalInv', FuelInv, Serves, UNCHANGED <<pc, using, pending, made>>,
           UNCHANGED <<file, chain, chainFuel, memory, disk, flushed, seen, intents, excused>>,
           \A i \in DOMAIN toParent' : ReadOK(i)'
    PROVE  FuelInv'
  <1>1. SInv'
    BY DEF JournalInv
  <1>2. EngagedKept /\ UNCHANGED calls
    BY <1>1, ServedCall
  <1>3. ASSUME NEW d \in Clients
        PROVE  Follows(d)
    <2>1. BuildOK(d)
      BY DEF FuelInv
    <2> QED BY <1>2, <2>1 DEF Follows, BuildOK
  <1>4. /\ memory'.intent = memory.intent /\ memory'.delta = memory.delta
        /\ memory'.inventory = memory.inventory /\ memory'.observed = memory.observed
        /\ UNCHANGED <<file, chain, chainFuel, intents, excused, made>> /\ MayFlush
        /\ \A d \in Clients : seen'[d] = seen[d]
    BY DEF MayFlush
  <1> QED BY <1>2, <1>3, <1>4, SteadyKeeps DEF TurnKept

(* Opening a journal changes nothing of it.                                 *)
LEMMA OpenFuel ==
    ASSUME JournalInv, JournalInv', FuelInv, HandleOpen, UNCHANGED txVars
    PROVE  FuelInv'
  <1>1. PICK m : m = Head(toWorker)
    OBVIOUS
  <1>2. /\ Serves /\ UNCHANGED <<pc, using, pending, made>> /\ SInv' /\ m.op = "openJournal"
        /\ UNCHANGED <<file, chain, chainFuel, memory, disk, flushed, seen, intents, excused>>
    BY <1>1 DEF Serves, HandleOpen, Receive, txVars, chainVars, JournalInv
  <1>3. m.client \in Clients /\ calls[m.client].op = "openJournal" /\ phase[m.client] = "running"
    BY <1>1, <1>2, ServedCall
  <1>4. pc[m.client] = "open"
    BY <1>3 DEF JournalInv, ClientOK, PlaceOK, Expects
  <1>5. UNCHANGED <<pc, using, pending, made, chainFuel>>
    BY <1>2
  <1>6. \A i \in DOMAIN toParent' : ReadOK(i)'
    BY <1>1, <1>2, <1>4, <1>5, ServedReads
  <1> QED BY <1>2, <1>6, ServedFuel

(* What a save replaces in the file was not executed for the intent there   *)
(* is: it never can be, or it was acknowledged.                             *)
LEMMA SaveFuel ==
    ASSUME JournalInv, JournalInv', FuelInv, HandleSave, UNCHANGED txVars
    PROVE  FuelInv'
  <1>1. PICK m : m = Head(toWorker)
    OBVIOUS
  <1>2. /\ Serves /\ UNCHANGED <<pc, using, pending, made>> /\ SInv' /\ m.op = "saveJournal"
        /\ UNCHANGED <<chain, chainFuel, memory, disk, flushed, seen, intents, excused>>
        /\ LeaseValid(m) /\ file' = m.journal
    BY <1>1 DEF Serves, HandleSave, SaveAllowed, Receive, txVars, chainVars, JournalInv
  <1>3. /\ m.client \in Clients /\ calls[m.client].op = "saveJournal"
        /\ NoReply(m.client) /\ Holds(m.client) /\ UNCHANGED calls /\ EngagedKept
        /\ m \in Requests /\ m.awaited /\ toWorker[1] = m /\ 1 \in DOMAIN toWorker
    BY <1>1, <1>2, ServedCall
  <1>4. m.journal = calls[m.client].journal
    <2>1. Protocol /\ TypeOK /\ JournalOK
      BY DEF JournalInv, SInv, Protocol
    <2> QED BY <1>1, <1>2, <1>3, <2>1, SaveLineage
  <1>5. PICK c \in Clients : c = m.client
    BY <1>3
  <1>6. Holds(c) /\ NoReply(c) /\ calls[c].op = "saveJournal" /\ file' = calls[c].journal /\ Engaged(c)
    BY <1>2, <1>3, <1>4, <1>5 DEF Engaged
  <1>7. /\ store.journal = file /\ using[c] = generation
        /\ pc[c] \in {"journal", "retire", "settled", "concluded"}
        /\ calls[c].journal = NoTx \/ (pc[c] = "journal" /\ calls[c].journal \in DOMAIN made
                                       /\ chain[calls[c].journal] \in {"unknown", "dead"})
    BY <1>6, SaverKnows
  <1>8. ClientOK(c) /\ SyncOK(c)
    BY DEF JournalInv
  <1>9. UNCHANGED <<pc, using, pending, made, chainFuel>>
    BY <1>2
  <1>10. \A i \in DOMAIN toParent' : ReadOK(i)'
    BY <1>1, <1>2, <1>5, <1>7, <1>9, ServedReads
  <1>11. ASSUME OnceOK
         PROVE  ~Reached
    <2>1. SUFFICES ASSUME Reached
                   PROVE  FALSE
      OBVIOUS
    <2>2. file \in Executed /\ made[file].intent = memory.intent
      BY <1>11, <2>1, ReachedByFile DEF OnceOK
    <2>3. chain[file] = "done" /\ file # NoTx
      BY <2>2, TransactionConstants DEF Executed
    <2>4. pc[c] # "journal"
      BY <1>6, <1>8, <2>3 DEF SyncOK, Fresh
    <2>5. pending[c] = file
      BY <1>6, <1>7, <1>8, <2>4 DEF SyncOK, Recovering
    <2>6. pc[c] # "retire"
      BY <1>8, <2>3, <2>5 DEF ClientOK, RecoveryOK
    <2>7. AcknowledgedOK(c)
      BY <1>11 DEF OnceOK
    <2> QED BY <1>7, <2>2, <2>3, <2>4, <2>5, <2>6, <2>7 DEF AcknowledgedOK
  <1>12. ASSUME OnceOK
         PROVE  file' # NoTx => made[file'].intent = memory.intent
    BY <1>6, <1>7, <1>12 DEF OnceOK, JournalledOK
  <1>13. ASSUME OnceOK
         PROVE  OnceOK'
    <2>1. \A tx \in Executed : made[tx].intent # memory.intent
      BY <1>11, <1>13 DEF Reached
    <2>2. AppliedApart'
      BY <1>2, <1>12, <1>13, <2>1 DEF OnceOK, AppliedApart, Apart, Executed
    <2>3. \A d \in Clients : AcknowledgedOK(d)'
      BY <1>2, <1>13 DEF OnceOK, AcknowledgedOK
    <2>4. \A d \in Clients : JournalledOK(d)'
      BY <1>2, <1>3, <1>13 DEF OnceOK, JournalledOK, EngagedKept
    <2> QED BY <2>2, <2>3, <2>4 DEF OnceOK
  <1>14. ASSUME OnceOK, MoneyOK
         PROVE  MoneyOK'
    <2>1. Reached' <=> Reached
      BY <1>2 DEF Reached, Executed
    <2>2. DiskMoney'
      BY <1>2, <1>14, DiskStays DEF MoneyOK, FuelInv
    <2> QED BY <1>2, <1>12, <1>14, <2>1, <2>2 DEF MoneyOK, Holding
  <1>15. PlansOK' /\ \A d \in Clients : BuildOK(d)'
    <2>1. PlansOK'
      <3>1. PlansOK
        BY DEF FuelInv
      <3> QED BY <1>2, <3>1 DEF PlansOK, Planned, DiskOK
    <2> QED BY <1>2, <2>1 DEF FuelInv, BuildOK
  <1> QED BY <1>2, <1>10, <1>13, <1>14, <1>15 DEF FuelInv, Unflushed

--------------------------------------------------------------------------------
(* The fuel: the chain by itself, and the death of the server.              *)

(* The transaction in the file is executed or fails, or it is submitted: it *)
(* is for the intent there is, which was not executed yet.                  *)
LEMMA MovesFuel ==
    ASSUME JournalInv, JournalInv', FuelInv, NEW tx \in Txs, tx = file, chain[tx] \in {"unknown", "sent"},
           NEW fate \in {"done", "failed", "sent"}, chain' = [chain EXCEPT ![tx] = fate],
           fate = "done" => chainFuel' = chainFuel + made[tx].delta,
           fate # "done" => chainFuel' = chainFuel,
           UNCHANGED <<file, made, memory, disk, flushed, seen, intents, excused, pc, pending, calls>>,
           EngagedKept, \A i \in DOMAIN toParent' : ReadOK(i)'
    PROVE  FuelInv'
  <1>1. /\ chain'[tx] = fate /\ \A t \in Txs : t # tx => chain'[t] = chain[t]
        /\ tx # NoTx /\ tx \in DOMAIN made
    <2>1. chain \in [Txs -> Fates]
      BY DEF JournalInv, TransactionsTypeOK
    <2>2. tx # NoTx
      BY TransactionConstants
    <2> QED BY <2>1, <2>2 DEF JournalInv, KnownOK
  <1>2. /\ tx \notin Executed /\ \A t \in Executed : t \in Executed'
        /\ \A t \in Executed' : t \in Executed \/ (t = tx /\ fate = "done")
        /\ fate = "done" => tx \in Executed'
    BY <1>1 DEF Executed
  <1>3. PlansOK' /\ \A d \in Clients : BuildOK(d)'
    <2>1. PlansOK
      BY DEF FuelInv
    <2> QED BY <2>1 DEF PlansOK, Planned, DiskOK, FuelInv, BuildOK
  <1>4. ASSUME OnceOK
        PROVE  OnceOK'
    <2>1. AppliedApart
      BY <1>4 DEF OnceOK
    <2>2. \A n : Apart(n) => Apart(n)'
      BY <1>2 DEF Apart
    <2>3. \A t \in Executed : made[t].intent # made[tx].intent
      BY <1>1, <1>2, <2>1 DEF AppliedApart, Apart
    <2>4. \A t, u \in Executed' : made[t].intent = made[u].intent => t = u
      BY <1>2, <2>1, <2>3 DEF AppliedApart
    <2>5. AppliedApart'
      BY <2>1, <2>2, <2>4 DEF AppliedApart, Apart
    <2>6. ASSUME NEW d \in Clients
          PROVE  AcknowledgedOK(d)'
      <3>1. pc[d] \in {"settled", "concluded"} => pending[d] # tx /\ pending[d] \in Txs
        <4>1. RecoveryOK(d) /\ DOMAIN made \subseteq Txs
          BY MadeTxs DEF JournalInv, ClientOK
        <4> QED BY <4>1 DEF RecoveryOK, Settled, Recovering
      <3>2. AcknowledgedOK(d)
        BY <1>4 DEF OnceOK
      <3> QED BY <1>1, <3>1, <3>2 DEF AcknowledgedOK
    <2>7. \A d \in Clients : JournalledOK(d)'
      BY <1>4 DEF OnceOK, JournalledOK, EngagedKept
    <2> QED BY <2>5, <2>6, <2>7 DEF OnceOK
  <1>5. ASSUME MoneyOK, AppliedApart
        PROVE  MoneyOK'
    <2>1. memory.intent = made[tx].intent
      BY <1>1, <1>5 DEF MoneyOK
    <2>2. memory.delta = made[tx].delta
      BY <1>1, <2>1 DEF FuelInv, PlansOK, Planned
    <2>3. ~Reached
      BY <1>2, <1>5, ReachedByFile
    <2>4. Reached' <=> fate = "done"
      BY <1>2, <2>1, <2>3 DEF Reached
    <2>5. chainFuel = memory.observed
      BY <1>5, <2>3 DEF MoneyOK
    <2>6. /\ Reached' => chainFuel' = memory'.observed + memory'.delta
          /\ ~Reached' => chainFuel' = memory'.observed
      BY <2>2, <2>4, <2>5
    <2>7. AcknowledgmentLost => AcknowledgmentLost'
      BY <1>2 DEF AcknowledgmentLost
    <2>8. Recorded' => Recorded
      BY <1>2, <2>7 DEF Recorded
    <2>9. CASE fate # "done"
      <3>1. Executed' = Executed
        BY <1>2, <2>9
      <3>2. OnDisk' <=> OnDisk
        BY <3>1 DEF OnDisk
      <3>3. DiskMoney'
        BY <1>5, <2>8, <2>9, <3>2 DEF MoneyOK, DiskMoney
      <3> QED BY <1>5, <2>1, <2>6, <3>3 DEF MoneyOK, Holding
    <2>10. CASE fate = "done"
      <3>1. ASSUME Recorded'
            PROVE  disk.intent = memory.intent
        <4>1. made[tx].intent <= flushed /\ flushed \in Nat /\ memory.intent \in Nat
          <5>1. intents \in Nat /\ flushed \in 0 .. intents /\ memory \in Items
            BY IntentsTypes DEF JournalInv, TransactionsTypeOK
          <5> QED BY <1>2, <2>10, <3>1, <5>1 DEF Recorded, Items
        <4>2. made[tx].intent # NoIntent /\ DiskOK
          BY <1>1 DEF FuelInv, PlansOK
        <4> QED BY <2>1, <4>1, <4>2 DEF DiskOK
      <3>2. ASSUME Recorded'
            PROVE  ~OnDisk /\ OnDisk' /\ disk.delta = made[tx].delta
        <4>1. ~OnDisk
          BY <2>3, <3>1, <3>2 DEF OnDisk, Reached
        <4>2. OnDisk'
          BY <1>2, <2>1, <2>10, <3>1, <3>2 DEF OnDisk
        <4>3. disk.delta = memory.delta
          BY <3>1, <3>2 DEF FuelInv, PlansOK, Planned
        <4> QED BY <2>2, <4>1, <4>2, <4>3
      <3>3. DiskMoney'
        BY <1>5, <2>8, <2>10, <3>2 DEF MoneyOK, DiskMoney
      <3> QED BY <1>5, <2>1, <2>6, <3>3 DEF MoneyOK, Holding
    <2> QED BY <2>9, <2>10
  <1> QED BY <1>3, <1>4, <1>5 DEF FuelInv, Unflushed, OnceOK

(* A transaction that was submitted executes when nobody waits for it.      *)
LEMMA ExecutesLateFuel ==
    ASSUME JournalInv, JournalInv', FuelInv, ExecutesLate
    PROVE  FuelInv'
  <1>1. /\ FaultsOnly
        /\ UNCHANGED <<file, made, memory, disk, flushed, seen, intents, excused, pc, pending, calls>>
    BY DEF ExecutesLate, FaultsOnly, processVars, workerVars
  <1>2. PICK tx \in Txs : chain[tx] = "sent" /\ Executes(tx)
    BY DEF ExecutesLate
  <1>3. PICK fate \in {"done", "failed"} : /\ chain' = [chain EXCEPT ![tx] = fate]
                                           /\ fate = "done" => chainFuel' = chainFuel + made[tx].delta
                                           /\ fate # "done" => chainFuel' = chainFuel
    BY <1>2 DEF Executes, Becomes
  <1>4. tx = file /\ tx # NoTx
    BY <1>2, TransactionConstants DEF JournalInv, OneUncertain
  <1>5. \A d : Engaged(d)' <=> Engaged(d)
    BY <1>1 DEF FaultsOnly, Engaged, Holds, Inside, UnderLease, processVars, workerVars
  <1>6. EngagedKept
    BY <1>1, <1>5 DEF EngagedKept, FaultsOnly, processVars
  <1>7. \A d \in Clients : Engaged(d) => pc[d] # "read"
    BY <1>2, <1>4 DEF JournalInv, SyncOK, Fresh
  <1>8. \A i \in DOMAIN toParent' : ReadOK(i)'
    <2>1. toParent' = toParent /\ \A i \in DOMAIN toParent : toParent[i].client \in Clients
      <3>1. TypeOK
        BY DEF JournalInv, SInv, Protocol
      <3> QED BY <1>1, <3>1, ElementTypes DEF FaultsOnly, Replies
    <2>2. ASSUME NEW i \in DOMAIN toParent', UnderLease(i)'
          PROVE  pc'[toParent'[i].client] # "read"
      <3>1. PICK d \in Clients : d = toParent[i].client
        BY <2>1, <2>2
      <3>2. UnderLease(i)
        BY <1>1, <2>1, <2>2 DEF UnderLease
      <3>3. Engaged(d)
        BY <2>1, <2>2, <3>1, <3>2 DEF Engaged
      <3> QED BY <1>1, <1>7, <2>1, <3>1, <3>3
    <2> QED BY <2>2 DEF ReadOK
  <1>9. chain[tx] \in {"unknown", "sent"} /\ fate \in {"done", "failed", "sent"}
    BY <1>2
  <1> QED BY <1>1, <1>3, <1>4, <1>6, <1>8, <1>9, MovesFuel

(* What lost its gas coin was not executed.                                 *)
LEMMA SupersededFuel ==
    ASSUME JournalInv, JournalInv', FuelInv, Superseded
    PROVE  FuelInv'
  <1>1. /\ FaultsOnly
        /\ UNCHANGED <<file, made, memory, disk, flushed, seen, intents, excused, pc, pending, calls, chainFuel>>
    BY DEF Superseded, FaultsOnly, processVars, workerVars
  <1>2. PICK tx \in 1 .. Len(made) : chain[tx] \in {"unknown", "sent"} /\ chain' = [chain EXCEPT ![tx] = "dead"]
    BY DEF Superseded, Becomes
  <1>3. TransactionsTypeOK /\ chain \in [Txs -> Fates] /\ tx \in Txs
    BY MadeTxs DEF JournalInv, TransactionsTypeOK
  <1>4. /\ \A t \in Txs : t # tx => chain'[t] = chain[t]
        /\ chain'[tx] = "dead"
    BY <1>2, <1>3
  <1>5. Executed' = Executed
    BY <1>2, <1>4 DEF Executed
  <1>6. \A d : Engaged(d)' <=> Engaged(d)
    BY <1>1 DEF FaultsOnly, Engaged, Holds, Inside, UnderLease, processVars, workerVars
  <1>7. \A i \in DOMAIN toParent' : ReadOK(i)'
    <2>1. \A i \in DOMAIN toParent : ReadOK(i)
      BY DEF FuelInv
    <2> QED BY <1>1, <2>1 DEF ReadOK, UnderLease, FaultsOnly
  <1>8. PlansOK' /\ \A d \in Clients : BuildOK(d)'
    <2>1. PlansOK
      BY DEF FuelInv
    <2> QED BY <1>1, <2>1 DEF PlansOK, Planned, DiskOK, FuelInv, BuildOK
  <1>9. ASSUME OnceOK
        PROVE  OnceOK'
    <2>1. AppliedApart'
      BY <1>1, <1>5, <1>9 DEF OnceOK, AppliedApart, Apart
    <2>2. ASSUME NEW d \in Clients
          PROVE  AcknowledgedOK(d)'
      <3>1. pc[d] \in {"settled", "concluded"} => pending[d] \in Txs
        <4>1. RecoveryOK(d) /\ DOMAIN made \subseteq Txs
          BY <1>3, MadeTxs DEF JournalInv, ClientOK
        <4> QED BY <4>1 DEF RecoveryOK, Recovering
      <3>2. AcknowledgedOK(d)
        BY <1>9 DEF OnceOK
      <3> QED BY <1>1, <1>4, <3>1, <3>2 DEF AcknowledgedOK
    <2>3. \A d \in Clients : JournalledOK(d)'
      BY <1>1, <1>6, <1>9 DEF OnceOK, JournalledOK
    <2> QED BY <2>1, <2>2, <2>3 DEF OnceOK
  <1>10. ASSUME MoneyOK
         PROVE  MoneyOK'
    <2>1. Reached' <=> Reached
      BY <1>1, <1>5 DEF Reached
    <2>2. file # NoTx => file \in Txs
      BY <1>3, MadeTxs DEF JournalInv, KnownOK
    <2>3. file # NoTx /\ chain'[file] \in {"unknown", "sent"} => chain[file] \in {"unknown", "sent"}
      BY <1>4, <2>2
    <2>4. DiskMoney'
      BY <1>1, <1>5, <1>10 DEF MoneyOK, DiskMoney, Recorded, OnDisk, AcknowledgmentLost
    <2> QED BY <1>1, <1>10, <2>1, <2>3, <2>4 DEF MoneyOK, Holding
  <1> QED BY <1>1, <1>7, <1>8, <1>9, <1>10 DEF FuelInv, Unflushed

(* A submission that is served: nobody else is about to learn of the fuel.  *)
LEMMA SubmissionFuel ==
    ASSUME JournalInv, JournalInv', FuelInv, NEW result \in Results, HandleGrpc(result),
           LeaseValid(Head(toWorker)), UNCHANGED <<pc, using, pending, made>>,
           UNCHANGED <<memory, disk, flushed, seen, intents, excused>>,
           NEW m, m = Head(toWorker), m.body.kind = "execute", chain[m.body.tx] \in {"unknown", "sent"},
           NEW fate \in {"done", "failed", "sent"}, chain' = [chain EXCEPT ![m.body.tx] = fate],
           fate = "done" => chainFuel' = chainFuel + made[m.body.tx].delta,
           fate # "done" => chainFuel' = chainFuel
    PROVE  FuelInv'
  <1>1. SInv' /\ TurnOK /\ toParent \in Seq(Replies)
    BY DEF JournalInv, SInv, TurnInv, Protocol, TypeOK
  <1>2. /\ Serves /\ m.op = "grpc" /\ m.client \in Clients /\ Holds(m.client) /\ NoReply(m.client)
        /\ m.body = [kind |-> pc[m.client], tx |-> pending[m.client]]
        /\ Tells(m, result) /\ UNCHANGED <<file, store, generation>>
    BY <1>1, RpcServed
  <1>3. pc[m.client] = "execute" /\ m.body.tx = pending[m.client]
    BY <1>2
  <1>4. m.body.tx = file /\ file \in Txs
    BY <1>2, <1>3, Submits
  <1>5. PICK tx \in Txs : tx = file
    BY <1>4
  <1>6. EngagedKept /\ UNCHANGED calls
    BY <1>1, <1>2, ServedCall
  <1>7. \A i \in DOMAIN toParent : ~UnderLease(i)
    BY <1>1, <1>2 DEF TurnOK, UnderLeaseOK, NoReply
  <1>8. PICK r \in Replies : toParent' = Append(toParent, r) /\ r.client = m.client
    BY <1>2 DEF Tells
  <1>9. \A i \in DOMAIN toParent' : toParent'[i] = r \/ (i \in DOMAIN toParent /\ toParent'[i] = toParent[i])
    BY <1>1, <1>8, AddingIndexes
  <1>10. \A i \in DOMAIN toParent' : ReadOK(i)'
    BY <1>3, <1>6, <1>7, <1>8, <1>9 DEF ReadOK, UnderLease
  <1>11. /\ chain[tx] \in {"unknown", "sent"} /\ chain' = [chain EXCEPT ![tx] = fate]
         /\ fate = "done" => chainFuel' = chainFuel + made[tx].delta
    BY <1>4, <1>5
  <1>12. UNCHANGED <<file, made, memory, disk, flushed, seen, intents, excused, pc, pending, calls>>
    BY <1>2, <1>6
  <1> QED BY <1>5, <1>6, <1>10, <1>11, <1>12, MovesFuel

(* No answer of the chain breaks it.                                        *)
LEMMA RpcFuel ==
    ASSUME JournalInv, JournalInv', FuelInv, HandleRpc
    PROVE  FuelInv'
  <1>1. UNCHANGED <<pc, using, pending, made>> /\ UNCHANGED <<memory, disk, flushed, seen, intents, excused>>
    BY DEF HandleRpc
  <1>2. ASSUME HandleGrpc(NoResult), chain' = chain, chainFuel' = chainFuel
        PROVE  FuelInv'
    <2>1. /\ Quietly /\ UNCHANGED <<using, pending, chain, made>> /\ MayFlush
          /\ UNCHANGED <<chainFuel, intents, excused, memory, seen>>
      BY <1>1, <1>2 DEF Quietly, MayFlush
    <2> QED BY <2>1, QuietFuel
  <1>3. CASE ~LeaseValid(Head(toWorker))
    BY <1>2, <1>3 DEF HandleRpc, chainVars
  <1>4. CASE LeaseValid(Head(toWorker))
    <2>1. PICK m : m = Head(toWorker)
      OBVIOUS
    <2>2. PICK c : c = m.client
      OBVIOUS
    <2>3. Serve(m.body) /\ SInv'
      BY <1>4, <2>1 DEF HandleRpc, JournalInv
    <2>4. ASSUME NEW result \in Results, HandleGrpc(result)
          PROVE  /\ m.body = [kind |-> pc[c], tx |-> pending[c]] /\ Serves /\ Tells(m, result)
                 /\ UNCHANGED file
      BY <1>1, <1>4, <2>1, <2>2, <2>3, <2>4, RpcServed
    <2>5. ASSUME NEW result \in Results, HandleGrpc(result), chain' = chain, chainFuel' = chainFuel,
                 pc[c] = "read" => result.fuel = chainFuel
          PROVE  FuelInv'
      <3>1. Serves /\ UNCHANGED file /\ UNCHANGED <<pc, using, pending, made, chainFuel>>
        BY <1>1, <2>4, <2>5
      <3>2. PICK r \in Replies : toParent' = Append(toParent, r) /\ r.client = m.client /\ r.result = result
        BY <2>4, <2>5 DEF Tells
      <3>3. \/ pc[m.client] # "read"
            \/ \E s \in Replies : /\ toParent' = Append(toParent, s) /\ s.client = m.client
                                  /\ s.ok => s.result.fuel = chainFuel
        BY <2>2, <2>5, <3>2
      <3>4. \A i \in DOMAIN toParent' : ReadOK(i)'
        BY <2>1, <2>3, <3>1, <3>3, ServedReads
      <3>5. UNCHANGED <<file, chain, chainFuel, memory, disk, flushed, seen, intents, excused>>
        BY <1>1, <2>5, <3>1
      <3> QED BY <1>1, <3>1, <3>4, <3>5, ServedFuel
    <2>6. \A found \in BOOLEAN, fuel \in 0 .. MaxIntents * MaxTxs : [found |-> found, fuel |-> fuel] \in Results
      BY TransactionConstants
    <2>7. 0 \in 0 .. MaxIntents * MaxTxs
      BY TransactionsAssumption
    <2>8. \A found \in BOOLEAN : Found(found) \in Results
      BY <2>6, <2>7 DEF Found
    <2>9. ASSUME NEW found \in BOOLEAN, HandleGrpc(Found(found)), chain' = chain, chainFuel' = chainFuel,
                 m.body.kind # "read"
          PROVE  FuelInv'
      <3>1. PICK result \in Results : result = Found(found)
        BY <2>8
      <3>2. HandleGrpc(result)
        BY <2>9, <3>1
      <3>3. pc[c] # "read"
        BY <2>4, <2>9, <3>2
      <3> QED BY <2>5, <2>9, <3>2, <3>3
    <2>10. CASE m.body.kind \in {"query", "wait"} /\ HandleGrpc(Found(Settled(m.body.tx))) /\ UNCHANGED <<chainVars, faults>>
      <3>1. PICK found \in BOOLEAN : found = Settled(m.body.tx)
        <4>1. Settled(m.body.tx) \in BOOLEAN
          BY DEF Settled
        <4> QED BY <4>1, Zenon
      <3>2. HandleGrpc(Found(found)) /\ chain' = chain /\ chainFuel' = chainFuel /\ m.body.kind # "read"
        BY <2>10, <3>1 DEF chainVars
      <3> QED BY <2>9, <3>2
    <2>11. CASE m.body.kind = "proof" /\ HandleGrpc(Found(chain[m.body.tx] = "dead")) /\ UNCHANGED <<chainVars, faults>>
      <3>1. PICK found \in BOOLEAN : found = (chain[m.body.tx] = "dead")
        BY Zenon
      <3>2. HandleGrpc(Found(found)) /\ chain' = chain /\ chainFuel' = chainFuel /\ m.body.kind # "read"
        BY <2>11, <3>1 DEF chainVars
      <3> QED BY <2>9, <3>2
    <2>12. CASE m.body.kind = "read" /\ HandleGrpc([found |-> TRUE, fuel |-> chainFuel]) /\ UNCHANGED <<chainVars, faults>>
      <3>1. PICK result \in Results : result = [found |-> TRUE, fuel |-> chainFuel]
        <4>1. chainFuel \in 0 .. MaxIntents * MaxTxs
          BY ChainFuelBound DEF JournalInv
        <4> QED BY <2>6, <4>1
      <3>2. HandleGrpc(result) /\ chain' = chain /\ chainFuel' = chainFuel
        BY <2>12, <3>1 DEF chainVars
      <3>3. result.fuel = chainFuel
        BY <3>1
      <3> QED BY <2>5, <3>2, <3>3
    <2>13. CASE m.body.kind = "build" /\ HandleGrpc(Found(Affordable(seen[Syncer].delta))) /\ UNCHANGED <<chainVars, faults>>
      <3>1. PICK found \in BOOLEAN : found = Affordable(seen[Syncer].delta)
        <4>1. Affordable(seen[Syncer].delta) \in BOOLEAN
          BY DEF Affordable
        <4> QED BY <4>1, Zenon
      <3>2. HandleGrpc(Found(found)) /\ chain' = chain /\ chainFuel' = chainFuel /\ m.body.kind # "read"
        BY <2>13, <3>1 DEF chainVars
      <3> QED BY <2>9, <3>2
    <2>14. CASE m.body.kind = "execute" /\ chain[m.body.tx] \in {"unknown", "sent"}
                /\ Executes(m.body.tx) /\ HandleGrpc(Found(TRUE))
      <3>1. PICK fate \in {"done", "failed", "sent"} :
              /\ chain' = [chain EXCEPT ![m.body.tx] = fate]
              /\ fate = "done" => chainFuel' = chainFuel + made[m.body.tx].delta
              /\ fate # "done" => chainFuel' = chainFuel
        BY <2>14 DEF Executes, Becomes
      <3>2. PICK result \in Results : result = Found(TRUE)
        BY <2>8
      <3>3. HandleGrpc(result)
        BY <2>14, <3>2
      <3> QED BY <1>1, <1>4, <2>1, <2>14, <3>1, <3>3, SubmissionFuel
    <2>15. CASE m.body.kind = "execute" /\ Settled(m.body.tx) /\ HandleGrpc(Found(TRUE)) /\ UNCHANGED <<chainVars, faults>>
      <3>1. PICK found \in BOOLEAN : found = TRUE
        OBVIOUS
      <3>2. HandleGrpc(Found(found)) /\ chain' = chain /\ chainFuel' = chainFuel /\ m.body.kind # "read"
        BY <2>15, <3>1 DEF chainVars
      <3> QED BY <2>9, <3>2
    <2>16. CASE HandleGrpc(NoResult) /\ UNCHANGED chainFuel /\ UNCHANGED chain
      BY <1>2, <2>16
    <2>17. CASE m.body.kind = "execute" /\ chain[m.body.tx] = "unknown" /\ Becomes(m.body.tx, "sent")
                /\ HandleGrpc(NoResult) /\ UNCHANGED chainFuel
      <3>1. PICK result \in Results : result = NoResult
        BY TransactionConstants
      <3>2. PICK fate \in {"done", "failed", "sent"} : fate = "sent"
        OBVIOUS
      <3>3. HandleGrpc(result) /\ chain' = [chain EXCEPT ![m.body.tx] = fate] /\ fate # "done"
        BY <2>17, <3>1, <3>2 DEF Becomes
      <3>4. chain[m.body.tx] \in {"unknown", "sent"} /\ m.body.kind = "execute" /\ chainFuel' = chainFuel
        BY <2>17
      <3> QED BY <1>1, <1>4, <2>1, <3>3, <3>4, SubmissionFuel
    <2>18. HandleGrpc(NoResult) /\ UNCHANGED <<chainVars, faults>> =>
             HandleGrpc(NoResult) /\ UNCHANGED chainFuel /\ UNCHANGED chain
      BY DEF chainVars
    <2> QED BY <2>3, <2>10, <2>11, <2>12, <2>13, <2>14, <2>15, <2>16, <2>17, <2>18 DEF Serve
  <1> QED BY <1>3, <1>4

(* The server dies: what the disk says is as true of the chain as what      *)
(* memory said, or what is missing on the disk is noted.                    *)
LEMMA CrashFuel ==
    ASSUME JournalInv, JournalInv', FuelInv, Crash
    PROVE  FuelInv'
  <1>1. /\ memory' = disk /\ flushed' = intents /\ UNCHANGED <<disk, intents, made, chain, chainFuel, file>>
        /\ \A c \in Clients : pc'[c] = "start" /\ seen'[c] = NoItems
        /\ excused' = excused
             \cup (IF AcknowledgmentLost THEN {"unflushed acknowledgment"} ELSE {})
             \cup (IF TransferLost THEN {"unflushed transfer"} ELSE {})
    BY DEF Crash, ServerRestarts, chainVars
  <1>2. \A i : i \notin DOMAIN toParent'
    <2>1. toParent' = <<>>
      <3>1. Fork(<<>>)
        BY DEF Crash, ServerRestarts
      <3> QED BY <3>1, Zenon DEF Fork
    <2> QED BY <2>1, NoElements
  <1>3. PlansOK /\ intents \in Nat /\ memory \in Items /\ disk \in Items /\ Total \in Nat
    BY IntentsTypes, TransactionsAssumption DEF FuelInv
  <1>4. PlansOK'
    <2>1. ASSUME NEW n, NEW delta, Planned(n, delta)'
          PROVE  Planned(n, delta) \/ (n = NoIntent /\ delta = 0)
      <3>1. NoItems.intent = NoIntent /\ NoItems.delta = 0
        BY DEF NoItems
      <3>2. \A c \in Clients : seen'[c] = NoItems
        BY <1>1, Zenon
      <3>3. memory' = disk /\ disk' = disk /\ made' = made
        BY <1>1, Zenon
      <3> QED BY <2>1, <3>1, <3>2, <3>3 DEF Planned
    <2>2. DiskOK' /\ \A tx \in DOMAIN made' : made'[tx].intent # NoIntent
      BY <1>1, <1>3 DEF PlansOK, DiskOK
    <2>3. intents' = intents \/ intents' = intents + 1
      BY <1>1
    <2> QED BY <1>3, <2>1, <2>2, <2>3, PlansKeep
  <1>5. \A c \in Clients : BuildOK(c)'
    BY <1>1 DEF BuildOK
  <1>6. \A i \in DOMAIN toParent' : ReadOK(i)'
    BY <1>2
  <1>7. Executed' = Executed
    BY <1>1 DEF Executed
  <1>8. ASSUME ~Unflushed'
        PROVE  OnceOK'
    <2>1. OnceOK /\ ~AcknowledgmentLost
      BY <1>1, <1>8 DEF FuelInv, Unflushed
    <2>2. Apart(disk.intent)
      BY <2>1 DEF OnceOK, AppliedApart, Apart, AcknowledgmentLost
    <2>3. AppliedApart'
      BY <1>1, <1>7, <2>1, <2>2 DEF OnceOK, AppliedApart, Apart
    <2> QED BY <1>1, <2>3 DEF OnceOK, AcknowledgedOK, JournalledOK
  <1>9. ASSUME excused' = {}
        PROVE  MoneyOK'
    <2>1. excused = {} /\ ~AcknowledgmentLost /\ ~TransferLost
      BY <1>1, <1>9
    <2>2. MoneyOK
      BY <2>1 DEF FuelInv
    <2>3. /\ \A tx \in DOMAIN made : made[tx].intent \in Nat /\ made[tx].intent # NoIntent
          /\ flushed \in Nat /\ Executed \subseteq DOMAIN made /\ NoTx \notin DOMAIN made
      <3>1. intents \in Nat /\ flushed \in 0 .. intents /\ made \in Seq(Transactions)
            /\ DOMAIN made \subseteq Txs /\ Executed \subseteq DOMAIN made
        BY IntentsTypes DEF JournalInv, TransactionsTypeOK
      <3>2. \A tx \in DOMAIN made : made[tx] \in Transactions
        BY <3>1, Elements
      <3> QED BY <1>3, <3>1, <3>2, TransactionConstants DEF Transactions, PlansOK
    <2>4. ASSUME NEW tx \in Executed \cup {file}, tx # NoTx, chain[tx] \notin {"failed", "dead"}
          PROVE  made[tx].intent <= flushed
      <3>1. tx \in DOMAIN made
        BY <2>3, <2>4 DEF JournalInv, KnownOK
      <3> QED BY <2>1, <2>3, <2>4, <3>1 DEF TransferLost
    <2>5. Recorded
      <3>1. ASSUME NEW tx \in Executed
            PROVE  made[tx].intent <= flushed
        <4>1. tx # NoTx /\ chain[tx] \notin {"failed", "dead"}
          BY <2>3 DEF Executed
        <4> QED BY <2>4, <4>1
      <3> QED BY <2>1, <3>1 DEF Recorded
    <2>6. ASSUME file # NoTx, chain[file] \in {"unknown", "sent"}
          PROVE  disk.intent = made[file].intent
      <3>1. made[file].intent <= flushed /\ memory.intent = made[file].intent /\ file \in DOMAIN made
        BY <2>2, <2>4, <2>6 DEF MoneyOK, JournalInv, KnownOK
      <3>2. DiskOK
        BY <1>3 DEF PlansOK
      <3> QED BY <2>3, <3>1, <3>2 DEF DiskOK
    <2>7. Reached' <=> OnDisk
      BY <1>1, <1>7 DEF Reached, OnDisk
    <2>8. OnDisk' <=> OnDisk
      BY <1>1, <1>7 DEF OnDisk
    <2>9. /\ OnDisk => chainFuel = disk.observed + disk.delta
          /\ ~OnDisk => chainFuel = disk.observed
      BY <2>2, <2>5 DEF MoneyOK, DiskMoney
    <2>10. DiskMoney'
      BY <1>1, <2>8, <2>9 DEF DiskMoney
    <2> QED BY <1>1, <2>2, <2>6, <2>7, <2>9, <2>10 DEF MoneyOK, Holding
  <1> QED BY <1>4, <1>5, <1>6, <1>8, <1>9 DEF FuelInv

--------------------------------------------------------------------------------
(* The theorems on the fuel.                                                *)

(* Nothing is executed before the first step, and nothing planned.          *)
LEMMA FuelInvInit == TransactionsInit => FuelInv
  <1> SUFFICES ASSUME TransactionsInit PROVE FuelInv
    OBVIOUS
  <1>1. /\ Executed = {} /\ chainFuel = 0 /\ made = <<>>
        /\ \A i : i \notin DOMAIN made /\ i \notin DOMAIN toParent
    <2>1. toParent = <<>>
      BY DEF TransactionsInit, SupervisorInit
    <2> QED BY <2>1, ChainNothing, NoElements
  <1>2. /\ memory = [inventory |-> Total, observed |-> 0, intent |-> NoIntent, delta |-> 0]
        /\ disk = memory /\ \A c \in Clients : seen[c] = NoItems
        /\ \A c \in Clients : pc[c] = "start"
        /\ file = NoTx /\ intents = 0 /\ Total \in Nat
    BY TransactionsAssumption DEF TransactionsInit, SupervisorInit
  <1>3. PlansOK
    <2>1. \A n, delta : Planned(n, delta) => n = NoIntent /\ delta = 0
      BY <1>1, <1>2 DEF Planned, NoItems
    <2>2. NoIntent \in 0 .. intents
      BY <1>2 DEF NoIntent
    <2> QED BY <1>1, <1>2, <2>1, <2>2 DEF PlansOK, DiskOK
  <1>4. \A c \in Clients : BuildOK(c)
    BY <1>2 DEF BuildOK
  <1>5. OnceOK
    BY <1>1, <1>2 DEF OnceOK, AppliedApart, Apart, AcknowledgedOK, JournalledOK
  <1>6. MoneyOK
    <2>1. Holding(memory)
      BY <1>2 DEF Holding
    <2> QED BY <1>1, <1>2, <2>1 DEF MoneyOK, Reached, DiskMoney, OnDisk
  <1> QED BY <1>1, <1>3, <1>4, <1>5, <1>6 DEF FuelInv

(* Every step keeps it.                                                     *)
LEMMA FuelInvStep ==
    ASSUME JournalInv, JournalInv', FuelInv, [TransactionsNext]_allVars
    PROVE  FuelInv'
  <1>1. ASSUME Quietly, UNCHANGED <<using, pending, made, chain, chainFuel, intents, excused, memory, seen>>,
               MayFlush
        PROVE  FuelInv'
    <2>1. UNCHANGED <<using, pending, chain, made>> /\ UNCHANGED <<chainFuel, intents, excused, memory, seen>>
      BY <1>1
    <2> QED BY <1>1, <2>1, QuietFuel
  <1>2. CASE \E c \in Clients : Step(c)
    BY <1>2, StepFuel
  <1>3. CASE \E c \in Clients : Reply(c)
    BY <1>3, ReplyFuel
  <1>4. CASE \E c \in Clients : Acquire(c) /\ UNCHANGED txVars
    BY <1>4, AcquireFuel
  <1>5. CASE \E c \in Clients : RpcFails(c) \/ (AcquireTimesOut(c) /\ UNCHANGED txVars)
    BY <1>1, <1>5 DEF Quietly, MayFlush, RpcFails, txVars, chainVars
  <1>6. CASE ExitSeen \/ FlushItems \/ (Respawn /\ UNCHANGED txVars)
    BY <1>1, <1>6 DEF Quietly, MayFlush, ExitSeen, FlushItems, txVars, chainVars
  <1>7. CASE (HandleAcquire \/ HandleCancel \/ HandleRelease \/ HandleAssert \/ HandleSaveFails
              \/ LeaseTimerFires \/ LeaseLapses \/ ChildDies \/ ChannelCloses) /\ UNCHANGED txVars
    BY <1>1, <1>7 DEF Quietly, MayFlush, txVars, chainVars
  <1>8. CASE (HandleOpen \/ HandleSave) /\ UNCHANGED txVars
    BY <1>8, OpenFuel, SaveFuel
  <1>9. CASE HandleRpc
    BY <1>9, RpcFuel
  <1>10. CASE ExecutesLate \/ Superseded \/ Crash
    BY <1>10, ExecutesLateFuel, SupersededFuel, CrashFuel
  <1>11. CASE UNCHANGED allVars
    BY <1>1, <1>11 DEF Quietly, MayFlush, allVars, txVars, chainVars
  <1>12. CASE TransactionsNext
    BY <1>2, <1>3, <1>4, <1>5, <1>6, <1>7, <1>8, <1>9, <1>10, <1>12
       DEF TransactionsNext, ServerEvent, ClientEvent, ChildStep, HandleAnything, Environment
  <1> QED BY <1>11, <1>12

(* Whatever is planned, flushed, journalled, executed and acknowledged fits *)
(* together, although no transfer and no acknowledgment is flushed before   *)
(* the debounce does it (networkNodeFuelRuntime.ts, suiAssemblySync.ts).    *)
THEOREM FuelInvariant == TransactionsSpec => []FuelInv
  <1>1. JournalInv /\ FuelInv /\ JournalInv' /\ [TransactionsNext]_allVars => FuelInv'
    BY FuelInvStep
  <1> QED BY <1>1, FuelInvInit, JournalInvariant, PTL DEF TransactionsSpec

(* No transfer is executed twice, whatever is lost, lapses or dies, unless  *)
(* the server died with an acknowledgment that it had not flushed           *)
(* (suiAssemblyTransactions.ts, recover and finish).                        *)
THEOREM TransfersApplyOnce == TransactionsSpec => []AppliedOnce
  <1>1. JournalInv /\ FuelInv => AppliedOnce
    <2>1. JournalInv => TransactionsTypeOK
      BY DEF JournalInv
    <2> QED BY <2>1, FuelProperties
  <1> QED BY <1>1, JournalInvariant, FuelInvariant, PTL

(* No fuel is made or lost between the inventory and the chain, unless one  *)
(* of three failures came before: a transfer with a stale context, or a     *)
(* server that died with an acknowledgment it had not flushed, or with a    *)
(* transfer it had not flushed and that had left for the chain              *)
(* (networkNodeFuelRuntime.ts).                                             *)
THEOREM FuelIsConserved == TransactionsSpec => []FuelConserved
  <1>1. JournalInv /\ FuelInv => FuelConserved
    <2>1. JournalInv => TransactionsTypeOK
      BY DEF JournalInv
    <2> QED BY <2>1, FuelProperties
  <1> QED BY <1>1, JournalInvariant, FuelInvariant, PTL
==================================================================================
