------------------------ MODULE AssemblySupervisor_proofs ------------------------
(***************************************************************************)
(* Types, the owner of the lease, exclusive admission and the lineage of   *)
(* the journal, proved for every number of clients and processes and for   *)
(* every bound.                                                            *)
(*                                                                         *)
(* The inductive invariant IInv, at the end, has four parts.  Protocol     *)
(* says who awaits what: a client has at most one request that somebody    *)
(* waits for and one reply, one excludes the other, and a request to       *)
(* acquire that was given up has its cancellation behind it.  OwnerOK says *)
(* who will end the lease in force, AdmissionOK who was granted it as long *)
(* as nothing came too late, and JournalOK that a revision never means two *)
(* journals.  The last three rest on the first and not on each other.      *)
(*                                                                         *)
(* Each step is first reduced to its shape, which requests and replies it  *)
(* adds or takes (CallShape, ReplyShape, TimeoutShape, Handles), and the   *)
(* parts of the invariant are proved from the shapes.                      *)
(***************************************************************************)
EXTENDS AssemblySupervisor, SequenceTheorems, TLAPS

--------------------------------------------------------------------------------
(* Sequences: one element taken out, requests given up.                     *)

(* Taking one element out. *)
LEMMA TakingOut ==
    ASSUME NEW S, NEW s \in Seq(S), NEW d \in DOMAIN s
    PROVE  /\ Splice(s, d) \in Seq(S)
           /\ DOMAIN Splice(s, d) = 1 .. Len(s) - 1
           /\ \A i \in DOMAIN Splice(s, d) :
                /\ i \in Nat
                /\ i < d => i \in DOMAIN s /\ Splice(s, d)[i] = s[i]
                /\ ~(i < d) => i + 1 \in DOMAIN s /\ Splice(s, d)[i] = s[i + 1]
  <1>1. d \in Nat /\ 1 <= d /\ d <= Len(s) /\ Len(s) \in Nat /\ DOMAIN s = 1 .. Len(s)
    OBVIOUS
  <1>2. PICK a, b : a = SubSeq(s, 1, d - 1) /\ b = SubSeq(s, d + 1, Len(s))
    OBVIOUS
  <1>3. /\ a \in Seq(S) /\ Len(a) = d - 1
        /\ \A i \in 1 .. d - 1 : a[i] = s[i]
    BY <1>1, <1>2
  <1>4. /\ b \in Seq(S) /\ Len(b) = Len(s) - d
        /\ \A i \in 1 .. Len(s) - d : b[i] = s[i + d]
    BY <1>1, <1>2
  <1>5. PICK w : w = a \o b
    OBVIOUS
  <1>6. /\ w \in Seq(S)
        /\ Len(w) = Len(a) + Len(b)
        /\ \A i \in 1 .. Len(a) + Len(b) : w[i] = IF i <= Len(a) THEN a[i] ELSE b[i - Len(a)]
    BY <1>3, <1>4, <1>5, ConcatProperties
  <1>7. Len(a) + Len(b) = Len(s) - 1
    BY <1>1, <1>3, <1>4
  <1>8. DOMAIN w = 1 .. Len(s) - 1
    BY <1>6, <1>7
  <1>9. ASSUME NEW i \in 1 .. Len(s) - 1
        PROVE  /\ i \in Nat
               /\ i < d => i \in DOMAIN s /\ w[i] = s[i]
               /\ ~(i < d) => i + 1 \in DOMAIN s /\ w[i] = s[i + 1]
    <2>1. CASE i < d
      <3>1. i \in 1 .. d - 1 /\ i <= Len(a) /\ i \in 1 .. Len(a) + Len(b) /\ i \in DOMAIN s
        BY <2>1, <1>1, <1>3, <1>7
      <3> QED BY <3>1, <2>1, <1>3, <1>6
    <2>2. CASE ~(i < d)
      <3>1. /\ i - Len(a) \in 1 .. Len(s) - d /\ (i - Len(a)) + d = i + 1
            /\ ~(i <= Len(a)) /\ i \in 1 .. Len(a) + Len(b) /\ i + 1 \in DOMAIN s
        BY <2>2, <1>1, <1>3, <1>7
      <3>2. b[i - Len(a)] = s[i + 1]
        BY <3>1, <1>4
      <3> QED BY <2>2, <3>1, <3>2, <1>6
    <2> QED BY <2>1, <2>2
  <1>10. w = Splice(s, d)
    BY <1>2, <1>5 DEF Splice
  <1> QED BY <1>6, <1>8, <1>9, <1>10

(* What Without leaves: the elements of other clients, and no other.        *)
LEMMA WithoutClient ==
    ASSUME NEW S, NEW s \in Seq(S), NEW c
    PROVE  /\ Without(s, c) \in Seq(S)
           /\ \A i \in DOMAIN Without(s, c) :
                \E k \in DOMAIN s : Without(s, c)[i] = s[k]
           /\ (\A i, j \in DOMAIN s : s[i].client = s[j].client => i = j) =>
                /\ \A i \in DOMAIN Without(s, c) : Without(s, c)[i].client # c
                /\ \A i, j \in DOMAIN Without(s, c) :
                     Without(s, c)[i].client = Without(s, c)[j].client => i = j
           /\ \A k \in DOMAIN s : s[k].client # c =>
                \E i \in DOMAIN Without(s, c) : Without(s, c)[i] = s[k]
           /\ (\A k \in DOMAIN s : s[k].client # c) => Without(s, c) = s
  <1>1. DOMAIN s = 1 .. Len(s)
    OBVIOUS
  <1>2. CASE ~Mentions(s, c)
    BY <1>1, <1>2 DEF Without, Mentions
  <1>3. CASE Mentions(s, c)
    <2> DEFINE d == CHOOSE i \in 1..Len(s) : s[i].client = c
    <2>1. d \in DOMAIN s /\ s[d].client = c
      BY <1>1, <1>3 DEF Mentions
    <2>2. Without(s, c) = Splice(s, d)
      BY <1>3 DEF Without
    <2> HIDE DEF d
    <2>3. PICK w : w = Without(s, c)
      OBVIOUS
    <2>4. /\ w \in Seq(S)
          /\ DOMAIN w = 1 .. Len(s) - 1
          /\ \A i \in DOMAIN w :
               /\ i \in Nat
               /\ i < d => i \in DOMAIN s /\ w[i] = s[i]
               /\ ~(i < d) => i + 1 \in DOMAIN s /\ w[i] = s[i + 1]
      BY <2>1, <2>2, <2>3, TakingOut
    <2>5. \A i \in DOMAIN w : \E k \in DOMAIN s : w[i] = s[k] /\ k # d
      BY <2>1, <2>4
    <2>6. ASSUME \A i, j \in DOMAIN s : s[i].client = s[j].client => i = j
          PROVE  /\ \A i \in DOMAIN w : w[i].client # c
                 /\ \A i, j \in DOMAIN w : w[i].client = w[j].client => i = j
      <3>1. \A i \in DOMAIN w : w[i].client # c
        BY <2>1, <2>5, <2>6
      <3>2. ASSUME NEW i \in DOMAIN w, NEW j \in DOMAIN w, w[i].client = w[j].client
            PROVE  i = j
        <4>1. PICK k, l : /\ k = (IF i < d THEN i ELSE i + 1) /\ k \in DOMAIN s /\ w[i] = s[k]
                          /\ l = (IF j < d THEN j ELSE j + 1) /\ l \in DOMAIN s /\ w[j] = s[l]
          BY <2>4
        <4>2. k = l
          BY <4>1, <3>2, <2>6
        <4> QED BY <4>1, <4>2, <2>1, <2>4
      <3> QED BY <3>1, <3>2
    <2>7. ASSUME NEW k \in DOMAIN s, s[k].client # c
          PROVE  \E i \in DOMAIN w : w[i] = s[k]
      <3>1. k # d /\ k \in 1 .. Len(s) /\ d \in 1 .. Len(s) /\ Len(s) \in Nat
        BY <2>1, <2>7
      <3>2. CASE k < d
        <4>1. k \in DOMAIN w
          BY <3>1, <3>2, <2>4
        <4> QED BY <4>1, <3>2, <2>4
      <3>3. CASE d < k
        <4>1. k - 1 \in DOMAIN w /\ ~(k - 1 < d) /\ (k - 1) + 1 = k
          BY <3>1, <3>3, <2>4
        <4> QED BY <4>1, <2>4
      <3> QED BY <3>1, <3>2, <3>3
    <2>8. ~(\A k \in DOMAIN s : s[k].client # c)
      BY <2>1
    <2> QED BY <2>3, <2>4, <2>5, <2>6, <2>7, <2>8
  <1> QED BY <1>2, <1>3

(* Unawaited changes nothing but who waits for the answer.                  *)
LEMMA UnawaitedRequests ==
    ASSUME NEW s \in Seq(Requests), NEW c
    PROVE  /\ Unawaited(s, c) \in Seq(Requests)
           /\ DOMAIN Unawaited(s, c) = DOMAIN s
           /\ DOMAIN s = 1 .. Len(s) /\ Len(s) \in Nat
           /\ Len(Unawaited(s, c)) = Len(s)
           /\ \A i \in 1 .. Len(s) :
                /\ Unawaited(s, c)[i].client = s[i].client
                /\ Unawaited(s, c)[i].op = s[i].op
                /\ Unawaited(s, c)[i].generation = s[i].generation
                /\ Unawaited(s, c)[i].revision = s[i].revision
                /\ Unawaited(s, c)[i].journal = s[i].journal
                /\ Unawaited(s, c)[i].base = s[i].base
                /\ Unawaited(s, c)[i].body = s[i].body
                /\ Unawaited(s, c)[i].awaited = (s[i].awaited /\ s[i].client # c)
           /\ (s = <<>>) => Unawaited(s, c) = <<>>
  <1>1. Len(s) \in Nat /\ DOMAIN s = 1 .. Len(s) /\ \A i \in 1 .. Len(s) : s[i] \in Requests
    OBVIOUS
  <1>2. \A i \in 1 .. Len(s) : [s[i] EXCEPT !.awaited = @ /\ s[i].client # c] \in Requests
    BY <1>1 DEF Requests
  <1>3. Unawaited(s, c) \in [1 .. Len(s) -> Requests]
    BY <1>2 DEF Unawaited
  <1>4. Unawaited(s, c) \in Seq(Requests) /\ DOMAIN Unawaited(s, c) = 1 .. Len(s)
    BY <1>1, <1>3
  <1>5. Len(Unawaited(s, c)) = Len(s)
    BY <1>1, <1>3
  <1>6. \A i \in 1 .. Len(s) : Unawaited(s, c)[i] = [s[i] EXCEPT !.awaited = @ /\ s[i].client # c]
    BY DEF Unawaited
  <1>7. ASSUME NEW i \in 1 .. Len(s)
        PROVE  /\ Unawaited(s, c)[i].client = s[i].client
                /\ Unawaited(s, c)[i].op = s[i].op
                /\ Unawaited(s, c)[i].generation = s[i].generation
                /\ Unawaited(s, c)[i].revision = s[i].revision
                /\ Unawaited(s, c)[i].journal = s[i].journal
                /\ Unawaited(s, c)[i].base = s[i].base
                /\ Unawaited(s, c)[i].body = s[i].body
                /\ Unawaited(s, c)[i].awaited = (s[i].awaited /\ s[i].client # c)
    BY <1>1, <1>6 DEF Requests
  <1>8. s = <<>> => Unawaited(s, c) = <<>>
    BY <1>4, <1>5
  <1> QED BY <1>1, <1>4, <1>5, <1>7, <1>8, Zenon

(* What a sequence holds.                                                   *)
LEMMA Elements ==
    ASSUME NEW S, NEW s \in Seq(S)
    PROVE  Len(s) \in Nat /\ DOMAIN s = 1 .. Len(s) /\ \A i \in DOMAIN s : s[i] \in S
  OBVIOUS

(* One element more, or none.                                               *)
LEMMA Adding ==
    ASSUME NEW S, NEW s \in Seq(S), NEW x \in S
    PROVE  /\ Append(s, x) \in Seq(S)
           /\ s \o <<x>> = Append(s, x)
           /\ s \o <<>> = s
  OBVIOUS

ReplyOf(request, ok, revision, journal, result) ==
    [client |-> request.client, ok |-> ok, revision |-> revision,
     journal |-> journal, result |-> result]

(* What a handler sends is one reply, or nothing if nobody awaits it. *)
LEMMA Sending ==
    ASSUME NEW replies \in Seq(Replies), NEW request \in Requests, NEW ok \in BOOLEAN,
           NEW revision \in Nat, NEW journal \in Journals, NEW result \in Results
    PROVE  /\ ReplyOf(request, ok, revision, journal, result) \in Replies
           /\ replies \o ReplyTo(request, ok, revision, journal, result) \in Seq(Replies)
           /\ request.awaited => replies \o ReplyTo(request, ok, revision, journal, result)
                                   = Append(replies, ReplyOf(request, ok, revision, journal, result))
           /\ ~request.awaited => replies \o ReplyTo(request, ok, revision, journal, result) = replies
  <1>1. ReplyOf(request, ok, revision, journal, result) \in Replies
    BY DEF ReplyOf, Replies, Requests
  <1>2. PICK r : r = ReplyOf(request, ok, revision, journal, result)
    OBVIOUS
  <1>3. CASE request.awaited
    <2>1. ReplyTo(request, ok, revision, journal, result) = <<r>>
      BY <1>2, <1>3 DEF ReplyTo, ReplyOf
    <2> QED BY <1>1, <1>2, <1>3, <2>1, Adding
  <1>4. CASE ~request.awaited
    <2>1. ReplyTo(request, ok, revision, journal, result) = <<>>
      BY <1>4 DEF ReplyTo
    <2> QED BY <1>1, <1>4, <2>1, Adding
  <1> QED BY <1>3, <1>4

(* The same for the acknowledgments and refusals that carry nothing. *)
LEMMA SendingPlain ==
    ASSUME NEW replies \in Seq(Replies), NEW request \in Requests
    PROVE  /\ ReplyOf(request, TRUE, 0, InitialJournal, NoResult) \in Replies
           /\ ReplyOf(request, FALSE, 0, InitialJournal, NoResult) \in Replies
           /\ replies \o Ok(request) \in Seq(Replies)
           /\ replies \o Refusal(request) \in Seq(Replies)
           /\ request.awaited =>
                /\ replies \o Ok(request) = Append(replies, ReplyOf(request, TRUE, 0, InitialJournal, NoResult))
                /\ replies \o Refusal(request) = Append(replies, ReplyOf(request, FALSE, 0, InitialJournal, NoResult))
           /\ ~request.awaited => replies \o Ok(request) = replies /\ replies \o Refusal(request) = replies
  <1>1. PICK yes, no : /\ yes = ReplyOf(request, TRUE, 0, InitialJournal, NoResult)
                       /\ no = ReplyOf(request, FALSE, 0, InitialJournal, NoResult)
    OBVIOUS
  <1>2. yes \in Replies /\ no \in Replies
    BY <1>1, SupervisorAssumption DEF ReplyOf, Replies, Requests
  <1>3. CASE request.awaited
    <2>1. Ok(request) = <<yes>> /\ Refusal(request) = <<no>>
      BY <1>1, <1>3 DEF Ok, Refusal, ReplyTo, ReplyOf
    <2>2. /\ replies \o <<yes>> = Append(replies, yes) /\ Append(replies, yes) \in Seq(Replies)
          /\ replies \o <<no>> = Append(replies, no) /\ Append(replies, no) \in Seq(Replies)
      BY <1>2, Adding
    <2> QED BY <1>1, <1>2, <1>3, <2>1, <2>2, Zenon
  <1>4. CASE ~request.awaited
    <2>1. Ok(request) = <<>> /\ Refusal(request) = <<>>
      BY <1>4 DEF Ok, Refusal, ReplyTo
    <2>2. replies \o <<>> = replies
      BY Adding, <1>2
    <2> QED BY <1>1, <1>2, <1>4, <2>1, <2>2, Zenon
  <1> QED BY <1>3, <1>4

--------------------------------------------------------------------------------
(* Types. *)

(* The initial and sentinel values have their types.                        *)
LEMMA ConstantTypes ==
    /\ NoCall \in Calls
    /\ NoLease \in [holder : Clients \cup {Nobody}, lapsed : BOOLEAN]
    /\ NotOpen \in [open : BOOLEAN, revision : Nat, journal : Journals]
    /\ NoStore \in [generation : Nat, revision : Nat, journal : Journals]
  BY SupervisorAssumption DEF NoCall, Calls, Operations, NoLease, NotOpen, NoStore

(* The initial state is well typed.                                         *)
LEMMA TypesInit == SupervisorInit => TypeOK
  BY SupervisorAssumption, ConstantTypes DEF SupervisorInit, TypeOK, Phases

(* What a client sends is a request.                                        *)
LEMMA RequestTypes ==
    ASSUME TypeOK, NEW c \in Clients
    PROVE  /\ \A op \in Operations \cup {"cancelAcquire"} : Request(c, op) \in Requests
           /\ \A journal \in Journals : SaveRequest(c, journal) \in Requests
           /\ \A body \in Bodies : [Request(c, "grpc") EXCEPT !.body = body] \in Requests
           /\ [Request(c, "cancelAcquire") EXCEPT !.awaited = FALSE] \in Requests
  <1>1. context[c] \in Nat /\ store.revision \in Nat /\ store.journal \in Journals
    BY DEF TypeOK
  <1>2. \A op \in Operations \cup {"cancelAcquire"} : Request(c, op) \in Requests
    BY <1>1, SupervisorAssumption DEF Request, Requests
  <1>3. ASSUME NEW journal \in Journals
        PROVE  SaveRequest(c, journal) \in Requests
    BY <1>1, SupervisorAssumption DEF SaveRequest, Request, Requests, Operations
  <1>4. \A body \in Bodies : [Request(c, "grpc") EXCEPT !.body = body] \in Requests
    BY <1>1, SupervisorAssumption DEF Request, Requests, Operations
  <1>5. [Request(c, "cancelAcquire") EXCEPT !.awaited = FALSE] \in Requests
    BY <1>1, SupervisorAssumption DEF Request, Requests, Operations
  <1> QED BY <1>2, <1>3, <1>4, <1>5

(* A call keeps the types.                                                  *)
LEMMA CallTypes ==
    ASSUME TypeOK, NEW c \in Clients, NEW request \in Requests, request.op \in Operations,
           Call(c, request),
           phase' \in [Clients -> Phases], context' \in [Clients -> Nat], UNCHANGED store
    PROVE  TypeOK'
  <1>1. /\ generation' \in Nat /\ child' \in {"up", "dead", "closed", "none"}
        /\ toWorker' \in Seq(Requests) /\ toParent' \in Seq(Replies)
        /\ lease' \in [holder : Clients \cup {Nobody}, lapsed : BOOLEAN]
        /\ queue' \in Seq(Requests)
        /\ record' \in [open : BOOLEAN, revision : Nat, journal : Journals]
    <2>1. CASE child = "up"
      <3>1. /\ toWorker' = Append(toWorker, request)
            /\ UNCHANGED <<generation, child, toParent, lease, queue, record>>
        BY <2>1 DEF Call, Transmit, processVars, workerVars
      <3>2. toWorker' \in Seq(Requests)
        BY <3>1, Adding DEF TypeOK
      <3> QED BY <3>1, <3>2 DEF TypeOK
    <2>2. CASE child = "dead"
      BY <2>2 DEF Call, Transmit, TypeOK, processVars, workerVars
    <2>3. CASE child \in {"closed", "none"}
      <3>1. Fork(<<request>>)
        BY <2>3 DEF Call, Transmit
      <3>2. <<request>> \in Seq(Requests)
        OBVIOUS
      <3> QED BY <3>1, <3>2, ConstantTypes DEF Fork, FreshWorker, TypeOK
    <2> QED BY <2>1, <2>2, <2>3 DEF TypeOK
  <1>2. request.journal \in Journals
    BY DEF Requests
  <1>3. [op |-> request.op, generation |-> generation', journal |-> request.journal] \in Calls
    BY <1>1, <1>2 DEF Calls
  <1>4. calls' \in [Clients -> Calls]
    BY <1>3 DEF Call, TypeOK
  <1> QED BY <1>1, <1>4 DEF Call, TypeOK

(* So do all the calls of a client,                                         *)
LEMMA ClientCallsTypes ==
    ASSUME TypeOK, NEW c \in Clients, ClientCalls(c) \/ Release(c)
    PROVE  TypeOK'
  <1>1. CASE Acquire(c)
    <2>1. generation' \in Nat
      BY <1>1 DEF Acquire, Call, Transmit, Fork, TypeOK, processVars
    <2>2. Request(c, "acquire") \in Requests /\ Request(c, "acquire").op = "acquire"
      BY RequestTypes DEF Request, Operations
    <2>3. /\ phase' \in [Clients -> Phases] /\ context' \in [Clients -> Nat]
          /\ UNCHANGED store /\ Call(c, Request(c, "acquire"))
      BY <1>1, <2>1 DEF Acquire, TypeOK, Phases
    <2> QED BY <2>2, <2>3, CallTypes DEF Operations
  <1>2. CASE Release(c)
    <2>2. Request(c, "release") \in Requests /\ Request(c, "release").op = "release"
      BY RequestTypes DEF Request, Operations
    <2>3. /\ phase' \in [Clients -> Phases] /\ context' \in [Clients -> Nat]
          /\ UNCHANGED store /\ Call(c, Request(c, "release"))
      BY <1>2 DEF Release, TypeOK, Phases
    <2> QED BY <2>2, <2>3, CallTypes DEF Operations
  <1>3. ASSUME NEW request \in Requests, request.op \in Operations, Call(c, request),
               UNCHANGED <<phase, context, store>>
        PROVE  TypeOK'
    BY <1>3, CallTypes DEF TypeOK
  <1>4. CASE OpenJournal(c)
    <2>1. Request(c, "openJournal") \in Requests /\ Request(c, "openJournal").op \in Operations
      BY RequestTypes DEF Request, Operations
    <2> QED BY <1>3, <1>4, <2>1 DEF OpenJournal
  <1>5. CASE AssertLease(c)
    <2>1. Request(c, "assertLease") \in Requests /\ Request(c, "assertLease").op \in Operations
      BY RequestTypes DEF Request, Operations
    <2> QED BY <1>3, <1>5, <2>1 DEF AssertLease
  <1>6. ASSUME NEW journal \in Journals, SaveJournal(c, journal)
        PROVE  TypeOK'
    <2>1. SaveRequest(c, journal) \in Requests /\ SaveRequest(c, journal).op \in Operations
      BY RequestTypes DEF SaveRequest, Request, Operations
    <2> QED BY <1>3, <1>6, <2>1 DEF SaveJournal
  <1>7. ASSUME NEW body \in Bodies, Grpc(c, body)
        PROVE  TypeOK'
    <2>1. [Request(c, "grpc") EXCEPT !.body = body] \in Requests
          /\ [Request(c, "grpc") EXCEPT !.body = body].op \in Operations
      BY RequestTypes DEF Request, Operations
    <2> QED BY <1>3, <1>7, <2>1 DEF Grpc
  <1> QED BY <1>1, <1>2, <1>4, <1>5, <1>6, <1>7 DEF ClientCalls

(* leaving runExclusive,                                                    *)
LEMMA LeaveTypes ==
    ASSUME TypeOK, NEW c \in Clients, Leave(c)
    PROVE  phase' \in [Clients -> Phases] /\ context' \in [Clients -> Nat]
  BY DEF Leave, TypeOK, Phases

(* the replies,                                                             *)
LEMMA HandleReplyTypes ==
    ASSUME TypeOK, NEW c \in Clients, HandleReply(c)
    PROVE  TypeOK'
  <1>1. PICK op : Answered(c, op)
    BY DEF HandleReply, AcquireAnswered, ReleaseAnswered, AssertAnswered, GrpcAnswered,
           OpenAnswered, SaveAnswered
  <1>2. /\ toParent' \in Seq(Replies) /\ calls' \in [Clients -> Calls]
        /\ Head(toParent) \in Replies
    BY <1>1, ConstantTypes DEF Answered, TypeOK
  <1>3. phase' \in [Clients -> Phases] /\ context' \in [Clients -> Nat]
    <2>1. CASE AcquireAnswered(c)
      BY <2>1, LeaveTypes DEF AcquireAnswered, TypeOK, Phases
    <2>2. CASE ReleaseAnswered(c)
      BY <2>2, LeaveTypes DEF ReleaseAnswered
    <2>3. CASE UNCHANGED <<phase, context>>
      BY <2>3 DEF TypeOK
    <2> QED BY <2>1, <2>2, <2>3 DEF HandleReply, AssertAnswered, GrpcAnswered, OpenAnswered,
                                    SaveAnswered
  <1>4. store' \in [generation : Nat, revision : Nat, journal : Journals]
    <2>1. calls[c] \in Calls /\ store \in [generation : Nat, revision : Nat, journal : Journals]
      BY DEF TypeOK
    <2>2. CASE OpenAnswered(c)
      BY <1>2, <2>1, <2>2 DEF OpenAnswered, Calls, Replies
    <2>3. CASE SaveAnswered(c)
      BY <1>2, <2>1, <2>3 DEF SaveAnswered, Calls, Replies
    <2>4. CASE UNCHANGED store
      BY <2>1, <2>4
    <2> QED BY <2>2, <2>3, <2>4 DEF HandleReply, AcquireAnswered, ReleaseAnswered,
                                    AssertAnswered, GrpcAnswered
  <1> QED BY <1>1, <1>2, <1>3, <1>4 DEF Answered, TypeOK, processVars, workerVars

(* a fault,                                                                 *)
LEMMA FaultTypes ==
    ASSUME TypeOK, FaultHappens \/ UNCHANGED faults
    PROVE  faults' \in Nat
  BY DEF TypeOK, FaultHappens

(* the timeouts,                                                            *)
LEMMA TimeoutTypes ==
    ASSUME TypeOK, NEW c \in Clients, AcquireTimesOut(c) \/ RpcTimesOut(c)
    PROVE  TypeOK'
  <1>1. /\ calls' \in [Clients -> Calls] /\ faults' \in Nat
        /\ phase' \in [Clients -> Phases] /\ context' \in [Clients -> Nat]
        /\ toParent' \in Seq(Replies)
    <2>1. calls' = [calls EXCEPT ![c] = NoCall] /\ toParent' = Without(toParent, c)
      BY DEF AcquireTimesOut, RpcTimesOut
    <2>2. FaultHappens \/ UNCHANGED faults
      BY DEF AcquireTimesOut, RpcTimesOut
    <2>3. Leave(c) \/ UNCHANGED <<phase, context>>
      BY DEF AcquireTimesOut, RpcTimesOut
    <2>4. phase' \in [Clients -> Phases] /\ context' \in [Clients -> Nat]
      BY <2>3, LeaveTypes DEF TypeOK
    <2>5. toParent' \in Seq(Replies)
      BY <2>1, WithoutClient DEF TypeOK
    <2> QED BY <2>1, <2>2, <2>4, <2>5, FaultTypes, ConstantTypes DEF TypeOK
  <1>2. CASE AcquireTimesOut(c)
    <2>1. Unawaited(toWorker, c) \in Seq(Requests) /\ Unawaited(queue, c) \in Seq(Requests)
      BY UnawaitedRequests DEF TypeOK
    <2>2. [Request(c, "cancelAcquire") EXCEPT !.awaited = FALSE] \in Requests
      BY RequestTypes
    <2>3. Append(Unawaited(toWorker, c), [Request(c, "cancelAcquire") EXCEPT !.awaited = FALSE])
            \in Seq(Requests)
      BY <2>1, <2>2
    <2>4. toWorker' \in Seq(Requests) /\ queue' \in Seq(Requests)
      BY <1>2, <2>1, <2>3 DEF AcquireTimesOut
    <2> QED BY <1>1, <1>2, <2>4 DEF AcquireTimesOut, TypeOK, processVars
  <1>3. CASE RpcTimesOut(c)
    <2>1. CASE InService(c)
      <3>1. <<>> \in Seq(Requests)
        OBVIOUS
      <3>2. /\ child' = "dead" /\ toWorker' = <<>> /\ lease' = NoLease /\ queue' = <<>>
            /\ record' = NotOpen /\ UNCHANGED <<generation, store, file>>
        BY <1>3, <2>1 DEF RpcTimesOut, Dies, FreshWorker
      <3> QED BY <1>1, <3>1, <3>2, ConstantTypes DEF TypeOK
    <2>2. CASE ~InService(c)
      <3>1. toWorker' \in Seq(Requests)
        BY <1>3, <2>2, UnawaitedRequests DEF RpcTimesOut, TypeOK
      <3> QED BY <1>1, <1>3, <2>2, <3>1 DEF RpcTimesOut, TypeOK, workerVars
    <2> QED BY <2>1, <2>2
  <1> QED BY <1>2, <1>3

(* and the ends and beginnings of the child.                                *)
LEMMA ProcessesTypes ==
    ASSUME TypeOK, Processes
    PROVE  TypeOK'
  <1>1. CASE ChildDies
    BY <1>1, ConstantTypes DEF ChildDies, Dies, FreshWorker, TypeOK
  <1>2. CASE ChannelCloses
    BY <1>2 DEF ChannelCloses, TypeOK, workerVars
  <1>3. CASE ExitNoticed
    BY <1>3, ConstantTypes DEF ExitNoticed, TypeOK, workerVars, Phases
  <1>4. CASE Respawn
    BY <1>4, ConstantTypes DEF Respawn, Fork, FreshWorker, TypeOK
  <1>5. CASE ServerRestarts
    BY <1>5, ConstantTypes DEF ServerRestarts, Fork, FreshWorker, TypeOK, Phases
  <1> QED BY <1>1, <1>2, <1>3, <1>4, <1>5 DEF Processes

(* The lease goes to the first of a queue. *)
LEMMA GrantTypes ==
    ASSUME TypeOK, NEW waiting \in Seq(Requests), NEW replies,
           NEW request \in Requests, replies = <<>> \/ replies = Ok(request),
           GrantNext(waiting, replies)
    PROVE  /\ lease' \in [holder : Clients \cup {Nobody}, lapsed : BOOLEAN]
           /\ queue' \in Seq(Requests)
           /\ toParent' \in Seq(Replies)
  <1>0. toParent \in Seq(Replies)
    BY DEF TypeOK
  <1>1. CASE waiting = <<>>
    <2>1. toParent' \in Seq(Replies)
      <3>1. toParent' = toParent \o replies
        BY <1>1 DEF GrantNext
      <3> QED BY <1>0, <3>1, SendingPlain, Adding
    <2> QED BY <1>1, <2>1, ConstantTypes DEF GrantNext
  <1>2. CASE waiting # <<>>
    <2>1. Head(waiting) \in Requests /\ Tail(waiting) \in Seq(Requests)
      BY <1>2
    <2>2. Head(waiting).client \in Clients
      BY <2>1 DEF Requests
    <2>3. toParent' = (toParent \o Ok(Head(waiting))) \o replies
      BY <1>2 DEF GrantNext
    <2>4. PICK r : r = toParent \o Ok(Head(waiting)) /\ r \in Seq(Replies)
      BY <1>0, <2>1, SendingPlain
    <2>5. r \o <<>> \in Seq(Replies) /\ r \o Ok(request) \in Seq(Replies)
      <3>1. r \o <<>> \in Seq(Replies)
        BY <2>4, Adding
      <3>2. r \o Ok(request) \in Seq(Replies)
        BY <2>4, SendingPlain
      <3> QED BY <3>1, <3>2
    <2>6. toParent' = r \o replies
      BY <2>3, <2>4
    <2>7. toParent' \in Seq(Replies)
      BY <2>5, <2>6
    <2>8. lease' \in [holder : Clients \cup {Nobody}, lapsed : BOOLEAN]
      <3>1. PICK h \in Clients : h = Head(waiting).client
        BY <2>2
      <3>2. lease' = [holder |-> h, lapsed |-> FALSE]
        BY <1>2, <3>1 DEF GrantNext
      <3> QED BY <3>2
    <2>9. queue' = Tail(waiting)
      BY <1>2 DEF GrantNext
    <2> QED BY <2>1, <2>7, <2>8, <2>9
  <1> QED BY <1>1, <1>2

(* The head of the channel is a request.                                    *)
LEMMA ReceiveTypes ==
    ASSUME TypeOK, NEW op, Receive(op)
    PROVE  Head(toWorker) \in Requests /\ toWorker' \in Seq(Requests)
  BY DEF TypeOK, Receive

(* The handlers of the child keep the types,                                *)
LEMMA HandleRequestTypes ==
    ASSUME TypeOK, HandleRequest
    PROVE  TypeOK'
  <1>0. PICK op : Receive(op)
    BY DEF HandleRequest, HandleAcquire, HandleCancel, HandleRelease, HandleAssert,
           HandleOpen, HandleSave, HandleSaveFails, HandleGrpc
  <1>1. PICK request : request = Head(toWorker) /\ request \in Requests
    BY <1>0, ReceiveTypes
  <1>2. toWorker' \in Seq(Requests) /\ UNCHANGED <<generation, child, calls, phase, context, store>>
    BY <1>0, ReceiveTypes DEF Receive, processVars
  <1>3. /\ toParent \in Seq(Replies) /\ queue \in Seq(Requests)
        /\ record \in [open : BOOLEAN, revision : Nat, journal : Journals]
        /\ file \in Journals
        /\ lease \in [holder : Clients \cup {Nobody}, lapsed : BOOLEAN]
    BY DEF TypeOK
  <1>4. toParent \o Ok(request) \in Seq(Replies) /\ toParent \o Refusal(request) \in Seq(Replies)
    BY <1>1, <1>2, <1>3, SendingPlain
  <1>5. request.client \in Clients /\ request.journal \in Journals
    BY <1>1 DEF Requests
  <1>6. CASE HandleAcquire
    <2>1. Append(queue, request) \in Seq(Requests)
      BY <1>1, <1>3
    <2>2. /\ lease' \in [holder : Clients \cup {Nobody}, lapsed : BOOLEAN]
          /\ queue' \in Seq(Requests) /\ toParent' \in Seq(Replies)
      <3>1. \/ /\ lease' = [holder |-> request.client, lapsed |-> FALSE]
               /\ toParent' = toParent \o Ok(request)
               /\ UNCHANGED queue
            \/ toParent' = toParent \o Refusal(request) /\ UNCHANGED <<lease, queue>>
            \/ queue' = Append(queue, request) /\ UNCHANGED <<lease, toParent>>
        BY <1>1, <1>6 DEF HandleAcquire
      <3>2. [holder |-> request.client, lapsed |-> FALSE]
              \in [holder : Clients \cup {Nobody}, lapsed : BOOLEAN]
        BY <1>5
      <3> QED BY <1>3, <1>4, <2>1, <3>1, <3>2
    <2> QED BY <1>2, <1>6, <2>2 DEF HandleAcquire, TypeOK
  <1>7. CASE HandleCancel
    <2>1. CASE GrantNext(queue, <<>>)
      BY <1>1, <1>2, <1>3, <1>7, <2>1, GrantTypes DEF HandleCancel, TypeOK
    <2>2. CASE queue' = Without(queue, request.client) /\ UNCHANGED <<lease, toParent>>
      <3>1. queue' \in Seq(Requests)
        BY <1>3, <2>2, WithoutClient
      <3> QED BY <1>2, <1>3, <1>7, <2>2, <3>1 DEF HandleCancel, TypeOK
    <2> QED BY <1>1, <1>7, <2>1, <2>2 DEF HandleCancel
  <1>8. CASE HandleRelease
    <2>1. CASE GrantNext(queue, Ok(request))
      BY <1>1, <1>2, <1>3, <1>8, <2>1, GrantTypes DEF HandleRelease, TypeOK
    <2>2. CASE toParent' = toParent \o Refusal(request) /\ UNCHANGED <<lease, queue>>
      BY <1>2, <1>3, <1>4, <1>8, <2>2 DEF HandleRelease, TypeOK
    <2> QED BY <1>1, <1>8, <2>1, <2>2 DEF HandleRelease
  <1>9. CASE HandleAssert
    BY <1>1, <1>2, <1>3, <1>4, <1>9 DEF HandleAssert, TypeOK, workerVars
  <1>10. CASE HandleOpen
    <2>1. record' \in [open : BOOLEAN, revision : Nat, journal : Journals]
      BY <1>3, <1>10 DEF HandleOpen
    <2>2. toParent' \in Seq(Replies)
      BY <1>1, <1>3, <1>10, <2>1, Sending, SupervisorAssumption DEF HandleOpen
    <2> QED BY <1>2, <1>3, <1>10, <2>1, <2>2 DEF HandleOpen, TypeOK
  <1>11. CASE HandleSave
    <2>1. record' \in [open : BOOLEAN, revision : Nat, journal : Journals]
      <3>1. record' = [record EXCEPT !.revision = @ + 1, !.journal = request.journal]
        BY <1>1, <1>11 DEF HandleSave
      <3>2. PICK n \in Nat : n = record.revision + 1
        BY <1>3
      <3>3. record' = [record EXCEPT !.revision = n, !.journal = request.journal]
        BY <3>1, <3>2
      <3> QED BY <1>3, <1>5, <3>3
    <2>2. toParent' \in Seq(Replies)
      <3>1. record.revision + 1 \in Nat
        BY <1>3
      <3> QED BY <1>1, <1>3, <1>11, <3>1, Sending, SupervisorAssumption DEF HandleSave
    <2> QED BY <1>1, <1>2, <1>3, <1>5, <1>11, <2>1, <2>2 DEF HandleSave, TypeOK
  <1>12. CASE HandleSaveFails
    <2>1. faults' \in Nat
      BY <1>12, FaultTypes DEF HandleSaveFails
    <2> QED BY <1>1, <1>2, <1>3, <1>4, <1>12, <2>1 DEF HandleSaveFails, TypeOK, workerVars
  <1>13. ASSUME NEW result \in Results, HandleGrpc(result), UNCHANGED faults
         PROVE  TypeOK'
    <2>1. PICK ok \in BOOLEAN : ok = (result # NoResult)
      OBVIOUS
    <2>2. toParent \o ReplyTo(request, ok, 0, InitialJournal, result) \in Seq(Replies)
      BY <1>1, <1>2, <1>3, Sending, SupervisorAssumption
    <2>3. toParent' \in Seq(Replies)
      BY <1>1, <1>4, <1>13, <2>1, <2>2 DEF HandleGrpc
    <2> QED BY <1>2, <1>3, <1>13, <2>3 DEF HandleGrpc, TypeOK, workerVars
  <1> QED BY <1>6, <1>7, <1>8, <1>9, <1>10, <1>11, <1>12, <1>13 DEF HandleRequest

(* so does the expiry of a lease,                                           *)
LEMMA LeaseTimesTypes ==
    ASSUME TypeOK, LeaseLapses \/ LeaseTimerFires
    PROVE  TypeOK'
  <1>1. CASE LeaseLapses
    <2>1. faults' \in Nat
      BY <1>1, FaultTypes DEF LeaseLapses
    <2> QED BY <1>1, <2>1 DEF LeaseLapses, TypeOK, processVars
  <1>2. CASE LeaseTimerFires
    <2>1. queue # <<>> => Head(queue) \in Requests
      BY DEF TypeOK
    <2>2. /\ lease' \in [holder : Clients \cup {Nobody}, lapsed : BOOLEAN]
          /\ queue' \in Seq(Requests)
          /\ toParent' \in Seq(Replies)
      <3>1. CASE queue = <<>>
        <4>1. toParent' = toParent \o <<>>
          BY <1>2, <3>1 DEF LeaseTimerFires, GrantNext
        <4> QED BY <1>2, <3>1, <4>1, ConstantTypes, Adding DEF LeaseTimerFires, GrantNext, TypeOK
      <3>2. CASE queue # <<>>
        BY <1>2, <2>1, <3>2, GrantTypes DEF LeaseTimerFires, TypeOK
      <3> QED BY <3>1, <3>2
    <2> QED BY <1>2, <2>2 DEF LeaseTimerFires, TypeOK, processVars
  <1> QED BY <1>1, <1>2

(* and every step.                                                          *)
LEMMA TypesNext ==
    ASSUME TypeOK, [SupervisorNext]_vars
    PROVE  TypeOK'
  <1>1. CASE UNCHANGED vars
    BY <1>1 DEF TypeOK, vars, processVars, workerVars
  <1>2. CASE SupervisorNext
    BY <1>2, ClientCallsTypes, HandleReplyTypes, TimeoutTypes, HandleRequestTypes,
       LeaseTimesTypes, ProcessesTypes DEF SupervisorNext
  <1> QED BY <1>1, <1>2

(* Every variable keeps its type, whatever the clients, journals and bodies *)
(* are and however many there are.                                          *)
THEOREM TypeCorrect == SupervisorSpec => []TypeOK
  BY TypesInit, TypesNext, PTL DEF SupervisorSpec

--------------------------------------------------------------------------------
(* The protocol of requests and replies.                                    *)

(* What is sent to a process that is gone is gone with it, and nobody knows *)
(* a generation that has not been.                                          *)
ProcessOK ==
    /\ generation > 0
    /\ child # "up" => toWorker = <<>> /\ queue = <<>> /\ lease = NoLease
    /\ store.generation <= generation
    /\ \A c \in Clients : context[c] <= generation /\ calls[c].generation <= generation
    /\ lease.holder = Nobody => queue = <<>> /\ ~lease.lapsed

(* The phase of a client says what it awaits.                               *)
PhasesOK ==
    \A c \in Clients :
      /\ phase[c] = "idle" => calls[c].op = "none" /\ context[c] = 0
      /\ phase[c] = "acquiring" <=> calls[c].op = "acquire"
      /\ phase[c] = "releasing" <=> calls[c].op = "release"
      /\ phase[c] = "acquiring" => context[c] = calls[c].generation

Awaits(c, op) == calls[c].op = op /\ calls[c].generation = generation

NoReply(c) == \A i \in DOMAIN toParent : toParent[i].client # c

NoRequest(c) == \A i \in DOMAIN toWorker : toWorker[i].client # c

(* A cancellation of c follows the i-th request, before c asks again.       *)
EndedBy(c, i, j) ==
    /\ i < j
    /\ toWorker[j].client = c /\ toWorker[j].op = "cancelAcquire"
    /\ \A k \in DOMAIN toWorker :
         i < k /\ k < j /\ toWorker[k].client = c => toWorker[k].op # "acquire"

Ended(c, i) == \E j \in DOMAIN toWorker : EndedBy(c, i, j)

RequestOK(i) ==
    LET m == toWorker[i] IN
    /\ m.awaited => /\ Awaits(m.client, m.op)
                    /\ NoReply(m.client)
                    /\ \A j \in DOMAIN toWorker : i < j => toWorker[j].client # m.client
    /\ m.op = "acquire" => m.awaited \/ Ended(m.client, i)
    /\ m.op = "release" => m.awaited /\ m.generation = context[m.client]
    /\ m.op = "cancelAcquire" => ~m.awaited /\ m.generation = generation

WaiterOK(i) ==
    LET m == queue[i] IN
    /\ m.awaited => Awaits(m.client, "acquire") /\ NoReply(m.client) /\ NoRequest(m.client)
    /\ ~m.awaited => Ended(m.client, 0)
    /\ \A j \in DOMAIN queue : queue[j].client = m.client => i = j

ReplyOK(i) ==
    LET r == toParent[i] IN
    /\ calls[r.client].op # "none" /\ calls[r.client].generation = generation
    /\ \A j \in DOMAIN toParent : toParent[j].client = r.client => i = j

TalkOK ==
    /\ \A i \in DOMAIN toWorker : RequestOK(i)
    /\ \A i \in DOMAIN queue : WaiterOK(i)
    /\ \A i \in DOMAIN toParent : ReplyOK(i)

Protocol == TypeOK /\ ProcessOK /\ PhasesOK /\ TalkOK

--------------------------------------------------------------------------------
(* The types of the elements, for citing.                                   *)
LEMMA ElementTypes ==
    ASSUME TypeOK
    PROVE  /\ DOMAIN toWorker = 1 .. Len(toWorker) /\ Len(toWorker) \in Nat
           /\ DOMAIN queue = 1 .. Len(queue) /\ Len(queue) \in Nat
           /\ DOMAIN toParent = 1 .. Len(toParent) /\ Len(toParent) \in Nat
           /\ \A i \in DOMAIN toWorker : toWorker[i] \in Requests
           /\ \A i \in DOMAIN queue : queue[i] \in Requests
           /\ \A i \in DOMAIN toParent : toParent[i] \in Replies
           /\ \A i \in DOMAIN toWorker : toWorker[i].client \in Clients /\ toWorker[i].op # "none"
           /\ \A i \in DOMAIN queue : queue[i].client \in Clients
           /\ \A i \in DOMAIN toParent : toParent[i].client \in Clients
  <1>1. toWorker \in Seq(Requests) /\ queue \in Seq(Requests) /\ toParent \in Seq(Replies)
    BY DEF TypeOK
  <1>2. /\ DOMAIN toWorker = 1 .. Len(toWorker) /\ Len(toWorker) \in Nat
        /\ DOMAIN queue = 1 .. Len(queue) /\ Len(queue) \in Nat
        /\ DOMAIN toParent = 1 .. Len(toParent) /\ Len(toParent) \in Nat
        /\ \A i \in DOMAIN toWorker : toWorker[i] \in Requests
        /\ \A i \in DOMAIN queue : queue[i] \in Requests
        /\ \A i \in DOMAIN toParent : toParent[i] \in Replies
    BY <1>1, Elements
  <1>3. \A m \in Requests : m.client \in Clients /\ m.op # "none"
    BY DEF Requests, Operations
  <1>4. \A r \in Replies : r.client \in Clients
    BY DEF Replies
  <1> QED BY <1>2, <1>3, <1>4

(* The indexes of a sequence with one element more,                         *)
LEMMA AddingIndexes ==
    ASSUME NEW S, NEW s \in Seq(S), NEW x \in S
    PROVE  /\ \A i \in DOMAIN s : i \in Nat /\ i <= Len(s)
                                  /\ i \in DOMAIN Append(s, x) /\ Append(s, x)[i] = s[i]
           /\ Len(s) + 1 \in DOMAIN Append(s, x) /\ Append(s, x)[Len(s) + 1] = x
           /\ \A i \in DOMAIN Append(s, x) : i \in DOMAIN s \/ i = Len(s) + 1
           /\ Len(s) \in Nat
  OBVIOUS

(* of one without its first,                                                *)
LEMMA TakingIndexes ==
    ASSUME NEW S, NEW s \in Seq(S), s # <<>>
    PROVE  /\ Head(s) \in S /\ Head(s) = s[1] /\ 1 \in DOMAIN s
           /\ Tail(s) \in Seq(S)
           /\ \A i \in DOMAIN Tail(s) : i \in Nat /\ 0 < i /\ i + 1 \in DOMAIN s /\ Tail(s)[i] = s[i + 1]
           /\ \A i \in DOMAIN s : i \in Nat /\ (i = 1 \/ (1 < i /\ i - 1 \in DOMAIN Tail(s)
                                                        /\ Tail(s)[i - 1] = s[i]))
  OBVIOUS

(* and of an empty one.                                                     *)
LEMMA NoElements ==
    ASSUME NEW s, s = <<>>
    PROVE  \A i : i \notin DOMAIN s
  OBVIOUS

(* More is sent. *)
SentMore(m) ==
    /\ \A i \in DOMAIN toWorker : i \in DOMAIN toWorker' /\ toWorker'[i] = toWorker[i]
    /\ Len(toWorker) + 1 \in DOMAIN toWorker' /\ toWorker'[Len(toWorker) + 1] = m
    /\ \A i \in DOMAIN toWorker' : i \in DOMAIN toWorker \/ i = Len(toWorker) + 1

(* Append sends more.                                                       *)
LEMMA Sends ==
    ASSUME TypeOK, NEW m \in Requests, toWorker' = Append(toWorker, m)
    PROVE  SentMore(m)
  BY AddingIndexes DEF TypeOK, SentMore

(* A cancellation on its way stays there when more is sent.                 *)
LEMMA EndedSent ==
    ASSUME TypeOK, NEW m, SentMore(m), NEW c, NEW i \in Nat, Ended(c, i)
    PROVE  Ended(c, i)'
  <1>1. PICK j \in DOMAIN toWorker : EndedBy(c, i, j)
    BY DEF Ended
  <1>2. j \in DOMAIN toWorker' /\ toWorker'[j] = toWorker[j] /\ i < j
    BY <1>1 DEF SentMore, EndedBy
  <1>3. ASSUME NEW k \in DOMAIN toWorker', i < k, k < j, toWorker'[k].client = c
        PROVE  toWorker'[k].op # "acquire"
    <2>1. k \in DOMAIN toWorker /\ toWorker'[k] = toWorker[k]
      BY <1>3, ElementTypes DEF SentMore
    <2> QED BY <1>1, <1>3, <2>1 DEF EndedBy
  <1>4. EndedBy(c, i, j)'
    BY <1>1, <1>2, <1>3 DEF EndedBy
  <1> QED BY <1>2, <1>4 DEF Ended

(* Initially nothing is said.                                               *)
LEMMA ProtocolInit == SupervisorInit => Protocol
  <1>1. ASSUME SupervisorInit PROVE ProcessOK /\ PhasesOK
    BY <1>1 DEF SupervisorInit, ProcessOK, PhasesOK, NoStore, NoCall, NoLease
  <1>2. ASSUME SupervisorInit PROVE TalkOK
    BY <1>2, NoElements DEF SupervisorInit, TalkOK
  <1> QED BY <1>1, <1>2, TypesInit DEF Protocol

--------------------------------------------------------------------------------
(* A client calls.                                                          *)

(* It awaits what it called, and nothing else is said of it.                *)
LEMMA CallTalk ==
    ASSUME Protocol, TypeOK', NEW c \in Clients, NEW request \in Requests,
           request.client = c, request.awaited, request.op \in Operations,
           request.op = "release" => request.generation = context[c] /\ context'[c] = context[c],
           Call(c, request), UNCHANGED store,
           \A d \in Clients \ {c} : context'[d] = context[d],
           context'[c] = context[c] \/ context'[c] = generation'
    PROVE  ProcessOK' /\ TalkOK' /\ calls' = [calls EXCEPT ![c] = [op |-> request.op, generation |-> generation',
                                      journal |-> request.journal]]
  <1>0. TypeOK /\ ProcessOK /\ PhasesOK /\ TalkOK /\ request.op # "cancelAcquire" /\ calls[c].op = "none"
    BY DEF Protocol, Operations, Call
  <1>1. /\ \A d \in Clients : calls[d] \in Calls /\ calls'[d] \in Calls
                               /\ context[d] \in Nat /\ context'[d] \in Nat
        /\ generation \in Nat /\ generation' \in Nat
        /\ store \in [generation : Nat, revision : Nat, journal : Journals]
        /\ \A d \in Clients : calls[d].generation \in Nat
    BY <1>0 DEF TypeOK, Calls
  <1>2. /\ \A d \in Clients \ {c} : calls'[d] = calls[d]
        /\ calls'[c].op = request.op /\ calls'[c].generation = generation'
    BY <1>0 DEF Call, TypeOK
  <1>3. calls' = [calls EXCEPT ![c] = [op |-> request.op, generation |-> generation',
                                      journal |-> request.journal]]
    BY DEF Call
  <1>4. \A i \in DOMAIN toParent : toParent[i].client # c
    BY <1>0 DEF TalkOK, ReplyOK
  <1>5. CASE child = "up"
    <2>1. /\ toWorker' = Append(toWorker, request)
          /\ UNCHANGED <<generation, child, toParent, lease, queue, record>>
      BY <1>5 DEF Call, Transmit, processVars, workerVars
    <2>2. SentMore(request)
      BY <1>0, <2>1, Sends
    <2>3. ProcessOK'
      <3>1. \A d \in Clients : context'[d] <= generation' /\ calls'[d].generation <= generation'
        BY <1>0, <1>1, <1>2, <2>1 DEF ProcessOK
      <3> QED BY <1>0, <1>5, <2>1, <3>1 DEF ProcessOK
    <2>4. ASSUME NEW i \in DOMAIN toWorker'
          PROVE  RequestOK(i)'
      <3>1. CASE i \in DOMAIN toWorker
        <4>1. /\ toWorker'[i] = toWorker[i] /\ toWorker[i].client \in Clients /\ toWorker[i].op # "none"
              /\ i \in Nat
          BY <1>0, <2>2, <3>1, ElementTypes DEF SentMore
        <4>2. RequestOK(i)
          BY <1>0, <3>1 DEF TalkOK
        <4>3. toWorker[i].awaited => toWorker[i].client # c
          BY <1>0, <4>1, <4>2 DEF RequestOK, Awaits
        <4>4. toWorker[i].awaited =>
                /\ Awaits(toWorker[i].client, toWorker[i].op)'
                /\ NoReply(toWorker[i].client)'
                /\ context'[toWorker[i].client] = context[toWorker[i].client]
          BY <1>2, <2>1, <4>1, <4>2, <4>3 DEF RequestOK, Awaits, NoReply
        <4>5. toWorker[i].awaited =>
                \A j \in DOMAIN toWorker' : i < j => toWorker'[j].client # toWorker[i].client
          BY <2>2, <4>2, <4>3 DEF RequestOK, SentMore
        <4>6. Ended(toWorker[i].client, i) => Ended(toWorker[i].client, i)'
          BY <1>0, <2>2, <4>1, EndedSent
        <4> QED BY <2>1, <4>1, <4>2, <4>4, <4>5, <4>6 DEF RequestOK, Awaits, NoReply, Ended
      <3>2. CASE i = Len(toWorker) + 1
        <4>1. toWorker'[i] = request
          BY <2>2, <3>2 DEF SentMore
        <4>2. Awaits(c, request.op)' /\ NoReply(c)'
          BY <1>2, <1>4, <2>1 DEF Awaits, NoReply
        <4>3. \A j \in DOMAIN toWorker' : ~(i < j)
          BY <1>0, <2>2, <3>2, ElementTypes DEF SentMore
        <4> QED BY <1>0, <1>1, <4>1, <4>2, <4>3 DEF RequestOK, Awaits, NoReply
      <3> QED BY <2>2, <3>1, <3>2 DEF SentMore
    <2>5. ASSUME NEW i \in DOMAIN queue'
          PROVE  WaiterOK(i)'
      <3>1. WaiterOK(i) /\ queue'[i] = queue[i] /\ queue[i].client \in Clients /\ i \in DOMAIN queue
        BY <1>0, <2>1, ElementTypes DEF TalkOK
      <3>2. PICK q : q = queue[i].client /\ q = queue'[i].client
        BY <3>1
      <3>3. queue[i].awaited => q # c
        BY <1>0, <3>1, <3>2 DEF WaiterOK, Awaits
      <3>4. queue[i].awaited => Awaits(q, "acquire")' /\ NoReply(q)'
        BY <1>2, <2>1, <3>1, <3>2, <3>3 DEF WaiterOK, Awaits, NoReply
      <3>5. queue[i].awaited => NoRequest(q)'
        <4>1. queue[i].awaited => NoRequest(q)
          BY <3>1, <3>2 DEF WaiterOK
        <4>2. NoRequest(q) /\ q # c => NoRequest(q)'
          BY <2>2 DEF NoRequest, SentMore
        <4> QED BY <3>3, <4>1, <4>2
      <3>6. ~queue[i].awaited => Ended(q, 0)'
        <4>1. ~queue[i].awaited => Ended(q, 0)
          BY <3>1, <3>2 DEF WaiterOK
        <4> QED BY <1>0, <2>2, <4>1, EndedSent
      <3> QED BY <2>1, <3>1, <3>2, <3>4, <3>5, <3>6 DEF WaiterOK, Awaits, NoReply, NoRequest, Ended
    <2>6. \A i \in DOMAIN toParent' : ReplyOK(i)'
      BY <1>0, <1>2, <1>4, <2>1, ElementTypes DEF TalkOK, ReplyOK
    <2> QED BY <1>3, <2>3, <2>4, <2>5, <2>6 DEF TalkOK
  <1>6. CASE child = "dead"
    <2>1. /\ UNCHANGED <<generation, child, toWorker, toParent, lease, queue, record>>
      BY <1>6 DEF Call, Transmit, processVars, workerVars
    <2>2. toWorker' = <<>> /\ queue' = <<>>
      BY <1>0, <1>6, <2>1 DEF ProcessOK
    <2>3. ProcessOK'
      <3>1. \A d \in Clients : context'[d] <= generation' /\ calls'[d].generation <= generation'
        BY <1>0, <1>1, <1>2, <2>1 DEF ProcessOK
      <3> QED BY <1>0, <1>6, <2>1, <3>1 DEF ProcessOK
    <2>4. \A i \in DOMAIN toParent' : ReplyOK(i)'
      BY <1>0, <1>2, <1>4, <2>1, ElementTypes DEF TalkOK, ReplyOK
    <2> QED BY <1>3, <2>2, <2>3, <2>4, NoElements DEF TalkOK
  <1>7. CASE child \in {"closed", "none"}
    <2>1. Fork(<<request>>)
      BY <1>7 DEF Call, Transmit
    <2>2. /\ toWorker' = <<request>> /\ toParent' = <<>> /\ queue' = <<>> /\ lease' = NoLease
          /\ child' = "up" /\ generation' = generation + 1
      BY <2>1 DEF Fork, FreshWorker
    <2>3. ProcessOK'
      <3>1. \A d \in Clients : context'[d] <= generation' /\ calls'[d].generation <= generation'
        BY <1>0, <1>1, <1>2, <2>2 DEF ProcessOK
      <3> QED BY <1>0, <1>1, <2>2, <3>1 DEF ProcessOK, NoLease
    <2>4. ASSUME NEW i \in DOMAIN toWorker'
          PROVE  RequestOK(i)'
      <3>1. i = 1 /\ toWorker'[i] = request
        BY <2>2, <2>4
      <3>2. \A j \in DOMAIN toWorker' : ~(i < j)
        BY <2>2, <3>1
      <3>3. Awaits(c, request.op)' /\ NoReply(c)'
        BY <1>2, <2>2, NoElements DEF Awaits, NoReply
      <3> QED BY <1>0, <3>1, <3>2, <3>3 DEF RequestOK, Awaits, NoReply
    <2> QED BY <1>3, <2>2, <2>3, <2>4, NoElements DEF TalkOK
  <1> QED BY <1>5, <1>6, <1>7, <1>0 DEF TypeOK

(* What a client sends and what it becomes.                                 *)
LEMMA CallShape ==
    ASSUME TypeOK, NEW c \in Clients, ClientCalls(c) \/ Release(c)
    PROVE  \E m \in Requests :
             /\ m.client = c /\ m.awaited /\ m.generation = context[c] /\ Call(c, m)
             /\ m.op \in Operations
             /\ m.op = "saveJournal" => /\ store.generation = generation
                                        /\ m.revision = store.revision /\ m.base = store.journal
             /\ UNCHANGED <<store, file, faults>>
             /\ \A d \in Clients \ {c} : context'[d] = context[d] /\ phase'[d] = phase[d]
             /\ \/ /\ m.op = "acquire" /\ phase[c] = "idle"
                   /\ phase'[c] = "acquiring" /\ context'[c] = generation'
                \/ /\ m.op = "release" /\ phase[c] = "running"
                   /\ phase'[c] = "releasing" /\ context'[c] = context[c]
                \/ /\ m.op \notin {"acquire", "release"} /\ phase[c] = "running"
                   /\ phase'[c] = "running" /\ context'[c] = context[c]
  <1>0. /\ phase \in [Clients -> Phases] /\ context \in [Clients -> Nat]
        /\ store \in [generation : Nat, revision : Nat, journal : Journals]
    BY DEF TypeOK
  <1>1. ASSUME NEW op \in {"acquire", "release", "openJournal", "assertLease"}
        PROVE  \E m \in Requests : m = Request(c, op) /\ m.client = c /\ m.awaited /\ m.op = op
                                   /\ m.generation = context[c] /\ m.op \in Operations
    <2>1. op \in Operations
      BY DEF Operations
    <2>2. Request(c, op) \in Requests
      BY <2>1, RequestTypes
    <2> QED BY <2>1, <2>2 DEF Request
  <1>2. CASE Acquire(c)
    <2>1. PICK m \in Requests : m = Request(c, "acquire") /\ m.client = c /\ m.awaited /\ m.op = "acquire"
                                 /\ m.generation = context[c] /\ m.op \in Operations
      BY <1>1
    <2>2. /\ Call(c, m) /\ UNCHANGED <<store, file, faults>> /\ phase[c] = "idle"
          /\ phase' = [phase EXCEPT ![c] = "acquiring"]
          /\ context' = [context EXCEPT ![c] = generation']
      BY <1>2, <2>1 DEF Acquire, Call
    <2>3. /\ phase'[c] = "acquiring" /\ context'[c] = generation'
          /\ \A d \in Clients \ {c} : context'[d] = context[d] /\ phase'[d] = phase[d]
      BY <1>0, <2>2
    <2> QED BY <2>1, <2>2, <2>3
  <1>3. CASE Release(c)
    <2>1. PICK m \in Requests : m = Request(c, "release") /\ m.client = c /\ m.awaited /\ m.op = "release"
                                 /\ m.generation = context[c] /\ m.op \in Operations
      BY <1>1
    <2>2. /\ Call(c, m) /\ UNCHANGED <<store, file, faults, context>> /\ phase[c] = "running"
          /\ phase' = [phase EXCEPT ![c] = "releasing"]
      BY <1>3, <2>1 DEF Release, Call
    <2>3. /\ phase'[c] = "releasing" /\ \A d \in Clients \ {c} : phase'[d] = phase[d]
      BY <1>0, <2>2
    <2> QED BY <2>1, <2>2, <2>3
  <1>4. CASE OpenJournal(c) \/ AssertLease(c)
    <2>1. PICK op \in {"openJournal", "assertLease"} :
            /\ Call(c, Request(c, op)) /\ phase[c] = "running" /\ UNCHANGED <<phase, context, store>>
      BY <1>4 DEF OpenJournal, AssertLease
    <2>2. PICK m \in Requests : m = Request(c, op) /\ m.client = c /\ m.awaited /\ m.op = op
                                 /\ m.generation = context[c] /\ m.op \in Operations
      BY <1>1
    <2> QED BY <2>1, <2>2 DEF Call
  <1>5. ASSUME NEW journal \in Journals, SaveJournal(c, journal)
        PROVE  \E m \in Requests :
                 /\ m.client = c /\ m.awaited /\ m.generation = context[c] /\ Call(c, m)
                 /\ m.op = "saveJournal" /\ m.op \in Operations
                 /\ m.revision = store.revision /\ m.base = store.journal
    <2>1. PICK m \in Requests : m = SaveRequest(c, journal)
      BY <1>0, RequestTypes DEF TypeOK
    <2>2. /\ m.client = c /\ m.awaited /\ m.op = "saveJournal" /\ m.generation = context[c]
          /\ m.revision = store.revision /\ m.base = store.journal
      BY <2>1 DEF SaveRequest, Request
    <2> QED BY <1>5, <2>1, <2>2 DEF SaveJournal, Operations
  <1>6. CASE \E journal \in Journals : SaveJournal(c, journal)
    <2>1. /\ UNCHANGED <<phase, context, store, file, faults>> /\ phase[c] = "running"
          /\ store.generation = generation
      BY <1>6 DEF SaveJournal, Call
    <2> QED BY <1>5, <1>6, <2>1
  <1>7. ASSUME NEW body \in Bodies, Grpc(c, body)
        PROVE  \E m \in Requests :
                 /\ m.client = c /\ m.awaited /\ m.generation = context[c] /\ Call(c, m)
                 /\ m.op = "grpc" /\ m.op \in Operations
    <2>1. PICK m \in Requests : m = [Request(c, "grpc") EXCEPT !.body = body]
      BY <1>0, RequestTypes DEF TypeOK
    <2>2. m.client = c /\ m.awaited /\ m.op = "grpc" /\ m.generation = context[c]
      BY <2>1 DEF Request
    <2> QED BY <1>7, <2>1, <2>2 DEF Grpc, Operations
  <1>8. CASE \E body \in Bodies : Grpc(c, body)
    <2>1. UNCHANGED <<phase, context, store, file, faults>> /\ phase[c] = "running"
      BY <1>8 DEF Grpc, Call
    <2> QED BY <1>7, <1>8, <2>1
  <1> QED BY <1>2, <1>3, <1>4, <1>6, <1>8 DEF ClientCalls

(* A client that calls awaits nothing else, so its request is its only one. *)
LEMMA ClientCallsProtocol ==
    ASSUME Protocol, TypeOK', NEW c \in Clients, ClientCalls(c) \/ Release(c)
    PROVE  Protocol'
  <1>0. TypeOK /\ PhasesOK
    BY DEF Protocol
  <1>1. PICK m \in Requests :
             /\ m.client = c /\ m.awaited /\ m.generation = context[c] /\ Call(c, m)
             /\ m.op \in Operations
             /\ UNCHANGED store
             /\ \A d \in Clients \ {c} : context'[d] = context[d] /\ phase'[d] = phase[d]
             /\ \/ /\ m.op = "acquire" /\ phase[c] = "idle"
                   /\ phase'[c] = "acquiring" /\ context'[c] = generation'
                \/ /\ m.op = "release" /\ phase[c] = "running"
                   /\ phase'[c] = "releasing" /\ context'[c] = context[c]
                \/ /\ m.op \notin {"acquire", "release"} /\ phase[c] = "running"
                   /\ phase'[c] = "running" /\ context'[c] = context[c]
    BY <1>0, CallShape
  <1>2. /\ ProcessOK' /\ TalkOK'
        /\ calls' = [calls EXCEPT ![c] = [op |-> m.op, generation |-> generation',
                                      journal |-> m.journal]]
    BY <1>1, CallTalk
  <1>3. /\ \A d \in Clients \ {c} : calls'[d] = calls[d]
        /\ calls'[c].op = m.op /\ calls'[c].generation = generation'
    BY <1>0, <1>2 DEF TypeOK
  <1>4. PhasesOK'
    BY <1>0, <1>1, <1>3 DEF PhasesOK
  <1> QED BY <1>2, <1>4 DEF Protocol

--------------------------------------------------------------------------------
(* A client is answered.                                                    *)

(* What a reply for c changes: c no longer awaits anything. *)
LEMMA AnsweredTalk ==
    ASSUME Protocol, NEW c \in Clients, NEW op \in Operations, Answered(c, op),
           \A d \in Clients \ {c} : context'[d] = context[d] /\ phase'[d] = phase[d],
           context'[c] = context[c] \/ context'[c] = 0,
           store'.generation \in {store.generation, calls[c].generation}
    PROVE  ProcessOK' /\ TalkOK' /\ calls' = [calls EXCEPT ![c] = NoCall]
  <1>0. TypeOK /\ ProcessOK /\ PhasesOK /\ TalkOK
    BY DEF Protocol
  <1>1. /\ \A d \in Clients \ {c} : calls'[d] = calls[d]
        /\ calls'[c].op = "none" /\ calls'[c].generation = 0
        /\ calls' = [calls EXCEPT ![c] = NoCall]
    BY <1>0 DEF Answered, TypeOK, NoCall
  <1>2. /\ UNCHANGED <<generation, child, toWorker, queue, lease>>
        /\ toParent # <<>> /\ toParent' = Tail(toParent)
        /\ calls[c].op = op /\ Head(toParent).client = c
    BY DEF Answered, processVars, workerVars
  <1>3. toParent \in Seq(Replies)
    BY <1>0 DEF TypeOK
  <1>4. /\ 1 \in DOMAIN toParent /\ toParent[1].client = c
        /\ \A i \in DOMAIN toParent' : i \in Nat /\ 0 < i /\ i + 1 \in DOMAIN toParent
                                        /\ toParent'[i] = toParent[i + 1]
    BY <1>2, <1>3, TakingIndexes
  <1>5. ~NoReply(c)
    BY <1>4 DEF NoReply
  <1>6. \A d : NoReply(d) => NoReply(d)'
    BY <1>4 DEF NoReply
  <1>7. ProcessOK'
    <2>1. \A d \in Clients : context[d] <= generation /\ calls[d].generation <= generation
      BY <1>0 DEF ProcessOK
    <2>2. \A d \in Clients : context'[d] <= generation /\ calls'[d].generation <= generation
      BY <1>0, <1>1, <2>1 DEF TypeOK
    <2>3. store'.generation <= generation
      BY <1>0, <2>1 DEF ProcessOK
    <2> QED BY <1>0, <1>2, <2>2, <2>3 DEF ProcessOK
  <1>8. ASSUME NEW i \in DOMAIN toWorker'
        PROVE  RequestOK(i)'
    <2>1. /\ i \in DOMAIN toWorker /\ RequestOK(i) /\ toWorker[i].client \in Clients
      BY <1>0, <1>2, <1>8, ElementTypes DEF TalkOK
    <2>2. PICK m : m = toWorker[i] /\ m = toWorker'[i]
      BY <1>2
    <2>3. m.awaited => m.client # c
      BY <1>5, <2>1, <2>2 DEF RequestOK
    <2>4. m.awaited => Awaits(m.client, m.op)' /\ NoReply(m.client)' /\ context'[m.client] = context[m.client]
      BY <1>1, <1>2, <1>6, <2>1, <2>2, <2>3 DEF RequestOK, Awaits
    <2>5. Ended(m.client, i) => Ended(m.client, i)'
      BY <1>2 DEF Ended, EndedBy
    <2> QED BY <1>2, <2>1, <2>2, <2>4, <2>5 DEF RequestOK
  <1>9. ASSUME NEW i \in DOMAIN queue'
        PROVE  WaiterOK(i)'
    <2>1. /\ i \in DOMAIN queue /\ WaiterOK(i) /\ queue[i].client \in Clients
      BY <1>0, <1>2, <1>9, ElementTypes DEF TalkOK
    <2>2. PICK m : m = queue[i] /\ m = queue'[i]
      BY <1>2
    <2>3. m.awaited => m.client # c
      BY <1>5, <2>1, <2>2 DEF WaiterOK
    <2>4. m.awaited => Awaits(m.client, "acquire")' /\ NoReply(m.client)' /\ NoRequest(m.client)'
      BY <1>1, <1>2, <1>6, <2>1, <2>2, <2>3 DEF WaiterOK, Awaits, NoRequest
    <2>5. Ended(m.client, 0) => Ended(m.client, 0)'
      BY <1>2 DEF Ended, EndedBy
    <2> QED BY <1>2, <2>1, <2>2, <2>4, <2>5 DEF WaiterOK
  <1>10. ASSUME NEW i \in DOMAIN toParent'
         PROVE  ReplyOK(i)'
    <2>1. /\ i \in Nat /\ 0 < i /\ i + 1 \in DOMAIN toParent /\ toParent'[i] = toParent[i + 1]
          /\ ReplyOK(i + 1) /\ toParent[i + 1].client \in Clients
      BY <1>0, <1>4, <1>10, ElementTypes DEF TalkOK
    <2>2. PICK r : r = toParent[i + 1] /\ r = toParent'[i]
      BY <2>1
    <2>3. r.client # c
      <3>1. 1 # i + 1
        BY <2>1
      <3> QED BY <1>4, <2>1, <2>2, <3>1 DEF ReplyOK
    <2>4. \A j \in DOMAIN toParent' : toParent'[j].client = r.client => i = j
      <3>1. ASSUME NEW j \in DOMAIN toParent', toParent'[j].client = r.client
            PROVE  i + 1 = j + 1 /\ j \in Nat
        BY <1>4, <2>1, <2>2, <3>1 DEF ReplyOK
      <3> QED BY <2>1, <3>1
    <2>5. calls'[r.client] = calls[r.client]
      BY <1>1, <2>1, <2>2, <2>3
    <2> QED BY <1>2, <2>1, <2>2, <2>4, <2>5 DEF ReplyOK
  <1> QED BY <1>1, <1>7, <1>8, <1>9, <1>10 DEF TalkOK

(* A client is told of the call it awaits, once.                            *)
LEMMA HandleReplyProtocol ==
    ASSUME Protocol, TypeOK', NEW c \in Clients, HandleReply(c)
    PROVE  Protocol'
  <1>0. TypeOK /\ ProcessOK /\ PhasesOK /\ TalkOK /\ calls[c] \in Calls
    BY DEF Protocol, TypeOK
  <1>1. PICK op \in Operations : Answered(c, op)
    BY DEF HandleReply, AcquireAnswered, ReleaseAnswered, AssertAnswered, GrpcAnswered,
           OpenAnswered, SaveAnswered, Operations
  <1>2. store'.generation \in {store.generation, calls[c].generation}
    <2>1. CASE OpenAnswered(c)
      BY <2>1 DEF OpenAnswered
    <2>2. CASE SaveAnswered(c)
      BY <1>0, <2>2 DEF SaveAnswered, TypeOK
    <2>3. CASE UNCHANGED store
      BY <2>3
    <2> QED BY <2>1, <2>2, <2>3 DEF HandleReply, AcquireAnswered, ReleaseAnswered,
                                    AssertAnswered, GrpcAnswered
  <1>3. \/ /\ calls[c].op = "acquire"
           /\ phase' = [phase EXCEPT ![c] = "running"] /\ UNCHANGED context
        \/ Leave(c)
        \/ calls[c].op \notin {"acquire", "release"} /\ UNCHANGED <<phase, context>>
    BY DEF HandleReply, AcquireAnswered, ReleaseAnswered, AssertAnswered, GrpcAnswered,
           OpenAnswered, SaveAnswered, Answered
  <1>4. /\ \A d \in Clients \ {c} : context'[d] = context[d] /\ phase'[d] = phase[d]
        /\ context'[c] = context[c] \/ context'[c] = 0
    BY <1>0, <1>3 DEF TypeOK, Leave
  <1>5. ProcessOK' /\ TalkOK' /\ calls' = [calls EXCEPT ![c] = NoCall]
    BY <1>1, <1>2, <1>4, AnsweredTalk
  <1>6. /\ \A d \in Clients \ {c} : calls'[d] = calls[d]
        /\ calls'[c].op = "none" /\ calls'[c].generation = 0
    BY <1>0, <1>5 DEF TypeOK, NoCall
  <1>7. PhasesOK'
    <2>1. \/ phase'[c] = "running"
          \/ phase'[c] = "idle" /\ context'[c] = 0
      <3>1. CASE phase' = [phase EXCEPT ![c] = "running"]
        BY <1>0, <3>1 DEF TypeOK
      <3>2. CASE Leave(c)
        BY <1>0, <3>2 DEF TypeOK, Leave
      <3>3. CASE calls[c].op \notin {"acquire", "release"} /\ UNCHANGED <<phase, context>>
        <4>1. calls[c].op # "none"
          BY <1>1 DEF Answered, Operations
        <4>2. phase[c] \in Phases
          BY <1>0 DEF TypeOK
        <4> QED BY <1>0, <3>3, <4>1, <4>2 DEF PhasesOK, Phases
      <3> QED BY <1>3, <3>1, <3>2, <3>3
    <2> QED BY <1>0, <1>4, <1>6, <2>1 DEF PhasesOK
  <1> QED BY <1>5, <1>7 DEF Protocol

--------------------------------------------------------------------------------
(* Timeouts. *)

(* After its timeout no reply of c is left.                                 *)
LEMMA TimeoutCommon ==
    ASSUME Protocol, NEW c \in Clients, calls' = [calls EXCEPT ![c] = NoCall],
           toParent' = Without(toParent, c)
    PROVE  /\ \A d \in Clients \ {c} : calls'[d] = calls[d]
           /\ calls'[c].op = "none" /\ calls'[c].generation = 0
           /\ \A d : NoReply(d) => NoReply(d)'
           /\ NoReply(c)'
           /\ generation' = generation => \A i \in DOMAIN toParent' : ReplyOK(i)'
  <1>0. TypeOK /\ TalkOK /\ toParent \in Seq(Replies)
    BY DEF Protocol, TypeOK
  <1>1. /\ \A d \in Clients \ {c} : calls'[d] = calls[d]
        /\ calls'[c].op = "none" /\ calls'[c].generation = 0
    BY <1>0 DEF TypeOK, NoCall
  <1>2. \A i, j \in DOMAIN toParent : toParent[i].client = toParent[j].client => i = j
    BY <1>0 DEF TalkOK, ReplyOK
  <1>3. /\ \A i \in DOMAIN toParent' : \E k \in DOMAIN toParent : toParent'[i] = toParent[k]
        /\ \A i \in DOMAIN toParent' : toParent'[i].client # c
        /\ \A i, j \in DOMAIN toParent' : toParent'[i].client = toParent'[j].client => i = j
    BY <1>0, <1>2, WithoutClient
  <1>4. \A d : NoReply(d) => NoReply(d)'
    BY <1>3 DEF NoReply
  <1>5. NoReply(c)'
    BY <1>3 DEF NoReply
  <1>6. ASSUME generation' = generation, NEW i \in DOMAIN toParent'
        PROVE  ReplyOK(i)'
    <2>1. PICK k \in DOMAIN toParent : toParent'[i] = toParent[k]
      BY <1>3
    <2>2. ReplyOK(k) /\ toParent[k].client \in Clients
      BY <1>0, ElementTypes DEF TalkOK
    <2>3. calls'[toParent[k].client] = calls[toParent[k].client]
      BY <1>1, <1>3, <2>1, <2>2
    <2> QED BY <1>3, <1>6, <2>1, <2>2, <2>3 DEF ReplyOK
  <1> QED BY <1>1, <1>4, <1>5, <1>6

(* c gives up what it awaits; the requests are the same otherwise.          *)
GivenUp(c) ==
    /\ \A i \in DOMAIN toWorker :
         /\ i \in DOMAIN toWorker'
         /\ toWorker'[i].client = toWorker[i].client
         /\ toWorker'[i].op = toWorker[i].op
         /\ toWorker'[i].generation = toWorker[i].generation
         /\ toWorker'[i].revision = toWorker[i].revision
         /\ toWorker'[i].journal = toWorker[i].journal
         /\ toWorker'[i].base = toWorker[i].base
         /\ toWorker'[i].body = toWorker[i].body
         /\ toWorker'[i].awaited = (toWorker[i].awaited /\ toWorker[i].client # c)

(* And the child is told.                                                   *)
Told(c) ==
    /\ \A i \in DOMAIN toWorker' : i \in DOMAIN toWorker \/ i = Len(toWorker) + 1
    /\ Len(toWorker) + 1 \in DOMAIN toWorker'
    /\ toWorker'[Len(toWorker) + 1].client = c
    /\ toWorker'[Len(toWorker) + 1].op = "cancelAcquire"
    /\ ~toWorker'[Len(toWorker) + 1].awaited
    /\ toWorker'[Len(toWorker) + 1].generation = context[c]

NotTold == \A i \in DOMAIN toWorker' : i \in DOMAIN toWorker

(* A cancellation stays on its way when a client gives up.                  *)
LEMMA EndedGivenUp ==
    ASSUME TypeOK, NEW c, GivenUp(c), Told(c) \/ NotTold, NEW d, NEW i \in Nat, Ended(d, i)
    PROVE  Ended(d, i)'
  <1>1. PICK j \in DOMAIN toWorker : EndedBy(d, i, j)
    BY DEF Ended
  <1>2. /\ j \in DOMAIN toWorker' /\ toWorker'[j].client = toWorker[j].client
        /\ toWorker'[j].op = toWorker[j].op /\ j <= Len(toWorker) /\ j \in Nat /\ Len(toWorker) \in Nat
    BY <1>1, ElementTypes DEF GivenUp
  <1>3. ASSUME NEW k \in DOMAIN toWorker', i < k, k < j, toWorker'[k].client = d
        PROVE  toWorker'[k].op # "acquire"
    <2>1. k \in DOMAIN toWorker
      BY <1>2, <1>3 DEF Told, NotTold
    <2> QED BY <1>1, <1>3, <2>1 DEF EndedBy, GivenUp
  <1>4. EndedBy(d, i, j)'
    BY <1>1, <1>2, <1>3 DEF EndedBy
  <1> QED BY <1>2, <1>4 DEF Ended

(* The cancellation ends whatever c asked for and was not yet granted.      *)
LEMMA EndedTold ==
    ASSUME TypeOK, NEW c, GivenUp(c), Told(c), NEW i \in Nat, i <= Len(toWorker),
           \A k \in DOMAIN toWorker : i < k /\ toWorker[k].client = c => toWorker[k].op # "acquire"
    PROVE  Ended(c, i)'
  <1>1. PICK j : j = Len(toWorker) + 1 /\ j \in Nat /\ i < j /\ Len(toWorker) \in Nat
    BY ElementTypes
  <1>2. ASSUME NEW k \in DOMAIN toWorker', i < k, k < j, toWorker'[k].client = c
        PROVE  toWorker'[k].op # "acquire"
    <2>1. k \in DOMAIN toWorker
      BY <1>1, <1>2 DEF Told
    <2> QED BY <1>2, <2>1 DEF GivenUp
  <1>3. EndedBy(c, i, j)'
    BY <1>1, <1>2 DEF EndedBy, Told
  <1> QED BY <1>1, <1>3 DEF Ended, Told

(* The admission timeout tells the child if there is one.                   *)
LEMMA AcquireTimesOutShape ==
    ASSUME Protocol, NEW c \in Clients, AcquireTimesOut(c)
    PROVE  /\ GivenUp(c)
           /\ InService(c) => Told(c) /\ context[c] = generation
           /\ ~InService(c) => NotTold
           /\ DOMAIN queue' = DOMAIN queue
           /\ \A i \in DOMAIN queue :
                /\ queue'[i].client = queue[i].client
                /\ queue'[i].awaited = (queue[i].awaited /\ queue[i].client # c)
  <1>0. /\ TypeOK /\ PhasesOK /\ toWorker \in Seq(Requests) /\ queue \in Seq(Requests)
        /\ Len(toWorker) \in Nat
    BY DEF Protocol, TypeOK
  <1>1. PICK w, m : /\ w = Unawaited(toWorker, c)
                    /\ m = [Request(c, "cancelAcquire") EXCEPT !.awaited = FALSE]
    OBVIOUS
  <1>2. /\ w \in Seq(Requests) /\ DOMAIN w = DOMAIN toWorker /\ Len(w) = Len(toWorker)
        /\ DOMAIN toWorker = 1 .. Len(toWorker)
        /\ \A i \in 1 .. Len(toWorker) :
             /\ w[i].client = toWorker[i].client
             /\ w[i].op = toWorker[i].op
             /\ w[i].generation = toWorker[i].generation
             /\ w[i].revision = toWorker[i].revision
             /\ w[i].journal = toWorker[i].journal
             /\ w[i].base = toWorker[i].base
             /\ w[i].body = toWorker[i].body
             /\ w[i].awaited = (toWorker[i].awaited /\ toWorker[i].client # c)
    BY <1>0, <1>1, UnawaitedRequests
  <1>3. /\ m \in Requests /\ m.client = c /\ m.op = "cancelAcquire" /\ ~m.awaited
        /\ m.generation = context[c]
    BY <1>0, <1>1, RequestTypes DEF Request
  <1>4. /\ DOMAIN queue' = DOMAIN queue
        /\ \A i \in DOMAIN queue :
             /\ queue'[i].client = queue[i].client
             /\ queue'[i].awaited = (queue[i].awaited /\ queue[i].client # c)
    <2>1. queue' = Unawaited(queue, c)
      BY DEF AcquireTimesOut
    <2> QED BY <1>0, <2>1, UnawaitedRequests
  <1>5. CASE InService(c)
    <2>1. toWorker' = Append(w, m)
      BY <1>1, <1>5 DEF AcquireTimesOut
    <2>2. /\ \A i \in DOMAIN w : i \in DOMAIN toWorker' /\ toWorker'[i] = w[i]
          /\ Len(w) + 1 \in DOMAIN toWorker' /\ toWorker'[Len(w) + 1] = m
          /\ \A i \in DOMAIN toWorker' : i \in DOMAIN w \/ i = Len(w) + 1
      BY <1>2, <1>3, <2>1, AddingIndexes
    <2>3. context[c] = generation
      BY <1>0, <1>5 DEF AcquireTimesOut, InService, PhasesOK
    <2>4. GivenUp(c)
      BY <1>2, <2>2 DEF GivenUp
    <2>5. Told(c)
      BY <1>2, <1>3, <2>2 DEF Told
    <2> QED BY <1>4, <1>5, <2>3, <2>4, <2>5
  <1>6. CASE ~InService(c)
    <2>1. toWorker' = w
      BY <1>1, <1>6 DEF AcquireTimesOut
    <2> QED BY <1>2, <1>4, <1>6, <2>1 DEF GivenUp, NotTold
  <1> QED BY <1>5, <1>6

(* Who leaves is idle and has no lease.                                     *)
LEMMA LeaveChanges ==
    ASSUME TypeOK, NEW c \in Clients, Leave(c)
    PROVE  /\ \A d \in Clients \ {c} : context'[d] = context[d] /\ phase'[d] = phase[d]
           /\ context'[c] = 0 /\ phase'[c] = "idle"
  BY DEF TypeOK, Leave

(* The admission timeout: the request that was given up has its cancellation*)
(* behind it.                                                               *)
LEMMA AcquireTimesOutProtocol ==
    ASSUME Protocol, TypeOK', NEW c \in Clients, AcquireTimesOut(c)
    PROVE  Protocol'
  <1>0. TypeOK /\ ProcessOK /\ PhasesOK /\ TalkOK
    BY DEF Protocol
  <1>1. /\ calls[c].op = "acquire" /\ calls' = [calls EXCEPT ![c] = NoCall]
        /\ Leave(c) /\ toParent' = Without(toParent, c)
        /\ UNCHANGED <<generation, child, store, lease, record, file>>
    BY DEF AcquireTimesOut, processVars
  <1>2. /\ \A d \in Clients \ {c} : calls'[d] = calls[d]
        /\ calls'[c].op = "none" /\ calls'[c].generation = 0
        /\ \A d : NoReply(d) => NoReply(d)'
        /\ \A i \in DOMAIN toParent' : ReplyOK(i)'
    BY <1>1, TimeoutCommon
  <1>3. /\ \A d \in Clients \ {c} : context'[d] = context[d] /\ phase'[d] = phase[d]
        /\ context'[c] = 0 /\ phase'[c] = "idle"
    BY <1>0, <1>1, LeaveChanges
  <1>4. /\ GivenUp(c)
        /\ InService(c) => Told(c) /\ context[c] = generation
        /\ ~InService(c) => NotTold
        /\ DOMAIN queue' = DOMAIN queue
        /\ \A i \in DOMAIN queue :
             /\ queue'[i].client = queue[i].client
             /\ queue'[i].awaited = (queue[i].awaited /\ queue[i].client # c)
    BY AcquireTimesOutShape
  <1>5. PhasesOK'
    BY <1>0, <1>2, <1>3 DEF PhasesOK
  <1>6. ProcessOK'
    <2>0. /\ toWorker = <<>> => Unawaited(toWorker, c) = <<>>
          /\ queue = <<>> => Unawaited(queue, c) = <<>>
          /\ queue' = Unawaited(queue, c)
          /\ ~InService(c) => toWorker' = Unawaited(toWorker, c)
      BY <1>0, UnawaitedRequests DEF AcquireTimesOut, TypeOK
    <2>1. child # "up" => toWorker' = <<>> /\ queue' = <<>>
      BY <1>0, <2>0 DEF ProcessOK, InService
    <2>2. lease.holder = Nobody => queue' = <<>>
      BY <1>0, <2>0 DEF ProcessOK
    <2>3. \A d \in Clients : context'[d] <= generation /\ calls'[d].generation <= generation
      <3>1. /\ generation \in Nat
            /\ \A d \in Clients : context[d] <= generation /\ calls[d].generation <= generation
        BY <1>0 DEF ProcessOK, TypeOK
      <3>2. 0 <= generation
        BY <3>1
      <3> QED BY <1>2, <1>3, <3>1, <3>2
    <2> QED BY <1>0, <1>1, <2>1, <2>2, <2>3 DEF ProcessOK
  <1>7. child = "up" \/ (toWorker = <<>> /\ queue = <<>>)
    BY <1>0 DEF ProcessOK
  <1>9. ASSUME NEW i \in DOMAIN toWorker'
        PROVE  RequestOK(i)'
    <2>1. CASE i \in DOMAIN toWorker
      <3>1. /\ RequestOK(i) /\ toWorker[i].client \in Clients /\ i \in Nat /\ i <= Len(toWorker)
            /\ child = "up" /\ Len(toWorker) \in Nat
        BY <1>0, <1>7, <2>1, ElementTypes, NoElements DEF TalkOK
      <3>2. PICK m, n : m = toWorker[i] /\ n = toWorker'[i]
        OBVIOUS
      <3>3. /\ n.client = m.client /\ n.op = m.op /\ n.generation = m.generation
            /\ n.awaited = (m.awaited /\ m.client # c)
        BY <1>4, <2>1, <3>2 DEF GivenUp
      <3>4. m.awaited => /\ Awaits(m.client, m.op) /\ NoReply(m.client)
                         /\ \A j \in DOMAIN toWorker : i < j => toWorker[j].client # m.client
        BY <3>1, <3>2 DEF RequestOK
      <3>5. n.awaited => Awaits(n.client, n.op)' /\ NoReply(n.client)'
        <4>1. n.awaited => m.awaited /\ m.client # c
          BY <3>3
        <4>2. m.client \in Clients
          BY <3>1, <3>2
        <4>3. n.awaited => calls'[m.client] = calls[m.client] /\ NoReply(m.client)'
          BY <1>2, <3>4, <4>1, <4>2
        <4> QED BY <1>1, <3>3, <3>4, <4>1, <4>3 DEF Awaits, NoReply
      <3>6. n.awaited => \A j \in DOMAIN toWorker' : i < j => toWorker'[j].client # n.client
        <4>1. ASSUME n.awaited, NEW j \in DOMAIN toWorker', i < j
              PROVE  toWorker'[j].client # n.client
          <5>1. CASE j \in DOMAIN toWorker
            BY <1>4, <3>3, <3>4, <4>1, <5>1 DEF GivenUp
          <5>2. CASE j \notin DOMAIN toWorker
            <6>1. toWorker'[j].client = c
              BY <1>4, <5>2 DEF Told, NotTold
            <6> QED BY <3>3, <4>1, <6>1
          <5> QED BY <5>1, <5>2
        <4> QED BY <4>1
      <3>7. n.op = "acquire" => n.awaited \/ Ended(n.client, i)'
        <4>1. CASE Ended(m.client, i)
          <5>1. Ended(m.client, i)'
            BY <1>0, <1>4, <3>1, <4>1, EndedGivenUp
          <5> QED BY <3>3, <5>1
        <4>2. CASE m.awaited /\ m.client # c
          BY <3>3, <4>2
        <4>3. CASE m.awaited /\ m.client = c
          <5>1. InService(c)
            BY <3>1, <3>4, <4>3 DEF InService, Awaits
          <5>2. \A k \in DOMAIN toWorker : i < k /\ toWorker[k].client = c => toWorker[k].op # "acquire"
            BY <3>4, <4>3
          <5>3. Ended(c, i)'
            BY <1>0, <1>4, <3>1, <5>1, <5>2, EndedTold
          <5> QED BY <3>3, <4>3, <5>3
        <4> QED BY <3>1, <3>2, <3>3, <4>1, <4>2, <4>3 DEF RequestOK
      <3>8. n.op = "release" => n.awaited /\ n.generation = context'[n.client]
        <4>1. n.op = "release" => m.awaited /\ m.generation = context[m.client]
          BY <3>1, <3>2, <3>3 DEF RequestOK
        <4>2. n.op = "release" => m.client # c
          BY <1>1, <3>3, <3>4, <4>1 DEF Awaits
        <4>3. m.client \in Clients
          BY <3>1, <3>2
        <4> QED BY <1>3, <3>3, <4>1, <4>2, <4>3
      <3>9. n.op = "cancelAcquire" => ~n.awaited /\ n.generation = generation'
        BY <1>1, <3>1, <3>2, <3>3 DEF RequestOK
      <3> QED BY <3>2, <3>5, <3>6, <3>7, <3>8, <3>9 DEF RequestOK, Awaits, NoReply, Ended
    <2>2. CASE i \notin DOMAIN toWorker
      <3>1. Told(c) /\ context[c] = generation /\ i = Len(toWorker) + 1
        BY <1>4, <1>9, <2>2 DEF Told, NotTold
      <3> QED BY <1>1, <3>1 DEF RequestOK, Told
    <2> QED BY <2>1, <2>2
  <1>10. ASSUME NEW i \in DOMAIN queue'
         PROVE  WaiterOK(i)'
    <2>1. /\ i \in DOMAIN queue /\ WaiterOK(i) /\ queue[i].client \in Clients /\ child = "up"
          /\ Len(toWorker) \in Nat
      BY <1>0, <1>4, <1>7, <1>10, ElementTypes, NoElements DEF TalkOK
    <2>2. PICK m, n : m = queue[i] /\ n = queue'[i]
      OBVIOUS
    <2>3. n.client = m.client /\ n.awaited = (m.awaited /\ m.client # c)
      BY <1>4, <2>1, <2>2
    <2>4. m.awaited => Awaits(m.client, "acquire") /\ NoReply(m.client) /\ NoRequest(m.client)
      BY <2>1, <2>2 DEF WaiterOK
    <2>5. n.awaited => Awaits(n.client, "acquire")' /\ NoReply(n.client)'
      BY <1>1, <1>2, <2>1, <2>2, <2>3, <2>4 DEF Awaits
    <2>6. n.awaited => NoRequest(n.client)'
      <3>1. ASSUME n.awaited, NEW j \in DOMAIN toWorker'
            PROVE  toWorker'[j].client # n.client
        <4>1. CASE j \in DOMAIN toWorker
          BY <1>4, <2>3, <2>4, <3>1, <4>1 DEF GivenUp, NoRequest
        <4>2. CASE j \notin DOMAIN toWorker
          <5>1. toWorker'[j].client = c
            BY <1>4, <4>2 DEF Told, NotTold
          <5> QED BY <2>3, <3>1, <5>1
        <4> QED BY <4>1, <4>2
      <3> QED BY <3>1 DEF NoRequest
    <2>7. ~n.awaited => Ended(n.client, 0)'
      <3>1. CASE ~m.awaited
        <4>1. Ended(m.client, 0)
          BY <2>1, <2>2, <3>1 DEF WaiterOK
        <4>2. Ended(m.client, 0)'
          BY <1>0, <1>4, <4>1, EndedGivenUp
        <4> QED BY <2>3, <4>2
      <3>2. CASE m.awaited /\ m.client = c
        <4>1. InService(c)
          BY <2>1, <2>4, <3>2 DEF InService, Awaits
        <4>2. \A k \in DOMAIN toWorker : 0 < k /\ toWorker[k].client = c => toWorker[k].op # "acquire"
          BY <2>4, <3>2 DEF NoRequest
        <4>3. Ended(c, 0)'
          BY <1>0, <1>4, <2>1, <4>1, <4>2, EndedTold
        <4> QED BY <2>3, <3>2, <4>3
      <3> QED BY <2>3, <3>1, <3>2
    <2>8. \A j \in DOMAIN queue' : queue'[j].client = n.client => i = j
      BY <1>4, <2>1, <2>2, <2>3 DEF WaiterOK
    <2> QED BY <2>2, <2>5, <2>6, <2>7, <2>8 DEF WaiterOK, Awaits, NoReply, NoRequest, Ended
  <1> QED BY <1>2, <1>5, <1>6, <1>9, <1>10 DEF Protocol, TalkOK

(* Another timeout: the child is killed, or was gone.                       *)
LEMMA RpcTimesOutProtocol ==
    ASSUME Protocol, TypeOK', NEW c \in Clients, RpcTimesOut(c)
    PROVE  Protocol'
  <1>0. TypeOK /\ ProcessOK /\ PhasesOK /\ TalkOK
    BY DEF Protocol
  <1>1. /\ calls[c].op \notin {"none", "acquire"} /\ calls' = [calls EXCEPT ![c] = NoCall]
        /\ toParent' = Without(toParent, c)
        /\ UNCHANGED <<generation, store, file>>
        /\ IF calls[c].op = "release" THEN Leave(c) ELSE UNCHANGED <<phase, context>>
    BY DEF RpcTimesOut
  <1>2. /\ \A d \in Clients \ {c} : calls'[d] = calls[d]
        /\ calls'[c].op = "none" /\ calls'[c].generation = 0
        /\ \A d : NoReply(d) => NoReply(d)'
        /\ \A i \in DOMAIN toParent' : ReplyOK(i)'
    BY <1>1, TimeoutCommon
  <1>3. /\ \A d \in Clients \ {c} : context'[d] = context[d] /\ phase'[d] = phase[d]
        /\ \/ context'[c] = 0 /\ phase'[c] = "idle"
           \/ context'[c] = context[c] /\ phase'[c] = phase[c] /\ calls[c].op # "release"
    BY <1>0, <1>1, LeaveChanges DEF TypeOK
  <1>4. PhasesOK'
    <2>1. phase[c] \in Phases /\ phase[c] # "idle" /\ phase[c] # "acquiring"
      BY <1>0, <1>1 DEF PhasesOK, TypeOK
    <2>2. calls[c].op # "release" => phase[c] = "running"
      BY <1>0, <2>1 DEF PhasesOK, Phases
    <2>3. phase'[c] = "running" \/ (phase'[c] = "idle" /\ context'[c] = 0)
      BY <1>3, <2>2
    <2> QED BY <1>0, <1>2, <1>3, <2>3 DEF PhasesOK
  <1>5. \A d \in Clients : context'[d] <= generation /\ calls'[d].generation <= generation
    <2>1. /\ generation \in Nat
          /\ \A d \in Clients : context[d] <= generation /\ calls[d].generation <= generation
      BY <1>0 DEF ProcessOK, TypeOK
    <2>2. 0 <= generation
      BY <2>1
    <2> QED BY <1>2, <1>3, <2>1, <2>2
  <1>6. CASE InService(c)
    <2>1. /\ child' = "dead" /\ toWorker' = <<>> /\ lease' = NoLease /\ queue' = <<>>
      BY <1>6 DEF RpcTimesOut, Dies, FreshWorker
    <2>2. ProcessOK'
      BY <1>0, <1>1, <1>5, <2>1 DEF ProcessOK, NoLease
    <2> QED BY <1>2, <1>4, <2>1, <2>2, NoElements DEF Protocol, TalkOK
  <1>7. CASE ~InService(c)
    <2>1. /\ toWorker' = Unawaited(toWorker, c)
          /\ UNCHANGED <<child, lease, queue, record>>
      BY <1>7 DEF RpcTimesOut, workerVars
    <2>2. /\ DOMAIN toWorker' = DOMAIN toWorker
          /\ toWorker = <<>> => toWorker' = <<>>
          /\ \A i \in DOMAIN toWorker :
               /\ toWorker'[i].client = toWorker[i].client
               /\ toWorker'[i].op = toWorker[i].op
               /\ toWorker'[i].generation = toWorker[i].generation
               /\ toWorker'[i].revision = toWorker[i].revision
               /\ toWorker'[i].journal = toWorker[i].journal
               /\ toWorker'[i].base = toWorker[i].base
               /\ toWorker'[i].body = toWorker[i].body
               /\ toWorker'[i].awaited = (toWorker[i].awaited /\ toWorker[i].client # c)
      <3>1. toWorker \in Seq(Requests) /\ DOMAIN toWorker = 1 .. Len(toWorker)
        BY <1>0, ElementTypes DEF TypeOK
      <3>2. PICK w : w = toWorker' /\ w = Unawaited(toWorker, c)
        BY <2>1
      <3>3. /\ DOMAIN w = DOMAIN toWorker
            /\ toWorker = <<>> => w = <<>>
            /\ \A i \in 1 .. Len(toWorker) :
                 /\ w[i].client = toWorker[i].client
                 /\ w[i].op = toWorker[i].op
                 /\ w[i].generation = toWorker[i].generation
                 /\ w[i].revision = toWorker[i].revision
                 /\ w[i].journal = toWorker[i].journal
                 /\ w[i].base = toWorker[i].base
                 /\ w[i].body = toWorker[i].body
                 /\ w[i].awaited = (toWorker[i].awaited /\ toWorker[i].client # c)
        BY <3>1, <3>2, UnawaitedRequests
      <3> QED BY <3>1, <3>2, <3>3
    <2>3. GivenUp(c) /\ NotTold
      BY <2>2 DEF GivenUp, NotTold
    <2>4. ProcessOK'
      BY <1>0, <1>1, <1>5, <2>1, <2>2 DEF ProcessOK
    <2>5. \A i \in DOMAIN toWorker : toWorker[i].awaited => toWorker[i].client # c
      <3>1. ASSUME NEW i \in DOMAIN toWorker, toWorker[i].awaited, toWorker[i].client = c
            PROVE  FALSE
        <4>1. Awaits(c, toWorker[i].op) /\ child = "up"
          BY <1>0, <3>1, NoElements DEF TalkOK, RequestOK, ProcessOK
        <4> QED BY <1>7, <4>1 DEF Awaits, InService
      <3> QED BY <3>1
    <2>6. ASSUME NEW i \in DOMAIN toWorker'
          PROVE  RequestOK(i)'
      <3>1. /\ i \in DOMAIN toWorker /\ RequestOK(i) /\ toWorker[i].client \in Clients /\ i \in Nat
        BY <1>0, <2>2, <2>6, ElementTypes DEF TalkOK
      <3>2. PICK m, n : m = toWorker[i] /\ n = toWorker'[i]
        OBVIOUS
      <3>3. /\ n.client = m.client /\ n.op = m.op /\ n.generation = m.generation
            /\ (n.awaited <=> m.awaited) /\ (m.awaited => m.client # c)
        BY <2>2, <2>5, <3>1, <3>2
      <3>4. n.awaited => Awaits(n.client, n.op)' /\ NoReply(n.client)'
        BY <1>1, <1>2, <3>1, <3>2, <3>3 DEF RequestOK, Awaits
      <3>5. n.awaited => \A j \in DOMAIN toWorker' : i < j => toWorker'[j].client # n.client
        BY <2>2, <3>1, <3>2, <3>3 DEF RequestOK
      <3>6. n.op = "acquire" => n.awaited \/ Ended(n.client, i)'
        BY <1>0, <2>3, <3>1, <3>2, <3>3, EndedGivenUp DEF RequestOK
      <3>7. n.op = "release" => n.awaited /\ n.generation = context'[n.client]
        BY <1>3, <3>1, <3>2, <3>3 DEF RequestOK
      <3>8. n.op = "cancelAcquire" => ~n.awaited /\ n.generation = generation'
        BY <1>1, <3>1, <3>2, <3>3 DEF RequestOK
      <3> QED BY <3>2, <3>4, <3>5, <3>6, <3>7, <3>8 DEF RequestOK, Awaits, NoReply, Ended
    <2>7. ASSUME NEW i \in DOMAIN queue'
          PROVE  WaiterOK(i)'
      <3>1. /\ i \in DOMAIN queue /\ WaiterOK(i) /\ queue[i].client \in Clients
        BY <1>0, <2>1, <2>7, ElementTypes DEF TalkOK
      <3>2. PICK m : m = queue[i] /\ m = queue'[i]
        BY <2>1
      <3>3. m.awaited => m.client # c
        BY <1>1, <3>1, <3>2 DEF WaiterOK, Awaits
      <3>4. m.awaited => Awaits(m.client, "acquire")' /\ NoReply(m.client)'
        BY <1>1, <1>2, <3>1, <3>2, <3>3 DEF WaiterOK, Awaits
      <3>5. NoRequest(m.client) => NoRequest(m.client)'
        BY <2>2 DEF NoRequest
      <3>6. Ended(m.client, 0) => Ended(m.client, 0)'
        BY <1>0, <2>3, EndedGivenUp
      <3> QED BY <2>1, <3>1, <3>2, <3>4, <3>5, <3>6 DEF WaiterOK
    <2> QED BY <1>2, <1>4, <2>4, <2>6, <2>7 DEF Protocol, TalkOK
  <1> QED BY <1>6, <1>7

--------------------------------------------------------------------------------
(* The process.                                                             *)

(* A new process has heard nothing.                                         *)
LEMMA ProcessesProtocol ==
    ASSUME Protocol, TypeOK', Processes
    PROVE  Protocol'
  <1>0. TypeOK /\ ProcessOK /\ PhasesOK /\ TalkOK /\ generation \in Nat
    BY DEF Protocol, TypeOK
  <1>1. \A d \in Clients : context[d] \in Nat /\ calls[d].generation \in Nat
    BY <1>0 DEF TypeOK, Calls
  <1>2. toWorker' = <<>> /\ queue' = <<>> /\ lease' = NoLease
    <2>1. CASE ChannelCloses \/ ExitNoticed
      <3>1. child # "up" /\ UNCHANGED <<toWorker, queue, lease>>
        BY <2>1 DEF ChannelCloses, ExitNoticed, workerVars
      <3> QED BY <1>0, <3>1 DEF ProcessOK
    <2>2. CASE ~(ChannelCloses \/ ExitNoticed)
      BY <2>2 DEF Processes, ChildDies, Dies, Respawn, ServerRestarts, Fork, FreshWorker
    <2> QED BY <2>1, <2>2
  <1>3. \/ /\ UNCHANGED <<generation, calls, phase, context, store>>
           /\ toParent' = toParent
        \/ toParent' = <<>>
    BY DEF Processes, ChildDies, ChannelCloses, ExitNoticed, Respawn, ServerRestarts, Fork
  <1>4. \/ UNCHANGED <<calls, phase, context>>
        \/ /\ calls' = [c \in Clients |-> NoCall]
           /\ phase' = [c \in Clients |-> IF phase[c] = "running" THEN "running" ELSE "idle"]
           /\ context' = [c \in Clients |-> IF phase[c] = "running" THEN context[c] ELSE 0]
        \/ /\ calls' = [c \in Clients |-> NoCall]
           /\ phase' = [c \in Clients |-> "idle"]
           /\ context' = [c \in Clients |-> 0]
    BY DEF Processes, ChildDies, ChannelCloses, ExitNoticed, Respawn, ServerRestarts
  <1>5. /\ generation' \in Nat /\ generation <= generation'
        /\ store' = store \/ store' = NoStore
    BY <1>0 DEF Processes, ChildDies, ChannelCloses, ExitNoticed, Respawn, ServerRestarts, Fork
  <1>6. PhasesOK'
    BY <1>0, <1>4 DEF PhasesOK, NoCall
  <1>7. ProcessOK'
    <2>1. \A d \in Clients : context[d] <= generation' /\ calls[d].generation <= generation'
      BY <1>0, <1>1, <1>5 DEF ProcessOK
    <2>2. \A d \in Clients : context'[d] <= generation' /\ calls'[d].generation <= generation'
      BY <1>4, <1>5, <2>1 DEF NoCall
    <2>3. store'.generation <= generation' /\ generation' > 0
      BY <1>0, <1>5 DEF ProcessOK, NoStore, TypeOK
    <2> QED BY <1>2, <2>2, <2>3 DEF ProcessOK, NoLease
  <1>8. \A i \in DOMAIN toParent' : ReplyOK(i)'
    BY <1>0, <1>3, NoElements DEF TalkOK, ReplyOK
  <1> QED BY <1>2, <1>6, <1>7, <1>8, NoElements DEF Protocol, TalkOK

--------------------------------------------------------------------------------
(* The steps of the child.                                                  *)

(* The first request is taken. *)
Shifted ==
    /\ toWorker # <<>> /\ 1 \in DOMAIN toWorker /\ Head(toWorker) = toWorker[1]
    /\ \A i \in DOMAIN toWorker' :
         i \in Nat /\ 0 < i /\ i + 1 \in DOMAIN toWorker /\ toWorker'[i] = toWorker[i + 1]
    /\ \A i \in DOMAIN toWorker :
         i \in Nat /\ (i = 1 \/ (1 < i /\ i - 1 \in DOMAIN toWorker' /\ toWorker'[i - 1] = toWorker[i]))

(* Receive takes the first request.                                         *)
LEMMA ReceiveShifts ==
    ASSUME TypeOK, NEW op, Receive(op)
    PROVE  Shifted
  BY TakingIndexes DEF TypeOK, Receive, Shifted

Cancels(m, c) == m.client = c /\ m.op = "cancelAcquire"

(* A cancellation moves up, unless it is the head.                          *)
LEMMA EndedShifted ==
    ASSUME Shifted, NEW c, NEW i \in Nat, NEW h \in Nat, Ended(c, i),
           \/ i = h + 1
           \/ i = 0 /\ h = 0 /\ ~Cancels(Head(toWorker), c)
    PROVE  Ended(c, h)'
  <1>1. PICK j \in DOMAIN toWorker : EndedBy(c, i, j)
    BY DEF Ended
  <1>2. j \in Nat /\ i < j /\ j # 1 /\ 1 < j /\ j - 1 \in DOMAIN toWorker' /\ toWorker'[j - 1] = toWorker[j]
    BY <1>1 DEF EndedBy, Shifted, Cancels
  <1>3. ASSUME NEW k \in DOMAIN toWorker', h < k, k < j - 1, toWorker'[k].client = c
        PROVE  toWorker'[k].op # "acquire"
    <2>1. k \in Nat /\ k + 1 \in DOMAIN toWorker /\ toWorker'[k] = toWorker[k + 1]
      BY <1>3 DEF Shifted
    <2>2. i < k + 1 /\ k + 1 < j
      BY <1>2, <1>3, <2>1
    <2> QED BY <1>1, <1>3, <2>1, <2>2 DEF EndedBy
  <1>4. h < j - 1
    BY <1>2
  <1>5. EndedBy(c, h, j - 1)'
    BY <1>1, <1>2, <1>3, <1>4 DEF EndedBy
  <1> QED BY <1>2, <1>5 DEF Ended

(* New replies, to clients that had none.                                   *)
Replied(A) ==
    /\ \A i \in DOMAIN toParent : i \in DOMAIN toParent' /\ toParent'[i] = toParent[i]
    /\ \A i \in DOMAIN toParent' : i \in DOMAIN toParent \/ toParent'[i].client \in A
    /\ \A i, j \in DOMAIN toParent' : toParent'[i].client = toParent'[j].client => i = j

(* No new reply,                                                            *)
LEMMA RepliedNone ==
    ASSUME TalkOK, toParent' = toParent
    PROVE  Replied({})
  BY DEF Replied, TalkOK, ReplyOK

(* one,                                                                     *)
LEMMA RepliedOne ==
    ASSUME TypeOK, TalkOK, NEW r \in Replies, NoReply(r.client), toParent' = Append(toParent, r)
    PROVE  /\ Replied({r.client})
           /\ \E i \in DOMAIN toParent' : toParent'[i] = r
  <1>1. /\ \A i \in DOMAIN toParent : i \in Nat /\ i <= Len(toParent)
                                  /\ i \in DOMAIN toParent' /\ toParent'[i] = toParent[i]
        /\ Len(toParent) + 1 \in DOMAIN toParent' /\ toParent'[Len(toParent) + 1] = r
        /\ \A i \in DOMAIN toParent' : i \in DOMAIN toParent \/ i = Len(toParent) + 1
    BY AddingIndexes DEF TypeOK
  <1>2. \A i \in DOMAIN toParent : toParent[i].client # r.client
    BY DEF NoReply
  <1>3. \A i, j \in DOMAIN toParent : toParent[i].client = toParent[j].client => i = j
    BY DEF TalkOK, ReplyOK
  <1>4. ASSUME NEW i \in DOMAIN toParent', NEW j \in DOMAIN toParent',
               toParent'[i].client = toParent'[j].client
        PROVE  i = j
    <2>1. CASE i \in DOMAIN toParent /\ j \in DOMAIN toParent
      BY <1>1, <1>3, <1>4, <2>1
    <2>2. CASE i = Len(toParent) + 1 /\ j = Len(toParent) + 1
      BY <2>2
    <2>3. CASE i \in DOMAIN toParent /\ j = Len(toParent) + 1
      BY <1>1, <1>2, <1>4, <2>3
    <2>4. CASE i = Len(toParent) + 1 /\ j \in DOMAIN toParent
      BY <1>1, <1>2, <1>4, <2>4
    <2> QED BY <1>1, <2>1, <2>2, <2>3, <2>4
  <1> QED BY <1>1, <1>4 DEF Replied

(* or two, to different clients.                                            *)
LEMMA RepliedTwo ==
    ASSUME TypeOK, TalkOK, NEW r \in Replies, NoReply(r.client), NEW s \in Replies, NoReply(s.client),
           r.client # s.client, toParent' = Append(Append(toParent, r), s)
    PROVE  /\ Replied({r.client, s.client})
           /\ \E i \in DOMAIN toParent' : toParent'[i] = r
  <1>0. toParent \in Seq(Replies)
    BY DEF TypeOK
  <1>1. PICK p, n : p = Append(toParent, r) /\ n = Len(toParent)
    OBVIOUS
  <1>2. /\ p \in Seq(Replies) /\ n \in Nat /\ Len(p) = n + 1
        /\ \A i \in DOMAIN toParent : i \in DOMAIN p /\ p[i] = toParent[i] /\ i \in Nat /\ i <= n
        /\ n + 1 \in DOMAIN p /\ p[n + 1] = r
        /\ \A i \in DOMAIN p : i \in DOMAIN toParent \/ i = n + 1
    <2>1. p \in Seq(Replies) /\ n \in Nat /\ Len(p) = n + 1
      BY <1>0, <1>1
    <2> QED BY <1>0, <1>1, <2>1, AddingIndexes
  <1>3. /\ \A i \in DOMAIN p : i \in DOMAIN toParent' /\ toParent'[i] = p[i]
        /\ n + 2 \in DOMAIN toParent' /\ toParent'[n + 2] = s
        /\ \A i \in DOMAIN toParent' : i \in DOMAIN p \/ i = n + 2
    <2>1. toParent' = Append(p, s) /\ Len(p) + 1 = n + 2
      BY <1>1, <1>2
    <2> QED BY <1>2, <2>1, AddingIndexes
  <1>4. \A i \in DOMAIN toParent : toParent[i].client # r.client /\ toParent[i].client # s.client
    BY DEF NoReply
  <1>5. \A i, j \in DOMAIN toParent : toParent[i].client = toParent[j].client => i = j
    BY DEF TalkOK, ReplyOK
  <1>6. \A i \in DOMAIN toParent' : \/ i \in DOMAIN toParent /\ toParent'[i] = toParent[i]
                                    \/ i = n + 1 /\ toParent'[i] = r
                                    \/ i = n + 2 /\ toParent'[i] = s
    BY <1>2, <1>3
  <1>7. \A i, j \in DOMAIN toParent' : toParent'[i].client = toParent'[j].client => i = j
    BY <1>4, <1>5, <1>6
  <1>8. /\ \A i \in DOMAIN toParent : i \in DOMAIN toParent' /\ toParent'[i] = toParent[i]
        /\ n + 1 \in DOMAIN toParent' /\ toParent'[n + 1] = r
    BY <1>2, <1>3
  <1> QED BY <1>6, <1>7, <1>8 DEF Replied

(* The other clients have no reply as before.                               *)
LEMMA NoReplyStays ==
    ASSUME NEW A, Replied(A), NEW c, c \notin A, NoReply(c)
    PROVE  NoReply(c)'
  BY DEF Replied, NoReply

(* A step of the child that tells the clients in A.                         *)
Handles(A) ==
    /\ UNCHANGED <<generation, calls, phase, context>>
    /\ Shifted \/ UNCHANGED toWorker
    /\ Replied(A)
    /\ \A a \in A : calls[a].op # "none" /\ calls[a].generation = generation /\ NoRequest(a)'

(* Such a step keeps what is on the channel in order.                       *)
LEMMA HandlesTalk ==
    ASSUME Protocol, NEW A, Handles(A)
    PROVE  /\ \A i \in DOMAIN toWorker' : RequestOK(i)'
           /\ \A i \in DOMAIN toParent' : ReplyOK(i)'
  <1>0. TypeOK /\ TalkOK
    BY DEF Protocol
  <1>1. /\ UNCHANGED <<generation, calls, phase, context>>
        /\ Shifted \/ UNCHANGED toWorker
        /\ Replied(A)
        /\ \A a \in A : calls[a].op # "none" /\ calls[a].generation = generation /\ NoRequest(a)'
    BY DEF Handles
  <1>2. ASSUME NEW i \in DOMAIN toWorker'
        PROVE  RequestOK(i)'
    <2>1. PICK h \in DOMAIN toWorker :
            /\ toWorker'[i] = toWorker[h] /\ i \in Nat /\ 0 < i
            /\ \/ Shifted /\ h = i + 1
               \/ UNCHANGED toWorker /\ h = i
      BY <1>0, <1>1, <1>2, ElementTypes DEF Shifted
    <2>2. PICK m : m = toWorker[h] /\ m = toWorker'[i]
      BY <2>1
    <2>3. RequestOK(h)
      BY <1>0, <2>1 DEF TalkOK
    <2>4. m.awaited => NoReply(m.client)'
      <3>1. m.client \notin A
        BY <1>1, <1>2, <2>2 DEF NoRequest
      <3>2. m.awaited => NoReply(m.client)
        BY <2>2, <2>3 DEF RequestOK
      <3> QED BY <1>1, <3>1, <3>2, NoReplyStays
    <2>5. m.awaited => Awaits(m.client, m.op)'
      BY <1>1, <2>2, <2>3 DEF RequestOK, Awaits
    <2>6. m.awaited => \A j \in DOMAIN toWorker' : i < j => toWorker'[j].client # m.client
      <3>1. ASSUME NEW j \in DOMAIN toWorker', i < j
            PROVE  \E k \in DOMAIN toWorker : h < k /\ toWorker'[j] = toWorker[k]
        <4>1. CASE Shifted /\ h = i + 1
          <5>1. j \in Nat /\ j + 1 \in DOMAIN toWorker /\ toWorker'[j] = toWorker[j + 1]
            BY <3>1, <4>1 DEF Shifted
          <5> QED BY <2>1, <3>1, <4>1, <5>1
        <4>2. CASE UNCHANGED toWorker /\ h = i
          BY <3>1, <4>2
        <4> QED BY <2>1, <4>1, <4>2
      <3> QED BY <2>2, <2>3, <3>1 DEF RequestOK
    <2>7. Ended(m.client, h) => Ended(m.client, i)'
      <3>1. CASE Shifted /\ h = i + 1
        BY <2>1, <3>1, EndedShifted
      <3>2. CASE UNCHANGED toWorker /\ h = i
        BY <3>2 DEF Ended, EndedBy
      <3> QED BY <2>1, <3>1, <3>2
    <2> QED BY <1>1, <2>2, <2>3, <2>4, <2>5, <2>6, <2>7 DEF RequestOK
  <1>3. ASSUME NEW i \in DOMAIN toParent'
        PROVE  ReplyOK(i)'
    <2>1. \A j \in DOMAIN toParent' : toParent'[j].client = toParent'[i].client => i = j
      BY <1>1, <1>3 DEF Replied
    <2>2. calls[toParent'[i].client].op # "none" /\ calls[toParent'[i].client].generation = generation
      <3>1. CASE i \in DOMAIN toParent
        BY <1>0, <1>1, <3>1 DEF Replied, TalkOK, ReplyOK
      <3>2. CASE toParent'[i].client \in A
        BY <1>1, <3>2
      <3> QED BY <1>1, <1>3, <3>1, <3>2 DEF Replied
    <2> QED BY <1>1, <2>1, <2>2 DEF ReplyOK
  <1> QED BY <1>2, <1>3

(* An entry of the queue that stays in it.                                  *)
LEMMA WaiterStays ==
    ASSUME Protocol, NEW A, Handles(A), NEW i \in DOMAIN queue, NEW m, m = queue[i],
           m.client \notin A,
           Shifted => ~Cancels(Head(toWorker), m.client)
    PROVE  /\ m.awaited => Awaits(m.client, "acquire")' /\ NoReply(m.client)' /\ NoRequest(m.client)'
           /\ ~m.awaited => Ended(m.client, 0)'
  <1>1. WaiterOK(i)
    BY DEF Protocol, TalkOK
  <1>2. m = queue[i]
    OBVIOUS
  <1>3. m.awaited => Awaits(m.client, "acquire")'
    BY <1>1, <1>2 DEF WaiterOK, Awaits, Handles
  <1>4. m.awaited => NoReply(m.client)'
    <2>1. m.awaited => NoReply(m.client)
      BY <1>1, <1>2 DEF WaiterOK
    <2> QED BY <1>2, <2>1, NoReplyStays DEF Handles
  <1>5. m.awaited => NoRequest(m.client)'
    <2>1. m.awaited => NoRequest(m.client)
      BY <1>1, <1>2 DEF WaiterOK
    <2> QED BY <2>1 DEF Handles, Shifted, NoRequest
  <1>6. ~m.awaited => Ended(m.client, 0)'
    <2>1. ~m.awaited => Ended(m.client, 0)
      BY <1>1, <1>2 DEF WaiterOK
    <2>2. CASE Shifted
      BY <1>2, <2>1, <2>2, EndedShifted
    <2>3. CASE UNCHANGED toWorker
      BY <2>1, <2>3 DEF Ended, EndedBy
    <2> QED BY <2>2, <2>3 DEF Handles
  <1> QED BY <1>3, <1>4, <1>5, <1>6

(* The queue loses entries, or none.                                        *)
Fewer ==
    /\ \A i \in DOMAIN queue' : \E k \in DOMAIN queue : queue'[i] = queue[k]
    /\ \A i, j \in DOMAIN queue' : queue'[i].client = queue'[j].client => i = j

(* And the whole protocol, when the queue loses the clients it tells and the*)
(* one it cancels.                                                          *)
LEMMA HandlesProtocol ==
    ASSUME Protocol, TypeOK', NEW A, Handles(A), Fewer,
           UNCHANGED <<child, store>>,
           child = "up",
           lease'.holder = Nobody => queue' = <<>> /\ ~lease'.lapsed,
           \A i \in DOMAIN queue' : /\ queue'[i].client \notin A
                                    /\ Shifted => ~Cancels(Head(toWorker), queue'[i].client)
    PROVE  Protocol'
  <1>0. TypeOK /\ ProcessOK /\ PhasesOK
    BY DEF Protocol
  <1>1. UNCHANGED <<generation, calls, phase, context>>
    BY DEF Handles
  <1>2. PhasesOK'
    BY <1>0, <1>1 DEF PhasesOK
  <1>3. ProcessOK'
    BY <1>0, <1>1 DEF ProcessOK
  <1>4. ASSUME NEW i \in DOMAIN queue'
        PROVE  WaiterOK(i)'
    <2>1. PICK k \in DOMAIN queue : queue'[i] = queue[k]
      BY <1>4 DEF Fewer
    <2>2. PICK m : m = queue[k] /\ m = queue'[i]
      BY <2>1
    <2>3. /\ m.awaited => Awaits(m.client, "acquire")' /\ NoReply(m.client)' /\ NoRequest(m.client)'
          /\ ~m.awaited => Ended(m.client, 0)'
      <3>1. m.client \notin A /\ (Shifted => ~Cancels(Head(toWorker), m.client))
        BY <1>4, <2>2
      <3> QED BY <2>1, <2>2, <3>1, WaiterStays
    <2>4. \A j \in DOMAIN queue' : queue'[j].client = m.client => i = j
      BY <1>4, <2>2 DEF Fewer
    <2> QED BY <2>2, <2>3, <2>4 DEF WaiterOK
  <1> QED BY <1>2, <1>3, <1>4, HandlesTalk DEF Protocol, TalkOK

--------------------------------------------------------------------------------
(* The head of the channel, and the next holder of the lease.               *)

(* The request at the head, of a client that waits for the answer.          *)
LEMMA HeadRequest ==
    ASSUME Protocol, Shifted, NEW m, m = Head(toWorker)
    PROVE  /\ m \in Requests /\ m.client \in Clients /\ 1 \in DOMAIN toWorker /\ toWorker[1] = m
           /\ child = "up" /\ RequestOK(1) /\ ~NoRequest(m.client)
           /\ m.awaited =>
                /\ Awaits(m.client, m.op) /\ NoReply(m.client) /\ NoRequest(m.client)'
                /\ m.op # "cancelAcquire"
           /\ m.awaited \/ m.op = "acquire" => \A i \in DOMAIN queue : queue[i].client # m.client
           /\ m.op = "acquire" /\ ~m.awaited => Ended(m.client, 0)'
  <1>0. TypeOK /\ ProcessOK /\ TalkOK
    BY DEF Protocol
  <1>1. 1 \in DOMAIN toWorker /\ toWorker[1] = m /\ toWorker # <<>>
    BY DEF Shifted
  <1>2. m \in Requests /\ m.client \in Clients /\ child = "up" /\ RequestOK(1)
    BY <1>0, <1>1, ElementTypes DEF ProcessOK, TalkOK
  <1>3. ~NoRequest(m.client)
    BY <1>1 DEF NoRequest
  <1>4. m.awaited => Awaits(m.client, m.op) /\ NoReply(m.client) /\ m.op # "cancelAcquire"
    BY <1>1, <1>2 DEF RequestOK
  <1>5. m.awaited => NoRequest(m.client)'
    <2>1. m.awaited => \A j \in DOMAIN toWorker : 1 < j => toWorker[j].client # m.client
      BY <1>1, <1>2 DEF RequestOK
    <2>2. \A i \in DOMAIN toWorker' :
            i + 1 \in DOMAIN toWorker /\ 1 < i + 1 /\ toWorker'[i] = toWorker[i + 1]
      BY DEF Shifted
    <2> QED BY <2>1, <2>2 DEF NoRequest
  <1>6. ASSUME m.awaited \/ m.op = "acquire", NEW i \in DOMAIN queue, queue[i].client = m.client
        PROVE  FALSE
    <2>1. WaiterOK(i)
      BY <1>0, <1>6 DEF TalkOK
    <2>2. Ended(m.client, 0)
      BY <1>3, <1>6, <2>1 DEF WaiterOK
    <2>3. PICK j \in DOMAIN toWorker : EndedBy(m.client, 0, j)
      BY <2>2 DEF Ended
    <2>4. j # 1
      BY <1>1, <1>4, <1>6, <2>3 DEF EndedBy
    <2>5. 0 < 1 /\ 1 < j
      BY <2>3, <2>4 DEF Shifted
    <2>6. CASE m.op = "acquire"
      BY <1>1, <2>3, <2>5, <2>6 DEF EndedBy
    <2>7. CASE m.awaited
      BY <1>1, <1>2, <2>3, <2>5, <2>7 DEF EndedBy, RequestOK
    <2> QED BY <1>6, <2>6, <2>7
  <1>7. m.op = "acquire" /\ ~m.awaited => Ended(m.client, 0)'
    <2>1. m.op = "acquire" /\ ~m.awaited => Ended(m.client, 1)
      BY <1>1, <1>2 DEF RequestOK
    <2>2. Ended(m.client, 1) => Ended(m.client, 0)'
      BY EndedShifted
    <2> QED BY <2>1, <2>2
  <1> QED BY <1>1, <1>2, <1>3, <1>4, <1>5, <1>6, <1>7

(* The head is answered, or nobody awaits the answer.                       *)
Answers(m) ==
    \/ m.awaited /\ \E r \in Replies : r.client = m.client /\ toParent' = Append(toParent, r)
    \/ ~m.awaited /\ toParent' = toParent

(* To answer the head is to tell its client, or nobody.                     *)
LEMMA AnswersHead ==
    ASSUME Protocol, Shifted, NEW m, m = Head(toWorker), Answers(m),
           UNCHANGED <<generation, calls, phase, context>>
    PROVE  \E A \in SUBSET Clients :
             /\ Handles(A)
             /\ A \subseteq {m.client} /\ (~m.awaited => A = {})
             /\ \A i \in DOMAIN queue : queue[i].client \notin A
  <1>0. TypeOK /\ TalkOK
    BY DEF Protocol
  <1>1. CASE m.awaited
    <2>1. PICK r \in Replies : r.client = m.client /\ toParent' = Append(toParent, r)
      BY <1>1 DEF Answers
    <2>2. /\ Awaits(m.client, m.op) /\ NoReply(m.client) /\ NoRequest(m.client)' /\ m.op # "none"
          /\ m.client \in Clients /\ \A i \in DOMAIN queue : queue[i].client # m.client
      BY <1>1, HeadRequest DEF Requests, Operations
    <2>3. Replied({m.client})
      BY <1>0, <2>1, <2>2, RepliedOne
    <2>4. Handles({m.client})
      BY <2>2, <2>3 DEF Handles, Awaits
    <2> QED BY <1>1, <2>2, <2>4
  <1>2. CASE ~m.awaited
    <2>1. Handles({})
      BY <1>0, <1>2, RepliedNone DEF Handles, Answers
    <2> QED BY <1>2, <2>1
  <1> QED BY <1>1, <1>2

(* A queue that stays loses nothing.                                        *)
LEMMA QueueUnchanged ==
    ASSUME Protocol, UNCHANGED queue
    PROVE  Fewer
  BY DEF Protocol, TalkOK, WaiterOK, Fewer

(* A handler that answers the head and leaves lease and queue alone, or     *)
(* gives a free lease.                                                      *)
LEMMA AnswersProtocol ==
    ASSUME Protocol, TypeOK', Shifted, NEW m, m = Head(toWorker), Answers(m),
           m.op # "cancelAcquire",
           UNCHANGED <<generation, child, calls, phase, context, store, queue>>,
           lease' = lease \/ lease'.holder # Nobody
    PROVE  Protocol'
  <1>0. ProcessOK /\ child = "up"
    BY HeadRequest DEF Protocol
  <1>1. PICK A \in SUBSET Clients :
             /\ Handles(A)
             /\ \A i \in DOMAIN queue : queue[i].client \notin A
    BY AnswersHead
  <1>2. \A i \in DOMAIN queue' : /\ queue'[i].client \notin A
                                 /\ Shifted => ~Cancels(Head(toWorker), queue'[i].client)
    BY <1>1 DEF Cancels
  <1>3. lease'.holder = Nobody => queue' = <<>> /\ ~lease'.lapsed
    BY <1>0 DEF ProcessOK
  <1>4. Fewer
    BY QueueUnchanged
  <1> QED BY <1>0, <1>1, <1>2, <1>3, <1>4, HandlesProtocol

(* The lease goes to the next client that waits for it, if there is one.    *)
NextHolder ==
    /\ queue = <<>> => lease' = NoLease /\ queue' = <<>>
    /\ queue # <<>> =>
         /\ 1 \in DOMAIN queue
         /\ lease' = [holder |-> queue[1].client, lapsed |-> FALSE]
         /\ queue[1].awaited =>
              \E i \in DOMAIN toParent' : toParent'[i].client = queue[1].client /\ toParent'[i].ok
    /\ \A i \in DOMAIN queue' :
         i \in Nat /\ 0 < i /\ i + 1 \in DOMAIN queue /\ queue'[i] = queue[i + 1]

(* grantNext, with or without an acknowledgment of a release: the next holder*)
(* is told, and leaves the queue.                                           *)
LEMMA GrantShape ==
    ASSUME Protocol, UNCHANGED <<generation, calls, phase, context>>,
           Shifted \/ UNCHANGED toWorker,
           NEW replies, GrantNext(queue, replies),
           \/ replies = <<>>
           \/ \E m \in Requests :
                /\ replies = Ok(m) /\ m.awaited
                /\ NoReply(m.client) /\ ~NoRequest(m.client) /\ NoRequest(m.client)'
                /\ Awaits(m.client, "release")
                /\ \A i \in DOMAIN queue : queue[i].client # m.client
    PROVE  /\ Fewer /\ NextHolder
           /\ \E A \in SUBSET Clients :
                /\ Handles(A)
                /\ \A a \in A : \/ queue # <<>> /\ queue[1].awaited /\ a = queue[1].client
                                \/ calls[a].op = "release"
                /\ \A i \in DOMAIN queue' : queue'[i].client \notin A
  <1>0. TypeOK /\ TalkOK /\ queue \in Seq(Requests) /\ toParent \in Seq(Replies)
    BY DEF Protocol, TypeOK
  <1>1. \A i, j \in DOMAIN queue : queue[i].client = queue[j].client => i = j
    BY <1>0 DEF TalkOK, WaiterOK
  <1>2. CASE queue = <<>>
    <2>1. lease' = NoLease /\ queue' = <<>> /\ toParent' = toParent \o replies
      BY <1>2 DEF GrantNext
    <2>2. Fewer /\ NextHolder
      BY <1>2, <2>1, NoElements DEF Fewer, NextHolder
    <2>3. CASE replies = <<>>
      <3>1. toParent' = toParent
        BY <1>0, <2>1, <2>3
      <3>2. Handles({})
        BY <1>0, <3>1, RepliedNone DEF Handles
      <3> QED BY <2>2, <3>2
    <2>4. CASE replies # <<>>
      <3>1. PICK m \in Requests :
                /\ replies = Ok(m) /\ m.awaited
                /\ NoReply(m.client) /\ NoRequest(m.client)'
                /\ Awaits(m.client, "release")
        BY <2>4
      <3>2. PICK r \in Replies : r.client = m.client /\ toParent' = Append(toParent, r)
        <4>1. PICK s : s = ReplyOf(m, TRUE, 0, InitialJournal, NoResult)
          OBVIOUS
        <4>2. s \in Replies /\ s.client = m.client
          BY <4>1, SendingPlain, <1>0 DEF ReplyOf
        <4>3. toParent' = Append(toParent, s)
          BY <1>0, <2>1, <3>1, <4>1, SendingPlain
        <4> QED BY <4>2, <4>3
      <3>3. Replied({m.client})
        BY <1>0, <3>1, <3>2, RepliedOne
      <3>4. Handles({m.client})
        BY <3>1, <3>3 DEF Handles, Awaits
      <3>5. m.client \in Clients
        BY DEF Requests
      <3> QED BY <2>1, <2>2, <3>1, <3>4, <3>5, NoElements DEF Awaits
    <2> QED BY <2>3, <2>4
  <1>3. CASE queue # <<>>
    <2>1. PICK q : q = Head(queue) /\ q = queue[1] /\ q \in Requests /\ 1 \in DOMAIN queue
      BY <1>0, <1>3, TakingIndexes
    <2>2. /\ lease' = [holder |-> q.client, lapsed |-> FALSE]
          /\ queue' = Tail(queue)
          /\ toParent' = (toParent \o Ok(q)) \o replies
      BY <1>3, <2>1 DEF GrantNext
    <2>3. \A i \in DOMAIN queue' : i \in Nat /\ 0 < i /\ i + 1 \in DOMAIN queue /\ queue'[i] = queue[i + 1]
      BY <1>0, <1>3, <2>2, TakingIndexes
    <2>4. Fewer
      <3>1. \A i \in DOMAIN queue' : \E k \in DOMAIN queue : queue'[i] = queue[k]
        BY <2>3
      <3>2. ASSUME NEW i \in DOMAIN queue', NEW j \in DOMAIN queue', queue'[i].client = queue'[j].client
            PROVE  i = j
        <4>1. i + 1 = j + 1
          BY <1>1, <2>3, <3>2
        <4> QED BY <2>3, <4>1
      <3> QED BY <3>1, <3>2 DEF Fewer
    <2>5. \A i \in DOMAIN queue' : queue'[i].client # q.client
      <3>1. \A i \in DOMAIN queue' : i + 1 # 1
        BY <2>3
      <3> QED BY <1>1, <2>1, <2>3, <3>1
    <2>6. /\ q.client \in Clients
          /\ q.awaited => Awaits(q.client, "acquire") /\ NoReply(q.client) /\ NoRequest(q.client)
      BY <1>0, <2>1 DEF Requests, TalkOK, WaiterOK
    <2>7. q.awaited => NoRequest(q.client)'
      BY <2>6 DEF Shifted, NoRequest
    <2>8. PICK r, t : /\ r = ReplyOf(q, TRUE, 0, InitialJournal, NoResult)
                      /\ t = toParent \o Ok(q)
      OBVIOUS
    <2>9. /\ r \in Replies /\ r.client = q.client /\ r.ok
          /\ t \in Seq(Replies)
          /\ q.awaited => t = Append(toParent, r)
          /\ ~q.awaited => t = toParent
      BY <1>0, <2>1, <2>8, SendingPlain DEF ReplyOf
    <2>10. CASE replies = <<>>
      <3>1. toParent' = t
        <4>1. t \o <<>> = t
          BY <2>9, Adding
        <4> QED BY <2>2, <2>8, <2>10, <4>1
      <3>2. CASE q.awaited
        <4>1. Replied({q.client}) /\ \E i \in DOMAIN toParent' : toParent'[i] = r
          BY <1>0, <2>6, <2>9, <3>1, <3>2, RepliedOne
        <4>2. Handles({q.client})
          BY <2>6, <2>7, <3>2, <4>1 DEF Handles, Awaits
        <4>3. NextHolder
          BY <1>3, <2>1, <2>2, <2>3, <2>9, <4>1 DEF NextHolder
        <4> QED BY <1>3, <2>1, <2>4, <2>5, <2>6, <3>2, <4>2, <4>3
      <3>3. CASE ~q.awaited
        <4>1. Handles({})
          BY <1>0, <2>9, <3>1, <3>3, RepliedNone DEF Handles
        <4>2. NextHolder
          BY <1>3, <2>1, <2>2, <2>3, <3>3 DEF NextHolder
        <4> QED BY <2>4, <4>1, <4>2
      <3> QED BY <3>2, <3>3
    <2>11. CASE replies # <<>>
      <3>1. PICK m \in Requests :
                /\ replies = Ok(m) /\ m.awaited
                /\ NoReply(m.client) /\ ~NoRequest(m.client) /\ NoRequest(m.client)'
                /\ Awaits(m.client, "release")
                /\ \A i \in DOMAIN queue : queue[i].client # m.client
        BY <2>11
      <3>2. m.client \in Clients /\ m.client # q.client
        BY <2>1, <3>1 DEF Requests
      <3>3. PICK s : s = ReplyOf(m, TRUE, 0, InitialJournal, NoResult)
        OBVIOUS
      <3>4. s \in Replies /\ s.client = m.client
        BY <3>3, SendingPlain, <1>0 DEF ReplyOf
      <3>5. toParent' = Append(t, s)
        <4>1. t \o Ok(m) = Append(t, s)
          BY <2>9, <3>1, <3>3, SendingPlain
        <4> QED BY <2>2, <2>8, <3>1, <4>1
      <3>6. \A i \in DOMAIN queue' : queue'[i].client # m.client
        BY <2>3, <3>1
      <3>7. CASE q.awaited
        <4>1. Replied({q.client, m.client}) /\ \E i \in DOMAIN toParent' : toParent'[i] = r
          BY <1>0, <2>6, <2>9, <3>1, <3>2, <3>4, <3>5, <3>7, RepliedTwo
        <4>2. Handles({q.client, m.client})
          BY <2>6, <2>7, <3>1, <3>7, <4>1 DEF Handles, Awaits
        <4>3. NextHolder
          BY <1>3, <2>1, <2>2, <2>3, <2>9, <4>1 DEF NextHolder
        <4>4. \A a \in {q.client, m.client} :
                \/ queue # <<>> /\ queue[1].awaited /\ a = queue[1].client
                \/ calls[a].op = "release"
          BY <1>3, <2>1, <3>1, <3>7 DEF Awaits
        <4>5. \A i \in DOMAIN queue' : queue'[i].client \notin {q.client, m.client}
          BY <2>5, <3>6
        <4>6. {q.client, m.client} \in SUBSET Clients
          BY <2>6, <3>2
        <4> QED BY <2>4, <4>2, <4>3, <4>4, <4>5, <4>6
      <3>8. CASE ~q.awaited
        <4>1. Replied({m.client})
          BY <1>0, <2>9, <3>1, <3>4, <3>5, <3>8, RepliedOne
        <4>2. Handles({m.client})
          BY <3>1, <4>1 DEF Handles, Awaits
        <4>3. NextHolder
          BY <1>3, <2>1, <2>2, <2>3, <3>8 DEF NextHolder
        <4> QED BY <2>4, <3>1, <3>2, <3>6, <4>2, <4>3 DEF Awaits
      <3> QED BY <3>7, <3>8
    <2> QED BY <2>10, <2>11
  <1> QED BY <1>2, <1>3

(* Nobody waits while nobody holds the lease.                               *)
LEMMA NextHolderKeeps ==
    ASSUME Protocol, NextHolder
    PROVE  lease'.holder = Nobody => queue' = <<>> /\ ~lease'.lapsed
  <1>1. queue # <<>> => lease'.holder # Nobody
    <2>1. queue # <<>> => queue[1].client \in Clients /\ lease'.holder = queue[1].client
      BY ElementTypes DEF NextHolder, Protocol
    <2> QED BY <2>1, SupervisorAssumption
  <1>2. queue = <<>> => lease' = NoLease /\ queue' = <<>>
    BY DEF NextHolder
  <1> QED BY <1>1, <1>2 DEF NoLease

--------------------------------------------------------------------------------
(* The handlers of the child.                                               *)

(* The handlers whose answer is one reply.                                  *)
LEMMA AnswerShapes ==
    ASSUME TypeOK, NEW m \in Requests,
           \/ toParent' = toParent \o Ok(m)
           \/ toParent' = toParent \o Refusal(m)
           \/ \E ok \in BOOLEAN, revision \in Nat, journal \in Journals, result \in Results :
                toParent' = toParent \o ReplyTo(m, ok, revision, journal, result)
    PROVE  Answers(m)
  <1>0. toParent \in Seq(Replies)
    BY DEF TypeOK
  <1>1. CASE m.awaited
    <2>1. PICK r \in Replies : toParent' = Append(toParent, r) /\ r.client = m.client
      <3>1. CASE toParent' = toParent \o Ok(m) \/ toParent' = toParent \o Refusal(m)
        <4>1. PICK y, n : /\ y = ReplyOf(m, TRUE, 0, InitialJournal, NoResult)
                          /\ n = ReplyOf(m, FALSE, 0, InitialJournal, NoResult)
          OBVIOUS
        <4>2. y \in Replies /\ n \in Replies /\ y.client = m.client /\ n.client = m.client
          BY <1>0, <4>1, SendingPlain DEF ReplyOf
        <4>3. toParent' = Append(toParent, y) \/ toParent' = Append(toParent, n)
          BY <1>0, <1>1, <3>1, <4>1, SendingPlain
        <4> QED BY <4>2, <4>3
      <3>2. CASE \E ok \in BOOLEAN, revision \in Nat, journal \in Journals, result \in Results :
                   toParent' = toParent \o ReplyTo(m, ok, revision, journal, result)
        <4>1. PICK ok \in BOOLEAN, revision \in Nat, journal \in Journals, result \in Results :
                toParent' = toParent \o ReplyTo(m, ok, revision, journal, result)
          BY <3>2
        <4>2. PICK r : r = ReplyOf(m, ok, revision, journal, result)
          OBVIOUS
        <4>3. r \in Replies /\ r.client = m.client
          BY <1>0, <4>1, <4>2, Sending DEF ReplyOf
        <4>4. toParent' = Append(toParent, r)
          BY <1>0, <1>1, <4>1, <4>2, Sending
        <4> QED BY <4>3, <4>4
      <3> QED BY <3>1, <3>2
    <2> QED BY <1>1, <2>1 DEF Answers
  <1>2. CASE ~m.awaited
    <2>1. toParent' = toParent
      <3>1. CASE toParent' = toParent \o Ok(m) \/ toParent' = toParent \o Refusal(m)
        BY <1>0, <1>2, <3>1, SendingPlain
      <3>2. CASE \E ok \in BOOLEAN, revision \in Nat, journal \in Journals, result \in Results :
                   toParent' = toParent \o ReplyTo(m, ok, revision, journal, result)
        <4>1. PICK ok \in BOOLEAN, revision \in Nat, journal \in Journals, result \in Results :
                toParent' = toParent \o ReplyTo(m, ok, revision, journal, result)
          BY <3>2
        <4>2. ReplyTo(m, ok, revision, journal, result) = <<>>
          BY <1>2 DEF ReplyTo
        <4>3. toParent \o <<>> = toParent
          BY <1>0
        <4> QED BY <4>1, <4>2, <4>3
      <3> QED BY <3>1, <3>2
    <2> QED BY <1>2, <2>1 DEF Answers
  <1> QED BY <1>1, <1>2

(* What the handlers that concern neither lease nor queue do.               *)
Serves == HandleAssert \/ HandleOpen \/ HandleSave \/ HandleSaveFails
          \/ \E result \in Results : HandleGrpc(result)

(* They answer their request.                                               *)
LEMMA ServesShape ==
    ASSUME TypeOK, Serves, NEW m, m = Head(toWorker)
    PROVE  /\ Shifted /\ Answers(m)
           /\ m.op \in {"assertLease", "openJournal", "saveJournal", "grpc"}
           /\ UNCHANGED <<generation, child, calls, phase, context, store, lease, queue>>
  <1>0. PICK op \in {"assertLease", "openJournal", "saveJournal", "grpc"} : Receive(op)
    BY DEF Serves, HandleAssert, HandleOpen, HandleSave, HandleSaveFails, HandleGrpc
  <1>1. m \in Requests /\ Shifted
    BY <1>0, ReceiveTypes, ReceiveShifts
  <1>2. /\ m.op \in {"assertLease", "openJournal", "saveJournal", "grpc"}
        /\ UNCHANGED <<generation, child, calls, phase, context, store>>
    BY <1>0 DEF Receive, processVars
  <1>3. UNCHANGED <<lease, queue>>
    BY DEF Serves, HandleAssert, HandleOpen, HandleSave, HandleSaveFails, HandleGrpc, workerVars
  <1>4. record.revision \in Nat /\ record.journal \in Journals /\ file \in Journals
    BY DEF TypeOK
  <1>5. Answers(m)
    <2>1. CASE HandleAssert
      BY <1>1, <2>1, AnswerShapes DEF HandleAssert
    <2>2. CASE HandleOpen
      <3>1. record'.revision \in Nat /\ record'.journal \in Journals
        BY <1>4, <2>2 DEF HandleOpen
      <3>2. PICK yes \in BOOLEAN : yes = TRUE
        OBVIOUS
      <3>3. toParent' = toParent \o ReplyTo(m, yes, record'.revision, record'.journal, NoResult)
        BY <2>2, <3>2 DEF HandleOpen
      <3> QED BY <1>1, <3>1, <3>2, <3>3, AnswerShapes, SupervisorAssumption
    <2>3. CASE HandleSave
      <3>1. PICK n \in Nat : n = record.revision + 1
        BY <1>4
      <3>2. PICK yes \in BOOLEAN : yes = TRUE
        OBVIOUS
      <3>3. toParent' = toParent \o ReplyTo(m, yes, n, InitialJournal, NoResult)
        BY <2>3, <3>1, <3>2 DEF HandleSave
      <3> QED BY <1>1, <3>1, <3>2, <3>3, AnswerShapes, SupervisorAssumption
    <2>4. CASE HandleSaveFails
      BY <1>1, <2>4, AnswerShapes DEF HandleSaveFails
    <2>5. ASSUME NEW result \in Results, HandleGrpc(result)
          PROVE  Answers(m)
      <3>1. PICK ok \in BOOLEAN : ok = (result # NoResult)
        OBVIOUS
      <3>2. \/ toParent' = toParent \o ReplyTo(m, ok, 0, InitialJournal, result)
            \/ toParent' = toParent \o Refusal(m)
        BY <2>5, <3>1 DEF HandleGrpc
      <3> QED BY <1>1, <3>1, <3>2, AnswerShapes, SupervisorAssumption
    <2> QED BY <2>1, <2>2, <2>3, <2>4, <2>5 DEF Serves
  <1> QED BY <1>1, <1>2, <1>3, <1>5

(* An acquire is granted, refused or queued.                                *)
Granting(m) ==
    /\ lease.holder = Nobody
    /\ lease' = [holder |-> m.client, lapsed |-> FALSE]
    /\ UNCHANGED queue
    /\ m.awaited => \E i \in DOMAIN toParent' : toParent'[i].client = m.client /\ toParent'[i].ok

Queueing(m) ==
    /\ lease.holder # Nobody
    /\ queue' = Append(queue, m)
    /\ UNCHANGED <<lease, toParent>>

Refused(m) ==
    \A i \in DOMAIN toParent' : i \in DOMAIN toParent \/ ~toParent'[i].ok

(* The three outcomes of handleAcquire.                                     *)
LEMMA AcquireShape ==
    ASSUME TypeOK, TalkOK, HandleAcquire, NEW m, m = Head(toWorker)
    PROVE  /\ Shifted /\ m \in Requests /\ m.op = "acquire"
           /\ UNCHANGED <<generation, child, calls, phase, context, store, record, file, faults>>
           /\ \/ Answers(m) /\ Granting(m)
              \/ Answers(m) /\ UNCHANGED <<lease, queue>> /\ Refused(m)
              \/ Queueing(m)
  <1>1. Shifted /\ m \in Requests /\ m.op = "acquire"
    BY ReceiveTypes, ReceiveShifts DEF HandleAcquire, Receive
  <1>2. UNCHANGED <<generation, child, calls, phase, context, store, record, file, faults>>
    BY DEF HandleAcquire, Receive, processVars
  <1>3. CASE lease.holder = Nobody
    <2>1. /\ lease' = [holder |-> m.client, lapsed |-> FALSE]
          /\ toParent' = toParent \o Ok(m)
          /\ UNCHANGED queue
      BY <1>3 DEF HandleAcquire
    <2>2. Answers(m)
      BY <1>1, <2>1, AnswerShapes
    <2>3. m.awaited => \E i \in DOMAIN toParent' : toParent'[i].client = m.client /\ toParent'[i].ok
      <3>1. PICK r : r = ReplyOf(m, TRUE, 0, InitialJournal, NoResult)
        OBVIOUS
      <3>2. r \in Replies /\ r.client = m.client /\ r.ok /\ toParent \in Seq(Replies)
        BY <1>1, <3>1, SendingPlain DEF ReplyOf, TypeOK
      <3>3. m.awaited => toParent' = Append(toParent, r)
        BY <1>1, <2>1, <3>1, <3>2, SendingPlain
      <3>4. m.awaited => Len(toParent) + 1 \in DOMAIN toParent' /\ toParent'[Len(toParent) + 1] = r
        BY <3>2, <3>3, AddingIndexes
      <3> QED BY <3>2, <3>4
    <2> QED BY <1>1, <1>2, <1>3, <2>1, <2>2, <2>3 DEF Granting
  <1>4. CASE lease.holder # Nobody /\ Len(queue) >= MaxQueued
    <2>1. toParent' = toParent \o Refusal(m) /\ UNCHANGED <<lease, queue>>
      BY <1>4 DEF HandleAcquire
    <2>2. Refused(m)
      <3>1. PICK r : r = ReplyOf(m, FALSE, 0, InitialJournal, NoResult)
        OBVIOUS
      <3>2. r \in Replies /\ ~r.ok /\ toParent \in Seq(Replies)
        BY <1>1, <3>1, SendingPlain DEF ReplyOf, TypeOK
      <3>3. toParent' = Append(toParent, r) \/ toParent' = toParent
        BY <1>1, <2>1, <3>1, <3>2, SendingPlain
      <3>4. toParent' = Append(toParent, r) =>
              /\ toParent'[Len(toParent) + 1] = r
              /\ \A i \in DOMAIN toParent' : i \in DOMAIN toParent \/ i = Len(toParent) + 1
        BY <3>2, AddingIndexes
      <3> QED BY <3>2, <3>3, <3>4 DEF Refused
    <2> QED BY <1>1, <1>2, <2>1, <2>2, AnswerShapes
  <1>5. CASE lease.holder # Nobody /\ ~(Len(queue) >= MaxQueued)
    BY <1>1, <1>2, <1>5 DEF HandleAcquire, Queueing
  <1> QED BY <1>3, <1>4, <1>5

(* The acquire handler,                                                     *)
LEMMA HandleAcquireProtocol ==
    ASSUME Protocol, TypeOK', HandleAcquire
    PROVE  Protocol'
  <1>0. TypeOK /\ ProcessOK /\ PhasesOK /\ TalkOK
    BY DEF Protocol
  <1>1. PICK m : m = Head(toWorker)
    OBVIOUS
  <1>2. /\ Shifted /\ m \in Requests /\ m.op = "acquire"
        /\ UNCHANGED <<generation, child, calls, phase, context, store>>
        /\ \/ Answers(m) /\ Granting(m)
           \/ Answers(m) /\ UNCHANGED <<lease, queue>>
           \/ Queueing(m)
    BY <1>0, <1>1, AcquireShape
  <1>3. /\ m.client \in Clients /\ child = "up"
        /\ m.awaited => Awaits(m.client, m.op) /\ NoReply(m.client) /\ NoRequest(m.client)'
        /\ \A i \in DOMAIN queue : queue[i].client # m.client
        /\ ~m.awaited => Ended(m.client, 0)'
    BY <1>1, <1>2, HeadRequest
  <1>4. CASE Answers(m) /\ (Granting(m) \/ UNCHANGED <<lease, queue>>)
    <2>1. UNCHANGED queue /\ (lease' = lease \/ lease'.holder # Nobody)
      BY <1>3, <1>4, SupervisorAssumption DEF Granting
    <2> QED BY <1>1, <1>2, <1>4, <2>1, AnswersProtocol
  <1>5. CASE Queueing(m)
    <2>1. PICK none : none = {} /\ Handles(none)
      <3>1. Handles({})
        BY <1>0, <1>2, <1>5, RepliedNone DEF Handles, Queueing
      <3> QED BY <3>1
    <2>2. /\ \A i \in DOMAIN queue : i \in DOMAIN queue' /\ queue'[i] = queue[i]
          /\ \A i \in DOMAIN queue' : i \in DOMAIN queue \/ (i = Len(queue) + 1 /\ queue'[i] = m)
      BY <1>0, <1>2, <1>5, AddingIndexes DEF Queueing, TypeOK
    <2>3. ASSUME NEW i \in DOMAIN queue'
          PROVE  WaiterOK(i)'
      <3>1. CASE i \in DOMAIN queue
        <4>1. PICK q : q = queue[i] /\ q = queue'[i]
          BY <2>2, <3>1
        <4>2. ~Cancels(Head(toWorker), q.client)
          BY <1>1, <1>2 DEF Cancels
        <4>3. /\ q.awaited => Awaits(q.client, "acquire")' /\ NoReply(q.client)' /\ NoRequest(q.client)'
              /\ ~q.awaited => Ended(q.client, 0)'
          <5>1. q.client \notin none /\ q = queue[i]
            BY <2>1, <4>1
          <5> QED BY <2>1, <3>1, <4>2, <5>1, WaiterStays
        <4>4. \A j \in DOMAIN queue' : queue'[j].client = q.client => i = j
          BY <1>0, <1>3, <2>2, <3>1, <4>1 DEF TalkOK, WaiterOK
        <4> QED BY <4>1, <4>3, <4>4 DEF WaiterOK
      <3>2. CASE i \notin DOMAIN queue
        <4>1. i = Len(queue) + 1 /\ queue'[i] = m
          BY <2>2, <3>2
        <4>2. m.awaited => Awaits(m.client, "acquire")' /\ NoReply(m.client)'
          BY <1>2, <1>3, <1>5 DEF Awaits, NoReply, Queueing
        <4>3. \A j \in DOMAIN queue' : queue'[j].client = m.client => i = j
          BY <1>3, <2>2, <4>1
        <4> QED BY <1>3, <4>1, <4>2, <4>3 DEF WaiterOK
      <3> QED BY <3>1, <3>2
    <2>4. PhasesOK'
      BY <1>0, <1>2 DEF PhasesOK
    <2>5. ProcessOK'
      BY <1>0, <1>2, <1>3, <1>5 DEF ProcessOK, Queueing
    <2> QED BY <2>1, <2>3, <2>4, <2>5, HandlesTalk DEF Protocol, TalkOK
  <1> QED BY <1>2, <1>4, <1>5

(* A cancellation takes its client out of the queue, or the lease from it.  *)
LEMMA CancelShape ==
    ASSUME Protocol, HandleCancel, NEW m, m = Head(toWorker)
    PROVE  /\ Shifted /\ m \in Requests /\ m.op = "cancelAcquire"
           /\ UNCHANGED <<generation, child, calls, phase, context, store, record, file, faults>>
           /\ \/ /\ LeaseHolder(m) /\ GrantNext(queue, <<>>)
                 /\ \A i \in DOMAIN queue : queue[i].client # m.client
              \/ /\ Fewer /\ UNCHANGED <<lease, toParent>>
                 /\ queue = <<>> => queue' = <<>>
                 /\ \A i \in DOMAIN queue' : queue'[i].client # m.client
                 /\ \/ ~LeaseHolder(m)
                    \/ \E i \in DOMAIN queue : queue[i].client = m.client
  <1>0. TypeOK /\ TalkOK /\ queue \in Seq(Requests) /\ DOMAIN queue = 1 .. Len(queue)
    BY ElementTypes DEF Protocol, TypeOK
  <1>1. Shifted /\ m \in Requests /\ m.op = "cancelAcquire"
    BY <1>0, ReceiveTypes, ReceiveShifts DEF HandleCancel, Receive
  <1>2. UNCHANGED <<generation, child, calls, phase, context, store, record, file, faults>>
    BY DEF HandleCancel, Receive, processVars
  <1>3. CASE LeaseHolder(m) /\ ~Mentions(queue, m.client)
    BY <1>0, <1>1, <1>2, <1>3 DEF HandleCancel, Mentions
  <1>4. CASE ~(LeaseHolder(m) /\ ~Mentions(queue, m.client))
    <2>1. queue' = Without(queue, m.client) /\ UNCHANGED <<lease, toParent>>
      BY <1>4 DEF HandleCancel
    <2>2. \A i, j \in DOMAIN queue : queue[i].client = queue[j].client => i = j
      BY <1>0 DEF TalkOK, WaiterOK
    <2>3. PICK w : w = queue' /\ w = Without(queue, m.client)
      BY <2>1
    <2>6. /\ \A i \in DOMAIN w : \E k \in DOMAIN queue : w[i] = queue[k]
          /\ \A i \in DOMAIN w : w[i].client # m.client
          /\ \A i, j \in DOMAIN w : w[i].client = w[j].client => i = j
          /\ (\A k \in DOMAIN queue : queue[k].client # m.client) => w = queue
      <3>1. PICK c, s : c = m.client /\ s = queue /\ s \in Seq(Requests)
        BY <1>0
      <3>2. w = Without(s, c) /\ \A i, j \in DOMAIN s : s[i].client = s[j].client => i = j
        BY <2>2, <2>3, <3>1
      <3>3. /\ \A i \in DOMAIN Without(s, c) : \E k \in DOMAIN s : Without(s, c)[i] = s[k]
            /\ \A i \in DOMAIN Without(s, c) : Without(s, c)[i].client # c
            /\ \A i, j \in DOMAIN Without(s, c) :
                  Without(s, c)[i].client = Without(s, c)[j].client => i = j
            /\ (\A k \in DOMAIN s : s[k].client # c) => Without(s, c) = s
        BY <3>1, <3>2, WithoutClient
      <3> QED BY <3>1, <3>2, <3>3
    <2>7. Fewer /\ \A i \in DOMAIN queue' : queue'[i].client # m.client
      BY <2>3, <2>6 DEF Fewer
    <2>4. queue = <<>> => queue' = <<>>
      BY <2>3, <2>6, NoElements
    <2>5. ~LeaseHolder(m) \/ \E i \in DOMAIN queue : queue[i].client = m.client
      BY <1>0, <1>4 DEF Mentions
    <2> QED BY <1>1, <1>2, <2>1, <2>4, <2>5, <2>7
  <1> QED BY <1>3, <1>4

(* The cancellation handler,                                                *)
LEMMA HandleCancelProtocol ==
    ASSUME Protocol, TypeOK', HandleCancel
    PROVE  Protocol'
  <1>0. TypeOK /\ ProcessOK /\ TalkOK
    BY DEF Protocol
  <1>1. PICK m : m = Head(toWorker)
    OBVIOUS
  <1>2. /\ Shifted /\ m \in Requests /\ m.op = "cancelAcquire"
        /\ UNCHANGED <<generation, child, calls, phase, context, store>>
        /\ \/ /\ LeaseHolder(m) /\ GrantNext(queue, <<>>)
              /\ \A i \in DOMAIN queue : queue[i].client # m.client
           \/ /\ Fewer /\ UNCHANGED <<lease, toParent>>
              /\ queue = <<>> => queue' = <<>>
              /\ \A i \in DOMAIN queue' : queue'[i].client # m.client
    BY <1>1, CancelShape
  <1>3. child = "up"
    BY <1>1, <1>2, HeadRequest
  <1>4. CASE LeaseHolder(m) /\ GrantNext(queue, <<>>) /\ \A i \in DOMAIN queue : queue[i].client # m.client
    <2>1. /\ Fewer /\ NextHolder
          /\ \E A \in SUBSET Clients :
                /\ Handles(A)
                /\ \A i \in DOMAIN queue' : queue'[i].client \notin A
      BY <1>2, <1>4, GrantShape
    <2>2. \A i \in DOMAIN queue' : ~Cancels(Head(toWorker), queue'[i].client)
      BY <1>1, <1>4, <2>1 DEF Cancels, NextHolder
    <2>3. lease'.holder = Nobody => queue' = <<>> /\ ~lease'.lapsed
      BY <2>1, NextHolderKeeps
    <2> QED BY <1>2, <1>3, <2>1, <2>2, <2>3, HandlesProtocol
  <1>5. CASE /\ Fewer /\ UNCHANGED <<lease, toParent>>
             /\ queue = <<>> => queue' = <<>>
             /\ \A i \in DOMAIN queue' : queue'[i].client # m.client
    <2>1. Handles({})
      BY <1>0, <1>2, <1>5, RepliedNone DEF Handles
    <2>2. \A i \in DOMAIN queue' : ~Cancels(Head(toWorker), queue'[i].client)
      BY <1>1, <1>5 DEF Cancels
    <2>3. lease'.holder = Nobody => queue' = <<>> /\ ~lease'.lapsed
      BY <1>0, <1>5 DEF ProcessOK
    <2> QED BY <1>2, <1>3, <1>5, <2>1, <2>2, <2>3, HandlesProtocol
  <1> QED BY <1>2, <1>4, <1>5

(* A release comes from a client that awaits it; it is refused, or the next *)
(* client gets the lease.                                                   *)
LEMMA ReleaseShape ==
    ASSUME Protocol, HandleRelease, NEW m, m = Head(toWorker)
    PROVE  /\ Shifted /\ m \in Requests /\ m.op = "release"
           /\ m.awaited /\ m.generation = context[m.client]
           /\ UNCHANGED <<generation, child, calls, phase, context, store, record, file, faults>>
           /\ \/ LeaseValid(m) /\ GrantNext(queue, Ok(m))
              \/ ~LeaseValid(m) /\ Answers(m) /\ UNCHANGED <<lease, queue>>
  <1>0. TypeOK
    BY DEF Protocol
  <1>1. Shifted /\ m \in Requests /\ m.op = "release"
    BY <1>0, ReceiveTypes, ReceiveShifts DEF HandleRelease, Receive
  <1>2. UNCHANGED <<generation, child, calls, phase, context, store, record, file, faults>>
    BY DEF HandleRelease, Receive, processVars
  <1>3. m.awaited /\ m.generation = context[m.client]
    <2>1. RequestOK(1) /\ toWorker[1] = m
      BY <1>1, HeadRequest
    <2> QED BY <1>1, <2>1 DEF RequestOK
  <1>4. CASE LeaseValid(m)
    BY <1>1, <1>2, <1>3, <1>4 DEF HandleRelease
  <1>5. CASE ~LeaseValid(m)
    <2>1. toParent' = toParent \o Refusal(m) /\ UNCHANGED <<lease, queue>>
      BY <1>5 DEF HandleRelease
    <2> QED BY <1>0, <1>1, <1>2, <1>3, <1>5, <2>1, AnswerShapes
  <1> QED BY <1>4, <1>5

(* In the latter case the acknowledgment and the grant go to two clients.   *)
LEMMA ReleaseGrant ==
    ASSUME Protocol, HandleRelease, NEW m, m = Head(toWorker), GrantNext(queue, Ok(m))
    PROVE  /\ Fewer /\ NextHolder
           /\ \E A \in SUBSET Clients :
                /\ Handles(A)
                /\ \A a \in A : \/ queue # <<>> /\ queue[1].awaited /\ a = queue[1].client
                                \/ calls[a].op = "release"
                /\ \A i \in DOMAIN queue' : queue'[i].client \notin A
  <1>1. /\ Shifted /\ m \in Requests /\ m.op = "release" /\ m.awaited
        /\ UNCHANGED <<generation, child, calls, phase, context, store>>
    BY ReleaseShape
  <1>2. /\ ~NoRequest(m.client)
        /\ Awaits(m.client, m.op) /\ NoReply(m.client) /\ NoRequest(m.client)'
        /\ \A i \in DOMAIN queue : queue[i].client # m.client
    BY <1>1, HeadRequest
  <1>3. \E n \in Requests :
                /\ Ok(m) = Ok(n) /\ n.awaited
                /\ NoReply(n.client) /\ ~NoRequest(n.client) /\ NoRequest(n.client)'
                /\ Awaits(n.client, "release")
                /\ \A i \in DOMAIN queue : queue[i].client # n.client
    BY <1>1, <1>2
  <1>4. PICK replies : replies = Ok(m)
    OBVIOUS
  <1> QED BY <1>1, <1>3, <1>4, GrantShape

(* The release handler,                                                     *)
LEMMA HandleReleaseProtocol ==
    ASSUME Protocol, TypeOK', HandleRelease
    PROVE  Protocol'
  <1>0. TypeOK /\ ProcessOK /\ TalkOK
    BY DEF Protocol
  <1>1. PICK m : m = Head(toWorker)
    OBVIOUS
  <1>2. /\ Shifted /\ m \in Requests /\ m.op = "release"
        /\ UNCHANGED <<generation, child, calls, phase, context, store>>
        /\ \/ LeaseValid(m) /\ GrantNext(queue, Ok(m))
           \/ ~LeaseValid(m) /\ Answers(m) /\ UNCHANGED <<lease, queue>>
    BY <1>1, ReleaseShape
  <1>3. child = "up"
    BY <1>1, <1>2, HeadRequest
  <1>4. CASE GrantNext(queue, Ok(m))
    <2>1. /\ Fewer /\ NextHolder
          /\ \E A \in SUBSET Clients :
                /\ Handles(A)
                /\ \A i \in DOMAIN queue' : queue'[i].client \notin A
      BY <1>1, <1>4, ReleaseGrant
    <2>2. \A i \in DOMAIN queue' : ~Cancels(Head(toWorker), queue'[i].client)
      BY <1>1, <1>2 DEF Cancels
    <2>3. lease'.holder = Nobody => queue' = <<>> /\ ~lease'.lapsed
      BY <2>1, NextHolderKeeps
    <2> QED BY <1>2, <1>3, <2>1, <2>2, <2>3, HandlesProtocol
  <1>5. CASE Answers(m) /\ UNCHANGED <<lease, queue>>
    BY <1>1, <1>2, <1>5, AnswersProtocol
  <1> QED BY <1>2, <1>4, <1>5

(* all the handlers,                                                        *)
LEMMA HandleRequestProtocol ==
    ASSUME Protocol, TypeOK', HandleRequest
    PROVE  Protocol'
  <1>1. CASE Serves
    <2>1. PICK m : m = Head(toWorker)
      OBVIOUS
    <2>2. TypeOK
      BY DEF Protocol
    <2>3. /\ Shifted /\ Answers(m) /\ m.op # "cancelAcquire"
          /\ UNCHANGED <<generation, child, calls, phase, context, store, lease, queue>>
      BY <1>1, <2>1, <2>2, ServesShape
    <2> QED BY <2>1, <2>3, AnswersProtocol
  <1> QED BY <1>1, HandleAcquireProtocol, HandleCancelProtocol, HandleReleaseProtocol
          DEF HandleRequest, Serves

(* the expiry of a lease,                                                   *)
LEMMA LeaseTimesProtocol ==
    ASSUME Protocol, TypeOK', LeaseLapses \/ LeaseTimerFires
    PROVE  Protocol'
  <1>0. TypeOK /\ ProcessOK /\ PhasesOK /\ TalkOK /\ lease \in [holder : Clients \cup {Nobody}, lapsed : BOOLEAN]
    BY DEF Protocol, TypeOK
  <1>1. CASE LeaseLapses
    <2>1. /\ UNCHANGED <<generation, child, calls, phase, context, store, toWorker, toParent, queue>>
          /\ lease.holder # Nobody
          /\ lease' = [lease EXCEPT !.lapsed = TRUE]
      BY <1>1 DEF LeaseLapses, processVars
    <2>2. lease # NoLease /\ lease'.holder = lease.holder
      BY <1>0, <2>1 DEF NoLease
    <2>3. ProcessOK' /\ PhasesOK'
      BY <1>0, <2>1, <2>2 DEF ProcessOK, PhasesOK
    <2>4. TalkOK'
      BY <1>0, <2>1 DEF TalkOK, RequestOK, WaiterOK, ReplyOK, Awaits, NoReply, NoRequest, Ended, EndedBy
    <2> QED BY <2>3, <2>4 DEF Protocol
  <1>2. CASE LeaseTimerFires
    <2>1. /\ UNCHANGED <<generation, child, calls, phase, context, store, toWorker>>
          /\ lease.lapsed /\ GrantNext(queue, <<>>)
      BY <1>2 DEF LeaseTimerFires, processVars
    <2>2. /\ Fewer /\ NextHolder
          /\ \E A \in SUBSET Clients :
                /\ Handles(A)
                /\ \A i \in DOMAIN queue' : queue'[i].client \notin A
      BY <2>1, GrantShape
    <2>3. child = "up"
      BY <1>0, <2>1 DEF ProcessOK, NoLease
    <2>4. ~Shifted
      <3>1. CASE toWorker = <<>>
        BY <3>1 DEF Shifted
      <3>2. CASE toWorker # <<>>
        <4>1. Len(toWorker) \in DOMAIN toWorker /\ Len(toWorker) + 1 \notin DOMAIN toWorker
          BY <1>0, <3>2 DEF TypeOK
        <4> QED BY <2>1, <4>1 DEF Shifted
      <3> QED BY <3>1, <3>2
    <2>5. lease'.holder = Nobody => queue' = <<>> /\ ~lease'.lapsed
      BY <2>2, NextHolderKeeps
    <2> QED BY <2>1, <2>2, <2>3, <2>4, <2>5, HandlesProtocol
  <1> QED BY <1>1, <1>2

(* and every step keep the protocol.                                        *)
LEMMA ProtocolNext ==
    ASSUME Protocol, [SupervisorNext]_vars
    PROVE  Protocol'
  <1>1. TypeOK'
    BY TypesNext DEF Protocol
  <1>2. CASE UNCHANGED vars
    <2>1. ProcessOK' /\ PhasesOK'
      BY <1>2 DEF Protocol, ProcessOK, PhasesOK, vars, processVars, workerVars
    <2>2. TalkOK'
      BY <1>2 DEF Protocol, vars, processVars, workerVars, TalkOK, RequestOK, WaiterOK, ReplyOK,
                  Awaits, NoReply, NoRequest, Ended, EndedBy
    <2> QED BY <1>1, <2>1, <2>2 DEF Protocol
  <1>3. CASE SupervisorNext
    BY <1>1, <1>3, ClientCallsProtocol, HandleReplyProtocol, AcquireTimesOutProtocol,
       RpcTimesOutProtocol, HandleRequestProtocol, LeaseTimesProtocol, ProcessesProtocol
       DEF SupervisorNext
  <1> QED BY <1>2, <1>3

--------------------------------------------------------------------------------
(* The steps of the parent as the other invariants see them.                *)

(* What is called goes to the child, is lost, or begins a process.          *)
LEMMA CallEffects ==
    ASSUME TypeOK, NEW c \in Clients, NEW m \in Requests, Call(c, m)
    PROVE  /\ \A d \in Clients \ {c} : calls'[d] = calls[d]
           /\ calls'[c] = [op |-> m.op, generation |-> generation', journal |-> m.journal]
           /\ \/ /\ child = "up" /\ SentMore(m)
                 /\ UNCHANGED <<generation, child, toParent, lease, queue, record>>
              \/ /\ child = "dead"
                 /\ UNCHANGED <<generation, child, toWorker, toParent, lease, queue, record>>
              \/ /\ child \notin {"up", "dead"}
                 /\ generation' = generation + 1 /\ child' = "up"
                 /\ toWorker' = <<m>> /\ toParent' = <<>>
                 /\ lease' = NoLease /\ queue' = <<>> /\ record' = NotOpen
  <1>1. /\ \A d \in Clients \ {c} : calls'[d] = calls[d]
        /\ calls'[c] = [op |-> m.op, generation |-> generation', journal |-> m.journal]
    BY DEF TypeOK, Call
  <1>2. CASE child = "up"
    <2>1. toWorker' = Append(toWorker, m)
      BY <1>2 DEF Call, Transmit
    <2>2. SentMore(m)
      BY <2>1, Sends
    <2> QED BY <1>1, <1>2, <2>2 DEF Call, Transmit, processVars, workerVars
  <1>3. CASE child = "dead"
    BY <1>1, <1>3 DEF Call, Transmit, processVars, workerVars
  <1>4. CASE child \notin {"up", "dead"}
    <2>1. Fork(<<m>>)
      BY <1>4 DEF Call, Transmit
    <2> QED BY <1>1, <1>4, <2>1 DEF Fork, FreshWorker
  <1> QED BY <1>2, <1>3, <1>4

(* The oldest reply, for c, is taken.                                       *)
LEMMA ReplyShape ==
    ASSUME TypeOK, NEW c \in Clients, HandleReply(c)
    PROVE  /\ toParent # <<>> /\ 1 \in DOMAIN toParent /\ toParent[1].client = c
           /\ \A i \in DOMAIN toParent' :
                i \in Nat /\ 0 < i /\ i + 1 \in DOMAIN toParent /\ toParent'[i] = toParent[i + 1]
           /\ \A i \in DOMAIN toParent :
                i \in Nat /\ (i = 1 \/ (i - 1 \in DOMAIN toParent' /\ toParent'[i - 1] = toParent[i]))
           /\ UNCHANGED <<generation, child, toWorker, lease, queue, record, file, faults>>
           /\ \A d \in Clients \ {c} : /\ context'[d] = context[d] /\ phase'[d] = phase[d]
                                       /\ calls'[d] = calls[d]
           /\ calls'[c] = NoCall /\ calls[c].op # "none"
           /\ \/ /\ calls[c].op = "acquire" /\ toParent[1].ok
                 /\ phase'[c] = "running" /\ context'[c] = context[c]
              \/ /\ calls[c].op = "acquire" /\ ~toParent[1].ok
                 /\ phase'[c] = "idle" /\ context'[c] = 0
              \/ /\ calls[c].op = "release"
                 /\ phase'[c] = "idle" /\ context'[c] = 0
              \/ /\ calls[c].op \notin {"acquire", "release"}
                 /\ phase'[c] = phase[c] /\ context'[c] = context[c]
  <1>1. PICK op \in Operations : Answered(c, op)
    BY DEF HandleReply, AcquireAnswered, ReleaseAnswered, AssertAnswered, GrpcAnswered,
           OpenAnswered, SaveAnswered, Operations
  <1>2. /\ UNCHANGED <<generation, child, toWorker, lease, queue, record, file, faults>>
        /\ toParent # <<>> /\ toParent' = Tail(toParent) /\ Head(toParent).client = c
        /\ calls' = [calls EXCEPT ![c] = NoCall] /\ calls[c].op = op /\ op # "none"
    BY <1>1 DEF Answered, processVars, workerVars, Operations
  <1>3. /\ Head(toParent) = toParent[1] /\ 1 \in DOMAIN toParent
        /\ \A i \in DOMAIN toParent' :
             i \in Nat /\ 0 < i /\ i + 1 \in DOMAIN toParent /\ toParent'[i] = toParent[i + 1]
        /\ \A i \in DOMAIN toParent :
             i \in Nat /\ (i = 1 \/ (i - 1 \in DOMAIN toParent' /\ toParent'[i - 1] = toParent[i]))
    BY <1>2, TakingIndexes DEF TypeOK
  <1>4. /\ \A d \in Clients \ {c} : calls'[d] = calls[d]
        /\ calls'[c] = NoCall
    BY <1>2 DEF TypeOK
  <1>5. CASE AcquireAnswered(c) /\ Head(toParent).ok
    <2>1. phase' = [phase EXCEPT ![c] = "running"] /\ context' = context /\ calls[c].op = "acquire"
      BY <1>5 DEF AcquireAnswered, Answered
    <2>2. phase'[c] = "running" /\ \A d \in Clients \ {c} : phase'[d] = phase[d]
      BY <2>1 DEF TypeOK
    <2> QED BY <1>2, <1>3, <1>4, <1>5, <2>1, <2>2
  <1>6. CASE (AcquireAnswered(c) /\ ~Head(toParent).ok) \/ ReleaseAnswered(c)
    <2>1. /\ Leave(c)
          /\ \/ calls[c].op = "acquire" /\ ~Head(toParent).ok
             \/ calls[c].op = "release"
      BY <1>6 DEF AcquireAnswered, ReleaseAnswered, Answered
    <2>2. /\ \A d \in Clients \ {c} : context'[d] = context[d] /\ phase'[d] = phase[d]
          /\ context'[c] = 0 /\ phase'[c] = "idle"
      BY <2>1, LeaveChanges
    <2> QED BY <1>2, <1>3, <1>4, <2>1, <2>2
  <1>7. CASE AssertAnswered(c) \/ GrpcAnswered(c) \/ OpenAnswered(c) \/ SaveAnswered(c)
    <2>1. phase' = phase /\ context' = context /\ calls[c].op \notin {"acquire", "release"}
      BY <1>7 DEF AssertAnswered, GrpcAnswered, OpenAnswered, SaveAnswered, Answered
    <2> QED BY <1>2, <1>3, <1>4, <2>1
  <1> QED BY <1>5, <1>6, <1>7 DEF HandleReply

(* c gives up; its replies are dropped.                                     *)
LEMMA TimeoutShape ==
    ASSUME Protocol, NEW c \in Clients, AcquireTimesOut(c) \/ RpcTimesOut(c)
    PROVE  /\ UNCHANGED <<generation, store, file>>
           /\ \A d \in Clients \ {c} : /\ context'[d] = context[d] /\ phase'[d] = phase[d]
                                       /\ calls'[d] = calls[d]
           /\ calls'[c].op = "none" /\ calls[c].op # "none"
           /\ \A i \in DOMAIN toParent' : \E k \in DOMAIN toParent : toParent'[i] = toParent[k]
           /\ \A k \in DOMAIN toParent : toParent[k].client # c =>
                \E i \in DOMAIN toParent' : toParent'[i] = toParent[k]
           /\ \A i \in DOMAIN toParent' : toParent'[i].client # c
           /\ \/ /\ calls[c].op \in {"acquire", "release"}
                 /\ phase'[c] = "idle" /\ context'[c] = 0
              \/ /\ calls[c].op \notin {"acquire", "release"}
                 /\ phase'[c] = phase[c] /\ context'[c] = context[c]
           /\ InService(c) => faults' = faults + 1
           /\ ~InService(c) => faults' = faults
           /\ \/ InService(c) /\ child' = "dead" /\ toWorker' = <<>> /\ lease' = NoLease /\ queue' = <<>>
              \/ /\ UNCHANGED <<child, lease, record>>
                 /\ GivenUp(c)
                 /\ DOMAIN queue' = DOMAIN queue
                 /\ \A i \in DOMAIN queue :
                      /\ queue'[i].client = queue[i].client
                      /\ queue'[i].awaited = (queue[i].awaited /\ queue[i].client # c)
                 /\ \/ InService(c) /\ calls[c].op = "acquire" /\ Told(c)
                    \/ ~InService(c) /\ NotTold
                       /\ \A i \in DOMAIN queue : queue[i].awaited => queue[i].client # c
  <1>0. TypeOK /\ TalkOK /\ ProcessOK /\ toParent \in Seq(Replies)
    BY DEF Protocol, TypeOK
  <1>1. /\ UNCHANGED <<generation, store, file>>
        /\ calls' = [calls EXCEPT ![c] = NoCall] /\ calls[c].op # "none"
        /\ toParent' = Without(toParent, c)
        /\ \/ calls[c].op \in {"acquire", "release"} /\ Leave(c)
           \/ calls[c].op \notin {"acquire", "release"} /\ UNCHANGED <<phase, context>>
        /\ InService(c) => faults' = faults + 1
        /\ ~InService(c) => faults' = faults
    BY DEF AcquireTimesOut, RpcTimesOut, FaultHappens, processVars
  <1>2. /\ \A d \in Clients \ {c} : calls'[d] = calls[d]
        /\ calls'[c].op = "none"
    BY <1>1, TimeoutCommon
  <1>3. /\ \A d \in Clients \ {c} : context'[d] = context[d] /\ phase'[d] = phase[d]
        /\ \/ /\ calls[c].op \in {"acquire", "release"}
              /\ phase'[c] = "idle" /\ context'[c] = 0
           \/ /\ calls[c].op \notin {"acquire", "release"}
              /\ phase'[c] = phase[c] /\ context'[c] = context[c]
    BY <1>0, <1>1, LeaveChanges
  <1>4. \A i, j \in DOMAIN toParent : toParent[i].client = toParent[j].client => i = j
    BY <1>0 DEF TalkOK, ReplyOK
  <1>5. /\ \A i \in DOMAIN toParent' : \E k \in DOMAIN toParent : toParent'[i] = toParent[k]
        /\ \A k \in DOMAIN toParent : toParent[k].client # c =>
             \E i \in DOMAIN toParent' : toParent'[i] = toParent[k]
        /\ \A i \in DOMAIN toParent' : toParent'[i].client # c
    BY <1>0, <1>1, <1>4, WithoutClient
  <1>6. \A i \in DOMAIN queue : queue[i].awaited /\ queue[i].client = c => InService(c)
    BY <1>0, NoElements DEF TalkOK, WaiterOK, Awaits, InService, ProcessOK
  <1>7. CASE AcquireTimesOut(c)
    <2>1. /\ GivenUp(c)
          /\ InService(c) => Told(c) /\ context[c] = generation
          /\ ~InService(c) => NotTold
          /\ DOMAIN queue' = DOMAIN queue
          /\ \A i \in DOMAIN queue :
               /\ queue'[i].client = queue[i].client
               /\ queue'[i].awaited = (queue[i].awaited /\ queue[i].client # c)
      BY <1>7, AcquireTimesOutShape
    <2>2. UNCHANGED <<child, lease, record>> /\ calls[c].op = "acquire"
      BY <1>7 DEF AcquireTimesOut, processVars
    <2> QED BY <1>1, <1>2, <1>3, <1>5, <1>6, <2>1, <2>2
  <1>8. CASE RpcTimesOut(c) /\ InService(c)
    <2>1. /\ child' = "dead" /\ toWorker' = <<>> /\ lease' = NoLease /\ queue' = <<>>
      BY <1>8 DEF RpcTimesOut, Dies, FreshWorker
    <2> QED BY <1>1, <1>2, <1>3, <1>5, <1>8, <2>1
  <1>9. CASE RpcTimesOut(c) /\ ~InService(c)
    <2>1. toWorker' = Unawaited(toWorker, c) /\ UNCHANGED <<child, lease, queue, record>>
      BY <1>9 DEF RpcTimesOut, workerVars
    <2>2. PICK w : w = toWorker' /\ w = Unawaited(toWorker, c)
      BY <2>1
    <2>3. toWorker \in Seq(Requests) /\ DOMAIN toWorker = 1 .. Len(toWorker)
      BY <1>0, ElementTypes DEF TypeOK
    <2>4. /\ DOMAIN w = DOMAIN toWorker
          /\ \A i \in 1 .. Len(toWorker) :
               /\ w[i].client = toWorker[i].client
               /\ w[i].op = toWorker[i].op
               /\ w[i].generation = toWorker[i].generation
               /\ w[i].revision = toWorker[i].revision
               /\ w[i].journal = toWorker[i].journal
               /\ w[i].base = toWorker[i].base
               /\ w[i].body = toWorker[i].body
               /\ w[i].awaited = (toWorker[i].awaited /\ toWorker[i].client # c)
      BY <2>2, <2>3, UnawaitedRequests
    <2>5. GivenUp(c) /\ NotTold
      BY <2>2, <2>3, <2>4 DEF GivenUp, NotTold
    <2>6. \A i \in DOMAIN queue : queue[i].awaited \in BOOLEAN
      BY <1>0, ElementTypes DEF Requests
    <2>7. /\ \A i \in DOMAIN queue : queue[i].awaited => queue[i].client # c
          /\ \A i \in DOMAIN queue :
               /\ queue'[i].client = queue[i].client
               /\ queue'[i].awaited = (queue[i].awaited /\ queue[i].client # c)
      BY <1>6, <1>9, <2>1, <2>6
    <2> QED BY <1>1, <1>2, <1>3, <1>5, <1>9, <2>1, <2>5, <2>7
  <1> QED BY <1>7, <1>8, <1>9

(* The process ends, or another begins.                                     *)
LEMMA ProcessesShape ==
    ASSUME Protocol, Processes
    PROVE  /\ toWorker' = <<>> /\ queue' = <<>> /\ lease' = NoLease
           /\ UNCHANGED <<file, faults>>
           /\ \/ child' # "up" /\ UNCHANGED generation
              \/ /\ child' = "up" /\ generation' = generation + 1
                 /\ toParent' = <<>> /\ record' = NotOpen
                 /\ store' = store \/ store' = NoStore
           /\ \/ UNCHANGED <<calls, phase, context>> /\ (toParent' = toParent \/ toParent' = <<>>)
              \/ /\ calls' = [c \in Clients |-> NoCall] /\ toParent' = <<>>
                 /\ phase' = [c \in Clients |-> IF phase[c] = "running" THEN "running" ELSE "idle"]
                 /\ context' = [c \in Clients |-> IF phase[c] = "running" THEN context[c] ELSE 0]
              \/ /\ calls' = [c \in Clients |-> NoCall] /\ toParent' = <<>>
                 /\ phase' = [c \in Clients |-> "idle"]
                 /\ context' = [c \in Clients |-> 0]
  <1>1. toWorker' = <<>> /\ queue' = <<>> /\ lease' = NoLease
    <2>1. CASE ChannelCloses \/ ExitNoticed
      <3>1. child # "up" /\ UNCHANGED <<toWorker, queue, lease>>
        BY <2>1 DEF ChannelCloses, ExitNoticed, workerVars
      <3> QED BY <3>1 DEF Protocol, ProcessOK
    <2>2. CASE ~(ChannelCloses \/ ExitNoticed)
      BY <2>2 DEF Processes, ChildDies, Dies, Respawn, ServerRestarts, Fork, FreshWorker
    <2> QED BY <2>1, <2>2
  <1>2. /\ UNCHANGED <<file, faults>>
        /\ \/ child' # "up" /\ UNCHANGED generation
           \/ /\ child' = "up" /\ generation' = generation + 1
              /\ toParent' = <<>> /\ record' = NotOpen
              /\ store' = store \/ store' = NoStore
    BY DEF Processes, ChildDies, Dies, ChannelCloses, ExitNoticed, Respawn, ServerRestarts, Fork, FreshWorker
  <1>3. \/ UNCHANGED <<calls, phase, context>> /\ (toParent' = toParent \/ toParent' = <<>>)
        \/ /\ calls' = [c \in Clients |-> NoCall] /\ toParent' = <<>>
           /\ phase' = [c \in Clients |-> IF phase[c] = "running" THEN "running" ELSE "idle"]
           /\ context' = [c \in Clients |-> IF phase[c] = "running" THEN context[c] ELSE 0]
        \/ /\ calls' = [c \in Clients |-> NoCall] /\ toParent' = <<>>
           /\ phase' = [c \in Clients |-> "idle"]
           /\ context' = [c \in Clients |-> 0]
    BY DEF Processes, ChildDies, ChannelCloses, ExitNoticed, Respawn, ServerRestarts, Fork
  <1> QED BY <1>1, <1>2, <1>3

--------------------------------------------------------------------------------
(* The owner of the lease.                                                  *)

(* c has the lease or is about to learn that it has.                        *)
Granted(c) ==
    /\ context[c] = generation
    /\ \/ phase[c] = "running"
       \/ /\ phase[c] = "acquiring"
          /\ \E i \in DOMAIN toParent : toParent[i].client = c /\ toParent[i].ok

Releasing(c) ==
    /\ context[c] = generation
    /\ phase[c] = "releasing"
    /\ \E i \in DOMAIN toWorker : toWorker[i].client = c /\ toWorker[i].op = "release"

NotAsking(c) == \A i \in DOMAIN toWorker : toWorker[i].client = c => toWorker[i].op # "acquire"

(* c will give up the lease it holds, or was told to be taken it from.      *)
Owns(c) == Ended(c, 0) \/ ((Granted(c) \/ Releasing(c)) /\ NotAsking(c))

(* A lease in force has an owner, which is not waiting for another.         *)
OwnerOK ==
    lease.holder # Nobody /\ ~lease.lapsed =>
      /\ Owns(lease.holder)
      /\ \A i \in DOMAIN queue : queue[i].client # lease.holder

(* Initially there is no lease.                                             *)
LEMMA OwnerInit == SupervisorInit => OwnerOK
  BY DEF SupervisorInit, OwnerOK, NoLease

(* A step that leaves the lease and does not make its holder wait keeps it  *)
(* owned when it keeps the claim of the client.                             *)
LEMMA OwnerKept ==
    ASSUME Protocol, OwnerOK,
           \/ lease' = NoLease
           \/ /\ lease' = lease
              /\ \A d \in Clients : lease.holder = d /\ ~lease.lapsed /\ Owns(d) => Owns(d)'
              /\ \A i \in DOMAIN queue' : \E k \in DOMAIN queue : queue'[i].client = queue[k].client
    PROVE  OwnerOK'
  <1>1. CASE lease' = NoLease
    BY <1>1 DEF OwnerOK, NoLease
  <1>2. CASE lease' = lease /\ lease.holder # Nobody /\ ~lease.lapsed
    <2>1. lease.holder \in Clients
      BY <1>2 DEF Protocol, TypeOK
    <2>2. PICK d : d = lease.holder /\ d = lease'.holder
      BY <1>2
    <2>3. CASE lease' = NoLease
      BY <1>1, <2>3
    <2>4. CASE lease' # NoLease
      <3>1. Owns(d)'
        BY <1>2, <2>1, <2>2, <2>4 DEF OwnerOK
      <3>2. \A i \in DOMAIN queue' : queue'[i].client # d
        BY <1>2, <2>2, <2>4 DEF OwnerOK
      <3> QED BY <1>2, <2>2, <3>1, <3>2 DEF OwnerOK
    <2> QED BY <2>3, <2>4
  <1>3. CASE lease' = lease /\ ~(lease.holder # Nobody /\ ~lease.lapsed)
    BY <1>3 DEF OwnerOK
  <1> QED BY <1>1, <1>2, <1>3

(* Calls. *)
LEMMA ClientCallsOwner ==
    ASSUME Protocol, OwnerOK, NEW c \in Clients, ClientCalls(c) \/ Release(c)
    PROVE  OwnerOK'
  <1>0. TypeOK /\ ProcessOK
    BY DEF Protocol
  <1>1. PICK m \in Requests :
             /\ m.client = c /\ Call(c, m)
             /\ \A d \in Clients \ {c} : context'[d] = context[d] /\ phase'[d] = phase[d]
             /\ \/ /\ m.op = "acquire" /\ phase[c] = "idle"
                   /\ phase'[c] = "acquiring" /\ context'[c] = generation'
                \/ /\ m.op = "release" /\ phase[c] = "running"
                   /\ phase'[c] = "releasing" /\ context'[c] = context[c]
                \/ /\ m.op \notin {"acquire", "release"} /\ phase[c] = "running"
                   /\ phase'[c] = "running" /\ context'[c] = context[c]
    BY <1>0, CallShape
  <1>2. \/ /\ child = "up" /\ SentMore(m)
           /\ UNCHANGED <<generation, child, toParent, lease, queue>>
        \/ lease' = NoLease
    BY <1>0, <1>1, CallEffects DEF ProcessOK
  <1>3. ASSUME child = "up", SentMore(m), UNCHANGED <<generation, child, toParent, lease, queue>>,
               NEW d \in Clients, Owns(d)
        PROVE  Owns(d)'
    <2>1. CASE Ended(d, 0)
      BY <1>0, <1>3, <2>1, EndedSent DEF Owns
    <2>2. CASE ~Ended(d, 0)
      <3>1. (Granted(d) \/ Releasing(d)) /\ NotAsking(d)
        BY <1>3, <2>2 DEF Owns
      <3>2. NotAsking(d)'
        <4>1. d = c => m.op # "acquire"
          BY <1>1, <3>1 DEF Granted, Releasing
        <4> QED BY <1>1, <1>3, <3>1, <4>1 DEF NotAsking, SentMore
      <3>3. CASE d # c
        <4>1. context'[d] = context[d] /\ phase'[d] = phase[d]
          BY <1>1, <3>3
        <4> QED BY <1>3, <3>1, <3>2, <4>1 DEF Owns, Granted, Releasing, SentMore
      <3>4. CASE d = c
        <4>1. context[c] = generation /\ m.op # "acquire" /\ phase[c] # "acquiring"
          BY <1>1, <3>1, <3>4 DEF Granted, Releasing
        <4>2. CASE m.op = "release"
          <5>1. Releasing(c)'
            <6>1. context'[c] = generation' /\ phase'[c] = "releasing"
              BY <1>1, <1>3, <4>1, <4>2
            <6>2. \E i \in DOMAIN toWorker' : toWorker'[i].client = c /\ toWorker'[i].op = "release"
              BY <1>1, <1>3, <4>2 DEF SentMore
            <6> QED BY <6>1, <6>2 DEF Releasing
          <5> QED BY <3>2, <3>4, <5>1 DEF Owns
        <4>3. CASE m.op # "release"
          <5>1. Granted(c)'
            BY <1>1, <1>3, <4>1, <4>3 DEF Granted
          <5> QED BY <3>2, <3>4, <5>1 DEF Owns
        <4> QED BY <4>2, <4>3
      <3> QED BY <3>3, <3>4
    <2> QED BY <2>1, <2>2
  <1>4. CASE lease' = NoLease
    BY <1>4, OwnerKept
  <1>5. CASE child = "up" /\ SentMore(m) /\ UNCHANGED <<generation, child, toParent, lease, queue>>
    BY <1>3, <1>5, OwnerKept
  <1> QED BY <1>2, <1>4, <1>5

(* Replies. *)
LEMMA HandleReplyOwner ==
    ASSUME Protocol, OwnerOK, NEW c \in Clients, HandleReply(c)
    PROVE  OwnerOK'
  <1>0. TypeOK /\ PhasesOK /\ TalkOK
    BY DEF Protocol
  <1>1. /\ 1 \in DOMAIN toParent /\ toParent[1].client = c
        /\ \A i \in DOMAIN toParent :
             i \in Nat /\ (i = 1 \/ (i - 1 \in DOMAIN toParent' /\ toParent'[i - 1] = toParent[i]))
        /\ UNCHANGED <<generation, child, toWorker, lease, queue>>
        /\ \A d \in Clients \ {c} : context'[d] = context[d] /\ phase'[d] = phase[d]
        /\ calls[c].op # "none"
        /\ \/ /\ calls[c].op = "acquire" /\ toParent[1].ok
              /\ phase'[c] = "running" /\ context'[c] = context[c]
           \/ /\ calls[c].op = "acquire" /\ ~toParent[1].ok
              /\ phase'[c] = "idle" /\ context'[c] = 0
           \/ /\ calls[c].op = "release"
              /\ phase'[c] = "idle" /\ context'[c] = 0
           \/ /\ calls[c].op \notin {"acquire", "release"}
              /\ phase'[c] = phase[c] /\ context'[c] = context[c]
    BY <1>0, ReplyShape
  <1>2. ASSUME NEW d \in Clients, Owns(d)
        PROVE  Owns(d)'
    <2>1. CASE Ended(d, 0)
      <3>1. Ended(d, 0)'
        BY <1>1, <2>1 DEF Ended, EndedBy
      <3> QED BY <3>1 DEF Owns
    <2>2. CASE ~Ended(d, 0)
      <3>1. (Granted(d) \/ Releasing(d)) /\ NotAsking(d)
        BY <1>2, <2>2 DEF Owns
      <3>2. NotAsking(d)'
        BY <1>1, <3>1 DEF NotAsking
      <3>3. CASE d # c
        <4>1. context'[d] = context[d] /\ phase'[d] = phase[d]
          BY <1>1, <3>3
        <4>2. Releasing(d) => Releasing(d)'
          BY <1>1, <4>1 DEF Releasing
        <4>3. Granted(d) => Granted(d)'
          BY <1>1, <3>3, <4>1 DEF Granted
        <4> QED BY <3>1, <3>2, <4>2, <4>3 DEF Owns
      <3>4. CASE d = c
        <4>1. ~Releasing(c)
          <5>1. ASSUME NEW i \in DOMAIN toWorker, toWorker[i].client = c, toWorker[i].op = "release"
                PROVE  FALSE
            BY <1>0, <1>1, <5>1 DEF TalkOK, RequestOK, NoReply
          <5> QED BY <5>1 DEF Releasing
        <4>2. Granted(c)
          BY <3>1, <3>4, <4>1
        <4>3. calls[c].op # "release"
          BY <1>0, <4>2 DEF Granted, PhasesOK
        <4>4. calls[c].op = "acquire" => toParent[1].ok
          <5>1. \A i \in DOMAIN toParent : toParent[i].client = c => i = 1
            BY <1>0, <1>1 DEF TalkOK, ReplyOK
          <5>2. calls[c].op = "acquire" => phase[c] = "acquiring"
            BY <1>0 DEF PhasesOK
          <5> QED BY <4>2, <5>1, <5>2 DEF Granted
        <4>5. context[c] = generation
          BY <4>2 DEF Granted
        <4>6. phase[c] = "acquiring" <=> calls[c].op = "acquire"
          BY <1>0 DEF PhasesOK
        <4>7. phase'[c] = "running" /\ context'[c] = context[c]
          BY <1>1, <4>2, <4>3, <4>4, <4>6 DEF Granted
        <4>8. Granted(c)'
          BY <1>1, <4>5, <4>7 DEF Granted
        <4> QED BY <3>2, <3>4, <4>8 DEF Owns
      <3> QED BY <3>3, <3>4
    <2> QED BY <2>1, <2>2
  <1> QED BY <1>1, <1>2, OwnerKept

(* Timeouts. *)
LEMMA TimesOutOwner ==
    ASSUME Protocol, OwnerOK, NEW c \in Clients, AcquireTimesOut(c) \/ RpcTimesOut(c)
    PROVE  OwnerOK'
  <1>0. TypeOK /\ ProcessOK /\ PhasesOK /\ TalkOK
    BY DEF Protocol
  <1>1. /\ UNCHANGED generation
        /\ \A d \in Clients \ {c} : context'[d] = context[d] /\ phase'[d] = phase[d]
        /\ calls[c].op # "none"
        /\ \A k \in DOMAIN toParent : toParent[k].client # c =>
             \E i \in DOMAIN toParent' : toParent'[i] = toParent[k]
        /\ \/ calls[c].op \in {"acquire", "release"}
           \/ /\ calls[c].op \notin {"acquire", "release"}
              /\ phase'[c] = phase[c] /\ context'[c] = context[c]
        /\ \/ lease' = NoLease
           \/ /\ UNCHANGED lease
              /\ GivenUp(c)
              /\ DOMAIN queue' = DOMAIN queue
              /\ \A i \in DOMAIN queue : queue'[i].client = queue[i].client
              /\ \/ InService(c) /\ calls[c].op = "acquire" /\ Told(c)
                 \/ ~InService(c) /\ NotTold
    BY TimeoutShape
  <1>2. ASSUME UNCHANGED lease, GivenUp(c),
               \/ InService(c) /\ calls[c].op = "acquire" /\ Told(c)
               \/ ~InService(c) /\ NotTold,
               child = "up", NEW d \in Clients, Owns(d)
        PROVE  Owns(d)'
    <2>1. CASE Ended(d, 0)
      <3>1. Ended(d, 0)'
        BY <1>0, <1>2, <2>1, EndedGivenUp
      <3> QED BY <3>1 DEF Owns
    <2>2. CASE ~Ended(d, 0)
      <3>1. (Granted(d) \/ Releasing(d)) /\ NotAsking(d)
        BY <1>2, <2>2 DEF Owns
      <3>2. NotAsking(d)'
        <4>1. \A i \in DOMAIN toWorker' : \/ i \in DOMAIN toWorker /\ toWorker'[i].client = toWorker[i].client
                                            /\ toWorker'[i].op = toWorker[i].op
                                          \/ toWorker'[i].op = "cancelAcquire"
          BY <1>2 DEF Told, NotTold, GivenUp
        <4> QED BY <3>1, <4>1 DEF NotAsking
      <3>3. CASE d # c
        <4>1. context'[d] = context[d] /\ phase'[d] = phase[d]
          BY <1>1, <3>3
        <4>2. Releasing(d) => Releasing(d)'
          BY <1>1, <1>2, <4>1 DEF Releasing, GivenUp
        <4>3. Granted(d) => Granted(d)'
          BY <1>1, <3>3, <4>1 DEF Granted
        <4> QED BY <3>1, <3>2, <4>2, <4>3 DEF Owns
      <3>4. CASE d = c /\ calls[c].op = "acquire"
        <4>1. context[c] = calls[c].generation /\ context[c] = generation
          BY <1>0, <3>1, <3>4 DEF PhasesOK, Granted, Releasing
        <4>2. Told(c)
          BY <1>2, <4>1 DEF InService
        <4>3. Ended(c, 0)'
          BY <1>0, <1>2, <3>1, <3>4, <4>2, EndedTold, ElementTypes DEF NotAsking
        <4> QED BY <3>4, <4>3 DEF Owns
      <3>5. CASE d = c /\ calls[c].op # "acquire"
        <4>1. ~InService(c)
          BY <1>2, <3>5
        <4>2. ~Releasing(c)
          <5>1. ASSUME NEW i \in DOMAIN toWorker, toWorker[i].client = c, toWorker[i].op = "release"
                PROVE  FALSE
            BY <1>0, <1>2, <4>1, <5>1 DEF TalkOK, RequestOK, Awaits, InService
          <5> QED BY <5>1 DEF Releasing
        <4>3. Granted(c) /\ context[c] = generation /\ phase[c] = "running" /\ calls[c].op # "release"
          BY <1>0, <3>1, <3>5, <4>2 DEF Granted, PhasesOK
        <4>4. Granted(c)'
          BY <1>1, <3>5, <4>3 DEF Granted
        <4> QED BY <3>2, <3>5, <4>4 DEF Owns
      <3> QED BY <3>3, <3>4, <3>5
    <2> QED BY <2>1, <2>2
  <1>3. child # "up" => lease = NoLease
    BY <1>0 DEF ProcessOK
  <1>4. CASE lease' = NoLease
    BY <1>4, OwnerKept
  <1>5. CASE lease' # NoLease
    <2>1. child = "up" /\ UNCHANGED lease
      BY <1>1, <1>3, <1>5
    <2> QED BY <1>1, <1>2, <1>5, <2>1, OwnerKept
  <1> QED BY <1>4, <1>5

--------------------------------------------------------------------------------
(* The owner of the lease: the child.                                       *)

(* A step that answers others leaves the owner.                             *)
LEMMA OwnsHandled ==
    ASSUME Protocol, NEW A, Handles(A), NEW d \in Clients, Owns(d),
           Shifted /\ Head(toWorker).client = d => Head(toWorker).op \notin {"cancelAcquire", "release"}
    PROVE  Owns(d)'
  <1>1. /\ UNCHANGED <<generation, calls, phase, context>>
        /\ Shifted \/ UNCHANGED toWorker
        /\ Replied(A)
    BY DEF Handles
  <1>2. CASE Ended(d, 0)
    <2>1. CASE Shifted
      <3>1. ~Cancels(Head(toWorker), d)
        BY <2>1 DEF Cancels
      <3>2. Ended(d, 0)'
        BY <1>2, <2>1, <3>1, EndedShifted
      <3> QED BY <3>2 DEF Owns
    <2>2. CASE UNCHANGED toWorker
      BY <1>2, <2>2 DEF Owns, Ended, EndedBy
    <2> QED BY <1>1, <2>1, <2>2
  <1>3. CASE ~Ended(d, 0)
    <2>1. (Granted(d) \/ Releasing(d)) /\ NotAsking(d)
      BY <1>3 DEF Owns
    <2>2. NotAsking(d)'
      BY <1>1, <2>1 DEF NotAsking, Shifted
    <2>3. Granted(d) => Granted(d)'
      BY <1>1 DEF Granted, Replied
    <2>4. Releasing(d) => Releasing(d)'
      <3>1. ASSUME NEW i \in DOMAIN toWorker, toWorker[i].client = d, toWorker[i].op = "release"
            PROVE  \E k \in DOMAIN toWorker' : toWorker'[k].client = d /\ toWorker'[k].op = "release"
        <4>1. CASE Shifted
          <5>1. i # 1
            BY <3>1, <4>1 DEF Shifted
          <5>2. i - 1 \in DOMAIN toWorker' /\ toWorker'[i - 1] = toWorker[i]
            BY <4>1, <5>1 DEF Shifted
          <5> QED BY <3>1, <5>2
        <4>2. CASE UNCHANGED toWorker
          BY <3>1, <4>2
        <4> QED BY <1>1, <4>1, <4>2
      <3> QED BY <1>1, <3>1 DEF Releasing
    <2> QED BY <2>1, <2>2, <2>3, <2>4 DEF Owns
  <1> QED BY <1>2, <1>3

(* The client that waited gets a lease and owns it.                         *)
LEMMA OwnsGranted ==
    ASSUME Protocol, UNCHANGED <<generation, calls, phase, context>>,
           NEW d \in Clients, Awaits(d, "acquire"), NoRequest(d)',
           \E i \in DOMAIN toParent' : toParent'[i].client = d /\ toParent'[i].ok
    PROVE  Owns(d)'
  <1>1. phase[d] = "acquiring" /\ context[d] = generation
    BY DEF Protocol, PhasesOK, Awaits
  <1>2. Granted(d)'
    BY <1>1 DEF Granted
  <1>3. NotAsking(d)'
    BY DEF NoRequest, NotAsking
  <1> QED BY <1>2, <1>3 DEF Owns

(* The next holder owns its lease.                                          *)
LEMMA NextOwner ==
    ASSUME Protocol, NextHolder, NEW A, Handles(A),
           Shifted => \A i \in DOMAIN queue : ~Cancels(Head(toWorker), queue[i].client)
    PROVE  OwnerOK'
  <1>0. TypeOK /\ TalkOK /\ UNCHANGED <<generation, calls, phase, context>>
    BY DEF Protocol, Handles
  <1>1. CASE queue = <<>>
    BY <1>1 DEF NextHolder, OwnerOK, NoLease
  <1>2. CASE queue # <<>>
    <2>1. /\ 1 \in DOMAIN queue
          /\ lease' = [holder |-> queue[1].client, lapsed |-> FALSE]
          /\ queue[1].awaited =>
               \E i \in DOMAIN toParent' : toParent'[i].client = queue[1].client /\ toParent'[i].ok
          /\ \A i \in DOMAIN queue' :
               i \in Nat /\ 0 < i /\ i + 1 \in DOMAIN queue /\ queue'[i] = queue[i + 1]
      BY <1>2 DEF NextHolder
    <2>2. PICK q : q = queue[1]
      OBVIOUS
    <2>3. q.client \in Clients /\ WaiterOK(1)
      BY <1>0, <2>1, <2>2, ElementTypes DEF TalkOK
    <2>4. \A i \in DOMAIN queue' : queue'[i].client # q.client
      <3>1. \A i, j \in DOMAIN queue : queue[i].client = queue[j].client => i = j
        BY <1>0 DEF TalkOK, WaiterOK
      <3>2. \A i \in DOMAIN queue' : i + 1 # 1
        BY <2>1
      <3> QED BY <2>1, <2>2, <3>1, <3>2
    <2>5. Owns(q.client)'
      <3>1. CASE q.awaited
        <4>1. Awaits(q.client, "acquire") /\ NoRequest(q.client)
          BY <2>2, <2>3, <3>1 DEF WaiterOK
        <4>2. NoRequest(q.client)'
          BY <4>1 DEF Handles, Shifted, NoRequest
        <4> QED BY <1>0, <2>1, <2>2, <2>3, <3>1, <4>1, <4>2, OwnsGranted
      <3>2. CASE ~q.awaited
        <4>1. Ended(q.client, 0)
          BY <2>2, <2>3, <3>2 DEF WaiterOK
        <4>2. CASE Shifted
          <5>1. ~Cancels(Head(toWorker), q.client)
            BY <2>1, <2>2, <4>2
          <5>2. Ended(q.client, 0)'
            BY <4>1, <4>2, <5>1, EndedShifted
          <5> QED BY <5>2 DEF Owns
        <4>3. CASE UNCHANGED toWorker
          BY <4>1, <4>3 DEF Owns, Ended, EndedBy
        <4> QED BY <4>2, <4>3 DEF Handles
      <3> QED BY <3>1, <3>2
    <2>6. lease'.holder = q.client
      BY <2>1, <2>2
    <2>7. PICK d : d = q.client /\ d = lease'.holder
      BY <2>6
    <2> QED BY <2>4, <2>5, <2>7 DEF OwnerOK
  <1> QED BY <1>1, <1>2

(* The head is answered and the lease stays.                                *)
LEMMA AnswersOwner ==
    ASSUME Protocol, OwnerOK, Shifted, NEW m, m = Head(toWorker), Answers(m),
           UNCHANGED <<generation, calls, phase, context, lease, queue>>,
           lease.holder = m.client /\ ~lease.lapsed => m.op \notin {"cancelAcquire", "release"}
    PROVE  OwnerOK'
  <1>1. PICK A \in SUBSET Clients : Handles(A)
    BY AnswersHead
  <1>2. ASSUME NEW d \in Clients, lease.holder = d, ~lease.lapsed, Owns(d)
        PROVE  Owns(d)'
    BY <1>1, <1>2, OwnsHandled
  <1> QED BY <1>2, OwnerKept

(* Who acquires a free lease is waiting for it, or its cancellation follows.*)
LEMMA HandleAcquireOwner ==
    ASSUME Protocol, OwnerOK, HandleAcquire
    PROVE  OwnerOK'
  <1>0. TypeOK /\ ProcessOK /\ PhasesOK /\ TalkOK
    BY DEF Protocol
  <1>1. PICK m : m = Head(toWorker)
    OBVIOUS
  <1>2. /\ Shifted /\ m \in Requests /\ m.op = "acquire"
        /\ UNCHANGED <<generation, child, calls, phase, context, store>>
        /\ \/ Answers(m) /\ Granting(m)
           \/ Answers(m) /\ UNCHANGED <<lease, queue>>
           \/ Queueing(m)
    BY <1>0, <1>1, AcquireShape
  <1>3. /\ m.client \in Clients /\ 1 \in DOMAIN toWorker /\ toWorker[1] = m
        /\ m.awaited => Awaits(m.client, "acquire") /\ NoRequest(m.client)'
        /\ \A i \in DOMAIN queue : queue[i].client # m.client
        /\ ~m.awaited => Ended(m.client, 0)'
    BY <1>1, <1>2, HeadRequest
  <1>4. CASE Granting(m)
    <2>1. /\ lease' = [holder |-> m.client, lapsed |-> FALSE]
          /\ queue' = queue
          /\ m.awaited => \E i \in DOMAIN toParent' : toParent'[i].client = m.client /\ toParent'[i].ok
      BY <1>4 DEF Granting
    <2>2. Owns(m.client)'
      <3>1. CASE m.awaited
        BY <1>2, <1>3, <2>1, <3>1, OwnsGranted
      <3>2. CASE ~m.awaited
        BY <1>3, <3>2 DEF Owns
      <3> QED BY <3>1, <3>2
    <2>3. PICK d : d = m.client /\ d = lease'.holder
      BY <2>1
    <2> QED BY <1>3, <2>1, <2>2, <2>3 DEF OwnerOK
  <1>5. CASE Answers(m) /\ UNCHANGED <<lease, queue>>
    BY <1>1, <1>2, <1>5, AnswersOwner
  <1>6. CASE Queueing(m)
    <2>1. PICK none : none = {} /\ Handles(none)
      <3>1. Handles({})
        BY <1>0, <1>2, <1>6, RepliedNone DEF Handles, Queueing
      <3> QED BY <3>1
    <2>2. lease' = lease /\ queue' = Append(queue, m) /\ lease.holder # Nobody
      BY <1>6 DEF Queueing
    <2>3. CASE lease.lapsed
      BY <2>2, <2>3 DEF OwnerOK
    <2>4. CASE ~lease.lapsed
      <3>1. PICK d : d = lease.holder /\ d = lease'.holder
        BY <2>2
      <3>2. Owns(d) /\ d \in Clients /\ \A i \in DOMAIN queue : queue[i].client # d
        BY <1>0, <2>2, <2>4, <3>1 DEF OwnerOK, TypeOK
      <3>3. Owns(d)'
        BY <1>1, <1>2, <2>1, <3>2, OwnsHandled
      <3>4. d # m.client
        <4>1. NotAsking(d) => d # m.client
          BY <1>2, <1>3 DEF NotAsking
        <4>2. Ended(d, 0) => d # m.client
          <5>1. ASSUME NEW j \in DOMAIN toWorker, EndedBy(m.client, 0, j)
                PROVE  FALSE
            <6>1. j # 1 /\ (j = 1 \/ 1 < j)
              BY <1>2, <1>3, <5>1 DEF EndedBy, Shifted
            <6> QED BY <1>2, <1>3, <5>1, <6>1 DEF EndedBy
          <5> QED BY <5>1 DEF Ended
        <4> QED BY <3>2, <4>1, <4>2 DEF Owns
      <3>5. \A i \in DOMAIN queue' : queue'[i].client # d
        <4>1. /\ \A i \in DOMAIN queue : queue'[i] = queue[i]
              /\ queue'[Len(queue) + 1] = m
              /\ \A i \in DOMAIN queue' : i \in DOMAIN queue \/ i = Len(queue) + 1
          BY <1>0, <1>2, <2>2, AddingIndexes DEF TypeOK
        <4> QED BY <3>2, <3>4, <4>1
      <3> QED BY <3>1, <3>3, <3>5 DEF OwnerOK
    <2> QED BY <2>3, <2>4
  <1> QED BY <1>2, <1>4, <1>5, <1>6

(* A cancellation takes the lease of its client, and of no other.           *)
LEMMA HandleCancelOwner ==
    ASSUME Protocol, OwnerOK, HandleCancel
    PROVE  OwnerOK'
  <1>0. TypeOK /\ ProcessOK /\ TalkOK
    BY DEF Protocol
  <1>1. PICK m : m = Head(toWorker)
    OBVIOUS
  <1>2. /\ Shifted /\ m \in Requests /\ m.op = "cancelAcquire"
        /\ UNCHANGED <<generation, child, calls, phase, context, store>>
        /\ \/ /\ GrantNext(queue, <<>>)
              /\ \A i \in DOMAIN queue : queue[i].client # m.client
           \/ /\ Fewer /\ UNCHANGED <<lease, toParent>>
              /\ \/ ~LeaseHolder(m)
                 \/ \E i \in DOMAIN queue : queue[i].client = m.client
    BY <1>1, CancelShape
  <1>3. m.generation = generation
    <2>1. RequestOK(1) /\ toWorker[1] = m
      BY <1>1, <1>2, HeadRequest
    <2> QED BY <1>2, <2>1 DEF RequestOK
  <1>4. CASE GrantNext(queue, <<>>) /\ \A i \in DOMAIN queue : queue[i].client # m.client
    <2>1. NextHolder /\ \E A \in SUBSET Clients : Handles(A)
      BY <1>2, <1>4, GrantShape
    <2>2. \A i \in DOMAIN queue : ~Cancels(Head(toWorker), queue[i].client)
      BY <1>1, <1>4 DEF Cancels
    <2> QED BY <2>1, <2>2, NextOwner
  <1>5. CASE /\ Fewer /\ UNCHANGED <<lease, toParent>>
             /\ \/ ~LeaseHolder(m)
                \/ \E i \in DOMAIN queue : queue[i].client = m.client
    <2>1. PICK none : none = {} /\ Handles(none)
      <3>1. Handles({})
        BY <1>0, <1>2, <1>5, RepliedNone DEF Handles
      <3> QED BY <3>1
    <2>2. ASSUME NEW d \in Clients, lease.holder = d, ~lease.lapsed, Owns(d)
          PROVE  Owns(d)'
      <3>1. m.client # d
        <4>1. \A i \in DOMAIN queue : queue[i].client # d
          BY <2>2, SupervisorAssumption DEF OwnerOK
        <4> QED BY <1>3, <1>5, <2>2, <4>1 DEF LeaseHolder
      <3> QED BY <1>1, <2>1, <2>2, <3>1, OwnsHandled
    <2>3. \A i \in DOMAIN queue' : \E k \in DOMAIN queue : queue'[i].client = queue[k].client
      BY <1>5 DEF Fewer
    <2> QED BY <1>5, <2>2, <2>3, OwnerKept
  <1> QED BY <1>2, <1>4, <1>5

(* So does a release.                                                       *)
LEMMA HandleReleaseOwner ==
    ASSUME Protocol, OwnerOK, HandleRelease
    PROVE  OwnerOK'
  <1>0. TypeOK /\ PhasesOK
    BY DEF Protocol
  <1>1. PICK m : m = Head(toWorker)
    OBVIOUS
  <1>2. /\ Shifted /\ m \in Requests /\ m.op = "release" /\ m.awaited
        /\ m.generation = context[m.client]
        /\ UNCHANGED <<generation, child, calls, phase, context, store>>
        /\ \/ GrantNext(queue, Ok(m))
           \/ ~LeaseValid(m) /\ Answers(m) /\ UNCHANGED <<lease, queue>>
    BY <1>1, ReleaseShape
  <1>3. CASE GrantNext(queue, Ok(m))
    <2>1. NextHolder /\ \E A \in SUBSET Clients : Handles(A)
      BY <1>1, <1>3, ReleaseGrant
    <2>2. \A i \in DOMAIN queue : ~Cancels(Head(toWorker), queue[i].client)
      BY <1>1, <1>2 DEF Cancels
    <2> QED BY <2>1, <2>2, NextOwner
  <1>4. CASE ~LeaseValid(m) /\ Answers(m) /\ UNCHANGED <<lease, queue>>
    <2>1. ~(lease.holder = m.client /\ ~lease.lapsed)
      <3>1. ASSUME lease.holder = m.client, ~lease.lapsed
            PROVE  FALSE
        <4>1. Awaits(m.client, "release") /\ m.client \in Clients /\ NoRequest(m.client)'
              /\ 1 \in DOMAIN toWorker /\ toWorker[1] = m /\ RequestOK(1)
          BY <1>1, <1>2, HeadRequest
        <4>2. phase[m.client] = "releasing"
          BY <1>0, <4>1 DEF PhasesOK, Awaits
        <4>3. Owns(m.client)
          BY <3>1, <4>1, SupervisorAssumption DEF OwnerOK
        <4>4. ~Ended(m.client, 0)
          <5>1. ASSUME NEW j \in DOMAIN toWorker, EndedBy(m.client, 0, j)
                PROVE  FALSE
            <6>1. j # 1 /\ (j = 1 \/ 1 < j)
              BY <1>2, <4>1, <5>1 DEF EndedBy, Shifted
            <6> QED BY <1>2, <4>1, <5>1, <6>1 DEF EndedBy, RequestOK
          <5> QED BY <5>1 DEF Ended
        <4>5. context[m.client] = generation
          BY <4>3, <4>4 DEF Owns, Granted, Releasing
        <4> QED BY <1>2, <1>4, <3>1, <4>5 DEF LeaseValid, LeaseHolder
      <3> QED BY <3>1
    <2> QED BY <1>1, <1>2, <1>4, <2>1, AnswersOwner
  <1> QED BY <1>2, <1>3, <1>4

(* Every step keeps a lease in force owned.                                 *)
LEMMA OwnerNext ==
    ASSUME Protocol, Protocol', OwnerOK, [SupervisorNext]_vars
    PROVE  OwnerOK'
  <1>0. TypeOK
    BY DEF Protocol
  <1>1. CASE UNCHANGED vars
    BY <1>1 DEF vars, processVars, workerVars, OwnerOK, Owns, Ended, EndedBy, Granted, Releasing, NotAsking
  <1>2. CASE Serves
    <2>1. PICK m : m = Head(toWorker)
      OBVIOUS
    <2>2. /\ Shifted /\ Answers(m)
          /\ m.op \in {"assertLease", "openJournal", "saveJournal", "grpc"}
          /\ UNCHANGED <<generation, child, calls, phase, context, store, lease, queue>>
      BY <1>0, <1>2, <2>1, ServesShape
    <2> QED BY <2>1, <2>2, AnswersOwner
  <1>3. CASE LeaseLapses
    BY <1>0, <1>3 DEF LeaseLapses, OwnerOK, TypeOK
  <1>4. CASE LeaseTimerFires
    <2>1. /\ UNCHANGED <<generation, calls, phase, context, toWorker>>
          /\ GrantNext(queue, <<>>)
      BY <1>4 DEF LeaseTimerFires, processVars
    <2>2. NextHolder /\ \E A \in SUBSET Clients : Handles(A)
      BY <2>1, GrantShape
    <2>3. ~Shifted
      <3>1. CASE toWorker = <<>>
        BY <3>1 DEF Shifted
      <3>2. CASE toWorker # <<>>
        <4>1. Len(toWorker) \in DOMAIN toWorker /\ Len(toWorker) + 1 \notin DOMAIN toWorker
          BY <1>0, <3>2 DEF TypeOK
        <4> QED BY <2>1, <4>1 DEF Shifted
      <3> QED BY <3>1, <3>2
    <2> QED BY <2>2, <2>3, NextOwner
  <1>5. CASE Processes
    BY <1>5, ProcessesShape, OwnerKept
  <1>6. CASE SupervisorNext
    BY <1>2, <1>3, <1>4, <1>5, <1>6, ClientCallsOwner, HandleReplyOwner, TimesOutOwner,
       HandleAcquireOwner, HandleCancelOwner, HandleReleaseOwner
       DEF SupervisorNext, HandleRequest, Serves
  <1> QED BY <1>1, <1>6

(* A lease in force has an owner who will end it, or a cancellation of it   *)
(* is on its way.                                                           *)
LEMMA OwnerNotAbandoned ==
    ASSUME Protocol, OwnerOK
    PROVE  NoAbandonedLease
  <1>1. ASSUME child = "up", lease.holder # Nobody, ~lease.lapsed
        PROVE  \/ HolderLives
               \/ \E i \in 1..Len(toWorker) :
                    toWorker[i].client = lease.holder /\ toWorker[i].op \in {"cancelAcquire", "release"}
    <2>1. Owns(lease.holder)
      BY <1>1 DEF OwnerOK
    <2>2. CASE Ended(lease.holder, 0)
      BY <2>2, ElementTypes DEF Ended, EndedBy, Protocol
    <2>3. CASE Granted(lease.holder) \/ Releasing(lease.holder)
      BY <1>1, <2>3 DEF HolderLives, Granted, Releasing
    <2> QED BY <2>1, <2>2, <2>3 DEF Owns
  <1> QED BY <1>1 DEF NoAbandonedLease

--------------------------------------------------------------------------------
(* Who was admitted.                                                        *)

(* While nothing came too late nobody gives up: every request is awaited,   *)
(* and who was granted the lease is who has it.                             *)
AllAwaited ==
    /\ \A i \in DOMAIN toWorker : toWorker[i].awaited
    /\ \A i \in DOMAIN queue : queue[i].awaited

OneGranted ==
    /\ \A a, b \in Clients : Granted(a) /\ Granted(b) => a = b
    /\ child = "up" => \A c \in Clients : Granted(c) => lease.holder = c /\ ~lease.lapsed

AdmissionOK == faults = 0 => AllAwaited /\ OneGranted

(* Initially nothing is granted.                                            *)
LEMMA AdmissionInit == SupervisorInit => AdmissionOK
  <1>1. ASSUME SupervisorInit PROVE AllAwaited
    BY <1>1, NoElements DEF SupervisorInit, AllAwaited
  <1>2. ASSUME SupervisorInit PROVE \A c \in Clients : ~Granted(c)
    BY <1>2 DEF SupervisorInit, Granted
  <1> QED BY <1>1, <1>2 DEF AdmissionOK, OneGranted

(* Nobody is granted the lease who was not before.                          *)
LEMMA NobodyNew ==
    ASSUME OneGranted, \A c \in Clients : Granted(c)' => Granted(c),
           \/ child' # "up"
           \/ child' = child /\ lease' = lease
           \/ \A c \in Clients : ~Granted(c)'
    PROVE  OneGranted'
  <1>1. \A a, b \in Clients : Granted(a)' /\ Granted(b)' => a = b
    BY DEF OneGranted
  <1>2. child' = "up" => \A c \in Clients : Granted(c)' => lease'.holder = c /\ ~lease'.lapsed
    BY DEF OneGranted
  <1>3. (\A a, b \in Clients : Granted(a) /\ Granted(b) => a = b)'
    BY <1>1
  <1> QED BY <1>2, <1>3 DEF OneGranted

(* Calls grant nothing,                                                     *)
LEMMA ClientCallsAdmission ==
    ASSUME Protocol, AllAwaited, OneGranted, NEW c \in Clients, ClientCalls(c) \/ Release(c)
    PROVE  AllAwaited' /\ OneGranted'
  <1>0. TypeOK /\ ProcessOK /\ PhasesOK /\ TalkOK /\ generation \in Nat
        /\ \A d \in Clients : context[d] \in Nat /\ context[d] <= generation
    BY DEF Protocol, TypeOK, ProcessOK
  <1>1. PICK m \in Requests :
             /\ m.client = c /\ m.awaited /\ Call(c, m)
             /\ \A d \in Clients \ {c} : context'[d] = context[d] /\ phase'[d] = phase[d]
             /\ \/ /\ m.op = "acquire" /\ phase[c] = "idle"
                   /\ phase'[c] = "acquiring" /\ context'[c] = generation'
                \/ /\ m.op = "release" /\ phase[c] = "running"
                   /\ phase'[c] = "releasing" /\ context'[c] = context[c]
                \/ /\ m.op \notin {"acquire", "release"} /\ phase[c] = "running"
                   /\ phase'[c] = "running" /\ context'[c] = context[c]
    BY <1>0, CallShape
  <1>2. \/ /\ child = "up" /\ SentMore(m)
           /\ UNCHANGED <<generation, child, toParent, lease, queue>>
        \/ /\ child = "dead"
           /\ UNCHANGED <<generation, child, toWorker, toParent, lease, queue>>
        \/ /\ generation' = generation + 1
           /\ toWorker' = <<m>> /\ toParent' = <<>> /\ queue' = <<>>
    BY <1>0, <1>1, CallEffects
  <1>3. NoReply(c)
    BY <1>0, <1>1 DEF Call, TalkOK, ReplyOK, NoReply
  <1>4. CASE UNCHANGED <<generation, child, toParent, lease, queue>> /\ (SentMore(m) \/ UNCHANGED toWorker)
    <2>1. AllAwaited'
      BY <1>1, <1>4 DEF AllAwaited, SentMore
    <2>2. ASSUME NEW d \in Clients, Granted(d)'
          PROVE  Granted(d)
      <3>1. CASE d = c
        BY <1>1, <1>3, <1>4, <2>2, <3>1 DEF Granted, NoReply
      <3>2. CASE d # c
        <4>1. context'[d] = context[d] /\ phase'[d] = phase[d]
          BY <1>1, <3>2
        <4> QED BY <1>4, <2>2, <4>1 DEF Granted
      <3> QED BY <3>1, <3>2
    <2> QED BY <1>4, <2>1, <2>2, NobodyNew
  <1>5. CASE generation' = generation + 1 /\ toWorker' = <<m>> /\ toParent' = <<>> /\ queue' = <<>>
    <2>1. \A i \in DOMAIN toWorker' : toWorker'[i] = m
      BY <1>5
    <2>2. AllAwaited'
      BY <1>1, <1>5, <2>1, NoElements DEF AllAwaited
    <2>3. ASSUME NEW d \in Clients, Granted(d)'
          PROVE  FALSE
      <3>1. \A i \in DOMAIN toParent' : FALSE
        BY <1>5, NoElements
      <3>2. phase'[d] = "running" /\ context'[d] = generation'
        BY <2>3, <3>1 DEF Granted
      <3>3. context'[d] = context[d]
        BY <1>1, <3>2
      <3> QED BY <1>0, <1>5, <3>2, <3>3
    <2> QED BY <2>2, <2>3, NobodyNew
  <1> QED BY <1>2, <1>4, <1>5

(* nor do replies;                                                          *)
LEMMA HandleReplyAdmission ==
    ASSUME Protocol, AllAwaited, OneGranted, NEW c \in Clients, HandleReply(c)
    PROVE  AllAwaited' /\ OneGranted'
  <1>0. TypeOK /\ ProcessOK /\ PhasesOK /\ TalkOK /\ generation \in Nat
    BY DEF Protocol, TypeOK
  <1>1. /\ 1 \in DOMAIN toParent /\ toParent[1].client = c
        /\ \A i \in DOMAIN toParent' : i + 1 \in DOMAIN toParent /\ toParent'[i] = toParent[i + 1]
        /\ UNCHANGED <<generation, child, toWorker, lease, queue>>
        /\ \A d \in Clients \ {c} : context'[d] = context[d] /\ phase'[d] = phase[d]
        /\ \/ /\ calls[c].op = "acquire" /\ toParent[1].ok
              /\ phase'[c] = "running" /\ context'[c] = context[c]
           \/ phase'[c] = "idle"
           \/ phase'[c] = phase[c] /\ context'[c] = context[c]
    BY <1>0, ReplyShape
  <1>2. AllAwaited'
    BY <1>1 DEF AllAwaited
  <1>3. ASSUME NEW d \in Clients, Granted(d)'
        PROVE  Granted(d)
    <2>1. CASE d = c /\ calls[c].op = "acquire" /\ toParent[1].ok
      <3>1. calls[c].generation = generation
        BY <1>0, <1>1 DEF TalkOK, ReplyOK
      <3>2. phase[c] = "acquiring" /\ context[c] = generation
        BY <1>0, <2>1, <3>1 DEF PhasesOK
      <3> QED BY <1>1, <2>1, <3>2 DEF Granted
    <2>2. CASE phase'[d] = phase[d] /\ context'[d] = context[d]
      BY <1>1, <1>3, <2>2 DEF Granted
    <2>3. CASE phase'[d] = "idle"
      BY <1>3, <2>3 DEF Granted
    <2> QED BY <1>1, <2>1, <2>2, <2>3
  <1> QED BY <1>1, <1>2, <1>3, NobodyNew

(* without a fault nobody gives up but on a child that is gone,             *)
LEMMA TimesOutAdmission ==
    ASSUME Protocol, AllAwaited, OneGranted, NEW c \in Clients, AcquireTimesOut(c) \/ RpcTimesOut(c),
           faults' = 0
    PROVE  AllAwaited' /\ OneGranted'
  <1>0. TypeOK /\ ProcessOK /\ PhasesOK /\ TalkOK /\ generation \in Nat /\ faults \in Nat
    BY DEF Protocol, TypeOK
  <1>1. /\ UNCHANGED generation
        /\ \A d \in Clients \ {c} : context'[d] = context[d] /\ phase'[d] = phase[d]
        /\ \A i \in DOMAIN toParent' : \E k \in DOMAIN toParent : toParent'[i] = toParent[k]
        /\ \/ phase'[c] = "idle"
           \/ phase'[c] = phase[c] /\ context'[c] = context[c]
        /\ InService(c) => faults' = faults + 1
    BY TimeoutShape
  <1>2. ~InService(c)
    BY <1>0, <1>1
  <1>3. /\ UNCHANGED <<child, lease>>
        /\ GivenUp(c) /\ NotTold
        /\ DOMAIN queue' = DOMAIN queue
        /\ \A i \in DOMAIN queue :
             /\ queue'[i].awaited = (queue[i].awaited /\ queue[i].client # c)
             /\ queue[i].awaited => queue[i].client # c
    BY <1>2, TimeoutShape
  <1>4. AllAwaited'
    <2>1. \A i \in DOMAIN toWorker : toWorker[i].client # c
      BY <1>0, <1>2, NoElements DEF AllAwaited, TalkOK, RequestOK, Awaits, InService, ProcessOK
    <2>2. \A i \in DOMAIN toWorker' : toWorker'[i].awaited
      BY <1>3, <2>1 DEF GivenUp, NotTold, AllAwaited
    <2>3. \A i \in DOMAIN queue' : queue'[i].awaited
      BY <1>3 DEF AllAwaited
    <2> QED BY <2>2, <2>3 DEF AllAwaited
  <1>5. ASSUME NEW d \in Clients, Granted(d)'
        PROVE  Granted(d)
    <2>1. phase'[d] = phase[d] /\ context'[d] = context[d]
      BY <1>1, <1>5 DEF Granted
    <2> QED BY <1>1, <1>5, <2>1 DEF Granted
  <1> QED BY <1>3, <1>4, <1>5, NobodyNew

(* and a new process has granted nothing.                                   *)
LEMMA ProcessesAdmission ==
    ASSUME Protocol, AllAwaited, OneGranted, Processes
    PROVE  AllAwaited' /\ OneGranted'
  <1>0. /\ generation \in Nat
        /\ \A d \in Clients : context[d] \in Nat /\ context[d] <= generation
    BY DEF Protocol, TypeOK, ProcessOK
  <1>1. /\ toWorker' = <<>> /\ queue' = <<>>
        /\ \/ child' # "up" /\ UNCHANGED generation
           \/ child' = "up" /\ generation' = generation + 1
        /\ \/ UNCHANGED <<phase, context>> /\ (toParent' = toParent \/ toParent' = <<>>)
           \/ /\ toParent' = <<>>
              /\ phase' = [c \in Clients |-> IF phase[c] = "running" THEN "running" ELSE "idle"]
              /\ context' = [c \in Clients |-> IF phase[c] = "running" THEN context[c] ELSE 0]
           \/ phase' = [c \in Clients |-> "idle"]
    BY ProcessesShape
  <1>2. AllAwaited'
    BY <1>1, NoElements DEF AllAwaited
  <1>3. ASSUME NEW d \in Clients, Granted(d)'
        PROVE  context'[d] = context[d] /\ (generation' = generation => Granted(d))
    <2>1. CASE UNCHANGED <<phase, context>> /\ (toParent' = toParent \/ toParent' = <<>>)
      BY <1>3, <2>1, NoElements DEF Granted
    <2>2. CASE /\ toParent' = <<>>
               /\ phase' = [c \in Clients |-> IF phase[c] = "running" THEN "running" ELSE "idle"]
               /\ context' = [c \in Clients |-> IF phase[c] = "running" THEN context[c] ELSE 0]
      BY <1>3, <2>2 DEF Granted
    <2>3. CASE phase' = [c \in Clients |-> "idle"]
      BY <1>3, <2>3 DEF Granted
    <2> QED BY <1>1, <2>1, <2>2, <2>3
  <1>4. CASE child' # "up" /\ UNCHANGED generation
    BY <1>2, <1>3, <1>4, NobodyNew
  <1>5. CASE generation' = generation + 1
    <2>1. ASSUME NEW d \in Clients, Granted(d)'
          PROVE  FALSE
      BY <1>0, <1>3, <1>5, <2>1 DEF Granted
    <2> QED BY <1>2, <2>1, NobodyNew
  <1> QED BY <1>1, <1>4, <1>5

--------------------------------------------------------------------------------
(* Who was admitted: the child.                                             *)

(* Only who is told that it has the lease is granted it.                    *)
LEMMA GrantedHandled ==
    ASSUME NEW A, Handles(A), NEW d \in Clients, Granted(d)'
    PROVE  Granted(d) \/ (d \in A /\ phase[d] = "acquiring")
  BY DEF Handles, Replied, Granted

(* The child leaves the other requests as they are.                         *)
LEMMA RequestsHandled ==
    ASSUME AllAwaited, NEW A, Handles(A)
    PROVE  \A i \in DOMAIN toWorker' : toWorker'[i].awaited
  BY DEF AllAwaited, Handles, Shifted

(* The next holder, when nobody holds the lease any more.                   *)
LEMMA NextAdmission ==
    ASSUME Protocol, AllAwaited, NextHolder, UNCHANGED child,
           \A d \in Clients : ~Granted(d),
           NEW A, Handles(A),
           \A a \in A : \/ queue # <<>> /\ queue[1].awaited /\ a = queue[1].client
                        \/ calls[a].op = "release"
    PROVE  AllAwaited' /\ OneGranted'
  <1>1. AllAwaited'
    <2>1. \A i \in DOMAIN toWorker' : toWorker'[i].awaited
      BY RequestsHandled
    <2>2. \A i \in DOMAIN queue' : queue'[i].awaited
      BY DEF AllAwaited, NextHolder
    <2> QED BY <2>1, <2>2 DEF AllAwaited
  <1>2. ASSUME NEW d \in Clients, Granted(d)'
        PROVE  lease'.holder = d /\ ~lease'.lapsed /\ d = queue[1].client
    <2>1. d \in A /\ phase[d] = "acquiring"
      BY <1>2, GrantedHandled
    <2>2. calls[d].op # "release"
      BY <2>1 DEF Protocol, PhasesOK
    <2>3. queue # <<>> /\ d = queue[1].client
      BY <2>1, <2>2
    <2> QED BY <2>3 DEF NextHolder
  <1>3. (\A a, b \in Clients : Granted(a) /\ Granted(b) => a = b)'
    BY <1>2
  <1> QED BY <1>1, <1>2, <1>3 DEF OneGranted

(* The lease is granted when nobody has it,                                 *)
LEMMA HandleAcquireAdmission ==
    ASSUME Protocol, AllAwaited, OneGranted, HandleAcquire
    PROVE  AllAwaited' /\ OneGranted'
  <1>0. TypeOK /\ PhasesOK /\ TalkOK
    BY DEF Protocol
  <1>1. PICK m : m = Head(toWorker)
    OBVIOUS
  <1>2. /\ Shifted /\ m \in Requests /\ m.op = "acquire"
        /\ UNCHANGED <<generation, child, calls, phase, context, store>>
        /\ \/ Answers(m) /\ Granting(m)
           \/ Answers(m) /\ UNCHANGED <<lease, queue>> /\ Refused(m)
           \/ Queueing(m)
    BY <1>0, <1>1, AcquireShape
  <1>3. m.client \in Clients /\ child = "up" /\ 1 \in DOMAIN toWorker /\ toWorker[1] = m
        /\ (m.awaited => NoReply(m.client))
    BY <1>1, <1>2, HeadRequest
  <1>4. m.awaited
    BY <1>3 DEF AllAwaited
  <1>5. CASE Answers(m) /\ (Granting(m) \/ (UNCHANGED <<lease, queue>> /\ Refused(m)))
    <2>1. PICK A \in SUBSET Clients : Handles(A) /\ A \subseteq {m.client}
      BY <1>1, <1>2, <1>5, AnswersHead
    <2>2. queue' = queue
      BY <1>5 DEF Granting
    <2>3. AllAwaited'
      BY <2>1, <2>2, RequestsHandled DEF AllAwaited
    <2>4. CASE Granting(m)
      <3>1. lease' = [holder |-> m.client, lapsed |-> FALSE] /\ lease.holder = Nobody
        BY <2>4 DEF Granting
      <3>2. \A d \in Clients : ~Granted(d)
        BY <1>3, <3>1, SupervisorAssumption DEF OneGranted
      <3>3. \A d \in Clients : Granted(d)' => d = m.client
        BY <2>1, <3>2, GrantedHandled
      <3>4. (\A a, b \in Clients : Granted(a) /\ Granted(b) => a = b)'
        BY <3>3
      <3> QED BY <2>3, <3>1, <3>3, <3>4 DEF OneGranted
    <2>5. CASE UNCHANGED <<lease, queue>> /\ Refused(m)
      <3>1. ASSUME NEW d \in Clients, Granted(d)'
            PROVE  Granted(d)
        <4>1. CASE d # m.client
          BY <2>1, <3>1, <4>1, GrantedHandled
        <4>2. CASE d = m.client
          <5>1. \A i \in DOMAIN toParent' : toParent'[i].client = m.client => ~toParent'[i].ok
            <6>1. \A i \in DOMAIN toParent : toParent'[i] = toParent[i]
              BY <2>1 DEF Handles, Replied
            <6> QED BY <1>3, <1>4, <2>5, <6>1 DEF Refused, NoReply
          <5> QED BY <1>2, <3>1, <4>2, <5>1 DEF Granted
        <4> QED BY <4>1, <4>2
      <3> QED BY <1>2, <2>3, <2>5, <3>1, NobodyNew
    <2> QED BY <1>5, <2>4, <2>5
  <1>6. CASE Queueing(m)
    <2>1. PICK none : none = {} /\ Handles(none)
      <3>1. Handles({})
        BY <1>0, <1>2, <1>6, RepliedNone DEF Handles, Queueing
      <3> QED BY <3>1
    <2>2. lease' = lease /\ queue' = Append(queue, m)
      BY <1>6 DEF Queueing
    <2>3. \A i \in DOMAIN queue' : queue'[i].awaited
      <3>1. /\ \A i \in DOMAIN queue : queue'[i] = queue[i]
            /\ queue'[Len(queue) + 1] = m
            /\ \A i \in DOMAIN queue' : i \in DOMAIN queue \/ i = Len(queue) + 1
        BY <1>0, <1>2, <2>2, AddingIndexes DEF TypeOK
      <3> QED BY <1>4, <3>1 DEF AllAwaited
    <2>4. AllAwaited'
      BY <2>1, <2>3, RequestsHandled DEF AllAwaited
    <2>5. \A d \in Clients : Granted(d)' => Granted(d)
      BY <2>1, GrantedHandled
    <2> QED BY <1>2, <2>2, <2>4, <2>5, NobodyNew
  <1> QED BY <1>2, <1>5, <1>6

(* or when its holder gives it back.                                        *)
LEMMA HandleReleaseAdmission ==
    ASSUME Protocol, AllAwaited, OneGranted, HandleRelease
    PROVE  AllAwaited' /\ OneGranted'
  <1>0. TypeOK /\ PhasesOK
    BY DEF Protocol
  <1>1. PICK m : m = Head(toWorker)
    OBVIOUS
  <1>2. /\ Shifted /\ m \in Requests /\ m.op = "release" /\ m.awaited
        /\ UNCHANGED <<generation, child, calls, phase, context, store>>
        /\ \/ LeaseValid(m) /\ GrantNext(queue, Ok(m))
           \/ Answers(m) /\ UNCHANGED <<lease, queue>>
    BY <1>1, ReleaseShape
  <1>3. m.client \in Clients /\ child = "up" /\ Awaits(m.client, "release")
    BY <1>1, <1>2, HeadRequest
  <1>4. phase[m.client] = "releasing"
    BY <1>0, <1>3 DEF PhasesOK, Awaits
  <1>5. CASE LeaseValid(m) /\ GrantNext(queue, Ok(m))
    <2>1. \A d \in Clients : ~Granted(d)
      <3>1. lease.holder = m.client
        BY <1>5 DEF LeaseValid, LeaseHolder
      <3>2. ~Granted(m.client)
        BY <1>4 DEF Granted
      <3> QED BY <1>3, <3>1, <3>2 DEF OneGranted
    <2>2. /\ NextHolder
          /\ \E A \in SUBSET Clients :
                /\ Handles(A)
                /\ \A a \in A : \/ queue # <<>> /\ queue[1].awaited /\ a = queue[1].client
                                \/ calls[a].op = "release"
      BY <1>1, <1>5, ReleaseGrant
    <2> QED BY <1>2, <2>1, <2>2, NextAdmission
  <1>6. CASE Answers(m) /\ UNCHANGED <<lease, queue>>
    <2>1. PICK A \in SUBSET Clients : Handles(A) /\ A \subseteq {m.client}
      BY <1>1, <1>2, <1>6, AnswersHead
    <2>2. \A d \in Clients : Granted(d)' => Granted(d)
      BY <1>4, <2>1, GrantedHandled
    <2>3. AllAwaited'
      BY <1>6, <2>1, RequestsHandled DEF AllAwaited
    <2> QED BY <1>2, <1>6, <2>2, <2>3, NobodyNew
  <1> QED BY <1>2, <1>5, <1>6

(* The other handlers do not concern it.                                    *)
LEMMA ServesAdmission ==
    ASSUME Protocol, AllAwaited, OneGranted, Serves
    PROVE  AllAwaited' /\ OneGranted'
  <1>0. TypeOK /\ PhasesOK
    BY DEF Protocol
  <1>1. PICK m : m = Head(toWorker)
    OBVIOUS
  <1>2. /\ Shifted /\ Answers(m)
        /\ m.op \in {"assertLease", "openJournal", "saveJournal", "grpc"}
        /\ UNCHANGED <<generation, child, calls, phase, context, store, lease, queue>>
    BY <1>0, <1>1, ServesShape
  <1>3. PICK A \in SUBSET Clients : Handles(A) /\ A \subseteq {m.client} /\ (~m.awaited => A = {})
    BY <1>1, <1>2, AnswersHead
  <1>4. m.client \in Clients /\ (m.awaited => Awaits(m.client, m.op))
    BY <1>1, <1>2, HeadRequest
  <1>5. m.awaited => phase[m.client] # "acquiring"
    BY <1>0, <1>2, <1>4 DEF PhasesOK, Awaits
  <1>6. \A d \in Clients : Granted(d)' => Granted(d)
    BY <1>3, <1>5, GrantedHandled
  <1>7. AllAwaited'
    BY <1>2, <1>3, RequestsHandled DEF AllAwaited
  <1> QED BY <1>2, <1>6, <1>7, NobodyNew

(* Without a fault only the lease of a client that is gone lapses.          *)
LEMMA LeaseTimesAdmission ==
    ASSUME Protocol, AllAwaited, OneGranted, LeaseLapses \/ LeaseTimerFires, faults' = 0
    PROVE  AllAwaited' /\ OneGranted'
  <1>0. TypeOK /\ ProcessOK /\ faults \in Nat
    BY DEF Protocol, TypeOK
  <1>1. CASE LeaseLapses
    <2>1. /\ UNCHANGED <<generation, child, phase, context, toWorker, toParent, queue>>
          /\ lease.holder # Nobody
      BY <1>1 DEF LeaseLapses, processVars
    <2>2. ~HolderLives
      <3>1. HolderLives => faults' = faults + 1
        BY <1>1 DEF LeaseLapses, FaultHappens
      <3> QED BY <1>0, <3>1
    <2>3. child = "up" => \A d \in Clients : ~Granted(d)
      BY <2>1, <2>2 DEF HolderLives, Granted, OneGranted
    <2>4. \A d \in Clients : Granted(d)' => Granted(d)
      BY <2>1 DEF Granted
    <2>5. AllAwaited'
      BY <2>1 DEF AllAwaited
    <2>6. child = "up"
      BY <1>0, <2>1 DEF ProcessOK, NoLease
    <2> QED BY <2>3, <2>4, <2>5, <2>6, NobodyNew
  <1>2. CASE LeaseTimerFires
    <2>1. /\ UNCHANGED <<generation, child, calls, phase, context, toWorker>>
          /\ GrantNext(queue, <<>>) /\ lease.lapsed
      BY <1>2 DEF LeaseTimerFires, processVars
    <2>2. child = "up"
      BY <1>0, <2>1 DEF ProcessOK, NoLease
    <2>3. \A d \in Clients : ~Granted(d)
      BY <2>1, <2>2 DEF OneGranted
    <2>4. /\ NextHolder
          /\ \E A \in SUBSET Clients :
                /\ Handles(A)
                /\ \A a \in A : \/ queue # <<>> /\ queue[1].awaited /\ a = queue[1].client
                                \/ calls[a].op = "release"
      BY <2>1, GrantShape
    <2> QED BY <2>1, <2>3, <2>4, NextAdmission
  <1> QED BY <1>1, <1>2

(* Every step keeps the admission exclusive.                                *)
LEMMA AdmissionNext ==
    ASSUME Protocol, AdmissionOK, [SupervisorNext]_vars
    PROVE  AdmissionOK'
  <1>0. TypeOK /\ faults \in Nat
    BY DEF Protocol, TypeOK
  <1> SUFFICES ASSUME faults' = 0
               PROVE  AllAwaited' /\ OneGranted'
    BY DEF AdmissionOK
  <1>1. CASE UNCHANGED vars
    BY <1>1 DEF vars, processVars, workerVars, AdmissionOK, AllAwaited, OneGranted, Granted
  <1>2. CASE SupervisorNext
    <2>1. faults' = faults \/ faults' = faults + 1
      BY <1>2 DEF SupervisorNext, ClientCalls, Acquire, Release, OpenJournal, SaveJournal, AssertLease, Grpc,
         Call, HandleReply, AcquireAnswered, ReleaseAnswered, AssertAnswered, GrpcAnswered, OpenAnswered,
         SaveAnswered, Answered, AcquireTimesOut, RpcTimesOut, FaultHappens, HandleRequest, HandleAcquire,
         HandleCancel, HandleRelease, HandleAssert, HandleOpen, HandleSave, HandleSaveFails, LeaseLapses,
         LeaseTimerFires, Processes, ChildDies, ChannelCloses, ExitNoticed, Respawn, ServerRestarts
    <2>2. AllAwaited /\ OneGranted
      BY <1>0, <2>1 DEF AdmissionOK
    <2>3. ~HandleCancel
      <3>1. ASSUME HandleCancel PROVE FALSE
        <4>1. PICK m : m = Head(toWorker)
          OBVIOUS
        <4>2. Shifted /\ m.op = "cancelAcquire"
          BY <3>1, <4>1, CancelShape
        <4>3. 1 \in DOMAIN toWorker /\ toWorker[1] = m /\ (m.awaited => m.op # "cancelAcquire")
          BY <4>1, <4>2, HeadRequest
        <4> QED BY <2>2, <4>2, <4>3 DEF AllAwaited
      <3> QED BY <3>1
    <2> QED BY <1>2, <2>2, <2>3, ClientCallsAdmission, HandleReplyAdmission, TimesOutAdmission,
               ProcessesAdmission, HandleAcquireAdmission, HandleReleaseAdmission, ServesAdmission,
               LeaseTimesAdmission DEF SupervisorNext, HandleRequest, Serves
  <1> QED BY <1>1, <1>2

(* Who runs with a lease of the process was granted it.                     *)
LEMMA AdmissionExclusive ==
    ASSUME AdmissionOK
    PROVE  ExclusiveAdmission
  BY DEF AdmissionOK, OneGranted, Granted, ExclusiveAdmission, HasLease

--------------------------------------------------------------------------------
(* The journals.                                                            *)

(* A revision and a journal that agree with the record of the child.        *)
Fits(revision, journal) ==
    /\ record.open
    /\ revision <= record.revision
    /\ revision = record.revision => journal = record.journal

SaveOK(i) ==
    LET m == toWorker[i] IN
    m.op = "saveJournal" =>
      /\ m.generation = generation => Fits(m.revision, m.base)
      /\ m.awaited => m.journal = calls[m.client].journal

AnswerOK(i) ==
    LET r == toParent[i] IN
    /\ calls[r.client].op = "openJournal" => Fits(r.revision, r.journal)
    /\ calls[r.client].op = "saveJournal" /\ r.ok => Fits(r.revision, calls[r.client].journal)

(* What the executor has opened in this process, what it saves and what it  *)
(* is answered fits the record, which is the file.                          *)
JournalOK ==
    child = "up" =>
      /\ record.open => record.journal = file
      /\ store.generation = generation => Fits(store.revision, store.journal)
      /\ \A i \in DOMAIN toWorker : SaveOK(i)
      /\ \A i \in DOMAIN toParent : AnswerOK(i)

(* Initially no journal is open.                                            *)
LEMMA JournalInit == SupervisorInit => JournalOK
  BY NoElements DEF SupervisorInit, JournalOK, NotOpen, NoStore

(* A new process knows no journal.                                          *)
LEMMA JournalForked ==
    ASSUME Protocol, generation' = generation + 1, record' = NotOpen, toParent' = <<>>,
           store' = store \/ store' = NoStore,
           \A i \in DOMAIN toWorker' :
             /\ toWorker'[i].op = "saveJournal" => toWorker'[i].generation # generation'
             /\ toWorker'[i].journal = calls'[toWorker'[i].client].journal
    PROVE  JournalOK'
  <1>1. store'.generation # generation'
    BY DEF Protocol, TypeOK, ProcessOK, NoStore
  <1>2. \A i \in DOMAIN toWorker' : SaveOK(i)'
    BY DEF SaveOK
  <1>3. ~record'.open
    BY DEF NotOpen
  <1> QED BY <1>1, <1>2, <1>3, NoElements DEF JournalOK

(* A save carries the revision and the journal of the store,                *)
LEMMA ClientCallsJournal ==
    ASSUME Protocol, JournalOK, NEW c \in Clients, ClientCalls(c) \/ Release(c)
    PROVE  JournalOK'
  <1>0. TypeOK /\ ProcessOK /\ TalkOK /\ generation \in Nat
        /\ \A d \in Clients : context[d] \in Nat /\ context[d] <= generation
    BY DEF Protocol, TypeOK, ProcessOK
  <1>1. PICK m \in Requests :
             /\ m.client = c /\ m.awaited /\ m.generation = context[c] /\ Call(c, m)
             /\ m.op = "saveJournal" => /\ store.generation = generation
                                        /\ m.revision = store.revision /\ m.base = store.journal
             /\ UNCHANGED <<store, file, faults>>
    BY <1>0, CallShape
  <1>2. /\ \A d \in Clients \ {c} : calls'[d] = calls[d]
        /\ calls'[c] = [op |-> m.op, generation |-> generation', journal |-> m.journal]
        /\ \/ /\ child = "up" /\ SentMore(m)
              /\ UNCHANGED <<generation, child, toParent, lease, queue, record>>
           \/ child' = "dead"
           \/ /\ generation' = generation + 1 /\ record' = NotOpen
              /\ toWorker' = <<m>> /\ toParent' = <<>>
    BY <1>0, <1>1, CallEffects
  <1>3. calls[c].op = "none"
    BY <1>1 DEF Call
  <1>4. CASE child = "up" /\ SentMore(m) /\ UNCHANGED <<generation, child, toParent, lease, queue, record>>
    <2>1. ASSUME NEW i \in DOMAIN toWorker'
          PROVE  SaveOK(i)'
      <3>1. CASE i \in DOMAIN toWorker
        <4>1. PICK n : n = toWorker[i] /\ n = toWorker'[i]
          BY <1>4, <3>1 DEF SentMore
        <4>2. n.client \in Clients /\ n.op # "none"
          BY <1>0, <3>1, <4>1, ElementTypes
        <4>3. SaveOK(i) /\ RequestOK(i)
          BY <1>0, <1>4, <3>1 DEF JournalOK, TalkOK
        <4>4. n.awaited => n.client # c
          BY <1>3, <4>1, <4>2, <4>3 DEF RequestOK, Awaits
        <4> QED BY <1>2, <1>4, <4>1, <4>2, <4>3, <4>4 DEF SaveOK, Fits
      <3>2. CASE i = Len(toWorker) + 1
        <4>1. toWorker'[i] = m
          BY <1>4, <3>2 DEF SentMore
        <4>2. m.op = "saveJournal" => Fits(m.revision, m.base)
          BY <1>1, <1>4 DEF JournalOK
        <4> QED BY <1>1, <1>2, <1>4, <4>1, <4>2 DEF SaveOK, Fits
      <3> QED BY <1>4, <2>1, <3>1, <3>2 DEF SentMore
    <2>2. ASSUME NEW i \in DOMAIN toParent'
          PROVE  AnswerOK(i)'
      <3>1. PICK r : r = toParent[i] /\ r = toParent'[i] /\ i \in DOMAIN toParent
        BY <1>4, <2>2
      <3>2. r.client \in Clients /\ ReplyOK(i) /\ AnswerOK(i)
        BY <1>0, <1>4, <3>1, ElementTypes DEF JournalOK, TalkOK
      <3>3. r.client # c
        BY <1>3, <3>1, <3>2 DEF ReplyOK
      <3> QED BY <1>2, <1>4, <3>1, <3>2, <3>3 DEF AnswerOK, Fits
    <2>3. /\ record'.open => record'.journal = file'
          /\ store'.generation = generation' => Fits(store.revision, store.journal)'
      BY <1>1, <1>4 DEF JournalOK, Fits
    <2>4. (store.generation = generation => Fits(store.revision, store.journal))'
      BY <2>3 DEF Fits
    <2> QED BY <2>1, <2>2, <2>3, <2>4 DEF JournalOK
  <1>5. CASE child' = "dead"
    BY <1>5 DEF JournalOK
  <1>6. CASE generation' = generation + 1 /\ record' = NotOpen /\ toWorker' = <<m>> /\ toParent' = <<>>
    <2>1. \A i \in DOMAIN toWorker' : toWorker'[i] = m
      BY <1>6
    <2>2. m.generation # generation'
      BY <1>0, <1>1, <1>6
    <2>3. m.journal = calls'[m.client].journal
      BY <1>1, <1>2
    <2> QED BY <1>1, <1>6, <2>1, <2>2, <2>3, JournalForked
  <1> QED BY <1>2, <1>4, <1>5, <1>6

(* which come from the answer to an open or a save,                         *)
LEMMA HandleReplyJournal ==
    ASSUME Protocol, JournalOK, NEW c \in Clients, HandleReply(c)
    PROVE  JournalOK'
  <1>0. TypeOK /\ ProcessOK /\ TalkOK
    BY DEF Protocol
  <1>1. /\ 1 \in DOMAIN toParent /\ toParent[1].client = c
        /\ \A i \in DOMAIN toParent' :
             i \in Nat /\ 0 < i /\ i + 1 \in DOMAIN toParent /\ toParent'[i] = toParent[i + 1]
        /\ UNCHANGED <<generation, child, toWorker, record, file>>
        /\ \A d \in Clients \ {c} : calls'[d] = calls[d]
        /\ calls[c].op # "none"
    BY <1>0, ReplyShape
  <1>2. CASE child = "up"
    <2>1. ReplyOK(1) /\ AnswerOK(1)
      BY <1>0, <1>1, <1>2 DEF JournalOK, TalkOK
    <2>2. calls[c].generation = generation
      BY <1>1, <2>1 DEF ReplyOK
    <2>3. ASSUME NEW i \in DOMAIN toWorker'
          PROVE  SaveOK(i)'
      <3>1. PICK n : n = toWorker[i] /\ n = toWorker'[i] /\ i \in DOMAIN toWorker
        BY <1>1, <2>3
      <3>2. n.client \in Clients /\ SaveOK(i) /\ RequestOK(i)
        BY <1>0, <1>2, <3>1, ElementTypes DEF JournalOK, TalkOK
      <3>3. n.awaited => n.client # c
        BY <1>1, <3>1, <3>2 DEF RequestOK, NoReply
      <3> QED BY <1>1, <3>1, <3>2, <3>3 DEF SaveOK, Fits
    <2>4. ASSUME NEW i \in DOMAIN toParent'
          PROVE  AnswerOK(i)'
      <3>1. PICK r : r = toParent[i + 1] /\ r = toParent'[i] /\ i + 1 \in DOMAIN toParent /\ i + 1 # 1
        BY <1>1, <2>4
      <3>2. r.client \in Clients /\ AnswerOK(i + 1)
        BY <1>0, <1>2, <3>1, ElementTypes DEF JournalOK
      <3>3. r.client # c
        BY <1>1, <2>1, <3>1 DEF ReplyOK
      <3> QED BY <1>1, <3>1, <3>2, <3>3 DEF AnswerOK, Fits
    <2>5. (store.generation = generation => Fits(store.revision, store.journal))'
      <3>1. CASE OpenAnswered(c)
        <4>1. /\ store' = [generation |-> calls[c].generation,
                           revision |-> Head(toParent).revision,
                           journal |-> Head(toParent).journal]
              /\ calls[c].op = "openJournal"
          BY <3>1 DEF OpenAnswered, Answered
        <4>2. Head(toParent) = toParent[1]
          BY <1>0, <1>1 DEF TypeOK
        <4>3. Fits(toParent[1].revision, toParent[1].journal)
          BY <1>1, <2>1, <4>1 DEF AnswerOK
        <4> QED BY <1>1, <4>1, <4>2, <4>3 DEF Fits
      <3>2. CASE SaveAnswered(c) /\ Head(toParent).ok /\ store.generation = calls[c].generation
        <4>1. /\ store' = [store EXCEPT !.revision = Head(toParent).revision,
                                        !.journal = calls[c].journal]
              /\ calls[c].op = "saveJournal"
          BY <3>2 DEF SaveAnswered, Answered
        <4>2. Head(toParent) = toParent[1]
          BY <1>0, <1>1 DEF TypeOK
        <4>3. Fits(toParent[1].revision, calls[c].journal)
          BY <1>1, <2>1, <3>2, <4>1, <4>2 DEF AnswerOK
        <4>4. store'.revision = toParent[1].revision /\ store'.journal = calls[c].journal
          BY <1>0, <4>1, <4>2 DEF TypeOK
        <4> QED BY <1>1, <4>3, <4>4 DEF Fits
      <3>3. CASE store' = store
        BY <1>1, <1>2, <3>3 DEF JournalOK, Fits
      <3> QED BY <3>1, <3>2, <3>3 DEF HandleReply, AcquireAnswered, ReleaseAnswered, AssertAnswered,
                                      GrpcAnswered, SaveAnswered
    <2>6. record'.open => record'.journal = file'
      BY <1>1, <1>2 DEF JournalOK
    <2> QED BY <2>3, <2>4, <2>5, <2>6 DEF JournalOK
  <1>3. CASE child # "up"
    BY <1>1, <1>3 DEF JournalOK
  <1> QED BY <1>2, <1>3

(* and stay as they are when a call is given up.                            *)
LEMMA TimesOutJournal ==
    ASSUME Protocol, JournalOK, NEW c \in Clients, AcquireTimesOut(c) \/ RpcTimesOut(c)
    PROVE  JournalOK'
  <1>0. TypeOK /\ ProcessOK /\ TalkOK
    BY DEF Protocol
  <1>1. /\ UNCHANGED <<generation, store, file>>
        /\ \A d \in Clients \ {c} : calls'[d] = calls[d]
        /\ \A i \in DOMAIN toParent' : \E k \in DOMAIN toParent : toParent'[i] = toParent[k]
        /\ \A i \in DOMAIN toParent' : toParent'[i].client # c
        /\ \/ child' = "dead"
           \/ UNCHANGED <<child, record>> /\ GivenUp(c) /\ (Told(c) \/ NotTold)
    BY TimeoutShape
  <1>2. CASE child = "up" /\ UNCHANGED <<child, record>> /\ GivenUp(c) /\ (Told(c) \/ NotTold)
    <2>1. ASSUME NEW i \in DOMAIN toWorker'
          PROVE  SaveOK(i)'
      <3>1. CASE i \in DOMAIN toWorker
        <4>1. PICK m, n : m = toWorker[i] /\ n = toWorker'[i]
          OBVIOUS
        <4>2. m.client \in Clients /\ SaveOK(i)
          BY <1>0, <1>2, <3>1, <4>1, ElementTypes DEF JournalOK
        <4>3. /\ n.client = m.client /\ n.op = m.op /\ n.generation = m.generation
              /\ n.revision = m.revision /\ n.journal = m.journal /\ n.base = m.base
              /\ n.awaited = (m.awaited /\ m.client # c)
          BY <1>2, <3>1, <4>1 DEF GivenUp
        <4> QED BY <1>1, <1>2, <4>1, <4>2, <4>3 DEF SaveOK, Fits
      <3>2. CASE toWorker'[i].op = "cancelAcquire"
        BY <3>2 DEF SaveOK
      <3> QED BY <1>2, <2>1, <3>1, <3>2 DEF Told, NotTold
    <2>2. ASSUME NEW i \in DOMAIN toParent'
          PROVE  AnswerOK(i)'
      <3>1. PICK k \in DOMAIN toParent : toParent'[i] = toParent[k]
        BY <1>1, <2>2
      <3>2. PICK r : r = toParent[k] /\ r = toParent'[i]
        BY <3>1
      <3>3. r.client \in Clients /\ r.client # c /\ AnswerOK(k)
        BY <1>0, <1>1, <1>2, <2>2, <3>2, ElementTypes DEF JournalOK
      <3> QED BY <1>1, <1>2, <3>2, <3>3 DEF AnswerOK, Fits
    <2>3. (store.generation = generation => Fits(store.revision, store.journal))'
      BY <1>1, <1>2 DEF JournalOK, Fits
    <2>4. record'.open => record'.journal = file'
      BY <1>1, <1>2 DEF JournalOK
    <2> QED BY <2>1, <2>2, <2>3, <2>4 DEF JournalOK
  <1>3. CASE child' # "up"
    BY <1>3 DEF JournalOK
  <1> QED BY <1>1, <1>2, <1>3

(* The end of a process closes its record.                                  *)
LEMMA ProcessesJournal ==
    ASSUME Protocol, JournalOK, Processes
    PROVE  JournalOK'
  <1>1. /\ toWorker' = <<>>
        /\ \/ child' # "up"
           \/ /\ generation' = generation + 1 /\ record' = NotOpen /\ toParent' = <<>>
              /\ store' = store \/ store' = NoStore
    BY ProcessesShape
  <1>2. CASE child' # "up"
    BY <1>2 DEF JournalOK
  <1>3. CASE child' = "up"
    BY <1>1, <1>3, JournalForked, NoElements
  <1> QED BY <1>2, <1>3

--------------------------------------------------------------------------------
(* The journals: the child.                                                 *)

(* A step whose new answers fit the record.                                 *)
LEMMA JournalHandled ==
    ASSUME Protocol, JournalOK, child = "up", NEW A, Handles(A), UNCHANGED <<child, store>>,
           \A revision, journal : Fits(revision, journal) /\ revision \in Nat => Fits(revision, journal)',
           record'.open => record'.journal = file',
           \A i \in DOMAIN toParent' : i \in DOMAIN toParent \/ AnswerOK(i)'
    PROVE  JournalOK'
  <1>0. TypeOK /\ UNCHANGED <<generation, calls>> /\ store.revision \in Nat
    BY DEF Protocol, Handles, TypeOK
  <1>1. ASSUME NEW i \in DOMAIN toWorker'
        PROVE  SaveOK(i)'
    <2>1. PICK k \in DOMAIN toWorker : toWorker'[i] = toWorker[k]
      BY <1>1 DEF Handles, Shifted
    <2>2. PICK m : m = toWorker[k] /\ m = toWorker'[i]
      BY <2>1
    <2>3. SaveOK(k) /\ m \in Requests
      BY <1>0, <2>1, <2>2, ElementTypes DEF JournalOK
    <2>4. m.revision \in Nat
      BY <2>3 DEF Requests
    <2>5. m.op = "saveJournal" /\ m.generation = generation => Fits(m.revision, m.base)'
      BY <2>2, <2>3, <2>4 DEF SaveOK
    <2> QED BY <1>0, <2>2, <2>3, <2>5 DEF SaveOK
  <1>2. ASSUME NEW i \in DOMAIN toParent'
        PROVE  AnswerOK(i)'
    <2>1. CASE i \in DOMAIN toParent
      <3>1. PICK r : r = toParent[i] /\ r = toParent'[i]
        BY <2>1 DEF Handles, Replied
      <3>2. AnswerOK(i) /\ r \in Replies
        BY <1>0, <2>1, <3>1, ElementTypes DEF JournalOK
      <3>3. r.revision \in Nat
        BY <3>2 DEF Replies
      <3>4. /\ calls[r.client].op = "openJournal" => Fits(r.revision, r.journal)'
            /\ calls[r.client].op = "saveJournal" /\ r.ok => Fits(r.revision, calls[r.client].journal)'
        <4>1. /\ calls[r.client].op = "openJournal" => Fits(r.revision, r.journal)
              /\ calls[r.client].op = "saveJournal" /\ r.ok => Fits(r.revision, calls[r.client].journal)
          BY <3>1, <3>2 DEF AnswerOK
        <4>2. PICK j : j = calls[r.client].journal /\ j = calls'[r.client].journal
          BY <1>0
        <4>3. Fits(r.revision, r.journal) => Fits(r.revision, r.journal)'
          BY <3>3
        <4>4. Fits(r.revision, j) => Fits(r.revision, j)'
          BY <3>3
        <4> QED BY <4>1, <4>2, <4>3, <4>4 DEF Fits
      <3> QED BY <1>0, <3>1, <3>4 DEF AnswerOK, Fits
    <2> QED BY <1>2, <2>1
  <1>3. (store.generation = generation => Fits(store.revision, store.journal))'
    <2>1. PICK n, j : n = store.revision /\ n = store'.revision /\ j = store.journal /\ j = store'.journal
      OBVIOUS
    <2>2. store.generation = generation => Fits(n, j)
      BY <2>1 DEF JournalOK
    <2>3. Fits(n, j) => Fits(n, j)'
      BY <1>0, <2>1
    <2> QED BY <1>0, <2>1, <2>2, <2>3 DEF Fits
  <1> QED BY <1>1, <1>2, <1>3 DEF JournalOK

(* Answers that are not of a journal.                                       *)
LEMMA JournalAside ==
    ASSUME Protocol, JournalOK, child = "up", NEW A, Handles(A), UNCHANGED <<child, store, record, file>>,
           \A a \in A : calls[a].op \notin {"openJournal", "saveJournal"}
    PROVE  JournalOK'
  <1>0. UNCHANGED calls
    BY DEF Handles
  <1>1. \A revision, journal : Fits(revision, journal) => Fits(revision, journal)'
    BY DEF Fits
  <1>2. record'.open => record'.journal = file'
    BY DEF JournalOK
  <1>3. \A i \in DOMAIN toParent' : i \in DOMAIN toParent \/ AnswerOK(i)'
    BY <1>0 DEF Handles, Replied, AnswerOK
  <1> QED BY <1>1, <1>2, <1>3, JournalHandled

--------------------------------------------------------------------------------
(* The journals: opening and saving.                                        *)

(* The only new reply.                                                      *)
LEMMA NewAnswer ==
    ASSUME TypeOK, NEW r \in Replies, toParent' = Append(toParent, r) \/ toParent' = toParent
    PROVE  \A i \in DOMAIN toParent' : i \in DOMAIN toParent \/ toParent'[i] = r
  <1>1. toParent' = Append(toParent, r) =>
          /\ toParent'[Len(toParent) + 1] = r
          /\ \A i \in DOMAIN toParent' : i \in DOMAIN toParent \/ i = Len(toParent) + 1
    BY AddingIndexes DEF TypeOK
  <1> QED BY <1>1

(* The child opens what is in the file,                                     *)
LEMMA HandleOpenJournal ==
    ASSUME Protocol, JournalOK, HandleOpen
    PROVE  JournalOK'
  <1>0. TypeOK /\ toParent \in Seq(Replies)
        /\ record \in [open : BOOLEAN, revision : Nat, journal : Journals] /\ file \in Journals
    BY DEF Protocol, TypeOK
  <1>1. PICK m : m = Head(toWorker)
    OBVIOUS
  <1>2. Serves
    BY DEF Serves
  <1>3. /\ Shifted /\ Answers(m)
        /\ UNCHANGED <<generation, child, calls, phase, context, store, lease, queue>>
    BY <1>0, <1>1, <1>2, ServesShape
  <1>4. PICK A \in SUBSET Clients : Handles(A)
    BY <1>1, <1>3, AnswersHead
  <1>5. m \in Requests /\ child = "up" /\ (m.awaited => Awaits(m.client, "openJournal"))
    <2>1. m.op = "openJournal"
      BY <1>1 DEF HandleOpen, Receive
    <2> QED BY <1>1, <1>3, <2>1, HeadRequest
  <1>6. PICK n, j, yes : n = record'.revision /\ j = record'.journal /\ yes = TRUE
    OBVIOUS
  <1>7. n \in Nat /\ j \in Journals /\ yes \in BOOLEAN /\ record'.open /\ NoResult \in Results
    BY <1>0, <1>6, SupervisorAssumption DEF HandleOpen
  <1>8. PICK r : r = ReplyOf(m, yes, n, j, NoResult)
    OBVIOUS
  <1>9. /\ r \in Replies /\ r.client = m.client /\ r.ok /\ r.revision = n /\ r.journal = j
        /\ toParent' = Append(toParent, r) \/ toParent' = toParent
    <2>1. toParent' = toParent \o ReplyTo(m, yes, n, j, NoResult)
      BY <1>1, <1>6 DEF HandleOpen
    <2>2. r \in Replies
      BY <1>0, <1>5, <1>7, <1>8, Sending
    <2>3. r.client = m.client /\ r.ok /\ r.revision = n /\ r.journal = j
      BY <1>6, <1>8 DEF ReplyOf
    <2>4. toParent' = Append(toParent, r) \/ toParent' = toParent
      <3>1. CASE m.awaited
        <4>1. toParent \o ReplyTo(m, yes, n, j, NoResult)
                = Append(toParent, ReplyOf(m, yes, n, j, NoResult))
          BY <3>1, <1>0, <1>5, <1>7, Sending
        <4> QED BY <1>8, <2>1, <4>1
      <3>2. CASE ~m.awaited
        <4>1. ReplyTo(m, yes, n, j, NoResult) = <<>>
          BY <3>2 DEF ReplyTo
        <4>2. toParent \o <<>> = toParent
          BY <1>0, <2>2, Adding
        <4> QED BY <1>8, <2>1, <4>1, <4>2
      <3> QED BY <3>1, <3>2
    <2> QED BY <2>2, <2>3, <2>4
  <1>10. \A revision, journal : Fits(revision, journal) => Fits(revision, journal)'
    BY DEF HandleOpen, Fits
  <1>11. record'.open => record'.journal = file'
    <2>1. file' = file /\ (record' = record \/ record'.journal = file)
      BY DEF HandleOpen
    <2>2. record.open => record.journal = file
      BY <1>5 DEF JournalOK
    <2>3. record.open => record' = record
      BY DEF HandleOpen
    <2>4. ~record.open => record'.journal = file
      BY DEF HandleOpen
    <2> QED BY <2>1, <2>2, <2>3, <2>4
  <1>12. \A i \in DOMAIN toParent' : i \in DOMAIN toParent \/ AnswerOK(i)'
    <2>1. Fits(n, j)'
      BY <1>6, <1>7 DEF Fits
    <2>2. ASSUME NEW i \in DOMAIN toParent', i \notin DOMAIN toParent
          PROVE  AnswerOK(i)'
      <3>1. toParent'[i] = r
        BY <1>0, <1>9, <2>2, NewAnswer
      <3>2. toParent' # toParent
        BY <2>2
      <3>3. m.awaited
        BY <1>3, <3>2 DEF Answers
      <3>4. calls'[r.client].op = "openJournal"
        BY <1>3, <1>5, <1>9, <3>3 DEF Awaits
      <3> QED BY <1>9, <2>1, <3>1, <3>4 DEF AnswerOK
    <2> QED BY <2>2
  <1> QED BY <1>3, <1>4, <1>5, <1>10, <1>11, <1>12, JournalHandled

(* A save replaces the journal it was made from.                            *)
LEMMA SaveLineage ==
    ASSUME Protocol, JournalOK, HandleSave, NEW m, m = Head(toWorker)
    PROVE  /\ Shifted /\ m \in Requests /\ m.op = "saveJournal" /\ child = "up"
           /\ record.open /\ m.base = file
           /\ m.awaited => Awaits(m.client, "saveJournal") /\ m.journal = calls[m.client].journal
  <1>0. TypeOK
    BY DEF Protocol
  <1>1. Shifted /\ m.op = "saveJournal"
    BY <1>0, ReceiveShifts DEF HandleSave, Receive
  <1>2. /\ m \in Requests /\ child = "up" /\ 1 \in DOMAIN toWorker /\ toWorker[1] = m
        /\ (m.awaited => Awaits(m.client, m.op))
    BY <1>1, HeadRequest
  <1>3. record.open /\ m.revision = record.revision /\ m.generation = generation
    BY DEF HandleSave, SaveAllowed, LeaseValid, LeaseHolder
  <1>4. SaveOK(1) /\ record.journal = file
    BY <1>2, <1>3 DEF JournalOK
  <1>5. Fits(m.revision, m.base) /\ (m.awaited => m.journal = calls[m.client].journal)
    BY <1>1, <1>2, <1>3, <1>4 DEF SaveOK
  <1> QED BY <1>1, <1>2, <1>3, <1>4, <1>5 DEF Fits

(* and a save makes both the record and the file anew.                      *)
LEMMA HandleSaveJournal ==
    ASSUME Protocol, JournalOK, HandleSave
    PROVE  JournalOK'
  <1>0. TypeOK /\ toParent \in Seq(Replies)
        /\ record \in [open : BOOLEAN, revision : Nat, journal : Journals] /\ record.revision \in Nat
    BY DEF Protocol, TypeOK
  <1>1. PICK m : m = Head(toWorker)
    OBVIOUS
  <1>2. Serves
    BY DEF Serves
  <1>3. /\ Shifted /\ Answers(m)
        /\ UNCHANGED <<generation, child, calls, phase, context, store, lease, queue>>
    BY <1>0, <1>1, <1>2, ServesShape
  <1>4. PICK A \in SUBSET Clients : Handles(A)
    BY <1>1, <1>3, AnswersHead
  <1>5. /\ m \in Requests /\ child = "up" /\ record.open
        /\ m.awaited => Awaits(m.client, "saveJournal") /\ m.journal = calls[m.client].journal
    BY <1>1, SaveLineage
  <1>6. PICK n, yes : n = record.revision + 1 /\ yes = TRUE
    OBVIOUS
  <1>7. /\ record' = [record EXCEPT !.revision = @ + 1, !.journal = m.journal]
        /\ file' = m.journal
        /\ toParent' = toParent \o ReplyTo(m, yes, n, InitialJournal, NoResult)
    BY <1>1, <1>6 DEF HandleSave
  <1>8. record'.revision = n /\ record'.journal = m.journal /\ record'.open
    BY <1>0, <1>5, <1>6, <1>7
  <1>9. n \in Nat /\ yes \in BOOLEAN /\ InitialJournal \in Journals /\ NoResult \in Results
    BY <1>0, <1>6, SupervisorAssumption
  <1>10. PICK r : r = ReplyOf(m, yes, n, InitialJournal, NoResult)
    OBVIOUS
  <1>11. /\ r \in Replies /\ r.client = m.client /\ r.revision = n
         /\ toParent' = Append(toParent, r) \/ toParent' = toParent
    <2>1. r \in Replies
      BY <1>0, <1>5, <1>9, <1>10, Sending
    <2>2. r.client = m.client /\ r.revision = n
      BY <1>10 DEF ReplyOf
    <2>3. toParent' = Append(toParent, r) \/ toParent' = toParent
      <3>1. CASE m.awaited
        <4>1. toParent \o ReplyTo(m, yes, n, InitialJournal, NoResult)
                = Append(toParent, ReplyOf(m, yes, n, InitialJournal, NoResult))
          BY <3>1, <1>0, <1>5, <1>9, Sending
        <4> QED BY <1>7, <1>10, <4>1
      <3>2. CASE ~m.awaited
        <4>1. ReplyTo(m, yes, n, InitialJournal, NoResult) = <<>>
          BY <3>2 DEF ReplyTo
        <4>2. toParent \o <<>> = toParent
          BY <1>0, <2>1, Adding
        <4> QED BY <1>7, <1>10, <4>1, <4>2
      <3> QED BY <3>1, <3>2
    <2> QED BY <2>1, <2>2, <2>3
  <1>12. \A revision, journal : Fits(revision, journal) /\ revision \in Nat => Fits(revision, journal)'
    <2>1. ASSUME NEW revision \in Nat, NEW journal, Fits(revision, journal)
          PROVE  Fits(revision, journal)'
      <3>1. revision <= record.revision
        BY <2>1 DEF Fits
      <3>2. revision <= n /\ revision # n
        BY <1>0, <1>6, <3>1
      <3> QED BY <1>8, <3>2 DEF Fits
    <2> QED BY <2>1
  <1>13. record'.open => record'.journal = file'
    BY <1>7, <1>8
  <1>14. \A i \in DOMAIN toParent' : i \in DOMAIN toParent \/ AnswerOK(i)'
    <2>1. Fits(n, m.journal)'
      BY <1>8, <1>9 DEF Fits
    <2>2. ASSUME NEW i \in DOMAIN toParent', i \notin DOMAIN toParent
          PROVE  AnswerOK(i)'
      <3>1. toParent'[i] = r
        BY <1>0, <1>11, <2>2, NewAnswer
      <3>2. toParent' # toParent
        BY <2>2
      <3>3. m.awaited
        BY <1>3, <3>2 DEF Answers
      <3>4. calls'[r.client].op = "saveJournal" /\ calls'[r.client].journal = m.journal
        BY <1>3, <1>5, <1>11, <3>3 DEF Awaits
      <3> QED BY <1>11, <2>1, <3>1, <3>4 DEF AnswerOK
    <2> QED BY <2>2
  <1> QED BY <1>3, <1>4, <1>5, <1>12, <1>13, <1>14, JournalHandled

(* The handlers that answer one request,                                    *)
LEMMA ServesJournal ==
    ASSUME Protocol, JournalOK, Serves
    PROVE  JournalOK'
  <1>0. TypeOK /\ toParent \in Seq(Replies)
    BY DEF Protocol, TypeOK
  <1>1. PICK m : m = Head(toWorker)
    OBVIOUS
  <1>2. /\ Shifted /\ Answers(m)
        /\ UNCHANGED <<generation, child, calls, phase, context, store, lease, queue>>
    BY <1>0, <1>1, ServesShape
  <1>3. PICK A \in SUBSET Clients : Handles(A) /\ A \subseteq {m.client} /\ (~m.awaited => A = {})
    BY <1>1, <1>2, AnswersHead
  <1>4. m \in Requests /\ m.client \in Clients /\ child = "up" /\ (m.awaited => Awaits(m.client, m.op))
    BY <1>1, <1>2, HeadRequest
  <1>5. CASE HandleAssert \/ \E result \in Results : HandleGrpc(result)
    <2>1. m.op \notin {"openJournal", "saveJournal"} /\ UNCHANGED <<record, file>>
      BY <1>1, <1>5 DEF HandleAssert, HandleGrpc, Receive, workerVars
    <2> QED BY <1>2, <1>3, <1>4, <2>1, JournalAside DEF Awaits
  <1>6. CASE HandleSaveFails
    <2>1. toParent' = toParent \o Refusal(m) /\ UNCHANGED <<record, file>> /\ m.op = "saveJournal"
      BY <1>1, <1>6 DEF HandleSaveFails, Receive, workerVars
    <2>2. PICK r : r = ReplyOf(m, FALSE, 0, InitialJournal, NoResult)
      OBVIOUS
    <2>3. /\ r \in Replies /\ r.client = m.client /\ ~r.ok
          /\ toParent' = Append(toParent, r) \/ toParent' = toParent
      BY <1>0, <1>4, <2>1, <2>2, SendingPlain DEF ReplyOf
    <2>4. ASSUME NEW i \in DOMAIN toParent', i \notin DOMAIN toParent
          PROVE  AnswerOK(i)'
      <3>1. toParent'[i] = r
        BY <1>0, <2>3, <2>4, NewAnswer
      <3>2. toParent' # toParent
        BY <2>4
      <3>3. m.awaited
        BY <1>2, <3>2 DEF Answers
      <3>4. calls'[r.client].op # "openJournal"
        BY <1>2, <1>4, <2>1, <2>3, <3>3 DEF Awaits
      <3> QED BY <2>3, <3>1, <3>4 DEF AnswerOK
    <2>5. \A revision, journal : Fits(revision, journal) => Fits(revision, journal)'
      BY <2>1 DEF Fits
    <2>6. record'.open => record'.journal = file'
      BY <1>4, <2>1 DEF JournalOK
    <2> QED BY <1>2, <1>3, <1>4, <2>4, <2>5, <2>6, JournalHandled
  <1> QED BY <1>5, <1>6, HandleOpenJournal, HandleSaveJournal DEF Serves

(* Who waits for the lease or gives it up awaits no journal.                *)
LEMMA GrantsJournal ==
    ASSUME Protocol, JournalOK, child = "up", UNCHANGED <<child, store, record, file>>,
           \E A \in SUBSET Clients :
             /\ Handles(A)
             /\ \A a \in A : \/ queue # <<>> /\ queue[1].awaited /\ a = queue[1].client
                             \/ calls[a].op = "release"
    PROVE  JournalOK'
  <1>0. TypeOK /\ TalkOK
    BY DEF Protocol
  <1>1. PICK A \in SUBSET Clients :
             /\ Handles(A)
             /\ \A a \in A : \/ queue # <<>> /\ queue[1].awaited /\ a = queue[1].client
                             \/ calls[a].op = "release"
    OBVIOUS
  <1>2. queue # <<>> /\ queue[1].awaited => calls[queue[1].client].op = "acquire"
    BY <1>0, TakingIndexes DEF TypeOK, TalkOK, WaiterOK, Awaits
  <1> QED BY <1>1, <1>2, JournalAside

(* those of the lease and its expiry,                                       *)
LEMMA LeaseJournal ==
    ASSUME Protocol, JournalOK,
           HandleAcquire \/ HandleCancel \/ HandleRelease \/ LeaseLapses \/ LeaseTimerFires
    PROVE  JournalOK'
  <1>0. TypeOK /\ ProcessOK /\ TalkOK
    BY DEF Protocol
  <1>1. PICK m : m = Head(toWorker)
    OBVIOUS
  <1>2. CASE HandleAcquire
    <2>1. /\ Shifted /\ m.op = "acquire"
          /\ UNCHANGED <<generation, child, calls, phase, context, store, record, file>>
          /\ Answers(m) \/ toParent' = toParent
      BY <1>0, <1>1, <1>2, AcquireShape DEF Queueing
    <2>2. m.client \in Clients /\ child = "up" /\ (m.awaited => Awaits(m.client, m.op))
      BY <1>1, <2>1, HeadRequest
    <2>3. CASE Answers(m)
      <3>1. PICK A \in SUBSET Clients : Handles(A) /\ A \subseteq {m.client} /\ (~m.awaited => A = {})
        BY <1>1, <2>1, <2>3, AnswersHead
      <3> QED BY <2>1, <2>2, <3>1, JournalAside DEF Awaits
    <2>4. CASE toParent' = toParent
      <3>1. PICK none : none = {} /\ Handles(none)
        <4>1. Handles({})
          BY <1>0, <2>1, <2>4, RepliedNone DEF Handles
        <4> QED BY <4>1
      <3> QED BY <2>1, <2>2, <3>1, JournalAside
    <2> QED BY <2>1, <2>3, <2>4
  <1>3. CASE HandleCancel
    <2>1. /\ Shifted
          /\ UNCHANGED <<generation, child, calls, phase, context, store, record, file>>
          /\ GrantNext(queue, <<>>) \/ toParent' = toParent
      BY <1>1, <1>3, CancelShape
    <2>2. child = "up"
      BY <1>1, <2>1, HeadRequest
    <2>3. CASE GrantNext(queue, <<>>)
      <3>1. \E A \in SUBSET Clients :
             /\ Handles(A)
             /\ \A a \in A : \/ queue # <<>> /\ queue[1].awaited /\ a = queue[1].client
                             \/ calls[a].op = "release"
        BY <2>1, <2>3, GrantShape
      <3> QED BY <2>1, <2>2, <3>1, GrantsJournal
    <2>4. CASE toParent' = toParent
      <3>1. PICK none : none = {} /\ Handles(none)
        <4>1. Handles({})
          BY <1>0, <2>1, <2>4, RepliedNone DEF Handles
        <4> QED BY <4>1
      <3> QED BY <2>1, <2>2, <3>1, JournalAside
    <2> QED BY <2>1, <2>3, <2>4
  <1>4. CASE HandleRelease
    <2>1. /\ Shifted /\ m.op = "release"
          /\ UNCHANGED <<generation, child, calls, phase, context, store, record, file>>
          /\ GrantNext(queue, Ok(m)) \/ Answers(m)
      BY <1>1, <1>4, ReleaseShape
    <2>2. m.client \in Clients /\ child = "up" /\ (m.awaited => Awaits(m.client, m.op))
      BY <1>1, <2>1, HeadRequest
    <2>3. CASE GrantNext(queue, Ok(m))
      <3>1. \E A \in SUBSET Clients :
             /\ Handles(A)
             /\ \A a \in A : \/ queue # <<>> /\ queue[1].awaited /\ a = queue[1].client
                             \/ calls[a].op = "release"
        BY <1>1, <1>4, <2>3, ReleaseGrant
      <3> QED BY <2>1, <2>2, <3>1, GrantsJournal
    <2>4. CASE Answers(m)
      <3>1. PICK A \in SUBSET Clients : Handles(A) /\ A \subseteq {m.client} /\ (~m.awaited => A = {})
        BY <1>1, <2>1, <2>4, AnswersHead
      <3> QED BY <2>1, <2>2, <3>1, JournalAside DEF Awaits
    <2> QED BY <2>1, <2>3, <2>4
  <1>5. CASE LeaseLapses
    BY <1>5 DEF LeaseLapses, processVars, JournalOK, SaveOK, AnswerOK, Fits
  <1>6. CASE LeaseTimerFires
    <2>1. /\ UNCHANGED <<generation, child, calls, phase, context, toWorker, store, record, file>>
          /\ GrantNext(queue, <<>>) /\ lease.lapsed
      BY <1>6 DEF LeaseTimerFires, processVars
    <2>2. child = "up"
      BY <1>0, <2>1 DEF ProcessOK, NoLease
    <2>3. \E A \in SUBSET Clients :
             /\ Handles(A)
             /\ \A a \in A : \/ queue # <<>> /\ queue[1].awaited /\ a = queue[1].client
                             \/ calls[a].op = "release"
      BY <2>1, GrantShape
    <2> QED BY <2>1, <2>2, <2>3, GrantsJournal
  <1> QED BY <1>2, <1>3, <1>4, <1>5, <1>6

(* and every step keep the journals in order; and a save replaces its base. *)
LEMMA JournalNext ==
    ASSUME Protocol, JournalOK, [SupervisorNext]_vars
    PROVE  JournalOK' /\ (file' # file => Head(toWorker).base = file)
  <1>1. CASE UNCHANGED vars
    BY <1>1 DEF vars, processVars, workerVars, JournalOK, SaveOK, AnswerOK, Fits
  <1>2. CASE SupervisorNext
    <2>1. JournalOK'
      BY <1>2, ClientCallsJournal, HandleReplyJournal, TimesOutJournal, ProcessesJournal,
         ServesJournal, LeaseJournal DEF SupervisorNext, HandleRequest, Serves
    <2>2. file' = file \/ HandleSave
      BY <1>2 DEF SupervisorNext, ClientCalls, Acquire, Release, OpenJournal, SaveJournal, AssertLease, Grpc,
         Call, HandleReply, AcquireAnswered, ReleaseAnswered, AssertAnswered, GrpcAnswered, OpenAnswered,
         SaveAnswered, Answered, AcquireTimesOut, RpcTimesOut, HandleRequest, HandleAcquire,
         HandleCancel, HandleRelease, HandleAssert, HandleOpen, HandleSaveFails, HandleGrpc, LeaseLapses,
         LeaseTimerFires, Processes, ChildDies, ChannelCloses, ExitNoticed, Respawn, ServerRestarts
    <2>3. HandleSave => Head(toWorker).base = file
      BY SaveLineage
    <2> QED BY <2>1, <2>2, <2>3
  <1> QED BY <1>1, <1>2

--------------------------------------------------------------------------------
(* The theorems. *)

IInv == Protocol /\ OwnerOK /\ AdmissionOK /\ JournalOK

(* The inductive invariant: the protocol of requests and replies, the owner *)
(* of the lease, who was admitted, and the revisions of the journal.        *)
THEOREM InductiveInvariant == SupervisorSpec => []IInv
  <1>1. SupervisorInit => IInv
    BY ProtocolInit, OwnerInit, AdmissionInit, JournalInit DEF IInv
  <1>2. IInv /\ [SupervisorNext]_vars => IInv'
    BY ProtocolNext, OwnerNext, AdmissionNext, JournalNext DEF IInv
  <1> QED BY <1>1, <1>2, PTL DEF SupervisorSpec

(* A lease in force always has an owner who will end it, for any number of  *)
(* clients, timeouts and child processes.                                   *)
THEOREM NoLeaseAbandoned == SupervisorSpec => []NoAbandonedLease
  <1>1. IInv => NoAbandonedLease
    BY OwnerNotAbandoned DEF IInv
  <1> QED BY <1>1, InductiveInvariant, PTL

(* As long as nothing came too late, at most one caller of runExclusive is  *)
(* inside its action with a lease of the present process.                   *)
THEOREM AdmissionIsExclusive == SupervisorSpec => []ExclusiveAdmission
  <1>1. IInv => ExclusiveAdmission
    BY AdmissionExclusive DEF IInv
  <1> QED BY <1>1, InductiveInvariant, PTL

(* Whatever lapses, dies or comes late, a save replaces the journal it was  *)
(* made from.                                                               *)
THEOREM JournalKeepsLineage == SupervisorSpec => JournalLineage
  <1>1. IInv /\ [SupervisorNext]_vars => [file' # file => Head(toWorker).base = file]_vars
    BY JournalNext DEF IInv
  <1> QED BY <1>1, InductiveInvariant, PTL DEF SupervisorSpec, JournalLineage
==================================================================================
