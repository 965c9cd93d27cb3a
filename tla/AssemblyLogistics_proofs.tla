------------------------ MODULE AssemblyLogistics_proofs -----------------------
(***************************************************************************)
(* For any number of requests, failed flushes, shutdowns and crashes: a    *)
(* request is fulfilled only if its items moved, items move only under a   *)
(* claim, what a caller was told stands, and a request whose items moved   *)
(* is kept until it is fulfilled.                                          *)
(*                                                                         *)
(* A failed flush leaves open which of two contents the file has, and a    *)
(* restart makes that the queue.  So the invariant asks of every content a *)
(* restart may find what it asks of a step: that each entry may follow the *)
(* one the readers see now.                                                *)
(***************************************************************************)
EXTENDS AssemblyLogistics, TLAPS

(* What may become of the entry of a request. *)
Follows(r, entry, next) ==
    /\ entry.status \in Terminal =>
         \/ next.status = entry.status
         \/ next.status = "absent"
         \/ entry.reconciled /\ next = Entry("queued")
         \/ next.status = "fulfilled" /\ r \in receipts
    /\ next.status = "absent" =>
         \/ entry.status = "absent"
         \/ entry.status \in Terminal /\ entry.reconciled

(* Settled while its items are where the queue does not know of them. *)
Lost(entry) == entry.status \in Terminal \ {"fulfilled"} /\ entry.reconciled

LegalEntry(r, entry) ==
    /\ entry \in Entries
    /\ Follows(r, queue[r], entry)
    /\ entry.status = "fulfilled" => r \in receipts
    /\ r \in receipts \ revived => ~Lost(entry)

Legal(state) == state \in Queues /\ \A r \in Ids : LegalEntry(r, state[r])

(* The worker knows whether the items of its request moved. *)
WorkerKnows ==
    /\ worker.at = "syncing" => worker.id \in receipts
    /\ worker.at \in {"claimed", "refreshing", "refused", "failed", "marking"} =>
         worker.id \notin receipts

IInv ==
    /\ LogisticsTypeOK
    /\ \A state \in queueDisk : Legal(state)
    /\ \A durable \in itemsDisk : receipts \subseteq durable
    /\ WorkerKnows

--------------------------------------------------------------------------------
(* Entries. *)

LEMMA LaterIsEntry ==
    ASSUME NEW entry \in Entries, NEW next \in Later(entry)
    PROVE  next \in Entries
  <1>1. next = entry \/ \E status \in {"expired", "queued", "absent"} : next = Entry(status)
    BY DEF Later
  <1>2. ASSUME NEW status \in {"expired", "queued", "absent"} PROVE Entry(status) \in Entries
    BY DEF Entries, Entry, Pending, Terminal
  <1> QED BY <1>1, <1>2

LEMMA FollowsItself ==
    ASSUME NEW entry, NEW r
    PROVE  Follows(r, entry, entry)
  BY DEF Follows

(* The clock fulfils nothing, and loses nothing. *)
LEMMA LaterFollows ==
    ASSUME NEW entry \in Entries, NEW next \in Later(entry), NEW r
    PROVE  /\ Follows(r, entry, next)
           /\ next.status = "fulfilled" => entry.status = "fulfilled"
           /\ Lost(next) => Lost(entry)
  BY DEF Later, Entries, Entry, Pending, Terminal, Follows, Lost

(* A writer decides by the entry as the clock has left it. *)
LEMMA AbsentMayBeCreated ==
    ASSUME NEW entry \in Entries, NEW next \in Later(entry), next.status = "absent",
           NEW r
    PROVE  Follows(r, entry, Entry("queued"))
  BY DEF Later, Entries, Entry, Pending, Terminal, Follows

LEMMA PendingMayBecome ==
    ASSUME NEW entry \in Entries, NEW next \in Later(entry), next.status \in Pending,
           NEW r, NEW new \in Entries, new.status # "absent"
    PROVE  Follows(r, entry, new)
  BY DEF Later, Entries, Entry, Pending, Terminal, Follows

LEMMA TerminalMayBeMarked ==
    ASSUME NEW entry \in Entries, NEW next \in Later(entry), next.status \in Terminal,
           NEW r
    PROVE  Follows(r, entry, [status |-> next.status, reconciled |-> TRUE])
  BY DEF Later, Entries, Entry, Pending, Terminal, Follows

LEMMA MovedMayBeFulfilled ==
    ASSUME NEW entry, NEW r \in receipts
    PROVE  Follows(r, entry, [status |-> "fulfilled", reconciled |-> TRUE])
  BY DEF Follows

--------------------------------------------------------------------------------
(* Contents of the queue. *)

LEMMA ReconciliationLegal ==
    ASSUME IInv, NEW state \in Reconciliations
    PROVE  Legal(state) /\ \A r \in Ids : state[r] \in Later(queue[r])
  <1>1. queue \in Queues /\ Legal(queue)
    BY DEF IInv, LogisticsTypeOK
  <1>2. \A r \in Ids : state[r] \in Later(queue[r])
    BY DEF Reconciliations
  <1>3. DOMAIN state = Ids /\ state = [r \in Ids |-> state[r]]
    BY DEF Reconciliations
  <1>4. \A r \in Ids : queue[r] \in Entries
    BY <1>1 DEF Queues
  <1>5. state \in Queues
    BY <1>2, <1>3, <1>4, LaterIsEntry DEF Queues
  <1>6. ASSUME NEW r \in Ids PROVE LegalEntry(r, state[r])
    <2>1. /\ Follows(r, queue[r], state[r])
          /\ state[r].status = "fulfilled" => queue[r].status = "fulfilled"
          /\ Lost(state[r]) => Lost(queue[r])
      BY <1>2, <1>4, LaterFollows
    <2>2. state[r] \in Entries
      BY <1>5 DEF Queues
    <2> QED BY <1>1, <2>1, <2>2 DEF Legal, LegalEntry
  <1> QED BY <1>2, <1>5, <1>6 DEF Legal

LEMMA UpdateLegal ==
    ASSUME NEW state, Legal(state), NEW r \in Ids, NEW entry, LegalEntry(r, entry)
    PROVE  /\ Legal([state EXCEPT ![r] = entry])
           /\ [state EXCEPT ![r] = entry][r] = entry
  BY DEF Legal, LegalEntry, Queues

(* What every writer leaves of the queue and its file. *)
QueueMoves ==
    /\ queue' \in queueDisk'
    /\ queue' = queue \/ queueDisk' = {queue'}
    /\ \A state \in queueDisk' : Legal(state)
    /\ faults' \in 0..MaxFaults

(* A request that is in one of the states from, once the clock has been     *)
(* looked at, may get the entry.                                            *)
Allowed(r, from, entry) ==
    \A next \in Later(queue[r]) : next.status \in from => LegalEntry(r, entry)

LEMMA BecomesMoves ==
    ASSUME IInv, NEW r \in Ids, NEW from, NEW entry, Allowed(r, from, entry),
           Becomes(r, from, entry)
    PROVE  QueueMoves /\ queueDisk' = {queue'} /\ queue'[r] = entry
  <1>1. PICK state \in Reconciliations :
          state[r].status \in from /\ Write([state EXCEPT ![r] = entry])
    BY DEF Becomes
  <1>2. Legal(state) /\ LegalEntry(r, entry)
    BY <1>1, ReconciliationLegal DEF Allowed
  <1>3. Legal([state EXCEPT ![r] = entry]) /\ [state EXCEPT ![r] = entry][r] = entry
    BY <1>2, UpdateLegal
  <1> QED BY <1>1, <1>3 DEF Write, QueueMoves, IInv, LogisticsTypeOK

LEMMA WriteFailsMoves ==
    ASSUME IInv, NEW state, Legal(state), WriteFails(state)
    PROVE  QueueMoves
  BY LogisticsAssumption
  DEF WriteFails, FaultHappens, QueueMoves, IInv, LogisticsTypeOK

LEMMA NothingMoves ==
    ASSUME IInv, UNCHANGED <<queue, queueDisk>>, faults' \in 0..MaxFaults
    PROVE  QueueMoves
  BY DEF QueueMoves, IInv, LogisticsTypeOK

LEMMA RefusedMoves ==
    ASSUME IInv, NEW r \in Ids, NEW from, NEW entry, NEW permitted \in BOOLEAN,
           permitted => Allowed(r, from, entry), Refused(r, from, entry, permitted)
    PROVE  QueueMoves
  <1>1. PICK state \in Reconciliations :
          \/ /\ permitted /\ state[r].status \in from
             /\ WriteFails([state EXCEPT ![r] = entry])
          \/ UNCHANGED <<queue, queueDisk, faults>>
          \/ Write(state)
          \/ WriteFails(state)
    BY DEF Refused
  <1>2. Legal(state) /\ \A q \in Ids : state[q] \in Later(queue[q])
    BY ReconciliationLegal
  <1>3. CASE permitted /\ state[r].status \in from /\ WriteFails([state EXCEPT ![r] = entry])
    <2>1. Legal([state EXCEPT ![r] = entry])
      BY <1>2, <1>3, UpdateLegal DEF Allowed
    <2> QED BY <1>3, <2>1, WriteFailsMoves
  <1>4. CASE UNCHANGED <<queue, queueDisk, faults>>
    BY <1>4, NothingMoves DEF IInv, LogisticsTypeOK
  <1>5. CASE Write(state)
    BY <1>2, <1>5 DEF Write, QueueMoves, IInv, LogisticsTypeOK
  <1>6. CASE WriteFails(state)
    BY <1>2, <1>6, WriteFailsMoves
  <1> QED BY <1>1, <1>3, <1>4, <1>5, <1>6

--------------------------------------------------------------------------------
(* From the queue to the invariant. *)

(* Moves of the queue alone leave it legal. *)
LEMMA LegalKept ==
    ASSUME IInv, QueueMoves, receipts \subseteq receipts', revived' = revived,
           \A r \in receipts' \ receipts :
              \A state \in queueDisk' : ~Lost(state[r])
    PROVE  (\A state \in queueDisk : Legal(state))'
  <1>1. ASSUME NEW state \in queueDisk', NEW r \in Ids
        PROVE  LegalEntry(r, state[r])'
    <2>1. LegalEntry(r, state[r])
      BY DEF QueueMoves, Legal
    <2>2. CASE queue' = queue
      BY <2>1, <2>2 DEF LegalEntry, Follows, Lost
    <2>3. CASE state = queue'
      BY <2>1, <2>3 DEF LegalEntry, Follows, Lost
    <2> QED BY <2>2, <2>3 DEF QueueMoves
  <1>2. \A state \in queueDisk' : state \in Queues
    BY DEF QueueMoves, Legal
  <1> QED BY <1>1, <1>2 DEF Legal, Queues

(* What every step is shown to do: the invariant cannot say that the new    *)
(* entries follow the ones before.                                          *)
Kept == IInv' /\ Legal(queue')

(* A step that leaves the items alone. *)
LEMMA QueueStep ==
    ASSUME IInv, QueueMoves, UNCHANGED <<receipts, itemsDisk, online, revived>>,
           worker' \in [at : Places, id : Ids \cup {NoId}], listed' \in [Ids -> Kinds],
           stopping' \in BOOLEAN, ends' \in 0..MaxEnds, WorkerKnows'
    PROVE  Kept
  <1>1. (\A state \in queueDisk : Legal(state))'
    BY LegalKept
  <1>2. LogisticsTypeOK'
    BY DEF IInv, LogisticsTypeOK, QueueMoves, Legal
  <1>3. Legal(queue')
    BY DEF QueueMoves
  <1> QED BY <1>1, <1>2, <1>3 DEF IInv, Kept

LEMMA InitHolds == LogisticsInit => IInv
  <1> SUFFICES ASSUME LogisticsInit PROVE IInv
    OBVIOUS
  <1>1. /\ queue = [r \in Ids |-> Entry("absent")] /\ queueDisk = {queue}
        /\ receipts = {} /\ itemsDisk = {receipts} /\ worker = Idle /\ listed = NotListed
        /\ stopping = FALSE /\ online = Endpoints /\ faults = 0 /\ ends = 0 /\ revived = {}
    BY DEF LogisticsInit
  <1>2. Entry("absent") \in Entries
    BY DEF Entry, Entries
  <1>3. queue \in Queues /\ \A r \in Ids : queue[r].status = "absent"
    BY <1>1, <1>2 DEF Queues, Entry
  <1>4. Legal(queue)
    BY <1>1, <1>3 DEF Legal, LegalEntry, Follows, Lost, Queues, Terminal
  <1>5. worker \in [at : Places, id : Ids \cup {NoId}] /\ worker.at = "idle"
    BY <1>1 DEF Idle, Places
  <1>6. listed \in [Ids -> Kinds]
    BY <1>1 DEF NotListed, Kinds
  <1>7. LogisticsTypeOK
    <2>1. 0 \in 0..MaxFaults /\ 0 \in 0..MaxEnds
      BY LogisticsAssumption
    <2>2. /\ queueDisk \subseteq Queues /\ queue \in queueDisk
          /\ receipts \subseteq Ids /\ itemsDisk \subseteq SUBSET Ids /\ receipts \in itemsDisk
          /\ online \subseteq Endpoints /\ revived \subseteq Ids /\ stopping \in BOOLEAN
      BY <1>1, <1>3
    <2> QED BY <1>1, <1>3, <1>5, <1>6, <2>1, <2>2 DEF LogisticsTypeOK
  <1> QED BY <1>1, <1>4, <1>5, <1>7 DEF IInv, WorkerKnows

--------------------------------------------------------------------------------
(* What the writers write is allowed. *)

LEMMA EntriesThere ==
    ASSUME IInv, NEW r \in Ids
    PROVE  queue[r] \in Entries /\ LegalEntry(r, queue[r])
  BY DEF IInv, LogisticsTypeOK, Legal, Queues

LEMMA EntryTypes ==
    ASSUME NEW status \in Pending \cup Terminal
    PROVE  /\ Entry(status) \in Entries /\ Entry(status).status = status
           /\ ~Lost(Entry(status))
           /\ LET marked == [status |-> status, reconciled |-> TRUE]
              IN  marked \in Entries /\ marked.status = status
  BY DEF Entry, Entries, Lost, Pending, Terminal

LEMMA CreateAllowed ==
    ASSUME IInv, NEW r \in Ids
    PROVE  Allowed(r, {"absent"}, Entry("queued"))
  <1> SUFFICES ASSUME NEW next \in Later(queue[r]), next.status = "absent"
               PROVE  LegalEntry(r, Entry("queued"))
    BY DEF Allowed
  <1>1. Follows(r, queue[r], Entry("queued"))
    BY EntriesThere, AbsentMayBeCreated
  <1>2. /\ Entry("queued") \in Entries /\ Entry("queued").status = "queued"
        /\ ~Lost(Entry("queued"))
    BY EntryTypes DEF Pending
  <1> QED BY <1>1, <1>2 DEF LegalEntry

LEMMA PendingAllowed ==
    ASSUME IInv, NEW r \in Ids, NEW from \in SUBSET Pending,
           NEW status \in (Pending \cup Terminal) \ {"fulfilled"}
    PROVE  Allowed(r, from, Entry(status))
  <1> SUFFICES ASSUME NEW next \in Later(queue[r]), next.status \in Pending
               PROVE  LegalEntry(r, Entry(status))
    BY DEF Allowed
  <1>1. /\ Entry(status) \in Entries /\ Entry(status).status = status
        /\ ~Lost(Entry(status))
    BY EntryTypes
  <1>2. Follows(r, queue[r], Entry(status))
    <2>1. status # "absent"
      BY DEF Pending, Terminal
    <2> QED BY <1>1, <2>1, EntriesThere, PendingMayBecome
  <1> QED BY <1>1, <1>2 DEF LegalEntry

LEMMA MarkAllowed ==
    ASSUME IInv, NEW r \in Ids, r \notin receipts, NEW status \in Terminal
    PROVE  Allowed(r, {status}, [status |-> status, reconciled |-> TRUE])
  <1> DEFINE marked == [status |-> status, reconciled |-> TRUE]
  <1> SUFFICES ASSUME NEW next \in Later(queue[r]), next.status = status
               PROVE  LegalEntry(r, marked)
    BY DEF Allowed
  <1>1. marked \in Entries /\ marked.status = status
    BY EntryTypes
  <1>2. Follows(r, queue[r], marked)
    BY EntriesThere, TerminalMayBeMarked
  <1>3. status # "fulfilled"
    BY EntriesThere, LaterFollows DEF LegalEntry
  <1> QED BY <1>1, <1>2, <1>3 DEF LegalEntry

LEMMA FulfilledAllowed ==
    ASSUME IInv, NEW r \in receipts, NEW from
    PROVE  Allowed(r, from, [status |-> "fulfilled", reconciled |-> TRUE])
  <1> DEFINE fulfilled == [status |-> "fulfilled", reconciled |-> TRUE]
  <1>1. fulfilled \in Entries /\ fulfilled.status = "fulfilled" /\ ~Lost(fulfilled)
    BY DEF Entries, Terminal, Lost
  <1>2. Follows(r, queue[r], fulfilled)
    BY MovedMayBeFulfilled
  <1> QED BY <1>1, <1>2 DEF Allowed, LegalEntry

LEMMA MarkMoves ==
    ASSUME IInv, NEW r \in Ids, r \notin receipts, MarkReconciled(r)
    PROVE  QueueMoves
  <1>1. PICK status \in Terminal :
          \/ Becomes(r, {status}, [status |-> status, reconciled |-> TRUE])
          \/ Refused(r, {status}, [status |-> status, reconciled |-> TRUE], TRUE)
    BY DEF MarkReconciled
  <1>2. Allowed(r, {status}, [status |-> status, reconciled |-> TRUE])
    BY MarkAllowed
  <1> QED BY <1>1, <1>2, BecomesMoves, RefusedMoves

LEMMA ClaimKept ==
    ASSUME IInv, NEW r \in Ids
    PROVE  /\ ClaimAsserted(r) => /\ QueueMoves /\ queueDisk' = {queue'}
                                 /\ queue'[r].status = "claimed"
                                 /\ ~stopping /\ online = Endpoints
           /\ ClaimInvalid(r) => QueueMoves
  <1>1. /\ Allowed(r, {"claimed"}, Entry("claimed"))
        /\ Entry("claimed").status = "claimed"
    BY PendingAllowed, EntryTypes DEF Pending, Terminal
  <1>2. faults \in 0..MaxFaults
    BY DEF IInv, LogisticsTypeOK
  <1>3. ASSUME ClaimAsserted(r)
        PROVE  /\ QueueMoves /\ queueDisk' = {queue'} /\ queue'[r].status = "claimed"
               /\ ~stopping /\ online = Endpoints
    BY <1>1, <1>3, BecomesMoves DEF ClaimAsserted
  <1>4. ASSUME ClaimInvalid(r) PROVE QueueMoves
    <2>1. CASE stopping
      BY <1>2, <1>4, <2>1, NothingMoves DEF ClaimInvalid
    <2>2. CASE ~stopping
      BY <1>1, <1>4, <2>2, RefusedMoves DEF ClaimInvalid
    <2> QED BY <2>1, <2>2
  <1> QED BY <1>3, <1>4

--------------------------------------------------------------------------------
(* The steps. *)

LEMMA TypesNow ==
    ASSUME IInv
    PROVE  /\ worker \in [at : Places, id : Ids \cup {NoId}] /\ listed \in [Ids -> Kinds]
           /\ stopping \in BOOLEAN /\ ends \in 0..MaxEnds /\ faults \in 0..MaxFaults
           /\ WorkerKnows
  BY DEF IInv, LogisticsTypeOK

LEMMA IdleWorker == Idle \in [at : Places, id : Ids \cup {NoId}] /\ Idle.at = "idle"
  BY DEF Idle, Places

(* Callers. *)
LEMMA OutsideKeeps == ASSUME IInv, QueueMoves, Outside PROVE Kept
  BY TypesNow, QueueStep DEF Outside, WorkerKnows

LEMMA CreateKeeps == ASSUME IInv, NEW r \in Ids, Create(r) PROVE Kept
  <1> DEFINE permitted == "requester" \in online
  <1>1. \/ Becomes(r, {"absent"}, Entry("queued"))
        \/ Refused(r, {"absent"}, Entry("queued"), permitted)
    BY DEF Create
  <1>2. permitted \in BOOLEAN
    OBVIOUS
  <1> HIDE DEF permitted
  <1>3. QueueMoves
    BY <1>1, <1>2, CreateAllowed, BecomesMoves, RefusedMoves
  <1> QED BY <1>3, OutsideKeeps DEF Create

LEMMA CancelKeeps == ASSUME IInv, NEW r \in Ids, Cancel(r) PROVE Kept
  <1>1. Allowed(r, Pending, Entry("cancelled"))
    BY PendingAllowed DEF Terminal
  <1>2. QueueMoves
    BY <1>1, BecomesMoves, RefusedMoves DEF Cancel
  <1> QED BY <1>2, OutsideKeeps DEF Cancel

LEMMA CancelAllKeeps == ASSUME IInv, CancelAll PROVE Kept
  <1> DEFINE cancelled(state) ==
               [r \in Ids |-> IF state[r].status \in Pending
                              THEN Entry("cancelled") ELSE state[r]]
  <1>1. PICK state \in Reconciliations :
          Write(cancelled(state)) \/ WriteFails(cancelled(state))
    BY DEF CancelAll
  <1>2. Legal(state) /\ \A r \in Ids : state[r] \in Later(queue[r])
    BY ReconciliationLegal
  <1>3. ASSUME NEW r \in Ids PROVE LegalEntry(r, cancelled(state)[r])
    <2>1. CASE state[r].status \in Pending
      <3>1. LegalEntry(r, Entry("cancelled"))
        BY <1>2, <2>1, PendingAllowed DEF Allowed, Terminal
      <3> QED BY <2>1, <3>1
    <2>2. CASE state[r].status \notin Pending
      BY <1>2, <2>2 DEF Legal
    <2> QED BY <2>1, <2>2
  <1>4. Legal(cancelled(state))
    <2>1. cancelled(state) = [r \in Ids |-> cancelled(state)[r]]
      OBVIOUS
    <2>2. \A r \in Ids : cancelled(state)[r] \in Entries
      BY <1>3 DEF LegalEntry
    <2> HIDE DEF cancelled
    <2> QED BY <1>3, <2>1, <2>2 DEF Legal, Queues
  <1> HIDE DEF cancelled
  <1>5. QueueMoves
    BY <1>1, <1>4, TypesNow, WriteFailsMoves DEF Write, QueueMoves
  <1> QED BY <1>5, OutsideKeeps DEF CancelAll

LEMMA SurroundingsKeep ==
    ASSUME IInv, EndpointsChange \/ QueueRestored \/ ItemsRestored
    PROVE  Kept
  <1>1. CASE EndpointsChange
    <2>1. online' \subseteq Endpoints
      BY <1>1, LogisticsAssumption DEF EndpointsChange
    <2> QED BY <1>1, <2>1
        DEF EndpointsChange, IInv, LogisticsTypeOK, Legal, LegalEntry, Follows, WorkerKnows,
            Kept
  <1>2. CASE QueueRestored
    <2>1. QueueMoves
      BY <1>2, TypesNow DEF QueueRestored, QueueMoves, IInv, LogisticsTypeOK
    <2> QED BY <1>2, <2>1, TypesNow, QueueStep DEF QueueRestored, WorkerKnows
  <1>3. CASE ItemsRestored
    BY <1>3
    DEF ItemsRestored, IInv, LogisticsTypeOK, Legal, LegalEntry, Follows, WorkerKnows,
        Kept
  <1> QED BY <1>1, <1>2, <1>3

(* The worker. *)
LEMMA BeginPassKeeps == ASSUME IInv, BeginPass PROVE Kept
  <1>1. PICK state \in Reconciliations :
          \/ state = queue /\ listed' = Listing(state) /\ UNCHANGED <<queue, queueDisk, faults>>
          \/ state # queue /\ Write(state) /\ listed' = Listing(state)
          \/ state # queue /\ WriteFails(state) /\ listed' = Listing(queue)
    BY DEF BeginPass
  <1>2. Legal(state)
    BY ReconciliationLegal
  <1>3. QueueMoves
    BY <1>1, <1>2, TypesNow, NothingMoves, WriteFailsMoves DEF Write, QueueMoves
  <1>4. \A any : Listing(any) \in [Ids -> Kinds]
    <2>1. \A entry : Kind(entry) \in Kinds
      BY DEF Kind, Kinds
    <2> QED BY <2>1 DEF Listing
  <1>5. listed' \in [Ids -> Kinds]
    BY <1>1, <1>4
  <1> QED BY <1>3, <1>5, TypesNow, QueueStep DEF BeginPass, WorkerKnows

(* Takes(r) leaves a shorter list. *)
LEMMA TakenKeeps ==
    ASSUME IInv, NEW r \in Ids, Takes(r), QueueMoves,
           worker' \in [at : Places, id : Ids \cup {NoId}], WorkerKnows'
    PROVE  Kept
  <1>1. listed' \in [Ids -> Kinds]
    BY TypesNow DEF Takes, Kinds
  <1> QED BY <1>1, TypesNow, QueueStep DEF Takes

LEMMA ConsidersKeeps == ASSUME IInv, NEW r \in Ids, Considers(r) PROVE Kept
  <1>1. CASE Skip(r)
    BY <1>1, TypesNow, NothingMoves, TakenKeeps DEF Skip, Takes, WorkerKnows
  <1>2. CASE FindReceipt(r)
    <2>1. worker' = [at |-> "syncing", id |-> r] /\ r \in receipts' /\ receipts' = receipts
      BY <1>2 DEF FindReceipt, Takes, Goto
    <2>2. worker' \in [at : Places, id : Ids \cup {NoId}] /\ WorkerKnows'
      BY <2>1 DEF Places, WorkerKnows
    <2>3. QueueMoves
      BY <1>2, TypesNow, NothingMoves DEF FindReceipt
    <2> QED BY <1>2, <2>2, <2>3, TakenKeeps DEF FindReceipt
  <1>3. CASE Settle(r)
    <2>1. QueueMoves
      BY <1>3, MarkMoves DEF Settle
    <2> QED BY <1>3, <2>1, TypesNow, TakenKeeps DEF Settle, Takes, WorkerKnows
  <1>4. CASE Claim(r)
    <2>1. Allowed(r, {"queued"}, Entry("claimed"))
      BY PendingAllowed DEF Pending
    <2> DEFINE permitted == "supplier" \in online
    <2>6. \/ Becomes(r, {"queued"}, Entry("claimed"))
          \/ Refused(r, {"queued"}, Entry("claimed"), permitted)
      BY <1>4 DEF Claim
    <2>7. permitted \in BOOLEAN
      OBVIOUS
    <2> HIDE DEF permitted
    <2>2. QueueMoves
      BY <2>1, <2>6, <2>7, BecomesMoves, RefusedMoves
    <2>3. r \notin receipts /\ receipts' = receipts /\ worker = Idle
      BY <1>4 DEF Claim, Takes
    <2>4. worker' = [at |-> "claimed", id |-> r] \/ worker' = Idle
      BY <1>4, <2>3 DEF Claim, Goto
    <2>5. worker' \in [at : Places, id : Ids \cup {NoId}] /\ WorkerKnows'
      <3>1. CASE worker' = Idle
        BY <3>1, IdleWorker DEF WorkerKnows
      <3>2. CASE worker' = [at |-> "claimed", id |-> r]
        BY <2>3, <3>2 DEF WorkerKnows, Places
      <3> QED BY <2>4, <3>1, <3>2
    <2> QED BY <1>4, <2>2, <2>5, TakenKeeps DEF Claim
  <1> QED BY <1>1, <1>2, <1>3, <1>4 DEF Considers

(* A step of the worker with its request that leaves the items alone. *)
LEMMA WorkedKeeps ==
    ASSUME IInv, QueueMoves,
           UNCHANGED <<receipts, itemsDisk, listed, stopping, online, ends, revived>>,
           worker' \in [at : Places, id : Ids \cup {NoId}],
           worker'.at # "idle" => worker'.id = worker.id,
           worker'.at \in {"syncing", "marking", "claimed", "refreshing", "refused", "failed"} =>
             (worker'.at = "syncing" <=> worker'.id \in receipts)
    PROVE  Kept
  <1>1. WorkerKnows'
    BY DEF WorkerKnows
  <1> QED BY <1>1, TypesNow, QueueStep

LEMMA PlacesOf ==
    ASSUME NEW r \in Ids, NEW place \in Places
    PROVE  [at |-> place, id |-> r] \in [at : Places, id : Ids \cup {NoId}]
  OBVIOUS

LEMMA CommitKeeps == ASSUME IInv, NEW r \in Ids, Commit(r) PROVE Kept
  <1>1. /\ receipts' = receipts \cup {r} /\ itemsDisk' = {receipts'}
        /\ worker' = [at |-> "syncing", id |-> r]
        /\ UNCHANGED <<listed, stopping, online, ends, revived>>
    BY DEF Commit, Goto
  <1>2. QueueMoves /\ queueDisk' = {queue'} /\ queue'[r].status = "claimed"
    BY ClaimKept DEF Commit
  <1>3. ~Lost(queue'[r])
    BY <1>2 DEF Lost, Terminal
  <1>4. (\A state \in queueDisk : Legal(state))'
    BY <1>1, <1>2, <1>3, LegalKept
  <1>5. worker' \in [at : Places, id : Ids \cup {NoId}] /\ WorkerKnows'
    BY <1>1 DEF Places, WorkerKnows
  <1>6. LogisticsTypeOK'
    BY <1>1, <1>2, <1>5 DEF IInv, LogisticsTypeOK, QueueMoves, Legal
  <1>7. Legal(queue')
    BY <1>2 DEF QueueMoves
  <1> QED BY <1>1, <1>4, <1>5, <1>6, <1>7 DEF IInv, Kept

LEMMA CommitFailsKeeps == ASSUME IInv, NEW r \in Ids, CommitFails(r) PROVE Kept
  <1>1. /\ itemsDisk' = {receipts} \/ itemsDisk' = {receipts, receipts \cup {r}}
        /\ worker' = [at |-> "refused", id |-> r] /\ r \notin receipts
        /\ UNCHANGED <<queue, queueDisk, receipts, listed, stopping, online, ends, revived>>
        /\ faults' \in 0..MaxFaults
    BY LogisticsAssumption, TypesNow
    DEF CommitFails, Goto, At, WorkerKnows, FaultHappens
  <1>2. worker' \in [at : Places, id : Ids \cup {NoId}] /\ WorkerKnows'
    BY <1>1 DEF Places, WorkerKnows
  <1>3. (\A state \in queueDisk : Legal(state))'
    BY <1>1 DEF IInv, Legal, LegalEntry, Follows
  <1>4. LogisticsTypeOK'
    BY <1>1, <1>2 DEF IInv, LogisticsTypeOK
  <1>5. (\A durable \in itemsDisk : receipts \subseteq durable)'
    BY <1>1
  <1>6. Legal(queue')
    BY <1>1, EntriesThere DEF IInv, LogisticsTypeOK
  <1> QED BY <1>2, <1>3, <1>4, <1>5, <1>6 DEF IInv, Kept

LEMMA WorksKeeps == ASSUME IInv, NEW r \in Ids, Works(r) PROVE Kept
  <1>1. CASE Validate(r)
    <2>1. QueueMoves
      BY <1>1, ClaimKept DEF Validate
    <2>2. worker = [at |-> "claimed", id |-> r] /\ r \notin receipts
      BY <1>1, TypesNow DEF Validate, At, WorkerKnows
    <2>3. \E place \in {"refreshing", "failed", "refused"} : worker' = [at |-> place, id |-> r]
      BY <1>1 DEF Validate, Goto
    <2> QED BY <1>1, <2>1, <2>2, <2>3, WorkedKeeps DEF Validate, Places
  <1>2. CASE Commit(r)
    BY <1>2, CommitKeeps
  <1>3. CASE CommitFails(r)
    BY <1>3, CommitFailsKeeps
  <1>4. CASE CommitRefused(r)
    <2>1. QueueMoves
      BY <1>4, ClaimKept, TypesNow, NothingMoves DEF CommitRefused
    <2>2. worker = [at |-> "refreshing", id |-> r] /\ r \notin receipts
      BY <1>4, TypesNow DEF CommitRefused, At, WorkerKnows
    <2>3. \E place \in {"failed", "refused"} : worker' = [at |-> place, id |-> r]
      BY <1>4 DEF CommitRefused, Goto
    <2> QED BY <1>4, <2>1, <2>2, <2>3, WorkedKeeps DEF CommitRefused, Places
  <1>5. CASE Release(r)
    <2>1. Allowed(r, {"claimed"}, Entry("queued"))
      BY PendingAllowed DEF Pending
    <2>2. QueueMoves
      BY <1>5, <2>1, BecomesMoves, RefusedMoves DEF Release
    <2> QED BY <1>5, <2>2, IdleWorker, WorkedKeeps DEF Release, Done
  <1>6. CASE Fail(r)
    <2>1. Allowed(r, {"claimed"}, Entry("failed"))
      BY PendingAllowed DEF Pending, Terminal
    <2> DEFINE permitted == "supplier" \in online
    <2>2. \/ Becomes(r, {"claimed"}, Entry("failed"))
          \/ Refused(r, {"claimed"}, Entry("failed"), permitted)
      BY <1>6 DEF Fail
    <2>3. permitted \in BOOLEAN
      OBVIOUS
    <2> HIDE DEF permitted
    <2>4. QueueMoves
      BY <2>1, <2>2, <2>3, BecomesMoves, RefusedMoves
    <2>5. worker = [at |-> "failed", id |-> r] /\ r \notin receipts
      BY <1>6, TypesNow DEF Fail, At, WorkerKnows
    <2>6. worker' = [at |-> "marking", id |-> r] \/ worker' = Idle
      BY <1>6 DEF Fail, Goto, Done
    <2>7. UNCHANGED <<receipts, itemsDisk, listed, stopping, online, ends, revived>>
      BY <1>6 DEF Fail
    <2> QED BY <2>4, <2>5, <2>6, <2>7, IdleWorker, WorkedKeeps DEF Places
  <1>7. CASE Mark(r)
    <2>1. r \notin receipts
      BY <1>7, TypesNow DEF Mark, At, WorkerKnows
    <2>2. QueueMoves
      BY <1>7, <2>1, MarkMoves DEF Mark
    <2> QED BY <1>7, <2>2, IdleWorker, WorkedKeeps DEF Mark, Done
  <1>8. CASE Finalize(r)
    <2> DEFINE fulfilled == [status |-> "fulfilled", reconciled |-> TRUE]
    <2>1. r \in receipts
      BY <1>8, TypesNow DEF Finalize, At, WorkerKnows
    <2>2. Allowed(r, Pending \cup Terminal, fulfilled)
      BY <2>1, FulfilledAllowed
    <2>3. \/ Becomes(r, Pending \cup Terminal, fulfilled)
          \/ Refused(r, Pending \cup Terminal, fulfilled, TRUE)
          \/ FaultHappens /\ UNCHANGED <<queue, queueDisk>>
      BY <1>8 DEF Finalize
    <2> HIDE DEF fulfilled
    <2>4. FaultHappens => faults' \in 0..MaxFaults
      BY LogisticsAssumption, TypesNow DEF FaultHappens
    <2>5. QueueMoves
      BY <2>2, <2>3, <2>4, BecomesMoves, RefusedMoves, NothingMoves
    <2> QED BY <1>8, <2>5, IdleWorker, WorkedKeeps DEF Finalize, Done
  <1> QED BY <1>1, <1>2, <1>3, <1>4, <1>5, <1>6, <1>7, <1>8 DEF Works

LEMMA StopKeeps == ASSUME IInv, Stop PROVE Kept
  <1>1. ends' \in 0..MaxEnds
    BY LogisticsAssumption, TypesNow DEF Stop
  <1>2. QueueMoves
    BY TypesNow, NothingMoves DEF Stop
  <1> QED BY <1>1, <1>2, TypesNow, QueueStep DEF Stop, WorkerKnows

(* Whatever is found is legal, and the receipts are those there were, and   *)
(* those that were revived.                                                 *)
LEMMA RestartKeeps == ASSUME IInv, Restart PROVE Kept
  <1>1. /\ queue' \in queueDisk /\ queueDisk' = {queue'} /\ Legal(queue')
        /\ receipts' \in itemsDisk /\ itemsDisk' = {receipts'}
        /\ receipts \subseteq receipts'
        /\ revived' = revived \cup (receipts' \ receipts)
        /\ worker' = Idle /\ listed' = NotListed /\ stopping' = FALSE
        /\ UNCHANGED <<online, faults>>
    BY DEF Restart, IInv
  <1>2. ends' \in 0..MaxEnds
    BY LogisticsAssumption, TypesNow DEF Restart
  <1>3. ASSUME NEW r \in Ids PROVE LegalEntry(r, queue[r])'
    <2>1. LegalEntry(r, queue'[r])
      BY <1>1 DEF Legal
    <2> QED BY <1>1, <2>1 DEF LegalEntry, Follows, Lost
  <1>4. Legal(queue)'
    BY <1>1, <1>3 DEF Legal, Queues
  <1>5. WorkerKnows'
    BY <1>1, IdleWorker DEF WorkerKnows
  <1>6. LogisticsTypeOK'
    <2>1. listed' \in [Ids -> Kinds]
      BY <1>1 DEF NotListed, Kinds
    <2>2. receipts' \subseteq Ids /\ revived' \subseteq Ids
      BY <1>1 DEF IInv, LogisticsTypeOK
    <2> QED BY <1>1, <1>2, <2>1, <2>2, IdleWorker DEF IInv, LogisticsTypeOK
  <1> QED BY <1>1, <1>4, <1>5, <1>6 DEF IInv, Kept

LEMMA StepKeeps == IInv /\ [LogisticsNext]_vars => Kept
  <1> SUFFICES ASSUME IInv, [LogisticsNext]_vars PROVE Kept
    OBVIOUS
  <1>1. ASSUME NEW r \in Ids, Create(r) \/ Cancel(r) \/ Considers(r) \/ Works(r)
        PROVE  Kept
    BY <1>1, CreateKeeps, CancelKeeps, ConsidersKeeps, WorksKeeps
  <1>2. CASE UNCHANGED vars
    <2>1. UNCHANGED <<queue, queueDisk, receipts, itemsDisk, worker, listed, stopping,
                      online, faults, ends, revived>>
      BY <1>2 DEF vars
    <2>2. QueueMoves
      BY <2>1, TypesNow, NothingMoves
    <2> QED BY <2>1, <2>2, TypesNow, QueueStep DEF WorkerKnows
  <1> QED BY <1>1, <1>2, BeginPassKeeps, CancelAllKeeps, SurroundingsKeep, StopKeeps,
             RestartKeeps DEF LogisticsNext

LEMMA AlwaysIInv == LogisticsSpec => []IInv
  <1>1. LogisticsInit => IInv
    BY InitHolds
  <1>2. IInv /\ [LogisticsNext]_vars => IInv'
    BY StepKeeps DEF Kept
  <1> QED BY <1>1, <1>2, PTL DEF LogisticsSpec

--------------------------------------------------------------------------------
(* The results. *)

(* Type correctness of the request queue and the items table of            *)
(* smartAssemblyRequestRuntime.ts and itemStore.ts: in particular what the  *)
(* readers see is always among the contents that a restart may find.        *)
THEOREM LogisticsTypeCorrect == LogisticsSpec => []LogisticsTypeOK
  <1>1. IInv => LogisticsTypeOK
    BY DEF IInv
  <1> QED BY <1>1, AlwaysIInv, PTL

(* A request is fulfilled only if its items moved, in every pair of         *)
(* contents that a restart may find in the two tables.                      *)
THEOREM FulfilledRequestsMoved == LogisticsSpec => []FulfilledMoved
  <1>1. IInv => FulfilledMoved
    <2> SUFFICES ASSUME IInv, NEW requests \in queueDisk \cup {queue},
                        NEW durable \in itemsDisk, NEW r \in Ids,
                        requests[r].status = "fulfilled"
                 PROVE  r \in durable
      BY DEF FulfilledMoved
    <2>1. requests \in queueDisk /\ Legal(requests)
      BY DEF IInv, LogisticsTypeOK
    <2>2. r \in receipts
      BY <2>1 DEF Legal, LegalEntry
    <2> QED BY <2>2 DEF IInv
  <1> QED BY <1>1, AlwaysIInv, PTL

(* Only two steps add to the receipts. *)
LEMMA ReceiptsAdded ==
    ASSUME [LogisticsNext]_vars
    PROVE  \/ receipts' = receipts
           \/ \E r \in Ids : Commit(r)
           \/ Restart
  BY DEF LogisticsNext, vars, Create, Cancel, Outside, Considers, Skip, FindReceipt,
         Settle, Claim, Takes, Works, Validate, CommitFails, CommitRefused, Release,
         Fail, Mark, Finalize, BeginPass, CancelAll, EndpointsChange, QueueRestored,
         ItemsRestored, Stop

(* The commit of assemblyLogisticsRuntime.ts moves items only for a request *)
(* that a restart would find claimed, with both endpoints online, in a      *)
(* server that is not shutting down.                                        *)
THEOREM ItemsMoveUnderClaim == LogisticsSpec => MovedUnderClaim
  <1> DEFINE Step == \A r \in receipts' \ receipts :
                       \/ /\ \A requests \in queueDisk' : requests[r].status = "claimed"
                          /\ online = Endpoints /\ ~stopping
                       \/ r \in revived'
  <1>1. IInv /\ [LogisticsNext]_vars => [Step]_vars
    <2> SUFFICES ASSUME IInv, [LogisticsNext]_vars PROVE Step
      OBVIOUS
    <2>1. CASE receipts' = receipts
      BY <2>1
    <2>2. ASSUME NEW r \in Ids, Commit(r) PROVE Step
      <3>1. receipts' = receipts \cup {r} /\ ClaimAsserted(r)
        BY <2>2 DEF Commit
      <3>2. queueDisk' = {queue'} /\ queue'[r].status = "claimed"
            /\ ~stopping /\ online = Endpoints
        BY <3>1, ClaimKept
      <3> QED BY <3>1, <3>2
    <2>3. CASE Restart
      BY <2>3 DEF Restart
    <2> QED BY <2>1, <2>2, <2>3, ReceiptsAdded
  <1> QED BY <1>1, AlwaysIInv, PTL DEF LogisticsSpec, MovedUnderClaim

(* A step may make of an entry what the invariant allows a restart to.      *)
LEMMA EntriesFollow ==
    ASSUME IInv, [LogisticsNext]_vars, NEW r \in Ids
    PROVE  /\ queue'[r] \in Entries
           /\ Follows(r, queue[r], queue'[r])
           /\ receipts \subseteq receipts'
  <1>1. Legal(queue')
    BY StepKeeps DEF Kept
  <1>2. receipts \subseteq receipts'
    BY ReceiptsAdded DEF Commit, Restart, IInv
  <1> QED BY <1>1, <1>2 DEF Legal, LegalEntry

(* What a caller was told of a request stands, but for the discovery that   *)
(* its items have moved, through failed flushes and restarts.               *)
THEOREM OutcomesStand == LogisticsSpec => OutcomeStands
  <1> DEFINE Step == \A r \in Ids :
                       queue[r].status \in Terminal =>
                         \/ queue'[r].status = queue[r].status
                         \/ Removed(r)
                         \/ queue'[r].status = "fulfilled" /\ r \in receipts'
  <1>1. IInv /\ [LogisticsNext]_vars => [Step]_vars
    <2> SUFFICES ASSUME IInv, [LogisticsNext]_vars, NEW r \in Ids,
                        queue[r].status \in Terminal
                 PROVE  \/ queue'[r].status = queue[r].status
                        \/ Removed(r)
                        \/ queue'[r].status = "fulfilled" /\ r \in receipts'
      OBVIOUS
    <2> QED BY EntriesFollow DEF Follows, Removed
  <1> QED BY <1>1, AlwaysIInv, PTL DEF LogisticsSpec, OutcomeStands

(* A request whose items moved stays in the queue until it is fulfilled,    *)
(* unless it was settled before a restart found the move: nothing that the  *)
(* clock, a caller or the worker does removes it.                           *)
THEOREM MovedRequestsKept == LogisticsSpec => KeptUntilFulfilled
  <1> DEFINE Step == \A r \in receipts \ revived :
                       queue[r].status \notin {"absent", "fulfilled"} => ~Removed(r)
  <1>1. IInv /\ [LogisticsNext]_vars => [Step]_vars
    <2> SUFFICES ASSUME IInv, [LogisticsNext]_vars, NEW r \in receipts \ revived,
                        queue[r].status \notin {"absent", "fulfilled"}, Removed(r)
                 PROVE  FALSE
      OBVIOUS
    <2>1. r \in Ids
      BY DEF IInv, LogisticsTypeOK
    <2>2. ~Lost(queue[r])
      BY <2>1, EntriesThere DEF LegalEntry
    <2>3. queue'[r].status = "absent" => Lost(queue[r])
      BY <2>1, EntriesFollow DEF Follows, Lost
    <2> QED BY <2>2, <2>3 DEF Removed, Lost
  <1> QED BY <1>1, AlwaysIInv, PTL DEF LogisticsSpec, KeptUntilFulfilled
================================================================================
