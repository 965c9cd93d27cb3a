------------------------- MODULE PacketPipeline_proofs -------------------------
(***************************************************************************)
(* For any number of connections, packets, workers, limits and faults: the *)
(* two directions of a connection are ordered channels, no task that       *)
(* somebody waits for waits beside a free worker, and workers, tasks and   *)
(* the promises of the connections account for each other.                 *)
(*                                                                         *)
(* All rest on each task being in one place. A promise the pool rejected   *)
(* while its task stays in the queue breaks that rule: such a task runs    *)
(* later, on behalf of nobody, and must not be taken for the decode that   *)
(* its connection is waiting for then.                                     *)
(***************************************************************************)
EXTENDS PacketPipeline, SequenceTheorems, TLAPS

Held == Range(queue) \cup Active \cup Settling

(* Tasks of the pool whose promise is settled and forgotten.               *)
Stale == abandoned \ Settling

States == {"absent", "ready", "running", "result", "error", "dead"}

PoolTypes ==
    /\ queue \in Seq(Tasks)
    /\ settled \in Seq([task : Tasks, ok : BOOLEAN])
    /\ pending \in [Tasks -> Workers \cup {NoWorker}]
    /\ serviceTask \in [Workers -> Tasks \cup {NoTask}]
    /\ threads \in [Workers -> [state : States, task : Tasks \cup {NoTask}]]
    /\ \A w \in Workers :
         threads[w].state \in {"running", "result", "error"} => threads[w].task \in Tasks
    /\ abandoned \subseteq Tasks
    /\ drain \in {"no", "run", "event"}

(* Each task is in one place: queued, at a worker or settled; only an      *)
(* abandoned one is settled and in the pool.                               *)
OnePlace ==
    /\ \A i, j \in DOMAIN queue : queue[i] = queue[j] => i = j
    /\ \A i, j \in DOMAIN settled : settled[i].task = settled[j].task => i = j
    /\ Range(queue) \cap Active = {}
    /\ Settling \cap (Range(queue) \cup Active) \subseteq abandoned
    /\ abandoned \subseteq Range(queue) \cup Active

(* What run() relies on when new Worker() throws: its own task is the last *)
(* one, and everything before it is abandoned, or there is no room and the *)
(* loop is at its end.                                                     *)
NobodyWaits ==
    /\ NoTaskWaitsForAFreeWorker
    /\ drain = "run" =>
         /\ queue # <<>> => queue[Len(queue)] \notin abandoned
         /\ \/ idleWorkers = <<>> /\ ~HasRoom
            \/ \A i \in DOMAIN queue : i < Len(queue) => queue[i] \in abandoned

PoolInv == PoolTypes /\ OnePlace /\ NobodyWaits

SessionTypes ==
    /\ open \subseteq Conns
    /\ received \in [Conns -> Nat]
    /\ inbound \in [Conns -> Seq(Nat)]
    /\ decoding \subseteq Conns
    /\ pendingDispatches \in Seq([conn : Conns, n : Nat])
    /\ dispatched \in [Conns -> Seq(Nat)]
    /\ sent \in [Conns -> Nat]
    /\ outbound \in [Conns -> Seq([n : Nat, encoded : {"waiting", "ready", "failed"}])]
    /\ written \in [Conns -> Seq(Nat)]

(* Packets whose link of the decode chain has ended.                       *)
Done(c) == received[c] - Len(inbound[c])

(* The task of a decode is the one its connection waits for, or it is      *)
(* stale and older.                                                        *)
TasksOfPackets ==
    \A t \in Held :
        /\ t \in [conn : Conns, way : Ways, n : Nat]
        /\ t.way = "in" =>
             \/ t.n <= Done(t.conn) /\ t \in Stale
             \/ t.n = Done(t.conn) + 1 /\ t.conn \in decoding
        /\ t.way = "out" => t.n <= sent[t.conn]

DecodeChain(c) ==
    /\ received[c] <= MaxPackets[c]["in"]
    /\ Len(inbound[c]) <= received[c] /\ Len(inbound[c]) <= InboundLimit
    /\ \A i \in DOMAIN inbound[c] : inbound[c][i] = Done(c) + i
    /\ c \in decoding => inbound[c] # <<>>

WriteChain(c) ==
    /\ Len(outbound[c]) <= sent[c]
    /\ c \in open => Len(written[c]) = sent[c] - Len(outbound[c])
    /\ \A i \in DOMAIN outbound[c] :
         outbound[c][i].n = sent[c] - Len(outbound[c]) + i

(* What is decoded and not dispatched is in the list, in order.            *)
DispatchOrder(c) ==
    c \in open =>
        /\ Len(dispatched[c]) <= Done(c)
        /\ \A i \in DOMAIN pendingDispatches : pendingDispatches[i].conn = c =>
             /\ pendingDispatches[i].n \in Len(dispatched[c]) + 1 .. Done(c)
             /\ \A j \in DOMAIN pendingDispatches :
                  i < j /\ pendingDispatches[j].conn = c
                    => pendingDispatches[i].n < pendingDispatches[j].n
        /\ \A n \in Len(dispatched[c]) + 1 .. Done(c) :
             \E i \in DOMAIN pendingDispatches :
               pendingDispatches[i] = [conn |-> c, n |-> n]

SessionInv ==
    /\ SessionTypes
    /\ TasksOfPackets
    /\ \A c \in Conns : DecodeChain(c) /\ WriteChain(c) /\ DispatchOrder(c)

IInv == PoolInv /\ SessionInv

(* What a step of the pool means for the connections: no task comes from   *)
(* nowhere, and a stale task stays stale.                                  *)
Kept ==
    /\ Held' \subseteq Held
    /\ \A t \in Held' : t \in Stale => t \in Stale'

(* A task may be added that the pool has nowhere.                          *)
Added(t) ==
    /\ Held' \subseteq Held \cup {t}
    /\ \A u \in Held' : u # t /\ u \in Stale => u \in Stale'

--------------------------------------------------------------------------------
(* Sequences. *)

TasksIn(s) == {s[i].task : i \in DOMAIN s}

LEMMA Taking ==
    ASSUME NEW S, NEW s \in Seq(S), s # <<>>
    PROVE  /\ Tail(s) \in Seq(S)
           /\ Head(s) \in S /\ Head(s) = s[1]
           /\ Len(s) \in Nat \ {0} /\ 1 \in DOMAIN s
           /\ Len(Tail(s)) = Len(s) - 1
           /\ DOMAIN Tail(s) = 1 .. Len(s) - 1 /\ DOMAIN s = 1 .. Len(s)
           /\ \A i \in 1 .. Len(s) - 1 : Tail(s)[i] = s[i + 1] /\ i + 1 \in DOMAIN s
  OBVIOUS

LEMMA TakingIndexes ==
    ASSUME NEW S, NEW s \in Seq(S), s # <<>>
    PROVE  /\ Head(s) \in S /\ Head(s) = s[1] /\ 1 \in DOMAIN s
           /\ Tail(s) \in Seq(S)
           /\ \A i \in DOMAIN Tail(s) : i \in Nat /\ i + 1 \in DOMAIN s /\ Tail(s)[i] = s[i + 1]
           /\ \A i \in DOMAIN s : i \in Nat /\ (i = 1 \/ (1 < i /\ i - 1 \in DOMAIN Tail(s)
                                                        /\ Tail(s)[i - 1] = s[i]))
  OBVIOUS

LEMMA TakingRange ==
    ASSUME NEW S, NEW s \in Seq(S), s # <<>>
    PROVE  Range(s) = {Head(s)} \cup Range(Tail(s))
  <1>1. \A i \in DOMAIN s : s[i] = Head(s) \/ \E j \in DOMAIN Tail(s) : s[i] = Tail(s)[j]
    <2>1. \A i \in DOMAIN s : i = 1 \/ (i - 1 \in DOMAIN Tail(s) /\ Tail(s)[i - 1] = s[i])
      OBVIOUS
    <2> QED BY <2>1, Taking
  <1>2. \A j \in DOMAIN Tail(s) : \E i \in DOMAIN s : s[i] = Tail(s)[j]
    BY Taking
  <1>3. \E i \in DOMAIN s : s[i] = Head(s)
    BY Taking
  <1>4. \A x : x \in Range(s) => x \in {Head(s)} \cup Range(Tail(s))
    BY <1>1 DEF Range
  <1>5. \A x : x \in {Head(s)} \cup Range(Tail(s)) => x \in Range(s)
    BY <1>2, <1>3 DEF Range
  <1> QED BY <1>4, <1>5

LEMMA TakingDistinct ==
    ASSUME NEW S, NEW s \in Seq(S), s # <<>>,
           \A i, j \in DOMAIN s : s[i] = s[j] => i = j
    PROVE  /\ Head(s) \notin Range(Tail(s))
           /\ \A i, j \in DOMAIN Tail(s) : Tail(s)[i] = Tail(s)[j] => i = j
  <1>1. \A i \in DOMAIN Tail(s) : i \in 1 .. Len(s) - 1 /\ Tail(s)[i] = s[i + 1] /\ i + 1 \in DOMAIN s /\ i + 1 # 1
    BY Taking
  <1>2. Head(s) = s[1] /\ 1 \in DOMAIN s
    BY Taking
  <1>3. \A i, j \in DOMAIN Tail(s) : Tail(s)[i] = Tail(s)[j] => i + 1 = j + 1
    BY <1>1
  <1> QED BY <1>1, <1>2, <1>3 DEF Range

LEMMA TakingTasks ==
    ASSUME NEW S, NEW s \in Seq(S), s # <<>>,
           \A i, j \in DOMAIN s : s[i].task = s[j].task => i = j
    PROVE  /\ TasksIn(s) = {Head(s).task} \cup TasksIn(Tail(s))
           /\ Head(s) \in S /\ Tail(s) \in Seq(S)
           /\ Head(s).task \notin TasksIn(Tail(s))
           /\ \A i, j \in DOMAIN Tail(s) : Tail(s)[i].task = Tail(s)[j].task => i = j
  <1>1. \A i \in DOMAIN Tail(s) : i \in 1 .. Len(s) - 1 /\ Tail(s)[i] = s[i + 1] /\ i + 1 \in DOMAIN s /\ i + 1 # 1
    BY Taking
  <1>2. Head(s) = s[1] /\ 1 \in DOMAIN s /\ Head(s) \in S
    BY Taking
  <1>3. \A i, j \in DOMAIN Tail(s) : Tail(s)[i].task = Tail(s)[j].task => i + 1 = j + 1
    BY <1>1
  <1>4. \A i \in DOMAIN s : s[i] = Head(s) \/ \E j \in DOMAIN Tail(s) : s[i] = Tail(s)[j]
    <2>1. \A i \in DOMAIN s : i = 1 \/ (i - 1 \in DOMAIN Tail(s) /\ Tail(s)[i - 1] = s[i])
      OBVIOUS
    <2> QED BY <2>1, Taking
  <1>5. \A j \in DOMAIN Tail(s) : \E i \in DOMAIN s : s[i] = Tail(s)[j]
    BY <1>1
  <1>6. TasksIn(s) = {Head(s).task} \cup TasksIn(Tail(s))
    <2>1. \A x : x \in TasksIn(s) => x \in {Head(s).task} \cup TasksIn(Tail(s))
      BY <1>4 DEF TasksIn
    <2>2. \A x : x \in {Head(s).task} \cup TasksIn(Tail(s)) => x \in TasksIn(s)
      BY <1>2, <1>5 DEF TasksIn
    <2> QED BY <2>1, <2>2
  <1>7. \A i \in DOMAIN Tail(s) : Tail(s)[i].task # Head(s).task
    BY <1>1, <1>2
  <1>8. Head(s).task \notin TasksIn(Tail(s))
    BY <1>7 DEF TasksIn
  <1>9. \A i, j \in DOMAIN Tail(s) : Tail(s)[i].task = Tail(s)[j].task => i = j
    BY <1>1, <1>3
  <1> QED BY <1>2, <1>6, <1>8, <1>9

LEMMA Adding ==
    ASSUME NEW S, NEW s \in Seq(S), NEW x \in S
    PROVE  /\ Append(s, x) \in Seq(S)
           /\ Len(s) \in Nat /\ Len(Append(s, x)) = Len(s) + 1
           /\ DOMAIN s = 1 .. Len(s) /\ DOMAIN Append(s, x) = 1 .. Len(s) + 1
           /\ \A i \in DOMAIN s : i \in DOMAIN Append(s, x) /\ Append(s, x)[i] = s[i]
           /\ Append(s, x)[Len(s) + 1] = x
           /\ \A i \in DOMAIN Append(s, x) : i \in DOMAIN s \/ i = Len(s) + 1
  OBVIOUS

LEMMA AddingDistinct ==
    ASSUME NEW S, NEW s \in Seq(S), NEW x \in S, x \notin Range(s),
           \A i, j \in DOMAIN s : s[i] = s[j] => i = j
    PROVE  /\ Range(Append(s, x)) = Range(s) \cup {x}
           /\ \A i, j \in DOMAIN Append(s, x) :
                Append(s, x)[i] = Append(s, x)[j] => i = j
  BY Adding DEF Range

LEMMA AddingTasks ==
    ASSUME NEW S, NEW s \in Seq(S), NEW e \in S,
           e.task \notin TasksIn(s),
           \A i, j \in DOMAIN s : s[i].task = s[j].task => i = j
    PROVE  /\ TasksIn(Append(s, e)) = TasksIn(s) \cup {e.task}
           /\ Append(s, e) \in Seq(S)
           /\ \A i, j \in DOMAIN Append(s, e) :
                Append(s, e)[i].task = Append(s, e)[j].task => i = j
  <1>1. \A i \in DOMAIN Append(s, e) :
          \/ i \in DOMAIN s /\ Append(s, e)[i] = s[i]
          \/ i = Len(s) + 1 /\ Append(s, e)[i] = e
    BY Adding
  <1>2. \A i \in DOMAIN s : i \in DOMAIN Append(s, e) /\ Append(s, e)[i] = s[i]
    BY Adding
  <1>3. Len(s) + 1 \in DOMAIN Append(s, e) /\ Append(s, e)[Len(s) + 1] = e
    BY Adding
  <1>4. TasksIn(Append(s, e)) = TasksIn(s) \cup {e.task}
    BY <1>1, <1>2, <1>3 DEF TasksIn
  <1>5. \A i, j \in DOMAIN Append(s, e) : Append(s, e)[i].task = Append(s, e)[j].task => i = j
    BY <1>1 DEF TasksIn
  <1>6. Append(s, e) \in Seq(S)
    BY Adding
  <1> QED BY <1>4, <1>5, <1>6

--------------------------------------------------------------------------------
(* The pool. *)

LEMMA SettlingIsTasksIn == Settling = TasksIn(settled) /\ Settling' = TasksIn(settled')
  BY DEF Settling, TasksIn

(* A task that leaves the queue or its worker is settled once.             *)
LEMMA SettlesOnce ==
    ASSUME PoolTypes, OnePlace,
           NEW t \in Tasks, t \in Range(queue) \cup Active,
           NEW ok \in BOOLEAN, Settle(t, ok),
           Range(queue') \cup Active' = (Range(queue) \cup Active) \ {t},
           Range(queue') \cap Active' = {},
           \A i, j \in DOMAIN queue' : queue'[i] = queue'[j] => i = j
    PROVE  /\ settled' \in Seq([task : Tasks, ok : BOOLEAN])
           /\ abandoned' \subseteq Tasks
           /\ OnePlace'
           /\ Kept
  <1>1. abandoned' = abandoned \ {t}
    BY DEF Settle
  <1>2. /\ settled' \in Seq([task : Tasks, ok : BOOLEAN])
        /\ \A i, j \in DOMAIN settled' : settled'[i].task = settled'[j].task => i = j
        /\ t \in abandoned => Settling' = Settling
        /\ t \notin abandoned => Settling' = Settling \cup {t}
    <2>1. CASE t \in abandoned
      <3>1. settled' = settled
        BY <2>1 DEF Settle
      <3> QED BY <2>1, <3>1 DEF PoolTypes, OnePlace, Settling
    <2>2. CASE t \notin abandoned
      <3>1. settled' = Append(settled, [task |-> t, ok |-> ok])
        BY <2>2 DEF Settle
      <3>2. t \notin TasksIn(settled)
        BY <2>2, SettlingIsTasksIn DEF OnePlace
      <3>3. /\ settled \in Seq([task : Tasks, ok : BOOLEAN])
            /\ \A i, j \in DOMAIN settled : settled[i].task = settled[j].task => i = j
        BY DEF PoolTypes, OnePlace
      <3>4. /\ TasksIn(settled') = TasksIn(settled) \cup {t}
            /\ settled' \in Seq([task : Tasks, ok : BOOLEAN])
            /\ \A i, j \in DOMAIN settled' : settled'[i].task = settled'[j].task => i = j
        <4>1. PICK s, e, S : /\ s = settled /\ e = [task |-> t, ok |-> ok]
                             /\ S = [task : Tasks, ok : BOOLEAN]
          OBVIOUS
        <4>2. /\ s \in Seq(S)
              /\ e \in S
              /\ e.task = t
              /\ e.task \notin TasksIn(s)
              /\ \A i, j \in DOMAIN s : s[i].task = s[j].task => i = j
          BY <4>1, <3>2, <3>3
        <4>3. /\ TasksIn(Append(s, e)) = TasksIn(s) \cup {t}
              /\ Append(s, e) \in Seq(S)
              /\ \A i, j \in DOMAIN Append(s, e) :
                   Append(s, e)[i].task = Append(s, e)[j].task => i = j
          BY <4>2, AddingTasks
        <4> QED BY <3>1, <4>1, <4>3, Zenon
      <3> QED BY <2>2, <3>4, SettlingIsTasksIn
    <2> QED BY <2>1, <2>2
  <1>3. Settling \cap (Range(queue) \cup Active) \subseteq abandoned
        /\ abandoned \subseteq Range(queue) \cup Active
    BY DEF OnePlace
  <1>4. OnePlace'
    BY <1>1, <1>2, <1>3 DEF OnePlace
  <1>5. Kept
    BY <1>1, <1>2, <1>3 DEF Kept, Held, Stale
  <1> QED BY <1>1, <1>2, <1>4, <1>5 DEF PoolTypes

LEMMA PoolUnchanged ==
    ASSUME PoolInv, UNCHANGED poolVars
    PROVE  PoolInv' /\ Kept
  BY DEF PoolInv, PoolTypes, OnePlace, NobodyWaits, NoTaskWaitsForAFreeWorker, HasRoom,
         Active, Settling, Kept, Held, Stale, poolVars

(* Steps that touch neither tasks nor the rule about waiting.              *)
LEMMA PoolRecordsOnly ==
    ASSUME PoolInv, UNCHANGED <<queue, settled, pending, abandoned>>,
           drain' \in {"no", "run", "event"},
           serviceTask' \in [Workers -> Tasks \cup {NoTask}],
           threads' \in [Workers -> [state : States, task : Tasks \cup {NoTask}]],
           \A w \in Workers : threads'[w].state \in {"running", "result", "error"}
                                => threads'[w].task \in Tasks,
           NobodyWaits'
    PROVE  PoolInv' /\ Kept
  BY DEF PoolInv, PoolTypes, OnePlace, Active, Settling, Kept, Held, Stale

LEMMA DrainEndsKeeps == PoolInv /\ DrainEnds => PoolInv' /\ Kept
  <1> SUFFICES ASSUME PoolInv, DrainEnds PROVE PoolInv' /\ Kept
    OBVIOUS
  <1>1. NobodyWaits'
    BY DEF DrainEnds, NobodyWaits, NoTaskWaitsForAFreeWorker, HasRoom, Range
  <1> QED BY <1>1, PoolRecordsOnly DEF DrainEnds, PoolInv, PoolTypes

LEMMA LateMessageKeeps ==
    ASSUME NEW w \in Workers, PoolInv, LateMessageIgnored(w)
    PROVE  PoolInv' /\ Kept
  <1>1. NobodyWaits'
    BY DEF LateMessageIgnored, PoolInv, NobodyWaits, NoTaskWaitsForAFreeWorker, HasRoom
  <1>2. threads' \in [Workers -> [state : States, task : Tasks \cup {NoTask}]]
    BY DEF LateMessageIgnored, PoolInv, PoolTypes, Absent, States
  <1>3. \A v \in Workers : threads'[v].state \in {"running", "result", "error"}
                             => threads'[v].task \in Tasks
    BY DEF LateMessageIgnored, PoolInv, PoolTypes, Absent, States
  <1> QED BY <1>1, <1>2, <1>3, PoolRecordsOnly DEF LateMessageIgnored, PoolInv, PoolTypes

LEMMA ThreadStepKeeps == PoolInv /\ ThreadStep => PoolInv' /\ Kept
  <1> SUFFICES ASSUME PoolInv, NEW w \in Workers, ThreadAnswers(w) \/ ThreadDies(w)
               PROVE  PoolInv' /\ Kept
    BY DEF ThreadStep
  <1>1. UNCHANGED <<queue, workers, idleWorkers, pending, serviceTask, drain, settled, abandoned>>
    BY DEF ThreadAnswers, ThreadDies
  <1>2. NobodyWaits'
    BY <1>1 DEF PoolInv, NobodyWaits, NoTaskWaitsForAFreeWorker, HasRoom
  <1>3. PICK s \in States : threads' = [threads EXCEPT ![w].state = s]
    BY DEF ThreadAnswers, ThreadDies, States
  <1>4. threads' \in [Workers -> [state : States, task : Tasks \cup {NoTask}]]
    BY <1>3 DEF PoolInv, PoolTypes
  <1>5. threads[w].state \in {"running"} \/ s = "dead"
    BY <1>3 DEF ThreadAnswers, ThreadDies, PoolInv, PoolTypes
  <1>6. \A v \in Workers : threads'[v].state \in {"running", "result", "error"}
                             => threads'[v].task \in Tasks
    BY <1>3, <1>5 DEF PoolInv, PoolTypes
  <1> QED BY <1>1, <1>2, <1>4, <1>6, PoolRecordsOnly DEF PoolInv, PoolTypes

(* What is at hand when _drain takes the head of the queue.                *)
LEMMA TakingHead ==
    ASSUME PoolInv, queue # <<>>
    PROVE  /\ Head(queue) \in Tasks /\ Head(queue) \in Range(queue)
           /\ Tail(queue) \in Seq(Tasks)
           /\ Range(Tail(queue)) = Range(queue) \ {Head(queue)}
           /\ \A i, j \in DOMAIN Tail(queue) : Tail(queue)[i] = Tail(queue)[j] => i = j
           /\ Head(queue) \notin Active
  <1>1. PICK q : q = queue
    OBVIOUS
  <1>2. q \in Seq(Tasks) /\ q # <<>> /\ \A i, j \in DOMAIN q : q[i] = q[j] => i = j
    BY <1>1 DEF PoolInv, PoolTypes, OnePlace
  <1>3. /\ Head(q) \in Tasks /\ Tail(q) \in Seq(Tasks)
        /\ Range(q) = {Head(q)} \cup Range(Tail(q))
    BY <1>2, Taking, TakingRange
  <1>4. /\ Head(q) \notin Range(Tail(q))
        /\ \A i, j \in DOMAIN Tail(q) : Tail(q)[i] = Tail(q)[j] => i = j
    BY <1>2, TakingDistinct
  <1> QED BY <1>1, <1>3, <1>4 DEF PoolInv, OnePlace

(* ... and what stays true of the rule about waiting.                      *)
LEMMA StillWaiting ==
    ASSUME PoolInv, drain = "run", queue # <<>>, idleWorkers # <<>> \/ HasRoom,
           queue' = Tail(queue), abandoned' = abandoned \ {Head(queue)} \/ abandoned' = abandoned
    PROVE  /\ queue' # <<>> => queue'[Len(queue')] \notin abandoned'
           /\ \A i \in DOMAIN queue' : i < Len(queue') => queue'[i] \in abandoned'
  <1>1. PICK q : q = queue
    OBVIOUS
  <1>2. q \in Seq(Tasks) /\ q # <<>> /\ \A i, j \in DOMAIN q : q[i] = q[j] => i = j
    BY <1>1 DEF PoolInv, PoolTypes, OnePlace
  <1>3. q[Len(q)] \notin abandoned /\ \A i \in DOMAIN q : i < Len(q) => q[i] \in abandoned
    BY <1>1 DEF PoolInv, NobodyWaits
  <1>4. /\ Len(q) \in Nat \ {0} /\ 1 \in DOMAIN q /\ Head(q) = q[1] /\ DOMAIN q = 1 .. Len(q)
        /\ Len(Tail(q)) = Len(q) - 1 /\ DOMAIN Tail(q) = 1 .. Len(q) - 1
        /\ \A i \in 1 .. Len(q) - 1 : Tail(q)[i] = q[i + 1] /\ i + 1 \in DOMAIN q
    BY <1>2, Taking
  <1>5. Tail(q) # <<>> => Len(Tail(q)) \in 1 .. Len(q) - 1
    BY <1>2, <1>4
  <1>6. Tail(q) # <<>> => Tail(q)[Len(Tail(q))] = q[Len(q)]
    BY <1>4, <1>5
  <1>7. \A i \in DOMAIN Tail(q) : i < Len(Tail(q)) =>
          Tail(q)[i] \in abandoned /\ Tail(q)[i] # Head(q)
    BY <1>2, <1>3, <1>4
  <1> QED BY <1>1, <1>3, <1>6, <1>7

LEMMA AssignTaskKeeps ==
    ASSUME NEW w \in Workers, PoolInv, AssignTask(w)
    PROVE  PoolInv' /\ Kept
  <1> DEFINE t == Head(queue)
  <1>1. drain # "no" /\ queue # <<>> /\ (idleWorkers # <<>> \/ HasRoom)
    BY DEF AssignTask, Chosen
  <1>2. /\ t \in Tasks /\ t \in Range(queue) /\ t \notin Active
        /\ Tail(queue) \in Seq(Tasks) /\ Range(Tail(queue)) = Range(queue) \ {t}
        /\ \A i, j \in DOMAIN Tail(queue) : Tail(queue)[i] = Tail(queue)[j] => i = j
    BY <1>1, TakingHead
  <1>3. UNCHANGED <<drain, settled, abandoned>> /\ queue' = Tail(queue)
        /\ pending' = [pending EXCEPT ![t] = w]
    BY DEF AssignTask
  <1>4. Range(queue') = Range(queue) \ {t}
    BY <1>2, <1>3
  <1> HIDE DEF t
  <1>5. Active' = Active \cup {t}
    BY <1>2, <1>3, PoolAssumption DEF Active, PoolInv, PoolTypes
  <1>6. OnePlace'
    <2>1. Settling' = Settling
      BY <1>3 DEF Settling
    <2>2. Range(queue') \cup Active' = Range(queue) \cup Active
      BY <1>2, <1>4, <1>5
    <2>3. Range(queue') \cap Active' = {}
      BY <1>4, <1>5 DEF PoolInv, OnePlace
    <2>4. \A i, j \in DOMAIN queue' : queue'[i] = queue'[j] => i = j
      BY <1>2, <1>3
    <2> QED BY <1>3, <2>1, <2>2, <2>3, <2>4 DEF PoolInv, OnePlace
  <1>7. Kept
    BY <1>2, <1>3, <1>4, <1>5 DEF Kept, Held, Stale, Settling
  <1>8. NobodyWaits'
    BY <1>1, <1>3, StillWaiting DEF NobodyWaits, NoTaskWaitsForAFreeWorker
  <1>9. PoolTypes'
    <2>1. serviceTask' = [serviceTask EXCEPT ![w] = t]
          /\ threads' = [threads EXCEPT ![w] = IF @.state = "dead" THEN @
                                               ELSE [state |-> "running", task |-> t]]
      BY DEF AssignTask, t
    <2>2. serviceTask' \in [Workers -> Tasks \cup {NoTask}]
      BY <1>2, <2>1 DEF PoolInv, PoolTypes
    <2>3. threads' \in [Workers -> [state : States, task : Tasks \cup {NoTask}]]
      BY <1>2, <2>1 DEF PoolInv, PoolTypes, States
    <2>4. \A v \in Workers : threads'[v].state \in {"running", "result", "error"}
                               => threads'[v].task \in Tasks
      BY <1>2, <2>1 DEF PoolInv, PoolTypes
    <2>5. pending' \in [Tasks -> Workers \cup {NoWorker}]
      BY <1>2, <1>3 DEF PoolInv, PoolTypes
    <2> QED BY <1>2, <1>3, <2>2, <2>3, <2>4, <2>5 DEF PoolInv, PoolTypes
  <1> QED BY <1>6, <1>7, <1>8, <1>9 DEF PoolInv

LEMMA PostFailsKeeps ==
    ASSUME NEW w \in Workers, PoolInv, PostFails(w)
    PROVE  PoolInv' /\ Kept
  <1> DEFINE t == Head(queue)
  <1>1. drain # "no" /\ queue # <<>> /\ (idleWorkers # <<>> \/ HasRoom)
    BY DEF PostFails, Chosen
  <1>2. /\ t \in Tasks /\ t \in Range(queue) /\ t \notin Active
        /\ Tail(queue) \in Seq(Tasks) /\ Range(Tail(queue)) = Range(queue) \ {t}
        /\ \A i, j \in DOMAIN Tail(queue) : Tail(queue)[i] = Tail(queue)[j] => i = j
    BY <1>1, TakingHead
  <1>3. UNCHANGED <<drain, pending, serviceTask>> /\ queue' = Tail(queue)
        /\ threads' = [threads EXCEPT ![w] = Absent] /\ Settle(t, FALSE)
    BY DEF PostFails
  <1>4. abandoned' = abandoned \ {t}
    BY <1>3 DEF Settle
  <1>5. NobodyWaits'
    BY <1>1, <1>3, <1>4, StillWaiting DEF NobodyWaits, NoTaskWaitsForAFreeWorker
  <1>6. Range(queue') = Range(queue) \ {t}
    BY <1>2, <1>3
  <1> HIDE DEF t
  <1>7. Active' = Active
    BY <1>3 DEF Active
  <1>8. Range(queue') \cup Active' = (Range(queue) \cup Active) \ {t}
    BY <1>2, <1>6, <1>7
  <1>9. Range(queue') \cap Active' = {}
    BY <1>6, <1>7 DEF PoolInv, OnePlace
  <1>10. \A i, j \in DOMAIN queue' : queue'[i] = queue'[j] => i = j
    BY <1>2, <1>3
  <1>11. /\ settled' \in Seq([task : Tasks, ok : BOOLEAN])
         /\ abandoned' \subseteq Tasks
         /\ OnePlace'
         /\ Kept
    BY <1>2, <1>3, <1>8, <1>9, <1>10, SettlesOnce DEF PoolInv
  <1>12. PoolTypes'
    <2>1. threads' \in [Workers -> [state : States, task : Tasks \cup {NoTask}]]
      BY <1>3 DEF PoolInv, PoolTypes, States, Absent
    <2>2. \A v \in Workers : threads'[v].state \in {"running", "result", "error"}
                               => threads'[v].task \in Tasks
      BY <1>3 DEF PoolInv, PoolTypes, Absent
    <2> QED BY <1>2, <1>3, <1>11, <2>1, <2>2 DEF PoolInv, PoolTypes
  <1> QED BY <1>5, <1>11, <1>12 DEF PoolInv

LEMMA SpawnFailsKeeps == PoolInv /\ SpawnFails => PoolInv' /\ Kept
  <1> SUFFICES ASSUME PoolInv, SpawnFails PROVE PoolInv' /\ Kept
    OBVIOUS
  <1> DEFINE e == [task |-> Last(queue), ok |-> FALSE]
             R == [task : Tasks, ok : BOOLEAN]
  <1>1. /\ drain = "run" /\ queue # <<>> /\ idleWorkers = <<>> /\ HasRoom
        /\ settled' = Append(settled, e) /\ abandoned' = abandoned \cup {Last(queue)}
        /\ drain' = "no"
        /\ UNCHANGED <<queue, workers, idleWorkers, pending, serviceTask, threads>>
    BY DEF SpawnFails
  <1>2. Last(queue) = queue[Len(queue)] /\ Len(queue) \in DOMAIN queue /\ Last(queue) \in Tasks
    BY <1>1 DEF PoolInv, PoolTypes, Last
  <1>3. e \in R /\ e.task = Last(queue)
    BY <1>2
  <1>4. Last(queue) \in Range(queue)
    BY <1>2 DEF Range
  <1>5. Last(queue) \notin abandoned
    BY <1>1, <1>2 DEF PoolInv, NobodyWaits
  <1> HIDE DEF e, R
  <1>6. e.task \notin TasksIn(settled)
    BY <1>3, <1>4, <1>5, SettlingIsTasksIn DEF PoolInv, OnePlace
  <1>7. settled \in Seq(R)
        /\ \A i, j \in DOMAIN settled : settled[i].task = settled[j].task => i = j
    BY DEF PoolInv, PoolTypes, OnePlace, R
  <1>8. /\ TasksIn(settled') = TasksIn(settled) \cup {Last(queue)}
        /\ settled' \in Seq(R)
        /\ \A i, j \in DOMAIN settled' : settled'[i].task = settled'[j].task => i = j
    <2>1. PICK s : s = settled
      OBVIOUS
    <2>2. /\ TasksIn(Append(s, e)) = TasksIn(s) \cup {e.task}
          /\ Append(s, e) \in Seq(R)
          /\ \A i, j \in DOMAIN Append(s, e) :
               Append(s, e)[i].task = Append(s, e)[j].task => i = j
      BY <1>3, <1>6, <1>7, <2>1, AddingTasks
    <2> QED BY <1>1, <1>3, <2>1, <2>2, Zenon
  <1>9. Active' = Active /\ Range(queue') = Range(queue)
    BY <1>1 DEF Active, Range
  <1>10. Settling' = Settling \cup {Last(queue)}
    BY <1>8, SettlingIsTasksIn
  <1>11. OnePlace'
    BY <1>1, <1>4, <1>8, <1>9, <1>10 DEF PoolInv, OnePlace
  <1>12. Kept
    BY <1>1, <1>4, <1>5, <1>9, <1>10 DEF Kept, Held, Stale
  <1>13. \A i \in DOMAIN queue : queue[i] \in abandoned \cup {Last(queue)}
    <2>1. \A i \in DOMAIN queue : i < Len(queue) => queue[i] \in abandoned
      BY <1>1 DEF PoolInv, NobodyWaits
    <2>2. \A i \in DOMAIN queue : i < Len(queue) \/ i = Len(queue)
      BY DEF PoolInv, PoolTypes
    <2> QED BY <1>2, <2>1, <2>2
  <1>14. NobodyWaits'
    BY <1>1, <1>13 DEF NobodyWaits, NoTaskWaitsForAFreeWorker, Range
  <1>15. PoolTypes'
    BY <1>1, <1>2, <1>8 DEF PoolInv, PoolTypes, R
  <1> QED BY <1>11, <1>12, <1>14, <1>15 DEF PoolInv

LEMMA DrainStepKeeps == PoolInv /\ DrainStep => PoolInv' /\ Kept
  BY DrainEndsKeeps, AssignTaskKeeps, PostFailsKeeps, SpawnFailsKeeps DEF DrainStep

(* A worker's task is settled while the worker stays or goes.              *)
LEMMA WorkerTaskSettles ==
    ASSUME PoolInv, NEW t \in Tasks, pending[t] # NoWorker, NEW ok \in BOOLEAN,
           pending' = [pending EXCEPT ![t] = NoWorker], Settle(t, ok),
           UNCHANGED queue, drain' = "event",
           serviceTask' \in [Workers -> Tasks \cup {NoTask}],
           threads' \in [Workers -> [state : States, task : Tasks \cup {NoTask}]],
           \A w \in Workers : threads'[w].state \in {"running", "result", "error"}
                                => threads'[w].task \in Tasks
    PROVE  PoolInv' /\ Kept
  <1>1. Active' = Active \ {t} /\ t \in Active
    BY DEF Active, PoolInv, PoolTypes
  <1>2. Range(queue') = Range(queue) /\ t \notin Range(queue)
    BY <1>1 DEF PoolInv, OnePlace, Range
  <1>3. /\ Range(queue') \cup Active' = (Range(queue) \cup Active) \ {t}
        /\ Range(queue') \cap Active' = {}
        /\ \A i, j \in DOMAIN queue' : queue'[i] = queue'[j] => i = j
    BY <1>1, <1>2 DEF PoolInv, OnePlace
  <1>4. /\ settled' \in Seq([task : Tasks, ok : BOOLEAN])
        /\ abandoned' \subseteq Tasks
        /\ OnePlace'
        /\ Kept
    <2>1. PoolTypes /\ OnePlace /\ t \in Range(queue) \cup Active /\ Settle(t, ok)
      BY <1>1 DEF PoolInv
    <2>2. CASE ok = TRUE
      <3>1. Settle(t, TRUE)
        BY <2>1, <2>2
      <3> QED BY <1>3, <2>1, <3>1, SettlesOnce
    <2>3. CASE ok = FALSE
      <3>1. Settle(t, FALSE)
        BY <2>1, <2>3
      <3> QED BY <1>3, <2>1, <3>1, SettlesOnce
    <2> QED BY <2>2, <2>3
  <1>5. NobodyWaits'
    BY DEF NobodyWaits, NoTaskWaitsForAFreeWorker
  <1>6. PoolTypes'
    BY <1>4 DEF PoolInv, PoolTypes
  <1> QED BY <1>4, <1>5, <1>6 DEF PoolInv

LEMMA HandleMessageKeeps ==
    ASSUME NEW w \in Workers, PoolInv, HandleMessage(w)
    PROVE  PoolInv' /\ Kept
  <1> DEFINE t == threads[w].task
             ok == threads[w].state = "result"
  <1>1. /\ t \in Tasks /\ pending[t] = w /\ pending[t] # NoWorker
        /\ pending' = [pending EXCEPT ![t] = NoWorker] /\ Settle(t, ok)
        /\ UNCHANGED queue /\ drain' = "event"
        /\ ok \in BOOLEAN
    BY PoolAssumption DEF HandleMessage, PoolInv, PoolTypes
  <1>2. serviceTask' \in [Workers -> Tasks \cup {NoTask}]
    BY DEF HandleMessage, PoolInv, PoolTypes
  <1>3. threads' \in [Workers -> [state : States, task : Tasks \cup {NoTask}]]
    BY DEF HandleMessage, PoolInv, PoolTypes, States
  <1>4. \A v \in Workers : threads'[v].state \in {"running", "result", "error"}
                             => threads'[v].task \in Tasks
    BY DEF HandleMessage, PoolInv, PoolTypes
  <1> HIDE DEF t, ok
  <1> QED BY <1>1, <1>2, <1>3, <1>4, WorkerTaskSettles

LEMMA WorkerFailureKeeps ==
    ASSUME NEW w \in Workers, PoolInv, HandleWorkerFailure(w)
    PROVE  PoolInv' /\ Kept
  <1>1. PICK left \in Leftovers(w) : threads' = [threads EXCEPT ![w] = left]
    BY DEF HandleWorkerFailure
  <1>2. left \in [state : States, task : Tasks \cup {NoTask}]
        /\ (left.state \in {"running", "result", "error"} => left.task \in Tasks)
    BY DEF Leftovers, Absent, PoolInv, PoolTypes, States
  <1>3. threads' \in [Workers -> [state : States, task : Tasks \cup {NoTask}]]
    BY <1>1, <1>2 DEF PoolInv, PoolTypes
  <1>4. \A v \in Workers : threads'[v].state \in {"running", "result", "error"}
                             => threads'[v].task \in Tasks
    BY <1>1, <1>2 DEF PoolInv, PoolTypes
  <1>5. serviceTask' \in [Workers -> Tasks \cup {NoTask}] /\ serviceTask[w] \in Tasks \cup {NoTask}
    BY DEF HandleWorkerFailure, PoolInv, PoolTypes
  <1>6. UNCHANGED queue /\ drain' = "event"
    BY DEF HandleWorkerFailure
  <1>7. CASE serviceTask[w] # NoTask /\ pending[serviceTask[w]] # NoWorker
    <2>1. PICK t \in Tasks : t = serviceTask[w]
      BY <1>5, <1>7
    <2>2. pending[t] # NoWorker /\ pending' = [pending EXCEPT ![t] = NoWorker] /\ Settle(t, FALSE)
      BY <1>7, <2>1 DEF HandleWorkerFailure
    <2> QED BY <1>3, <1>4, <1>5, <1>6, <2>2, WorkerTaskSettles
  <1>8. CASE ~(serviceTask[w] # NoTask /\ pending[serviceTask[w]] # NoWorker)
    <2>1. UNCHANGED <<pending, settled, abandoned>>
      BY <1>8 DEF HandleWorkerFailure
    <2>2. NobodyWaits'
      BY <1>6 DEF NobodyWaits, NoTaskWaitsForAFreeWorker
    <2> QED BY <1>3, <1>4, <1>5, <1>6, <2>1, <2>2, PoolRecordsOnly
  <1> QED BY <1>7, <1>8

LEMMA PoolEventKeeps == PoolInv /\ PoolEvent => PoolInv' /\ Kept
  <1> SUFFICES ASSUME PoolInv, PoolEvent PROVE PoolInv' /\ Kept
    OBVIOUS
  <1>1. CASE \E w \in Workers : HandleMessage(w)
    BY <1>1, HandleMessageKeeps
  <1>2. CASE \E w \in Workers : LateMessageIgnored(w)
    BY <1>2, LateMessageKeeps
  <1>3. CASE \E w \in Workers : WorkerFails(w)
    BY <1>3, WorkerFailureKeeps DEF WorkerFails
  <1>4. CASE \E t \in Tasks : TaskTimesOut(t)
    <2>1. PICK t \in Tasks : TaskTimesOut(t)
      BY <1>4
    <2>2. PICK w \in Workers : w = pending[t]
      BY <2>1 DEF TaskTimesOut, PoolInv, PoolTypes
    <2>3. HandleWorkerFailure(w)
      BY <2>1, <2>2 DEF TaskTimesOut
    <2> QED BY <2>3, WorkerFailureKeeps
  <1> QED BY <1>1, <1>2, <1>3, <1>4 DEF PoolEvent

--------------------------------------------------------------------------------
(* A codec task comes to the pool and its promise ends. *)

LEMMA RejectedKeeps ==
    ASSUME PoolInv, NEW t \in Tasks, t \notin Held,
           settled' = Append(settled, [task |-> t, ok |-> FALSE]),
           UNCHANGED <<queue, workers, idleWorkers, pending, serviceTask, threads,
                       drain, abandoned>>
    PROVE  PoolInv' /\ Added(t)
  <1> DEFINE e == [task |-> t, ok |-> FALSE]
             R == [task : Tasks, ok : BOOLEAN]
  <1>1. e \in R /\ e.task = t /\ settled' = Append(settled, e)
    OBVIOUS
  <1>2. /\ settled \in Seq(R)
        /\ \A i, j \in DOMAIN settled : settled[i].task = settled[j].task => i = j
        /\ t \notin TasksIn(settled)
    BY SettlingIsTasksIn DEF PoolInv, PoolTypes, OnePlace, Held
  <1> HIDE DEF e
  <1>3. /\ TasksIn(settled') = TasksIn(settled) \cup {t}
        /\ settled' \in Seq(R)
        /\ \A i, j \in DOMAIN settled' : settled'[i].task = settled'[j].task => i = j
    <2> HIDE DEF R
    <2>1. PICK s : s = settled
      OBVIOUS
    <2>2. /\ TasksIn(Append(s, e)) = TasksIn(s) \cup {e.task}
          /\ Append(s, e) \in Seq(R)
          /\ \A i, j \in DOMAIN Append(s, e) :
               Append(s, e)[i].task = Append(s, e)[j].task => i = j
      BY <1>1, <1>2, <2>1, AddingTasks
    <2> QED BY <1>1, <2>1, <2>2, Zenon
  <1>4. Settling' = Settling \cup {t}
    BY <1>3, SettlingIsTasksIn
  <1>5. Active' = Active
    BY DEF Active
  <1>6. OnePlace'
    <2>1. t \notin Range(queue) \cup Active
      BY DEF Held
    <2> QED BY <1>3, <1>4, <1>5, <2>1 DEF PoolInv, OnePlace
  <1>7. Added(t)
    BY <1>4, <1>5 DEF Added, Held, Stale
  <1>8. NobodyWaits'
    BY DEF PoolInv, NobodyWaits, NoTaskWaitsForAFreeWorker, HasRoom
  <1>9. PoolTypes'
    BY <1>3 DEF PoolInv, PoolTypes
  <1> QED BY <1>6, <1>7, <1>8, <1>9 DEF PoolInv

LEMMA RunKeeps ==
    ASSUME PoolInv, drain = "no", NEW t \in Tasks, t \notin Held, Run(t)
    PROVE  PoolInv' /\ Added(t)
  <1>1. queue' = Append(queue, t) /\ drain' = "run"
        /\ UNCHANGED <<workers, idleWorkers, pending, serviceTask, threads, settled, abandoned>>
    BY DEF Run
  <1>2. queue \in Seq(Tasks) /\ t \notin Range(queue)
        /\ \A i, j \in DOMAIN queue : queue[i] = queue[j] => i = j
    BY DEF PoolInv, PoolTypes, OnePlace, Held
  <1>3. /\ queue' \in Seq(Tasks)
        /\ Range(queue') = Range(queue) \cup {t}
        /\ \A i, j \in DOMAIN queue' : queue'[i] = queue'[j] => i = j
        /\ queue' # <<>> /\ queue'[Len(queue')] = t
        /\ \A i \in DOMAIN queue' : i < Len(queue') => i \in DOMAIN queue /\ queue'[i] = queue[i]
    <2>1. PICK q : q = queue
      OBVIOUS
    <2>2. /\ Range(Append(q, t)) = Range(q) \cup {t}
          /\ \A i, j \in DOMAIN Append(q, t) : Append(q, t)[i] = Append(q, t)[j] => i = j
      BY <1>2, <2>1, AddingDistinct
    <2>3. /\ Append(q, t) \in Seq(Tasks) /\ Append(q, t) # <<>>
          /\ Append(q, t)[Len(Append(q, t))] = t
          /\ \A i \in DOMAIN Append(q, t) : i < Len(Append(q, t))
               => i \in DOMAIN q /\ Append(q, t)[i] = q[i]
      BY <1>2, <2>1, Adding
    <2> QED BY <1>1, <2>1, <2>2, <2>3, Zenon
  <1>4. Active' = Active /\ Settling' = Settling
    BY <1>1 DEF Active, Settling
  <1>5. OnePlace'
    <2>1. t \notin Settling /\ t \notin Active
      BY DEF Held
    <2> QED BY <1>1, <1>3, <1>4, <2>1 DEF PoolInv, OnePlace
  <1>6. Added(t)
    BY <1>1, <1>3, <1>4 DEF Added, Held, Stale
  <1>7. NobodyWaits'
    <2>1. t \notin abandoned
      BY DEF PoolInv, OnePlace, Held
    <2>2. CASE idleWorkers = <<>> /\ ~HasRoom
      BY <1>1, <1>3, <2>1, <2>2 DEF NobodyWaits, NoTaskWaitsForAFreeWorker, HasRoom
    <2>3. CASE Range(queue) \subseteq abandoned
      <3>1. \A i \in DOMAIN queue : queue[i] \in abandoned
        BY <2>3 DEF Range
      <3> QED BY <1>1, <1>3, <2>1, <3>1 DEF NobodyWaits, NoTaskWaitsForAFreeWorker
    <2> QED BY <2>2, <2>3 DEF PoolInv, NobodyWaits, NoTaskWaitsForAFreeWorker
  <1>8. PoolTypes'
    BY <1>1, <1>3 DEF PoolInv, PoolTypes
  <1> QED BY <1>5, <1>6, <1>7, <1>8 DEF PoolInv

LEMMA RunCodecTaskKeeps ==
    ASSUME PoolInv, drain = "no", NEW t \in Tasks, t \notin Held, RunCodecTask(t)
    PROVE  PoolInv' /\ Added(t)
  <1>1. CASE Run(t)
    BY <1>1, RunKeeps
  <1>2. CASE ~Run(t)
    <2>1. /\ settled' = Append(settled, [task |-> t, ok |-> FALSE])
          /\ UNCHANGED <<queue, workers, idleWorkers, pending, serviceTask, threads,
                         drain, abandoned>>
      BY <1>2 DEF RunCodecTask, RunRejected
    <2> QED BY <2>1, RejectedKeeps
  <1> QED BY <1>1, <1>2

(* A task that is still in the pool after its promise ended is stale.      *)
LEMMA FinishKeeps ==
    ASSUME PoolInv, settled # <<>>, NEW t, t = Head(settled).task, FinishCodecTask(t)
    PROVE  /\ PoolInv' /\ Kept
           /\ t \in Tasks /\ t \in Settling
           /\ t \in Held' => t \in Stale'
  <1> DEFINE R == [task : Tasks, ok : BOOLEAN]
  <1>1. /\ settled' = Tail(settled)
        /\ UNCHANGED <<queue, workers, idleWorkers, pending, serviceTask, threads,
                       drain, abandoned>>
    BY DEF FinishCodecTask
  <1>2. /\ settled \in Seq(R)
        /\ \A i, j \in DOMAIN settled : settled[i].task = settled[j].task => i = j
    BY DEF PoolInv, PoolTypes, OnePlace
  <1>3. /\ TasksIn(settled) = {t} \cup TasksIn(settled')
        /\ Head(settled) \in R /\ settled' \in Seq(R)
        /\ t \notin TasksIn(settled')
        /\ \A i, j \in DOMAIN settled' : settled'[i].task = settled'[j].task => i = j
    <2> HIDE DEF R
    <2>1. PICK s : s = settled
      OBVIOUS
    <2>2. /\ TasksIn(s) = {Head(s).task} \cup TasksIn(Tail(s))
          /\ Head(s) \in R /\ Tail(s) \in Seq(R)
          /\ Head(s).task \notin TasksIn(Tail(s))
          /\ \A i, j \in DOMAIN Tail(s) : Tail(s)[i].task = Tail(s)[j].task => i = j
      BY <1>2, <2>1, TakingTasks
    <2> QED BY <1>1, <2>1, <2>2, Zenon
  <1>4. Settling = {t} \cup Settling' /\ t \notin Settling'
    BY <1>3, SettlingIsTasksIn
  <1>5. Active' = Active
    BY <1>1 DEF Active
  <1>6. OnePlace'
    BY <1>1, <1>3, <1>4, <1>5 DEF PoolInv, OnePlace
  <1>7. Kept
    BY <1>1, <1>4, <1>5 DEF Kept, Held, Stale
  <1>8. t \in Held' => t \in Stale'
    BY <1>1, <1>4, <1>5 DEF PoolInv, OnePlace, Held, Stale
  <1>9. NobodyWaits'
    BY <1>1 DEF PoolInv, NobodyWaits, NoTaskWaitsForAFreeWorker, HasRoom
  <1>10. PoolTypes'
    BY <1>1, <1>3 DEF PoolInv, PoolTypes
  <1> QED BY <1>3, <1>4, <1>6, <1>7, <1>8, <1>9, <1>10 DEF PoolInv

--------------------------------------------------------------------------------
(* The connections. *)

LEMMA SameTasksOfPackets ==
    ASSUME SessionInv, Kept, decoding \subseteq decoding',
           \A c \in Conns : Done(c)' = Done(c) /\ sent'[c] >= sent[c] /\ sent'[c] \in Nat
    PROVE  TasksOfPackets'
  <1> SUFFICES ASSUME NEW t \in Held'
               PROVE  /\ t \in [conn : Conns, way : Ways, n : Nat]
                      /\ t.way = "in" =>
                           \/ t.n <= Done(t.conn)' /\ t \in Stale'
                           \/ t.n = Done(t.conn)' + 1 /\ t.conn \in decoding'
                      /\ t.way = "out" => t.n <= sent'[t.conn]
    BY DEF TasksOfPackets
  <1>1. t \in Held /\ (t \in Stale => t \in Stale')
    BY DEF Kept
  <1>2. /\ t \in [conn : Conns, way : Ways, n : Nat]
        /\ t.way = "in" => \/ t.n <= Done(t.conn) /\ t \in Stale
                           \/ t.n = Done(t.conn) + 1 /\ t.conn \in decoding
        /\ t.way = "out" => t.n <= sent[t.conn]
    BY <1>1 DEF SessionInv, TasksOfPackets
  <1>3. PICK c \in Conns : c = t.conn
    BY <1>2
  <1>4. Done(c)' = Done(c) /\ sent'[c] >= sent[c] /\ sent'[c] \in Nat /\ sent[c] \in Nat
    BY DEF SessionInv, SessionTypes
  <1> QED BY <1>1, <1>2, <1>3, <1>4

LEMMA PoolStepKeepsSessions ==
    ASSUME SessionInv, Kept, UNCHANGED Sessions
    PROVE  SessionInv'
  <1>1. UNCHANGED <<open, received, inbound, decoding, pendingDispatches, dispatched,
                    sent, outbound, written>>
    BY DEF Sessions, inVars, outVars
  <1>2. \A c \in Conns : Done(c)' = Done(c)
    BY <1>1 DEF Done
  <1>3. TasksOfPackets'
    <2>1. \A c \in Conns : sent'[c] >= sent[c] /\ sent'[c] \in Nat
      <3>1. sent' = sent /\ sent \in [Conns -> Nat] /\ decoding' = decoding
        BY <1>1 DEF SessionInv, SessionTypes
      <3> QED BY <3>1
    <2>2. decoding \subseteq decoding'
      BY <1>1
    <2> QED BY <1>2, <2>1, <2>2, SameTasksOfPackets
  <1>4. \A c \in Conns : DecodeChain(c)' /\ WriteChain(c)' /\ DispatchOrder(c)'
    BY <1>1, <1>2 DEF SessionInv, DecodeChain, WriteChain, DispatchOrder
  <1> QED BY <1>1, <1>3, <1>4 DEF SessionInv, SessionTypes

LEMMA ClosingKeepsSessions ==
    ASSUME SessionInv, UNCHANGED <<poolVars, inVars, outVars>>, open' \subseteq open
    PROVE  SessionInv'
  <1>1. UNCHANGED <<received, inbound, decoding, pendingDispatches, dispatched,
                    sent, outbound, written>>
    BY DEF inVars, outVars
  <1>2. \A c \in Conns : Done(c)' = Done(c)
    BY <1>1 DEF Done
  <1>3. Kept
    BY DEF poolVars, Kept, Held, Stale, Active, Settling
  <1>4. TasksOfPackets'
    <2>1. \A c \in Conns : sent'[c] >= sent[c] /\ sent'[c] \in Nat
      <3>1. sent' = sent /\ sent \in [Conns -> Nat] /\ decoding' = decoding
        BY <1>1 DEF SessionInv, SessionTypes
      <3> QED BY <3>1
    <2>2. decoding \subseteq decoding'
      BY <1>1
    <2> QED BY <1>2, <1>3, <2>1, <2>2, SameTasksOfPackets
  <1>5. \A c \in Conns : DecodeChain(c)' /\ WriteChain(c)' /\ DispatchOrder(c)'
    BY <1>1, <1>2 DEF SessionInv, DecodeChain, WriteChain, DispatchOrder
  <1> QED BY <1>1, <1>4, <1>5 DEF SessionInv, SessionTypes

LEMMA Extending ==
    ASSUME NEW s \in Seq(Nat), NEW n \in Nat, NEW k \in Nat,
           NEW t, t = s \o [i \in 1 .. k |-> n + i]
    PROVE  /\ t \in Seq(Nat) /\ Len(t) = Len(s) + k
           /\ \A i \in DOMAIN t :
                \/ i \in DOMAIN s /\ t[i] = s[i]
                \/ i \notin DOMAIN s /\ i - Len(s) \in 1 .. k /\ t[i] = n + (i - Len(s))
  <1> DEFINE u == [i \in 1 .. k |-> n + i]
  <1>1. u \in Seq(Nat) /\ Len(u) = k /\ \A i \in 1 .. k : u[i] = n + i
    OBVIOUS
  <1> HIDE DEF u
  <1>2. /\ s \o u \in Seq(Nat) /\ Len(s \o u) = Len(s) + Len(u)
        /\ \A i \in 1 .. Len(s) + Len(u) :
             (s \o u)[i] = IF i <= Len(s) THEN s[i] ELSE u[i - Len(s)]
    BY <1>1, ConcatProperties
  <1>3. DOMAIN s = 1 .. Len(s) /\ Len(s) \in Nat /\ DOMAIN (s \o u) = 1 .. Len(s \o u)
    BY <1>2
  <1>4. t = s \o u
    BY DEF u
  <1> HIDE DEF u
  <1> QED BY <1>1, <1>2, <1>3, <1>4

LEMMA NoMoreThanThereIs ==
    ASSUME NEW k \in Nat, NEW n \in Nat, NEW l \in Nat, n <= l,
           NEW m, m = IF k <= l - n THEN k ELSE l - n
    PROVE  m \in Nat /\ n + m <= l
  OBVIOUS

LEMMA DataArrivesKeeps ==
    ASSUME SessionInv, NEW c \in Conns, NEW k \in 1 .. MaxChunk, DataArrives(c, k)
    PROVE  SessionInv' /\ received'[c] \in Nat /\ received'[c] >= received[c]
  <1> DEFINE taken == IF k <= InboundLimit - Len(inbound[c]) THEN k
                      ELSE InboundLimit - Len(inbound[c])
             more == [i \in 1 .. taken |-> received[c] + i]
  <1>1. /\ received' = [received EXCEPT ![c] = received[c] + taken]
        /\ inbound' = [inbound EXCEPT ![c] = inbound[c] \o more]
        /\ open' \subseteq open
        /\ UNCHANGED <<poolVars, decoding, pendingDispatches, dispatched, outVars>>
    BY DEF DataArrives
  <1>2. /\ inbound[c] \in Seq(Nat) /\ received[c] \in Nat /\ Len(inbound[c]) \in Nat
        /\ Len(inbound[c]) <= received[c] /\ Len(inbound[c]) <= InboundLimit
        /\ InboundLimit \in Nat
    BY PipelineAssumption DEF SessionInv, SessionTypes, DecodeChain
  <1>3. taken \in Nat /\ Len(inbound[c]) + taken <= InboundLimit
    <2>1. k \in Nat
      BY PipelineAssumption
    <2>2. taken = IF k <= InboundLimit - Len(inbound[c]) THEN k
                  ELSE InboundLimit - Len(inbound[c])
      OBVIOUS
    <2> HIDE DEF taken, more
    <2> QED BY <1>2, <2>1, <2>2, NoMoreThanThereIs
  <1> HIDE DEF taken
  <1>4. /\ inbound'[c] \in Seq(Nat) /\ Len(inbound'[c]) = Len(inbound[c]) + taken
        /\ \A i \in DOMAIN inbound'[c] :
             \/ i \in DOMAIN inbound[c] /\ inbound'[c][i] = inbound[c][i]
             \/ /\ i \notin DOMAIN inbound[c] /\ i - Len(inbound[c]) \in 1 .. taken
                /\ inbound'[c][i] = received[c] + (i - Len(inbound[c]))
    <2>1. PICK s, n : s = inbound[c] /\ n = received[c]
      OBVIOUS
    <2>2. PICK t : t = s \o [i \in 1 .. taken |-> n + i]
      OBVIOUS
    <2>3. /\ t \in Seq(Nat) /\ Len(t) = Len(s) + taken
          /\ \A i \in DOMAIN t :
               \/ i \in DOMAIN s /\ t[i] = s[i]
               \/ i \notin DOMAIN s /\ i - Len(s) \in 1 .. taken /\ t[i] = n + (i - Len(s))
      <3>1. s \in Seq(Nat) /\ n \in Nat
        BY <1>2, <2>1
      <3> QED BY <1>3, <2>2, <3>1, Extending
    <2>4. inbound'[c] = t
      BY <1>1, <2>1, <2>2 DEF SessionInv, SessionTypes
    <2> QED BY <2>1, <2>3, <2>4
  <1>5. received'[c] = received[c] + taken
    BY <1>1 DEF SessionInv, SessionTypes
  <1>6. \A d \in Conns \ {c} : received'[d] = received[d] /\ inbound'[d] = inbound[d]
    BY <1>1 DEF SessionInv, SessionTypes
  <1>7. \A d \in Conns : Done(d)' = Done(d)
    <2>1. received'[c] - Len(inbound'[c]) = received[c] - Len(inbound[c])
      BY <1>2, <1>3, <1>4, <1>5
    <2> QED BY <1>6, <2>1 DEF Done
  <1>8. UNCHANGED <<sent, outbound, written>>
    BY <1>1 DEF outVars
  <1>9. SessionTypes'
    <2>1. received' \in [Conns -> Nat]
      BY <1>1, <1>2, <1>3 DEF SessionInv, SessionTypes
    <2>2. inbound' \in [Conns -> Seq(Nat)]
      BY <1>1, <1>4 DEF SessionInv, SessionTypes
    <2> QED BY <1>1, <1>8, <2>1, <2>2 DEF SessionInv, SessionTypes
  <1>10. TasksOfPackets'
    <2>1. Kept
      BY <1>1 DEF poolVars, Kept, Held, Stale, Active, Settling
    <2> QED BY <1>1, <1>7, <1>8, <2>1, SameTasksOfPackets DEF SessionInv, SessionTypes
  <1>11. \A d \in Conns : DecodeChain(d)'
    <2>1. DecodeChain(c)'
      <3>4. received'[c] <= MaxPackets[c]["in"]
        BY <1>5 DEF DataArrives, taken
      <3>1. /\ Len(inbound'[c]) <= received'[c] /\ Len(inbound'[c]) <= InboundLimit
            /\ inbound[c] # <<>> => inbound'[c] # <<>>
        BY <1>2, <1>3, <1>4, <1>5
      <3>2. \A i \in DOMAIN inbound[c] : inbound[c][i] = Done(c) + i
        BY DEF SessionInv, DecodeChain
      <3>3. \A i \in DOMAIN inbound'[c] : inbound'[c][i] = Done(c) + i
        <4>1. Done(c) = received[c] - Len(inbound[c])
          BY DEF Done
        <4> SUFFICES ASSUME NEW i \in DOMAIN inbound'[c] PROVE inbound'[c][i] = Done(c) + i
          OBVIOUS
        <4>2. CASE i \in DOMAIN inbound[c]
          BY <1>4, <3>2, <4>2
        <4>3. CASE i \notin DOMAIN inbound[c]
          <5>1. i \in Int /\ inbound'[c][i] = received[c] + (i - Len(inbound[c]))
            BY <1>4, <4>3
          <5> QED BY <1>2, <4>1, <5>1
        <4> QED BY <4>2, <4>3
      <3> QED BY <1>1, <1>7, <3>1, <3>3, <3>4 DEF SessionInv, DecodeChain
    <2>2. \A d \in Conns \ {c} : DecodeChain(d)'
      BY <1>1, <1>6, <1>7 DEF SessionInv, DecodeChain
    <2> QED BY <2>1, <2>2
  <1>12. \A d \in Conns : WriteChain(d)' /\ DispatchOrder(d)'
    BY <1>1, <1>7, <1>8 DEF SessionInv, WriteChain, DispatchOrder
  <1> QED BY <1>2, <1>3, <1>5, <1>9, <1>10, <1>11, <1>12 DEF SessionInv

LEMMA TaskOfPacket ==
    ASSUME NEW c, NEW w, NEW n, NEW t \in [conn : Conns, way : Ways, n : Nat],
           t.conn = c, t.way = w, t.n = n
    PROVE  t = Packet(c, w, n)
  BY DEF Packet

(* The task of the next decode is new to the pool: nothing but its own     *)
(* decode, which has not begun, could have left it there.                  *)
LEMMA DecodeIsNew ==
    ASSUME SessionInv, NEW c \in Conns, DecodeDue(c)
    PROVE  /\ Head(inbound[c]) = Done(c) + 1
           /\ Done(c) \in Nat
           /\ Packet(c, "in", Done(c) + 1) \notin Held
           /\ Packet(c, "in", Done(c) + 1) \in Tasks
  <1>1. inbound[c] \in Seq(Nat) /\ inbound[c] # <<>> /\ received[c] \in Nat
        /\ Len(inbound[c]) <= received[c]
    BY DEF SessionInv, SessionTypes, DecodeChain, DecodeDue
  <1>2. Done(c) \in Nat
    BY <1>1 DEF Done
  <1>3. Head(inbound[c]) = inbound[c][1] /\ 1 \in DOMAIN inbound[c]
    BY <1>1
  <1>4. inbound[c][1] = Done(c) + 1
    BY <1>3 DEF SessionInv, DecodeChain
  <1>5. Packet(c, "in", Done(c) + 1) \notin Held
    <2> SUFFICES ASSUME NEW t \in Held, t = Packet(c, "in", Done(c) + 1) PROVE FALSE
      OBVIOUS
    <2>1. t.way = "in" /\ t.conn = c /\ t.n = Done(c) + 1
      BY DEF Packet
    <2>2. c \in decoding
      BY <1>2, <2>1 DEF SessionInv, TasksOfPackets
    <2> QED BY <2>2 DEF DecodeDue
  <1>6. Packet(c, "in", Done(c) + 1) \in Tasks
    <2>1. Done(c) + 1 <= received[c]
      BY <1>1 DEF Done
    <2>2. received[c] <= MaxPackets[c]["in"] /\ MaxPackets[c]["in"] \in Nat
      BY PipelineAssumption DEF SessionInv, DecodeChain, Ways
    <2>3. Done(c) + 1 \in 1 .. MaxPackets[c]["in"]
      BY <1>1, <1>2, <2>1, <2>2
    <2> QED BY <2>3, PipelineAssumption DEF Ways
  <1> QED BY <1>2, <1>3, <1>4, <1>5, <1>6

LEMMA StartDecodeKeeps ==
    ASSUME IInv, NEW c \in Conns, StartDecode(c)
    PROVE  IInv'
  <1>1. PICK t : t = Packet(c, "in", Done(c) + 1)
    OBVIOUS
  <1>2. PICK n \in Nat : n = Done(c)
    BY DecodeIsNew DEF IInv, StartDecode
  <1>3. drain = "no" /\ DecodeDue(c) /\ RunCodecTask(t) /\ t \notin Held /\ t \in Tasks
    BY <1>1, DecodeIsNew DEF IInv, StartDecode
  <1>4. PoolInv' /\ Added(t)
    BY <1>3, RunCodecTaskKeeps DEF IInv
  <1>5. /\ decoding' = decoding \cup {c}
        /\ UNCHANGED <<open, received, inbound, pendingDispatches, dispatched,
                       sent, outbound, written>>
    BY DEF StartDecode, outVars
  <1>6. \A d \in Conns : Done(d)' = Done(d)
    BY <1>5 DEF Done
  <1>7. t = [conn |-> c, way |-> "in", n |-> n + 1]
    BY <1>1, <1>2 DEF Packet
  <1>8. TasksOfPackets'
    <2> SUFFICES ASSUME NEW u \in Held'
                 PROVE  /\ u \in [conn : Conns, way : Ways, n : Nat]
                        /\ u.way = "in" =>
                             \/ u.n <= Done(u.conn)' /\ u \in Stale'
                             \/ u.n = Done(u.conn)' + 1 /\ u.conn \in decoding'
                        /\ u.way = "out" => u.n <= sent'[u.conn]
      BY DEF TasksOfPackets
    <2>1. CASE u = t
      <3>1. u \in [conn : Conns, way : Ways, n : Nat] /\ u.way = "in" /\ u.conn = c /\ u.n = n + 1
        BY <1>7, <2>1 DEF Ways
      <3>2. Done(c)' = n
        BY <1>2, <1>6
      <3> QED BY <1>5, <3>1, <3>2
    <2>2. CASE u # t
      <3>1. u \in Held /\ (u \in Stale => u \in Stale')
        BY <1>4, <2>2 DEF Added
      <3>2. /\ u \in [conn : Conns, way : Ways, n : Nat]
            /\ u.way = "in" => \/ u.n <= Done(u.conn) /\ u \in Stale
                               \/ u.n = Done(u.conn) + 1 /\ u.conn \in decoding
            /\ u.way = "out" => u.n <= sent[u.conn]
        BY <3>1 DEF IInv, SessionInv, TasksOfPackets
      <3>3. PICK d \in Conns : d = u.conn
        BY <3>2
      <3>4. Done(d)' = Done(d) /\ sent'[d] = sent[d]
        BY <1>5, <1>6
      <3> QED BY <1>5, <3>1, <3>2, <3>3, <3>4
    <2> QED BY <2>1, <2>2
  <1>9. \A d \in Conns : DecodeChain(d)'
    BY <1>3, <1>5, <1>6 DEF IInv, SessionInv, DecodeChain, DecodeDue
  <1>10. \A d \in Conns : WriteChain(d)' /\ DispatchOrder(d)'
    BY <1>5, <1>6 DEF IInv, SessionInv, WriteChain, DispatchOrder
  <1>11. SessionTypes'
    BY <1>5 DEF IInv, SessionInv, SessionTypes
  <1> QED BY <1>4, <1>8, <1>9, <1>10, <1>11 DEF IInv, SessionInv

(* The promise that ends is the one the head of the chain waits for.       *)
LEMMA DecodedIsNext ==
    ASSUME IInv, NEW c \in Conns, InboundDecoded(c), NEW t, t = Head(settled).task
    PROVE  /\ t.way = "in" /\ t.conn = c /\ t.n = Done(c) + 1
           /\ c \in decoding /\ inbound[c] # <<>>
           /\ Done(c) \in Nat
           /\ PoolInv' /\ Kept /\ (t \in Held' => t \in Stale')
  <1>1. settled # <<>> /\ t.way = "in" /\ t.conn = c /\ FinishCodecTask(t)
    BY DEF InboundDecoded
  <1>2. /\ PoolInv' /\ Kept /\ (t \in Held' => t \in Stale')
        /\ t \in Settling
    BY <1>1, FinishKeeps DEF IInv
  <1>3. t \in Held /\ t \notin Stale
    BY <1>2 DEF Held, Stale
  <1>4. t.n = Done(c) + 1 /\ c \in decoding
    BY <1>1, <1>3 DEF IInv, SessionInv, TasksOfPackets
  <1>5. inbound[c] # <<>> /\ Done(c) \in Nat
    <2>1. Len(inbound[c]) \in Nat /\ received[c] \in Nat /\ Len(inbound[c]) <= received[c]
          /\ inbound[c] # <<>>
      BY <1>4 DEF IInv, SessionInv, SessionTypes, DecodeChain
    <2> QED BY <2>1 DEF Done
  <1> QED BY <1>1, <1>2, <1>4, <1>5

LEMMA InboundDecodedKeeps ==
    ASSUME IInv, NEW c \in Conns, InboundDecoded(c)
    PROVE  IInv'
  <1>1. PICK t, n : t = Head(settled).task /\ n = Done(c)
    OBVIOUS
  <1>2. /\ t.way = "in" /\ t.conn = c /\ t.n = n + 1 /\ n \in Nat
        /\ c \in decoding /\ inbound[c] # <<>>
        /\ PoolInv' /\ Kept /\ (t \in Held' => t \in Stale')
    BY <1>1, DecodedIsNext
  <1>3. /\ inbound' = [inbound EXCEPT ![c] = Tail(inbound[c])]
        /\ decoding' = decoding \ {c}
        /\ open' \subseteq open
        /\ \/ pendingDispatches' = Append(pendingDispatches, [conn |-> c, n |-> n + 1])
           \/ UNCHANGED pendingDispatches /\ c \notin open'
        /\ UNCHANGED <<received, dispatched, sent, outbound, written>>
    BY <1>1, <1>2 DEF InboundDecoded, outVars
  <1>4. /\ inbound[c] \in Seq(Nat) /\ received[c] \in Nat /\ Len(inbound[c]) \in Nat
        /\ n = received[c] - Len(inbound[c]) /\ Len(inbound[c]) <= received[c]
        /\ \A i \in DOMAIN inbound[c] : inbound[c][i] = n + i
        /\ Len(inbound[c]) <= InboundLimit /\ InboundLimit \in Nat
        /\ pendingDispatches \in Seq([conn : Conns, n : Nat])
    BY <1>1, PipelineAssumption DEF IInv, SessionInv, SessionTypes, DecodeChain, Done
  <1>5. /\ inbound'[c] = Tail(inbound[c]) /\ inbound'[c] \in Seq(Nat)
        /\ Len(inbound'[c]) = Len(inbound[c]) - 1 /\ Len(inbound'[c]) \in Nat
        /\ \A i \in DOMAIN inbound'[c] : i \in Nat /\ i + 1 \in DOMAIN inbound[c]
                                         /\ inbound'[c][i] = inbound[c][i + 1]
    <2>1. inbound'[c] = Tail(inbound[c])
      BY <1>3 DEF IInv, SessionInv, SessionTypes
    <2>2. PICK s : s = inbound[c]
      OBVIOUS
    <2>3. /\ Tail(s) \in Seq(Nat) /\ Len(Tail(s)) = Len(s) - 1 /\ Len(s) \in Nat \ {0}
          /\ \A i \in DOMAIN Tail(s) : i \in Nat /\ i + 1 \in DOMAIN s /\ Tail(s)[i] = s[i + 1]
      BY <1>2, <1>4, <2>2, Taking
    <2> QED BY <2>1, <2>2, <2>3
  <1>6. \A d \in Conns \ {c} : inbound'[d] = inbound[d] /\ Done(d)' = Done(d)
    BY <1>3 DEF IInv, SessionInv, SessionTypes, Done
  <1>7. Done(c)' = n + 1
    BY <1>3, <1>4, <1>5 DEF Done
  <1>8. SessionTypes'
    <2>1. inbound' \in [Conns -> Seq(Nat)]
      BY <1>3, <1>5 DEF IInv, SessionInv, SessionTypes
    <2>2. pendingDispatches' \in Seq([conn : Conns, n : Nat])
      <3>1. [conn |-> c, n |-> n + 1] \in [conn : Conns, n : Nat]
        BY <1>2
      <3>2. PICK s, e, S : /\ s = pendingDispatches /\ S = [conn : Conns, n : Nat]
                           /\ e = [conn |-> c, n |-> n + 1]
        OBVIOUS
      <3>3. Append(s, e) \in Seq(S)
        BY <1>4, <3>1, <3>2, Adding
      <3> QED BY <1>3, <1>4, <3>2, <3>3
    <2> QED BY <1>3, <2>1, <2>2 DEF IInv, SessionInv, SessionTypes
  <1>9. TasksOfPackets'
    <2> SUFFICES ASSUME NEW u \in Held'
                 PROVE  /\ u \in [conn : Conns, way : Ways, n : Nat]
                        /\ u.way = "in" =>
                             \/ u.n <= Done(u.conn)' /\ u \in Stale'
                             \/ u.n = Done(u.conn)' + 1 /\ u.conn \in decoding'
                        /\ u.way = "out" => u.n <= sent'[u.conn]
      BY DEF TasksOfPackets
    <2>1. u \in Held /\ (u \in Stale => u \in Stale')
      BY <1>2 DEF Kept
    <2>2. /\ u \in [conn : Conns, way : Ways, n : Nat]
          /\ u.way = "in" => \/ u.n <= Done(u.conn) /\ u \in Stale
                             \/ u.n = Done(u.conn) + 1 /\ u.conn \in decoding
          /\ u.way = "out" => u.n <= sent[u.conn]
      BY <2>1 DEF IInv, SessionInv, TasksOfPackets
    <2>3. CASE u.conn = c
      <3>1. u.way = "in" => u.n <= n + 1 /\ u \in Stale'
        <4>1. CASE u.n <= n /\ u \in Stale
          BY <1>2, <2>1, <2>2, <4>1
        <4>2. CASE u.way = "in" /\ u.n = n + 1
          <5>1. t \in [conn : Conns, way : Ways, n : Nat]
            <6>1. t \in Held
              BY <1>1, FinishKeeps DEF IInv, InboundDecoded, Held
            <6> QED BY <6>1 DEF IInv, SessionInv, TasksOfPackets
          <5>2. u = t
            BY <1>2, <2>2, <2>3, <4>2, <5>1
          <5> QED BY <1>2, <4>2, <5>2
        <4> QED BY <1>1, <2>2, <2>3, <4>1, <4>2
      <3> QED BY <1>3, <1>7, <2>2, <2>3, <3>1
    <2>4. CASE u.conn # c
      <3>1. PICK d \in Conns \ {c} : d = u.conn
        BY <2>2, <2>4
      <3>2. Done(d)' = Done(d) /\ sent'[d] = sent[d] /\ (d \in decoding => d \in decoding')
        BY <1>3, <1>6
      <3> QED BY <2>1, <2>2, <3>1, <3>2
    <2> QED BY <2>3, <2>4
  <1>10. \A d \in Conns : DecodeChain(d)'
    <2>1. DecodeChain(c)'
      <3>1. \A i \in DOMAIN inbound'[c] : inbound'[c][i] = n + 1 + i
        <4> SUFFICES ASSUME NEW i \in DOMAIN inbound'[c] PROVE inbound'[c][i] = n + 1 + i
          OBVIOUS
        <4>1. i \in Nat /\ i + 1 \in DOMAIN inbound[c] /\ inbound'[c][i] = inbound[c][i + 1]
          BY <1>5
        <4>2. inbound[c][i + 1] = n + (i + 1)
          BY <1>4, <4>1
        <4> QED BY <1>2, <4>1, <4>2
      <3>2. Len(inbound'[c]) <= received[c] /\ Len(inbound'[c]) <= InboundLimit
        BY <1>4, <1>5
      <3> QED BY <1>3, <1>7, <3>1, <3>2 DEF IInv, SessionInv, DecodeChain
    <2>2. \A d \in Conns \ {c} : DecodeChain(d)'
      BY <1>3, <1>6 DEF IInv, SessionInv, DecodeChain
    <2> QED BY <2>1, <2>2
  <1>11. \A d \in Conns : DispatchOrder(d)'
    <2>1. CASE UNCHANGED pendingDispatches /\ c \notin open'
      BY <1>3, <1>6, <2>1 DEF IInv, SessionInv, DispatchOrder
    <2>2. CASE pendingDispatches' = Append(pendingDispatches, [conn |-> c, n |-> n + 1])
      <3> DEFINE e == [conn |-> c, n |-> n + 1]
      <3>1. e \in [conn : Conns, n : Nat] /\ e.conn = c /\ e.n = n + 1
        BY <1>2
      <3> HIDE DEF e
      <3>2. /\ \A i \in DOMAIN pendingDispatches' :
                 \/ i \in DOMAIN pendingDispatches /\ pendingDispatches'[i] = pendingDispatches[i]
                 \/ /\ i = Len(pendingDispatches) + 1 /\ pendingDispatches'[i] = e
            /\ \A i \in DOMAIN pendingDispatches :
                 i \in DOMAIN pendingDispatches' /\ pendingDispatches'[i] = pendingDispatches[i]
            /\ Len(pendingDispatches) + 1 \in DOMAIN pendingDispatches'
            /\ pendingDispatches'[Len(pendingDispatches) + 1] = e
            /\ Len(pendingDispatches) \in Nat
            /\ DOMAIN pendingDispatches = 1 .. Len(pendingDispatches)
        <4>1. PICK s : s = pendingDispatches
          OBVIOUS
        <4>2. PICK S : S = [conn : Conns, n : Nat]
          OBVIOUS
        <4>3. /\ \A i \in DOMAIN Append(s, e) :
                   \/ i \in DOMAIN s /\ Append(s, e)[i] = s[i]
                   \/ i = Len(s) + 1 /\ Append(s, e)[i] = e
              /\ \A i \in DOMAIN s : i \in DOMAIN Append(s, e) /\ Append(s, e)[i] = s[i]
              /\ Len(s) + 1 \in DOMAIN Append(s, e) /\ Append(s, e)[Len(s) + 1] = e
              /\ Len(s) \in Nat /\ DOMAIN s = 1 .. Len(s)
          BY <1>4, <3>1, <4>1, <4>2, Adding
        <4>4. pendingDispatches' = Append(s, e)
          BY <2>2, <4>1 DEF e
        <4> QED BY <4>1, <4>3, <4>4
      <3>3. ASSUME NEW d \in Conns \ {c} PROVE DispatchOrder(d)'
        <4> SUFFICES ASSUME d \in open' PROVE DispatchOrder(d)'
          BY DEF DispatchOrder
        <4>1. DispatchOrder(d) /\ d \in open /\ Done(d)' = Done(d) /\ dispatched'[d] = dispatched[d]
          BY <1>3, <1>6 DEF IInv, SessionInv
        <4>2. \A i \in DOMAIN pendingDispatches' : pendingDispatches'[i].conn = d =>
                i \in DOMAIN pendingDispatches /\ pendingDispatches'[i] = pendingDispatches[i]
          BY <3>1, <3>2
        <4> QED BY <3>2, <4>1, <4>2 DEF DispatchOrder
      <3>4. DispatchOrder(c)'
        <4> SUFFICES ASSUME c \in open' PROVE DispatchOrder(c)'
          BY DEF DispatchOrder
        <4>1. PICK l \in Nat : l = Len(dispatched[c]) /\ dispatched'[c] = dispatched[c]
          BY <1>3 DEF IInv, SessionInv, SessionTypes
        <4>2. /\ l <= n
              /\ \A i \in DOMAIN pendingDispatches : pendingDispatches[i].conn = c =>
                   /\ pendingDispatches[i].n \in l + 1 .. n
                   /\ \A j \in DOMAIN pendingDispatches :
                        i < j /\ pendingDispatches[j].conn = c
                          => pendingDispatches[i].n < pendingDispatches[j].n
              /\ \A m \in l + 1 .. n :
                   \E i \in DOMAIN pendingDispatches :
                     pendingDispatches[i] = [conn |-> c, n |-> m]
          BY <1>1, <1>3, <4>1 DEF IInv, SessionInv, DispatchOrder
        <4>3. \A i \in DOMAIN pendingDispatches' : pendingDispatches'[i].conn = c =>
                /\ pendingDispatches'[i].n \in l + 1 .. n + 1
                /\ \A j \in DOMAIN pendingDispatches' :
                     i < j /\ pendingDispatches'[j].conn = c
                       => pendingDispatches'[i].n < pendingDispatches'[j].n
          BY <1>2, <3>1, <3>2, <4>1, <4>2
        <4>4. \A m \in l + 1 .. n + 1 :
                \E i \in DOMAIN pendingDispatches' :
                  pendingDispatches'[i] = [conn |-> c, n |-> m]
          <5> SUFFICES ASSUME NEW m \in l + 1 .. n + 1
                       PROVE  \E i \in DOMAIN pendingDispatches' :
                                pendingDispatches'[i] = [conn |-> c, n |-> m]
            OBVIOUS
          <5>1. CASE m = n + 1
            BY <3>2, <5>1 DEF e
          <5>2. CASE m # n + 1
            <6>1. m \in l + 1 .. n
              BY <1>2, <4>1, <5>2
            <6> QED BY <3>2, <4>2, <6>1
          <5> QED BY <5>1, <5>2
        <4>5. l <= n + 1
          BY <1>2, <4>1, <4>2
        <4> QED BY <1>7, <4>1, <4>3, <4>4, <4>5 DEF DispatchOrder
      <3> QED BY <3>3, <3>4
    <2> QED BY <1>3, <2>1, <2>2
  <1>12. \A d \in Conns : WriteChain(d)'
    BY <1>3 DEF IInv, SessionInv, WriteChain
  <1> QED BY <1>2, <1>8, <1>9, <1>10, <1>11, <1>12 DEF IInv, SessionInv

(* The head of the list is the next packet of its connection.              *)
LEMMA DispatchedIsNext ==
    ASSUME SessionInv, pendingDispatches # <<>>, NEW h, h = Head(pendingDispatches),
           h.conn \in open
    PROVE  /\ h.conn \in Conns /\ h.n \in Nat
           /\ h.n = Len(dispatched[h.conn]) + 1 /\ h.n <= Done(h.conn)
  <1>1. PICK P : P = pendingDispatches
    OBVIOUS
  <1>2. P \in Seq([conn : Conns, n : Nat]) /\ P # <<>> /\ h = Head(P)
    BY <1>1 DEF SessionInv, SessionTypes
  <1>3. h = P[1] /\ 1 \in DOMAIN P /\ h \in [conn : Conns, n : Nat]
        /\ \A i \in DOMAIN P : i = 1 \/ 1 < i
    <2>1. PICK S : S = [conn : Conns, n : Nat]
      OBVIOUS
    <2>2. P \in Seq(S)
      BY <1>2, <2>1
    <2>3. /\ Head(P) \in S /\ Head(P) = P[1] /\ 1 \in DOMAIN P
          /\ \A i \in DOMAIN P : i = 1 \/ 1 < i
      BY <1>2, <2>2, TakingIndexes
    <2> QED BY <1>2, <2>1, <2>3
  <1>4. PICK c \in Conns : c = h.conn
    BY <1>3
  <1>5. PICK l \in Nat : l = Len(dispatched[c])
    BY DEF SessionInv, SessionTypes
  <1>6. DispatchOrder(c) /\ c \in open
    BY <1>4 DEF SessionInv
  <1>7. Done(c) \in Int
    BY DEF SessionInv, SessionTypes, Done
  <1>8. h.n \in l + 1 .. Done(c)
    BY <1>1, <1>3, <1>4, <1>5, <1>6 DEF DispatchOrder
  <1>9. l + 1 \in l + 1 .. Done(c)
    BY <1>3, <1>5, <1>7, <1>8
  <1>10. PICK i \in DOMAIN P : P[i] = [conn |-> c, n |-> l + 1]
    BY <1>1, <1>5, <1>6, <1>9 DEF DispatchOrder
  <1>11. i = 1
    <2> SUFFICES ASSUME 1 < i PROVE FALSE
      BY <1>3
    <2>1. P[1].n < P[i].n
      BY <1>1, <1>3, <1>4, <1>6, <1>10 DEF DispatchOrder
    <2> QED BY <1>3, <1>5, <1>7, <1>8, <1>10, <2>1
  <1> QED BY <1>3, <1>4, <1>5, <1>7, <1>8, <1>10, <1>11

LEMMA DispatchKeeps ==
    ASSUME SessionInv, Dispatch
    PROVE  SessionInv'
  <1>1. PICK P, h : P = pendingDispatches /\ h = Head(P)
    OBVIOUS
  <1>2. /\ P \in Seq([conn : Conns, n : Nat]) /\ P # <<>> /\ pendingDispatches' = Tail(P)
        /\ dispatched' = IF h.conn \in open
                         THEN [dispatched EXCEPT ![h.conn] = Append(dispatched[h.conn], h.n)]
                         ELSE dispatched
        /\ UNCHANGED <<poolVars, open, received, inbound, decoding, sent, outbound, written>>
    BY <1>1 DEF SessionInv, SessionTypes, Dispatch, outVars
  <1>3. \A d \in Conns : Done(d)' = Done(d)
    BY <1>2 DEF Done
  <1>4. /\ h \in [conn : Conns, n : Nat] /\ h = P[1] /\ 1 \in DOMAIN P
        /\ Tail(P) \in Seq([conn : Conns, n : Nat])
        /\ \A i \in DOMAIN Tail(P) : i \in Nat /\ i + 1 \in DOMAIN P /\ Tail(P)[i] = P[i + 1]
        /\ \A i \in DOMAIN P : i \in Nat /\ (i = 1 \/ (1 < i /\ i - 1 \in DOMAIN Tail(P)
                                                     /\ Tail(P)[i - 1] = P[i]))
    <2>1. PICK S : S = [conn : Conns, n : Nat]
      OBVIOUS
    <2>2. P \in Seq(S) /\ P # <<>>
      BY <1>2, <2>1
    <2>3. /\ Head(P) \in S /\ Head(P) = P[1] /\ 1 \in DOMAIN P
          /\ Tail(P) \in Seq(S)
          /\ \A i \in DOMAIN Tail(P) : i \in Nat /\ i + 1 \in DOMAIN P /\ Tail(P)[i] = P[i + 1]
          /\ \A i \in DOMAIN P : i \in Nat /\ (i = 1 \/ (1 < i /\ i - 1 \in DOMAIN Tail(P)
                                                       /\ Tail(P)[i - 1] = P[i]))
      BY <2>2, TakingIndexes
    <2> QED BY <1>1, <2>1, <2>3
  <1>5. h.conn \in open => h.n = Len(dispatched[h.conn]) + 1 /\ h.n <= Done(h.conn)
    BY <1>1, <1>2, DispatchedIsNext
  <1>6. SessionTypes'
    <2>1. dispatched' \in [Conns -> Seq(Nat)]
      BY <1>2, <1>4 DEF SessionInv, SessionTypes
    <2> QED BY <1>2, <1>4, <2>1 DEF SessionInv, SessionTypes
  <1>7. TasksOfPackets'
    <2>1. Kept
      BY <1>2 DEF poolVars, Kept, Held, Stale, Active, Settling
    <2>2. \A c \in Conns : sent'[c] >= sent[c] /\ sent'[c] \in Nat
      <3>1. sent' = sent /\ sent \in [Conns -> Nat]
        BY <1>2 DEF SessionInv, SessionTypes
      <3> QED BY <3>1
    <2>3. decoding \subseteq decoding'
      BY <1>2
    <2> QED BY <1>3, <2>1, <2>2, <2>3, SameTasksOfPackets
  <1>8. ASSUME NEW d \in Conns PROVE DispatchOrder(d)'
    <2> SUFFICES ASSUME d \in open PROVE DispatchOrder(d)'
      BY <1>2 DEF DispatchOrder
    <2>1. PICK l \in Nat, m \in Int : l = Len(dispatched[d]) /\ m = Done(d) /\ Done(d)' = m
      BY <1>3 DEF SessionInv, SessionTypes, Done
    <2>2. /\ l <= m
          /\ \A i \in DOMAIN P : P[i].conn = d =>
               /\ P[i].n \in l + 1 .. m
               /\ \A j \in DOMAIN P : i < j /\ P[j].conn = d => P[i].n < P[j].n
          /\ \A n \in l + 1 .. m : \E i \in DOMAIN P : P[i] = [conn |-> d, n |-> n]
      BY <1>1, <2>1 DEF SessionInv, DispatchOrder
    <2>3. \A i, j \in DOMAIN Tail(P) :
            i < j /\ Tail(P)[i].conn = d /\ Tail(P)[j].conn = d => Tail(P)[i].n < Tail(P)[j].n
      BY <1>4, <2>2
    <2>4. CASE h.conn = d
      <3>1. h.n = l + 1 /\ l + 1 <= m
        BY <1>5, <2>1, <2>4
      <3>2. Len(dispatched'[d]) = l + 1
        BY <1>2, <2>1, <2>4 DEF SessionInv, SessionTypes
      <3>3. \A i \in DOMAIN Tail(P) : Tail(P)[i].conn = d => Tail(P)[i].n \in (l + 1) + 1 .. m
        <4> SUFFICES ASSUME NEW i \in DOMAIN Tail(P), Tail(P)[i].conn = d
                     PROVE  Tail(P)[i].n \in (l + 1) + 1 .. m
          OBVIOUS
        <4>1. i \in Nat /\ i + 1 \in DOMAIN P /\ Tail(P)[i] = P[i + 1] /\ 1 < i + 1
          BY <1>2, <1>4
        <4>2. P[1].n < P[i + 1].n /\ P[i + 1].n \in l + 1 .. m
          BY <1>4, <2>2, <2>4, <4>1
        <4> QED BY <1>4, <2>1, <3>1, <4>1, <4>2
      <3>4. \A n \in (l + 1) + 1 .. m : \E i \in DOMAIN Tail(P) : Tail(P)[i] = [conn |-> d, n |-> n]
        <4> SUFFICES ASSUME NEW n \in (l + 1) + 1 .. m
                     PROVE  \E i \in DOMAIN Tail(P) : Tail(P)[i] = [conn |-> d, n |-> n]
          OBVIOUS
        <4>1. n \in l + 1 .. m /\ n # l + 1
          BY <2>1
        <4>2. PICK i \in DOMAIN P : P[i] = [conn |-> d, n |-> n]
          BY <2>2, <4>1
        <4>3. i # 1
          BY <1>4, <3>1, <4>1, <4>2
        <4> QED BY <1>4, <4>2, <4>3
      <3>5. PICK k \in Nat : k = l + 1
        OBVIOUS
      <3>6. /\ Len(dispatched'[d]) = k /\ Done(d)' = m /\ k <= m
            /\ \A i \in DOMAIN Tail(P) : Tail(P)[i].conn = d => Tail(P)[i].n \in k + 1 .. m
            /\ \A n \in k + 1 .. m : \E i \in DOMAIN Tail(P) : Tail(P)[i] = [conn |-> d, n |-> n]
        BY <2>1, <3>1, <3>2, <3>3, <3>4, <3>5
      <3>7. pendingDispatches' = Tail(P)
        BY <1>2
      <3> QED BY <2>3, <3>6, <3>7 DEF DispatchOrder
    <2>5. CASE h.conn # d
      <3>1. dispatched'[d] = dispatched[d]
        BY <1>2, <2>5 DEF SessionInv, SessionTypes
      <3>2. \A i \in DOMAIN Tail(P) : Tail(P)[i].conn = d => Tail(P)[i].n \in l + 1 .. m
        BY <1>4, <2>2
      <3>3. \A n \in l + 1 .. m : \E i \in DOMAIN Tail(P) : Tail(P)[i] = [conn |-> d, n |-> n]
        <4> SUFFICES ASSUME NEW n \in l + 1 .. m
                     PROVE  \E i \in DOMAIN Tail(P) : Tail(P)[i] = [conn |-> d, n |-> n]
          OBVIOUS
        <4>1. PICK i \in DOMAIN P : P[i] = [conn |-> d, n |-> n]
          BY <2>2
        <4>2. i # 1
          BY <1>4, <2>5, <4>1
        <4> QED BY <1>4, <4>1, <4>2
      <3> QED BY <1>2, <2>1, <2>2, <2>3, <3>1, <3>2, <3>3 DEF DispatchOrder
    <2> QED BY <2>4, <2>5
  <1>9. \A d \in Conns : DecodeChain(d)' /\ WriteChain(d)'
    BY <1>2, <1>3 DEF SessionInv, DecodeChain, WriteChain
  <1> QED BY <1>6, <1>7, <1>8, <1>9 DEF SessionInv

--------------------------------------------------------------------------------
(* Sending. *)

LEMMA EnqueueKeepsChain ==
    ASSUME SessionInv, NEW c \in Conns, NEW e \in {"waiting", "ready"}, Enqueue(c, e),
           UNCHANGED open
    PROVE  /\ sent' \in [Conns -> Nat] /\ sent[c] \in Nat
           /\ sent' = [sent EXCEPT ![c] = sent[c] + 1]
           /\ outbound' \in [Conns -> Seq([n : Nat, encoded : {"waiting", "ready", "failed"}])]
           /\ UNCHANGED written
           /\ \A d \in Conns : WriteChain(d)'
  <1> DEFINE x == [n |-> sent[c] + 1, encoded |-> e]
             R == [n : Nat, encoded : {"waiting", "ready", "failed"}]
  <1>1. /\ sent' = [sent EXCEPT ![c] = sent[c] + 1]
        /\ outbound' = [outbound EXCEPT ![c] = Append(outbound[c], x)]
        /\ UNCHANGED written
    BY DEF Enqueue
  <1>2. sent[c] \in Nat /\ outbound[c] \in Seq(R) /\ x \in R /\ x.n = sent[c] + 1
        /\ outbound \in [Conns -> Seq(R)] /\ sent \in [Conns -> Nat]
    BY DEF SessionInv, SessionTypes
  <1> HIDE DEF x, R
  <1>3. PICK s : s = outbound[c]
    OBVIOUS
  <1>4. /\ Append(s, x) \in Seq(R) /\ Len(Append(s, x)) = Len(s) + 1 /\ Len(s) \in Nat
        /\ \A i \in DOMAIN Append(s, x) : \/ i \in DOMAIN s /\ Append(s, x)[i] = s[i]
                                          \/ i = Len(s) + 1 /\ Append(s, x)[i] = x
    BY <1>2, <1>3, Adding
  <1>5. outbound'[c] = Append(s, x) /\ sent'[c] = sent[c] + 1
    BY <1>1, <1>2, <1>3
  <1>6. \A d \in Conns \ {c} : outbound'[d] = outbound[d] /\ sent'[d] = sent[d]
    BY <1>1, <1>2
  <1>7. WriteChain(c)'
    <2>1. PICK m \in Nat, l \in Nat : m = sent[c] /\ l = Len(s)
      BY <1>2, <1>4
    <2>2. /\ l <= m
          /\ c \in open => Len(written[c]) = m - l
          /\ \A i \in DOMAIN s : s[i].n = m - l + i
      BY <1>3, <2>1 DEF SessionInv, WriteChain
    <2>3. l + 1 <= m + 1 /\ m + 1 - (l + 1) = m - l /\ (m + 1 - (l + 1)) + (l + 1) = m + 1
      BY <2>1, <2>2
    <2>4. \A i \in DOMAIN Append(s, x) : Append(s, x)[i].n = (m + 1) - (l + 1) + i
      <3> SUFFICES ASSUME NEW i \in DOMAIN Append(s, x)
                   PROVE  Append(s, x)[i].n = (m + 1) - (l + 1) + i
        OBVIOUS
      <3>1. CASE i \in DOMAIN s /\ Append(s, x)[i] = s[i]
        BY <2>2, <2>3, <3>1
      <3>2. CASE i = l + 1 /\ Append(s, x)[i] = x
        BY <1>2, <2>1, <2>3, <3>2
      <3> QED BY <1>4, <2>1, <3>1, <3>2
    <2>5. /\ Len(outbound'[c]) = l + 1 /\ sent'[c] = m + 1 /\ outbound'[c] = Append(s, x)
      BY <1>4, <1>5, <2>1
    <2>6. c \in open' => Len(written'[c]) = (m + 1) - (l + 1)
      BY <1>1, <2>2, <2>3
    <2> QED BY <2>3, <2>4, <2>5, <2>6 DEF WriteChain
  <1>8. \A d \in Conns \ {c} : WriteChain(d)'
    BY <1>1, <1>6 DEF SessionInv, WriteChain
  <1> QED BY <1>1, <1>2, <1>3, <1>4, <1>7, <1>8 DEF R

LEMMA SendPacketKeeps ==
    ASSUME IInv, NEW c \in Conns, SendPacket(c)
    PROVE  IInv'
  <1>1. PICK t : t = Packet(c, "out", sent[c] + 1)
    OBVIOUS
  <1>2. /\ drain = "no" /\ Enqueue(c, "waiting") /\ RunCodecTask(t)
        /\ sent[c] < MaxPackets[c]["out"]
        /\ UNCHANGED <<open, received, inbound, decoding, pendingDispatches, dispatched>>
    BY <1>1 DEF SendPacket, CanSend, Enqueue, inVars
  <1>3. /\ sent' \in [Conns -> Nat] /\ sent[c] \in Nat /\ sent \in [Conns -> Nat]
        /\ sent' = [sent EXCEPT ![c] = sent[c] + 1]
        /\ outbound' \in [Conns -> Seq([n : Nat, encoded : {"waiting", "ready", "failed"}])]
        /\ UNCHANGED written
        /\ \A d \in Conns : WriteChain(d)'
    BY <1>2, EnqueueKeepsChain DEF IInv, SessionInv, SessionTypes
  <1>4. t = [conn |-> c, way |-> "out", n |-> sent[c] + 1]
    BY <1>1 DEF Packet
  <1>5. t \notin Held
    <2> SUFFICES ASSUME t \in Held PROVE FALSE
      OBVIOUS
    <2>1. t.way = "out" /\ t.n <= sent[t.conn]
      BY <1>4 DEF IInv, SessionInv, TasksOfPackets
    <2> QED BY <1>3, <1>4, <2>1
  <1>6. t \in Tasks
    <2>1. MaxPackets[c]["out"] \in Nat
      BY PipelineAssumption DEF Ways
    <2>2. sent[c] + 1 \in 1 .. MaxPackets[c]["out"]
      BY <1>2, <1>3, <2>1
    <2> QED BY <1>1, <2>2, PipelineAssumption DEF Ways
  <1>7. PoolInv' /\ Added(t)
    BY <1>2, <1>5, <1>6, RunCodecTaskKeeps DEF IInv
  <1>8. \A d \in Conns : Done(d)' = Done(d)
    BY <1>2 DEF Done
  <1>9. TasksOfPackets'
    <2> SUFFICES ASSUME NEW u \in Held'
                 PROVE  /\ u \in [conn : Conns, way : Ways, n : Nat]
                        /\ u.way = "in" =>
                             \/ u.n <= Done(u.conn)' /\ u \in Stale'
                             \/ u.n = Done(u.conn)' + 1 /\ u.conn \in decoding'
                        /\ u.way = "out" => u.n <= sent'[u.conn]
      BY DEF TasksOfPackets
    <2>1. CASE u = t
      <3>1. u.way = "out" /\ u.conn = c /\ u.n = sent[c] + 1
            /\ u \in [conn : Conns, way : Ways, n : Nat]
        BY <1>3, <1>4, <2>1 DEF Ways
      <3> QED BY <1>3, <3>1
    <2>2. CASE u # t
      <3>1. u \in Held /\ (u \in Stale => u \in Stale')
        BY <1>7, <2>2 DEF Added
      <3>2. /\ u \in [conn : Conns, way : Ways, n : Nat]
            /\ u.way = "in" => \/ u.n <= Done(u.conn) /\ u \in Stale
                               \/ u.n = Done(u.conn) + 1 /\ u.conn \in decoding
            /\ u.way = "out" => u.n <= sent[u.conn]
        BY <3>1 DEF IInv, SessionInv, TasksOfPackets
      <3>3. PICK d \in Conns : d = u.conn
        BY <3>2
      <3>4. Done(d)' = Done(d) /\ sent'[d] >= sent[d] /\ sent'[d] \in Nat /\ sent[d] \in Nat
        BY <1>3, <1>8
      <3> QED BY <1>2, <3>1, <3>2, <3>3, <3>4
    <2> QED BY <2>1, <2>2
  <1>10. \A d \in Conns : DecodeChain(d)' /\ DispatchOrder(d)'
    BY <1>2, <1>8 DEF IInv, SessionInv, DecodeChain, DispatchOrder
  <1>11. SessionTypes'
    BY <1>2, <1>3 DEF IInv, SessionInv, SessionTypes
  <1> QED BY <1>3, <1>7, <1>9, <1>10, <1>11 DEF IInv, SessionInv

LEMMA SendRawPayloadKeeps ==
    ASSUME SessionInv, NEW c \in Conns, SendRawPayload(c)
    PROVE  SessionInv'
  <1>1. Enqueue(c, "ready")
        /\ UNCHANGED <<poolVars, open, received, inbound, decoding, pendingDispatches, dispatched>>
    BY DEF SendRawPayload, inVars
  <1>2. /\ sent' \in [Conns -> Nat] /\ sent[c] \in Nat /\ sent \in [Conns -> Nat]
        /\ sent' = [sent EXCEPT ![c] = sent[c] + 1]
        /\ outbound' \in [Conns -> Seq([n : Nat, encoded : {"waiting", "ready", "failed"}])]
        /\ UNCHANGED written
        /\ \A d \in Conns : WriteChain(d)'
    BY <1>1, EnqueueKeepsChain DEF SessionInv, SessionTypes
  <1>3. \A d \in Conns : Done(d)' = Done(d)
    BY <1>1 DEF Done
  <1>4. TasksOfPackets'
    <2>1. Kept
      BY <1>1 DEF poolVars, Kept, Held, Stale, Active, Settling
    <2>2. \A d \in Conns : sent'[d] >= sent[d] /\ sent'[d] \in Nat
      BY <1>2
    <2> QED BY <1>1, <1>3, <2>1, <2>2, SameTasksOfPackets
  <1>5. \A d \in Conns : DecodeChain(d)' /\ DispatchOrder(d)'
    BY <1>1, <1>3 DEF SessionInv, DecodeChain, DispatchOrder
  <1>6. SessionTypes'
    BY <1>1, <1>2 DEF SessionInv, SessionTypes
  <1> QED BY <1>2, <1>4, <1>5, <1>6 DEF SessionInv

Links == Seq([n : Nat, encoded : {"waiting", "ready", "failed"}])

LEMMA Elements ==
    ASSUME NEW S, NEW s \in Seq(S)
    PROVE  Len(s) \in Nat /\ DOMAIN s = 1 .. Len(s) /\ \A i \in DOMAIN s : s[i] \in S
  OBVIOUS

LEMMA SequenceOf ==
    ASSUME NEW S, NEW n \in Nat, NEW t, t = [i \in 1 .. n |-> t[i]], \A i \in 1 .. n : t[i] \in S
    PROVE  t \in Seq(S) /\ Len(t) = n /\ DOMAIN t = 1 .. n
  <1>1. [i \in 1 .. n |-> t[i]] \in Seq(S)
    OBVIOUS
  <1> QED BY <1>1

LEMMA OutboundEncodedKeeps ==
    ASSUME IInv, NEW c \in Conns, OutboundEncoded(c)
    PROVE  IInv'
  <1>1. PICK t, b : t = Head(settled).task /\ b = IF Head(settled).ok THEN "ready" ELSE "failed"
    OBVIOUS
  <1>2. /\ settled # <<>> /\ FinishCodecTask(t) /\ b \in {"ready", "failed"}
        /\ outbound' = [outbound EXCEPT ![c] =
                          [i \in DOMAIN outbound[c] |->
                             IF outbound[c][i].n = t.n
                             THEN [outbound[c][i] EXCEPT !.encoded = b]
                             ELSE outbound[c][i]]]
        /\ UNCHANGED <<open, received, inbound, decoding, pendingDispatches, dispatched,
                       sent, written>>
    BY <1>1 DEF OutboundEncoded, inVars
  <1>3. PoolInv' /\ Kept
    BY <1>1, <1>2, FinishKeeps DEF IInv
  <1>4. outbound \in [Conns -> Links]
    BY DEF IInv, SessionInv, SessionTypes, Links
  <1>5. /\ outbound'[c] \in Links /\ Len(outbound'[c]) = Len(outbound[c])
        /\ DOMAIN outbound'[c] = DOMAIN outbound[c]
        /\ \A i \in DOMAIN outbound[c] : outbound'[c][i].n = outbound[c][i].n
    <2>1. PICK s, m : s = outbound[c] /\ m = t.n
      OBVIOUS
    <2>2. PICK u : u = [i \in DOMAIN s |-> IF s[i].n = m THEN [s[i] EXCEPT !.encoded = b] ELSE s[i]]
      OBVIOUS
    <2>3. PICK R : R = [n : Nat, encoded : {"waiting", "ready", "failed"}]
      OBVIOUS
    <2>4. Len(s) \in Nat /\ DOMAIN s = 1 .. Len(s) /\ \A i \in DOMAIN s : s[i] \in R
      <3>1. s \in Seq(R)
        BY <1>4, <2>1, <2>3 DEF Links
      <3> QED BY <3>1, Elements
    <2>6. DOMAIN u = DOMAIN s
      BY <2>2
    <2>7. \A i \in DOMAIN s : u[i] \in R /\ u[i].n = s[i].n
      BY <1>2, <2>2, <2>3, <2>4
    <2>8. u = [i \in 1 .. Len(s) |-> u[i]]
      BY <2>2, <2>4
    <2>9. u \in Seq(R) /\ Len(u) = Len(s)
      BY <2>4, <2>7, <2>8, SequenceOf
    <2>5. outbound'[c] = u
      BY <1>2, <1>4, <2>1, <2>2
    <2> QED BY <2>1, <2>3, <2>5, <2>6, <2>7, <2>9 DEF Links
  <1>6. \A d \in Conns \ {c} : outbound'[d] = outbound[d]
    BY <1>2, <1>4
  <1>7. outbound' \in [Conns -> Links]
    BY <1>2, <1>4, <1>5
  <1>8. \A d \in Conns : Done(d)' = Done(d)
    BY <1>2 DEF Done
  <1>9. TasksOfPackets'
    BY <1>2, <1>3, <1>8, SameTasksOfPackets DEF IInv, SessionInv, SessionTypes
  <1>10. WriteChain(c)'
    BY <1>2, <1>5 DEF IInv, SessionInv, WriteChain
  <1>11. \A d \in Conns \ {c} : WriteChain(d)'
    BY <1>2, <1>6 DEF IInv, SessionInv, WriteChain
  <1>12. \A d \in Conns : DecodeChain(d)' /\ DispatchOrder(d)'
    BY <1>2, <1>8 DEF IInv, SessionInv, DecodeChain, DispatchOrder
  <1>13. SessionTypes'
    BY <1>2, <1>7 DEF IInv, SessionInv, SessionTypes, Links
  <1> QED BY <1>3, <1>9, <1>10, <1>11, <1>12, <1>13 DEF IInv, SessionInv

(* A packet is written in its place.                                       *)
LEMMA WriteNextKeeps ==
    ASSUME SessionInv, NEW c \in Conns, WriteNext(c)
    PROVE  /\ SessionInv'
           /\ \/ UNCHANGED written
              \/ /\ c \in open /\ UNCHANGED open
                 /\ Len(written[c]) < sent[c]
                 /\ written' = [written EXCEPT ![c] = Append(written[c], Len(written[c]) + 1)]
  <1> DEFINE h == Head(outbound[c])
  <1>1. /\ outbound[c] # <<>>
        /\ outbound' = [outbound EXCEPT ![c] = Tail(outbound[c])]
        /\ open' \subseteq open
        /\ \/ UNCHANGED written /\ (c \in open' => c \notin open)
           \/ c \in open /\ UNCHANGED open
              /\ written' = [written EXCEPT ![c] = Append(written[c], h.n)]
        /\ UNCHANGED <<poolVars, received, inbound, decoding, pendingDispatches, dispatched, sent>>
    BY DEF WriteNext, WriteDue, inVars
  <1>2. /\ outbound \in [Conns -> Links] /\ outbound[c] \in Links
        /\ written \in [Conns -> Seq(Nat)] /\ sent \in [Conns -> Nat]
    BY DEF SessionInv, SessionTypes, Links
  <1>3. PICK s : s = outbound[c]
    OBVIOUS
  <1>4. /\ h = s[1] /\ 1 \in DOMAIN s /\ h.n \in Nat
        /\ Tail(s) \in Links /\ Len(Tail(s)) = Len(s) - 1 /\ Len(s) \in Nat \ {0}
        /\ \A i \in DOMAIN Tail(s) : i \in Nat /\ i + 1 \in DOMAIN s /\ Tail(s)[i] = s[i + 1]
    <2>1. PICK R : R = [n : Nat, encoded : {"waiting", "ready", "failed"}]
      OBVIOUS
    <2>2. s \in Seq(R) /\ s # <<>>
      BY <1>1, <1>2, <1>3, <2>1 DEF Links
    <2>3. /\ Head(s) \in R /\ Head(s) = s[1] /\ 1 \in DOMAIN s /\ Tail(s) \in Seq(R)
          /\ \A i \in DOMAIN Tail(s) : i \in Nat /\ i + 1 \in DOMAIN s /\ Tail(s)[i] = s[i + 1]
      BY <2>2, TakingIndexes
    <2>4. Len(Tail(s)) = Len(s) - 1 /\ Len(s) \in Nat \ {0}
      BY <2>2, Taking
    <2> QED BY <1>3, <2>1, <2>3, <2>4 DEF Links
  <1> HIDE DEF h
  <1>5. PICK m, l, k : /\ m = sent[c] /\ l = Len(s) /\ k = l - 1
                       /\ m \in Nat /\ l \in Nat /\ k \in Nat /\ l = k + 1
    <2>1. PICK m, l, k : m = sent[c] /\ l = Len(s) /\ k = l - 1
      OBVIOUS
    <2>2. m \in Nat
      BY <1>2, <2>1
    <2>3. l \in Nat \ {0}
      BY <1>4, <2>1
    <2>4. k \in Nat /\ l = k + 1
      BY <2>1, <2>3
    <2> QED BY <2>1, <2>2, <2>3, <2>4
  <1>6. /\ l <= m
        /\ c \in open => Len(written[c]) = m - l
        /\ \A i \in DOMAIN s : s[i].n = m - l + i
    BY <1>3, <1>5 DEF SessionInv, WriteChain
  <1>7. outbound'[c] = Tail(s) /\ Len(Tail(s)) = k
    BY <1>1, <1>2, <1>3, <1>4, <1>5
  <1>8. c \in open => h.n = Len(written[c]) + 1 /\ Len(written[c]) < m
    BY <1>4, <1>5, <1>6
  <1>9. \A i \in DOMAIN Tail(s) : Tail(s)[i].n = m - k + i
    <2> SUFFICES ASSUME NEW i \in DOMAIN Tail(s) PROVE Tail(s)[i].n = m - k + i
      OBVIOUS
    <2>1. i \in Nat /\ i + 1 \in DOMAIN s /\ Tail(s)[i] = s[i + 1]
      BY <1>4
    <2>2. s[i + 1].n = m - l + (i + 1)
      BY <1>6, <2>1
    <2>3. m - l + (i + 1) = m - k + i
      BY <1>5, <2>1
    <2> QED BY <2>1, <2>2, <2>3
  <1>10. c \in open' => Len(written'[c]) = m - k
    <2> SUFFICES ASSUME c \in open' PROVE Len(written'[c]) = m - k
      OBVIOUS
    <2>1. c \in open /\ written'[c] = Append(written[c], h.n)
      BY <1>1, <1>2
    <2>2. Len(written'[c]) = Len(written[c]) + 1
      BY <1>2, <1>4, <2>1
    <2> QED BY <1>5, <1>6, <2>1, <2>2
  <1>11. WriteChain(c)'
    <2>1. sent'[c] = m /\ k <= m
      BY <1>1, <1>5, <1>6
    <2>2. DOMAIN Tail(s) = DOMAIN outbound'[c]
      BY <1>7
    <2>3. \A i \in DOMAIN outbound'[c] : outbound'[c][i].n = m - k + i
      BY <1>7, <1>9, <2>2
    <2> QED BY <1>7, <1>10, <2>1, <2>3 DEF WriteChain
  <1>12. \A d \in Conns \ {c} : WriteChain(d)'
    <2>1. \A d \in Conns \ {c} : outbound'[d] = outbound[d] /\ written'[d] = written[d]
      BY <1>1, <1>2
    <2> QED BY <1>1, <2>1 DEF SessionInv, WriteChain
  <1>13. \A d \in Conns : Done(d)' = Done(d)
    BY <1>1 DEF Done
  <1>14. TasksOfPackets'
    <2>1. Kept
      BY <1>1 DEF poolVars, Kept, Held, Stale, Active, Settling
    <2>2. sent' = sent /\ \A d \in Conns : sent'[d] >= sent[d] /\ sent'[d] \in Nat
      BY <1>1, <1>2
    <2>3. received' = received /\ decoding' = decoding
      BY <1>1
    <2> QED BY <1>13, <2>1, <2>2, <2>3, SameTasksOfPackets DEF SessionInv, SessionTypes
  <1>15. \A d \in Conns : DecodeChain(d)' /\ DispatchOrder(d)'
    BY <1>1, <1>13 DEF SessionInv, DecodeChain, DispatchOrder
  <1>16. SessionTypes'
    <2>1. outbound' \in [Conns -> Links]
      BY <1>1, <1>2, <1>3, <1>4
    <2>2. written' \in [Conns -> Seq(Nat)]
      <3>1. PICK n : n = h.n /\ n \in Nat
        BY <1>4
      <3>2. PICK v : v = Append(written[c], n) /\ v \in Seq(Nat)
        <4>1. written[c] \in Seq(Nat)
          BY <1>2
        <4>2. Append(written[c], n) \in Seq(Nat)
          BY <3>1, <4>1
        <4> QED BY <4>2, Zenon
      <3>3. written' = written \/ written' = [written EXCEPT ![c] = v]
        BY <1>1, <3>1, <3>2
      <3> QED BY <1>2, <3>2, <3>3
    <2> QED BY <1>1, <2>1, <2>2 DEF SessionInv, SessionTypes, Links
  <1>17. \/ UNCHANGED written
         \/ /\ c \in open /\ UNCHANGED open
            /\ Len(written[c]) < sent[c]
            /\ written' = [written EXCEPT ![c] = Append(written[c], Len(written[c]) + 1)]
    BY <1>1, <1>5, <1>8
  <1> QED BY <1>11, <1>12, <1>14, <1>15, <1>16, <1>17 DEF SessionInv


--------------------------------------------------------------------------------
(* Any step. *)

LEMMA InitKeeps == Init => IInv
  <1> SUFFICES ASSUME Init PROVE IInv
    OBVIOUS
  <1>1. /\ queue = <<>> /\ settled = <<>> /\ drain = "no" /\ abandoned = {}
        /\ pending = [t \in Tasks |-> NoWorker]
        /\ serviceTask = [w \in Workers |-> NoTask]
        /\ threads = [w \in Workers |-> Absent]
    BY DEF Init, PoolInit
  <1>2. Range(queue) = {} /\ Active = {} /\ Settling = {} /\ Held = {}
    BY <1>1 DEF Range, Active, Settling, Held
  <1>3. PoolTypes
    BY <1>1 DEF PoolTypes, Absent, States
  <1>4. OnePlace
    BY <1>1, <1>2 DEF OnePlace
  <1>5. NobodyWaits
    BY <1>1, <1>2 DEF NobodyWaits, NoTaskWaitsForAFreeWorker
  <1>6. SessionTypes
    BY DEF Init, SessionTypes
  <1>7. TasksOfPackets
    BY <1>2 DEF TasksOfPackets
  <1>8. ASSUME NEW c \in Conns
        PROVE  DecodeChain(c) /\ WriteChain(c) /\ DispatchOrder(c)
    <2>1. /\ received[c] = 0 /\ inbound[c] = <<>> /\ c \notin decoding /\ pendingDispatches = <<>>
          /\ dispatched[c] = <<>> /\ sent[c] = 0 /\ outbound[c] = <<>> /\ written[c] = <<>>
      BY DEF Init
    <2>2. Done(c) = 0
      <3>1. Len(inbound[c]) = 0 /\ received[c] = 0
        BY <2>1
      <3> QED BY <3>1 DEF Done
    <2>3. MaxPackets[c]["in"] \in Nat /\ InboundLimit \in Nat
      BY PipelineAssumption DEF Ways
    <2>4. DecodeChain(c)
      BY <2>1, <2>2, <2>3 DEF DecodeChain
    <2>5. WriteChain(c)
      <3>1. /\ Len(outbound[c]) = 0 /\ DOMAIN outbound[c] = {} /\ Len(written[c]) = 0
            /\ sent[c] = 0
        BY <2>1
      <3> QED BY <3>1 DEF WriteChain
    <2>6. DispatchOrder(c)
      BY <2>1, <2>2 DEF DispatchOrder
    <2> QED BY <2>4, <2>5, <2>6
  <1> QED BY <1>3, <1>4, <1>5, <1>6, <1>7, <1>8 DEF IInv, PoolInv, SessionInv

(* A step of the pool alone, or of the connections alone.                  *)
LEMMA PoolAlone ==
    ASSUME IInv, Drain \/ Event \/ Thread \/ UNCHANGED vars
    PROVE  IInv'
  <1>1. PoolInv' /\ Kept /\ UNCHANGED Sessions
    <2>1. CASE Drain
      BY <2>1, DrainStepKeeps DEF Drain, IInv
    <2>2. CASE Event
      BY <2>2, PoolEventKeeps DEF Event, IInv
    <2>3. CASE Thread
      BY <2>3, ThreadStepKeeps DEF Thread, IInv
    <2>4. CASE UNCHANGED vars
      <3>1. UNCHANGED poolVars /\ UNCHANGED Sessions
        BY <2>4 DEF vars, Sessions
      <3> QED BY <3>1, PoolUnchanged DEF IInv
    <2> QED BY <2>1, <2>2, <2>3, <2>4
  <1> QED BY <1>1, PoolStepKeepsSessions DEF IInv

LEMMA ConnectionAlone ==
    ASSUME IInv, NEW c \in Conns,
           \/ \E k \in 1 .. MaxChunk : DataArrives(c, k)
           \/ SendRawPayload(c) \/ SendOverflows(c) \/ SocketCloses(c)
           \/ WriteNext(c) \/ Dispatch
    PROVE  IInv'
  <1>1. UNCHANGED poolVars
    BY DEF DataArrives, SendRawPayload, SendOverflows, SocketCloses, WriteNext, Dispatch
  <1>2. PoolInv'
    BY <1>1, PoolUnchanged DEF IInv
  <1>3. SessionInv'
    <2>1. CASE \E k \in 1 .. MaxChunk : DataArrives(c, k)
      BY <2>1, DataArrivesKeeps DEF IInv
    <2>2. CASE SendRawPayload(c)
      BY <2>2, SendRawPayloadKeeps DEF IInv
    <2>3. CASE SendOverflows(c) \/ SocketCloses(c)
      <3>1. UNCHANGED <<poolVars, inVars, outVars>> /\ open' \subseteq open
        BY <2>3 DEF SendOverflows, SocketCloses
      <3> QED BY <3>1, ClosingKeepsSessions DEF IInv
    <2>4. CASE WriteNext(c)
      BY <2>4, WriteNextKeeps DEF IInv
    <2>5. CASE Dispatch
      BY <2>5, DispatchKeeps DEF IInv
    <2> QED BY <2>1, <2>2, <2>3, <2>4, <2>5
  <1> QED BY <1>2, <1>3 DEF IInv

LEMMA NextKeeps == IInv /\ [Next]_vars => IInv'
  <1> SUFFICES ASSUME IInv, [Next]_vars PROVE IInv'
    OBVIOUS
  <1>1. CASE Drain \/ Event \/ Thread \/ UNCHANGED vars
    BY <1>1, PoolAlone
  <1>2. CASE \E c \in Conns : StartDecode(c) \/ InboundDecoded(c)
                             \/ OutboundEncoded(c) \/ WriteNext(c)
    BY <1>2, StartDecodeKeeps, InboundDecodedKeeps, OutboundEncodedKeeps, ConnectionAlone
  <1>3. CASE \E c \in Conns :
               \/ \E k \in 1 .. MaxChunk : DataArrives(c, k)
               \/ SendPacket(c) \/ SendRawPayload(c) \/ SendOverflows(c)
               \/ SocketCloses(c)
    BY <1>3, SendPacketKeeps, ConnectionAlone
  <1>4. CASE Dispatch
    <2>1. Dispatch /\ UNCHANGED poolVars
      BY <1>4 DEF Dispatch
    <2> QED BY <2>1, PoolUnchanged, DispatchKeeps DEF IInv
  <1> QED BY <1>1, <1>2, <1>3, <1>4 DEF Next, Turn

(* Whatever runs, answers, fails or closes, each task of the codec pool is *)
(* in one place and the decode chain, the write chain and the dispatch     *)
(* list of every connection hold the packets it has admitted, in order.    *)
THEOREM Invariance == Spec => []IInv
  <1> QED BY InitKeeps, NextKeeps, PTL DEF Spec

(* No task somebody waits for waits in the queue of the pool beside an     *)
(* idle worker or below poolSize, whatever fails or times out: every       *)
(* handler of ServiceTaskPool that frees a worker or a place drains, and   *)
(* when run() is cut short by a throwing new Worker() the only task it can *)
(* leave behind is its own, whose promise it has rejected.                 *)
THEOREM NoTaskWaits == Spec => []NoTaskWaitsForAFreeWorker
  <1>1. IInv => NoTaskWaitsForAFreeWorker
    BY DEF IInv, PoolInv, NobodyWaits
  <1> QED BY <1>1, Invariance, PTL

--------------------------------------------------------------------------------
(* The connections as ordered channels. *)

(* Packets are admitted, in one direction.                                 *)
LEMMA ReceivingIsAccept ==
    ASSUME IInv, NEW c \in Conns, NEW k \in 1 .. MaxChunk, DataArrives(c, k)
    PROVE  Channels!Accept(c, "in")
  <1>1. PICK v : received' = [received EXCEPT ![c] = v]
    BY DEF DataArrives
  <1>2. /\ c \in open /\ open' \in {open, open \ {c}}
        /\ UNCHANGED <<sent, dispatched, written>>
    BY DEF DataArrives, outVars
  <1>3. received'[c] >= received[c] /\ received'[c] = v
        /\ DOMAIN received = Conns /\ DOMAIN sent = Conns
    BY <1>1, DataArrivesKeeps DEF IInv, SessionInv, SessionTypes
  <1>4. Delivered' = Delivered
    BY <1>2 DEF DataArrives, Delivered
  <1>5. Accepted' = [Accepted EXCEPT ![c]["in"] = v]
        /\ Accepted[c]["in"] = received[c]
    BY <1>1, <1>2, <1>3 DEF Accepted, Delivered, Ways
  <1>6. Accepted'[c]["in"] = v
    BY <1>1, <1>3 DEF Accepted, Ways
  <1> QED BY <1>2, <1>3, <1>4, <1>5, <1>6 DEF Channels!Accept

LEMMA SendingIsAccept ==
    ASSUME IInv, NEW c \in Conns, SendPacket(c) \/ SendRawPayload(c)
    PROVE  Channels!Accept(c, "out")
  <1>1. /\ c \in open /\ UNCHANGED <<open, received, dispatched, written>>
        /\ sent' = [sent EXCEPT ![c] = sent[c] + 1]
    BY DEF SendPacket, SendRawPayload, CanSend, Enqueue, inVars
  <1>2. DOMAIN received = Conns /\ DOMAIN sent = Conns /\ sent[c] \in Nat
    BY DEF IInv, SessionInv, SessionTypes
  <1>3. Delivered' = Delivered
    BY <1>1 DEF Accepted, Delivered
  <1>4. Accepted' = [Accepted EXCEPT ![c]["out"] = sent[c] + 1]
        /\ Accepted[c]["out"] = sent[c]
    BY <1>1, <1>2 DEF Accepted, Delivered, Ways
  <1>5. Accepted'[c]["out"] = sent[c] + 1
    BY <1>1, <1>2 DEF Accepted, Ways
  <1>6. Accepted'[c]["out"] >= Accepted[c]["out"]
    BY <1>2, <1>4, <1>5
  <1>7. Accepted' = [Accepted EXCEPT ![c]["out"] = Accepted'[c]["out"]]
    BY <1>4, <1>5
  <1> QED BY <1>1, <1>3, <1>6, <1>7 DEF Channels!Accept

(* The next packet of a direction comes out.                               *)
LEMMA WritingIsDeliver ==
    ASSUME IInv, NEW c \in Conns, c \in open, Len(written[c]) < sent[c],
           written' = [written EXCEPT ![c] = Append(written[c], Len(written[c]) + 1)],
           UNCHANGED <<open, received, sent, dispatched>>
    PROVE  Channels!Deliver(c, "out")
  <1>1. DOMAIN dispatched = Conns /\ DOMAIN written = Conns
        /\ DOMAIN received = Conns /\ DOMAIN sent = Conns
    BY DEF IInv, SessionInv, SessionTypes
  <1>2. Accepted' = Accepted
    BY DEF Accepted, Delivered
  <1>3. Accepted[c]["out"] = sent[c] /\ Delivered[c]["out"] = written[c]
    BY <1>1 DEF Accepted, Delivered, Ways
  <1>4. Delivered' = [Delivered EXCEPT ![c]["out"] = Append(written[c], Len(written[c]) + 1)]
    BY <1>1 DEF Accepted, Delivered, Ways
  <1> QED BY <1>2, <1>3, <1>4 DEF Channels!Deliver

LEMMA DispatchIsDeliver ==
    ASSUME IInv, Dispatch
    PROVE  \/ UNCHANGED <<open, Accepted, Delivered>>
           \/ \E c \in Conns : Channels!Deliver(c, "in")
  <1>1. PICK h : h = Head(pendingDispatches)
    OBVIOUS
  <1>2. /\ pendingDispatches # <<>>
        /\ dispatched' = IF h.conn \in open
                         THEN [dispatched EXCEPT ![h.conn] = Append(dispatched[h.conn], h.n)]
                         ELSE dispatched
        /\ UNCHANGED <<open, received, inbound, sent, written>>
    BY <1>1 DEF Dispatch, outVars
  <1>3. CASE h.conn \notin open
    BY <1>2, <1>3 DEF Accepted, Delivered
  <1>4. CASE h.conn \in open
    <2>1. PICK c \in Conns : c = h.conn
      BY <1>1, <1>2, <1>4, DispatchedIsNext DEF IInv
    <2>2. h.n = Len(dispatched[c]) + 1 /\ h.n <= Done(c)
      BY <1>1, <1>2, <1>4, <2>1, DispatchedIsNext DEF IInv
    <2>3. Len(dispatched[c]) < received[c]
      <3>1. /\ received[c] \in Nat /\ Len(inbound[c]) \in Nat /\ Len(dispatched[c]) \in Nat
        BY DEF IInv, SessionInv, SessionTypes
      <3> QED BY <2>2, <3>1 DEF Done
    <2>4. DOMAIN dispatched = Conns /\ DOMAIN written = Conns
          /\ DOMAIN received = Conns /\ DOMAIN sent = Conns
      BY DEF IInv, SessionInv, SessionTypes
    <2>5. Accepted' = Accepted
      BY <1>2 DEF Accepted, Delivered
    <2>6. Accepted[c]["in"] = received[c] /\ Delivered[c]["in"] = dispatched[c]
      BY <2>4 DEF Accepted, Delivered, Ways
    <2>7. dispatched' = [dispatched EXCEPT ![c] = Append(dispatched[c], Len(dispatched[c]) + 1)]
      BY <1>2, <1>4, <2>1, <2>2
    <2>8. Delivered' = [Delivered EXCEPT ![c]["in"] = Append(dispatched[c], Len(dispatched[c]) + 1)]
      BY <1>2, <2>4, <2>7 DEF Accepted, Delivered, Ways
    <2>9. Channels!Deliver(c, "in")
      BY <1>2, <1>4, <2>1, <2>3, <2>5, <2>6, <2>8 DEF Channels!Deliver
    <2> QED BY <2>9
  <1> QED BY <1>3, <1>4

(* Steps that only close a connection, or nothing of the kind.             *)
LEMMA OthersCloseOrStutter ==
    ASSUME IInv, NEW c \in Conns,
           \/ StartDecode(c) \/ InboundDecoded(c) \/ OutboundEncoded(c)
           \/ SendOverflows(c) \/ SocketCloses(c)
           \/ WriteNext(c) /\ UNCHANGED written
    PROVE  UNCHANGED <<open, Accepted, Delivered>> \/ Channels!Close(c)
  <1>1. UNCHANGED <<received, sent, dispatched, written>>
    BY DEF StartDecode, InboundDecoded, OutboundEncoded, SendOverflows, SocketCloses, WriteNext,
           inVars, outVars
  <1>2. open' = open \/ open' = open \ {c}
    BY DEF StartDecode, InboundDecoded, OutboundEncoded, SendOverflows, SocketCloses, WriteNext
  <1>3. Accepted' = Accepted /\ Delivered' = Delivered
    BY <1>1 DEF Accepted, Delivered
  <1>4. open' = open \/ (c \in open /\ open' = open \ {c})
    BY <1>2
  <1> QED BY <1>3, <1>4 DEF Channels!Close

LEMMA StepOfChannels ==
    ASSUME IInv, [Next]_vars
    PROVE  [Channels!ChannelsNext]_<<open, Accepted, Delivered>>
  <1> USE DEF Channels!ChannelsNext, Channels!Ways
  <1>1. CASE Drain \/ Event \/ Thread \/ UNCHANGED vars
    <2>1. UNCHANGED <<open, received, sent, dispatched, written>>
      BY <1>1 DEF Drain, Event, Thread, Sessions, vars, inVars, outVars
    <2> QED BY <2>1 DEF Accepted, Delivered
  <1>2. CASE Dispatch
    BY <1>2, DispatchIsDeliver
  <1>3. ASSUME NEW c \in Conns,
               \/ StartDecode(c) \/ InboundDecoded(c) \/ OutboundEncoded(c)
               \/ SendOverflows(c) \/ SocketCloses(c)
               \/ WriteNext(c) /\ UNCHANGED written
        PROVE  [Channels!ChannelsNext]_<<open, Accepted, Delivered>>
    BY <1>3, OthersCloseOrStutter
  <1>4. ASSUME NEW c \in Conns, WriteNext(c), written' # written
        PROVE  [Channels!ChannelsNext]_<<open, Accepted, Delivered>>
    <2>1. /\ c \in open /\ UNCHANGED open
          /\ Len(written[c]) < sent[c]
          /\ written' = [written EXCEPT ![c] = Append(written[c], Len(written[c]) + 1)]
      BY <1>4, WriteNextKeeps DEF IInv
    <2>2. UNCHANGED <<received, sent, dispatched>>
      BY <1>4 DEF WriteNext, inVars
    <2>3. Channels!Deliver(c, "out")
      BY <2>1, <2>2, WritingIsDeliver
    <2> QED BY <2>3
  <1>5. ASSUME NEW c \in Conns, SendPacket(c) \/ SendRawPayload(c)
        PROVE  [Channels!ChannelsNext]_<<open, Accepted, Delivered>>
    BY <1>5, SendingIsAccept
  <1>6. ASSUME NEW c \in Conns, NEW k \in 1 .. MaxChunk, DataArrives(c, k)
        PROVE  [Channels!ChannelsNext]_<<open, Accepted, Delivered>>
    BY <1>6, ReceivingIsAccept
  <1>7. \/ Drain \/ Event \/ Thread \/ UNCHANGED vars \/ Dispatch
        \/ \E c \in Conns :
             \/ StartDecode(c) \/ InboundDecoded(c) \/ OutboundEncoded(c) \/ WriteNext(c)
             \/ \E k \in 1 .. MaxChunk : DataArrives(c, k)
             \/ SendPacket(c) \/ SendRawPayload(c) \/ SendOverflows(c)
             \/ SocketCloses(c)
    BY DEF Next, Turn
  <1> HIDE DEF Channels!ChannelsNext, Channels!Ways
  <1> QED BY <1>1, <1>2, <1>3, <1>4, <1>5, <1>6, <1>7

LEMMA InitOfChannels == Init => Channels!ChannelsInit
  BY DEF Init, Channels!ChannelsInit, Channels!Ways, Accepted, Delivered, Ways

(* For every number of connections, packets, workers and faults: packets   *)
(* are dispatched in the order in which they were received and written in  *)
(* the order in which they were sent, none left out, and a connection      *)
(* whose socket is destroyed gets nothing more. It rests on a decode       *)
(* result always being that of the first packet of inboundCodecTail, and   *)
(* on the links of _outboundWriteTail keeping their places.                *)
THEOREM PacketsStayInOrder == Spec => ImplementsOrderedChannels
  <1>1. Init => Channels!ChannelsInit
    BY InitOfChannels
  <1>2. IInv /\ [Next]_vars => [Channels!ChannelsNext]_(Channels!channelVars)
    BY StepOfChannels DEF Channels!channelVars
  <1> QED BY <1>1, <1>2, Invariance, PTL
          DEF Spec, ImplementsOrderedChannels, Channels!ChannelsSpec


--------------------------------------------------------------------------------
(* The records of the workers. *)

(* A worker of the pool is idle or has the one pending task that records it. *)
WorkersOK ==
    /\ workers \subseteq Workers
    /\ idleWorkers \in Seq(Workers)
    /\ IsInjective(idleWorkers)
    /\ Range(idleWorkers) = {w \in workers : serviceTask[w] = NoTask}
    /\ \A t \in Tasks, w \in Workers :
         pending[t] = w <=> w \in workers /\ serviceTask[w] = t
    /\ faults \in 0 .. MaxFaults

(* A sequence without its d-th element. *)
LEMMA TakingOut ==
    ASSUME NEW S, NEW s \in Seq(S), NEW d \in DOMAIN s
    PROVE  /\ RemoveAt(s, d) \in Seq(S)
           /\ DOMAIN RemoveAt(s, d) = 1 .. Len(s) - 1
           /\ \A i \in DOMAIN RemoveAt(s, d) :
                /\ i \in Nat
                /\ i < d => i \in DOMAIN s /\ RemoveAt(s, d)[i] = s[i]
                /\ ~(i < d) => i + 1 \in DOMAIN s /\ RemoveAt(s, d)[i] = s[i + 1]
  <1>1. d \in Nat /\ 1 <= d /\ d <= Len(s) /\ Len(s) \in Nat /\ DOMAIN s = 1 .. Len(s)
    OBVIOUS
  <1>2. PICK a, b : a = SubSeq(s, 1, d - 1) /\ b = SubSeq(s, d + 1, Len(s))
    OBVIOUS
  <1>3. /\ a \in Seq(S) /\ Len(a) = d - 1
        /\ \A i \in 1 .. d - 1 : a[i] = s[i]
    BY <1>1, <1>2
  <1>4. /\ b \in Seq(S) /\ Len(b) = Len(s) - d
        /\ \A i \in 1 .. Len(s) - d : b[i] = s[i + d]
    BY <1>1, <1>2
  <1>5. PICK u : u = a \o b
    OBVIOUS
  <1>6. /\ u \in Seq(S)
        /\ Len(u) = Len(a) + Len(b)
        /\ \A i \in 1 .. Len(a) + Len(b) : u[i] = IF i <= Len(a) THEN a[i] ELSE b[i - Len(a)]
    BY <1>3, <1>4, <1>5, ConcatProperties
  <1>7. Len(a) + Len(b) = Len(s) - 1
    BY <1>1, <1>3, <1>4
  <1>8. DOMAIN u = 1 .. Len(s) - 1
    BY <1>6, <1>7
  <1>9. ASSUME NEW i \in 1 .. Len(s) - 1
        PROVE  /\ i \in Nat
               /\ i < d => i \in DOMAIN s /\ u[i] = s[i]
               /\ ~(i < d) => i + 1 \in DOMAIN s /\ u[i] = s[i + 1]
    <2>1. CASE i < d
      <3>1. i \in 1 .. d - 1 /\ i <= Len(a) /\ i \in 1 .. Len(a) + Len(b) /\ i \in DOMAIN s
        BY <2>1, <1>1, <1>3, <1>7
      <3> QED BY <3>1, <2>1, <1>3, <1>6
    <2>2. CASE ~(i < d)
      <3>1. /\ i - Len(a) \in 1 .. Len(s) - d /\ (i - Len(a)) + d = i + 1
            /\ ~(i <= Len(a)) /\ i \in 1 .. Len(a) + Len(b) /\ i + 1 \in DOMAIN s
        BY <2>2, <1>1, <1>3, <1>7
      <3>2. b[i - Len(a)] = s[i + 1]
        BY <3>1, <1>4
      <3> QED BY <2>2, <3>1, <3>2, <1>6
    <2> QED BY <2>1, <2>2
  <1>10. u = RemoveAt(s, d)
    BY <1>2, <1>5 DEF RemoveAt
  <1> QED BY <1>6, <1>8, <1>9, <1>10

(* The idle list without w, which it holds once at most. *)
LEMMA IdleWithoutOne ==
    ASSUME NEW w \in Workers, idleWorkers \in Seq(Workers), IsInjective(idleWorkers)
    PROVE  /\ IdleWithout(w) \in Seq(Workers)
           /\ IsInjective(IdleWithout(w))
           /\ Range(IdleWithout(w)) = Range(idleWorkers) \ {w}
  <1>1. PICK s : s = idleWorkers
    OBVIOUS
  <1>2. s \in Seq(Workers) /\ \A i, j \in DOMAIN s : s[i] = s[j] => i = j
    BY <1>1 DEF IsInjective
  <1>3. CASE w \in Range(s)
    <2>1. \E i \in DOMAIN s : s[i] = w
      BY <1>3 DEF Range
    <2>2. PICK d \in DOMAIN s : d = CHOOSE i \in DOMAIN s : s[i] = w
      BY <2>1
    <2>3. s[d] = w
      BY <2>1, <2>2
    <2>4. PICK r : r = RemoveAt(s, d)
      OBVIOUS
    <2>5. IdleWithout(w) = r
      BY <1>1, <1>3, <2>2, <2>4 DEF IdleWithout
    <2>6. /\ r \in Seq(Workers) /\ DOMAIN r = 1 .. Len(s) - 1
          /\ \A i \in DOMAIN r :
               /\ i \in Nat
               /\ i < d => i \in DOMAIN s /\ r[i] = s[i]
               /\ ~(i < d) => i + 1 \in DOMAIN s /\ r[i] = s[i + 1]
      BY <1>2, <2>4, TakingOut
    <2>7. d \in 1 .. Len(s) /\ Len(s) \in Nat /\ DOMAIN s = 1 .. Len(s)
      BY <1>2
    <2>8. \A i, j \in DOMAIN r : r[i] = r[j] => i = j
      <3>1. ASSUME NEW i \in DOMAIN r, NEW j \in DOMAIN r, r[i] = r[j]
            PROVE  i = j
        <4>1. CASE i < d /\ j < d
          BY <1>2, <2>6, <3>1, <4>1
        <4>2. CASE ~(i < d) /\ ~(j < d)
          <5>1. i + 1 = j + 1
            BY <1>2, <2>6, <3>1, <4>2
          <5> QED BY <2>6, <5>1
        <4>3. CASE i < d /\ ~(j < d)
          <5>1. i = j + 1
            BY <1>2, <2>6, <3>1, <4>3
          <5> QED BY <2>6, <2>7, <4>3, <5>1
        <4>4. CASE ~(i < d) /\ j < d
          <5>1. i + 1 = j
            BY <1>2, <2>6, <3>1, <4>4
          <5> QED BY <2>6, <2>7, <4>4, <5>1
        <4> QED BY <4>1, <4>2, <4>3, <4>4
      <3> QED BY <3>1
    <2>9. \A i \in DOMAIN r : \E k \in DOMAIN s : k # d /\ r[i] = s[k]
      <3>1. ASSUME NEW i \in DOMAIN r
            PROVE  \E k \in DOMAIN s : k # d /\ r[i] = s[k]
        <4>1. CASE i < d
          BY <2>6, <2>7, <4>1
        <4>2. CASE ~(i < d)
          <5>1. i + 1 \in DOMAIN s /\ r[i] = s[i + 1] /\ i + 1 # d
            BY <2>6, <2>7, <4>2
          <5> QED BY <5>1
        <4> QED BY <4>1, <4>2
      <3> QED BY <3>1
    <2>10. \A k \in DOMAIN s : k # d => \E i \in DOMAIN r : r[i] = s[k]
      <3>1. ASSUME NEW k \in DOMAIN s, k # d
            PROVE  \E i \in DOMAIN r : r[i] = s[k]
        <4>1. CASE k < d
          <5>1. k \in DOMAIN r
            BY <2>6, <2>7, <4>1
          <5> QED BY <2>6, <4>1, <5>1
        <4>2. CASE ~(k < d)
          <5>1. k - 1 \in DOMAIN r /\ ~(k - 1 < d) /\ (k - 1) + 1 = k
            BY <2>6, <2>7, <3>1, <4>2
          <5> QED BY <2>6, <5>1
        <4> QED BY <4>1, <4>2
      <3> QED BY <3>1
    <2>11. \A v : v \in Range(r) <=> v \in Range(s) /\ v # w
      BY <1>2, <2>3, <2>9, <2>10 DEF Range
    <2> QED BY <1>1, <2>5, <2>6, <2>8, <2>11 DEF IsInjective
  <1>4. CASE w \notin Range(s)
    BY <1>1, <1>2, <1>4 DEF IdleWithout, IsInjective
  <1> QED BY <1>3, <1>4

(* The worker that became idle last is taken. *)
LEMMA Popping ==
    ASSUME NEW S, NEW s \in Seq(S), s # <<>>, IsInjective(s)
    PROVE  /\ Front(s) \in Seq(S) /\ IsInjective(Front(s))
           /\ Last(s) \in S /\ Last(s) \in Range(s)
           /\ Range(Front(s)) = Range(s) \ {Last(s)}
  <1>1. PICK n, f : n = Len(s) /\ f = Front(s)
    OBVIOUS
  <1>2. n \in Nat /\ n > 0 /\ DOMAIN s = 1 .. n /\ Last(s) = s[n] /\ s[n] \in S
    BY <1>1 DEF Last
  <1>3. f \in Seq(S) /\ DOMAIN f = 1 .. n - 1 /\ \A i \in 1 .. n - 1 : f[i] = s[i]
    BY <1>1, <1>2 DEF Front
  <1>4. \A i, j \in DOMAIN s : s[i] = s[j] => i = j
    BY DEF IsInjective
  <1>5. \A v : v \in Range(f) <=> v \in Range(s) /\ v # s[n]
    <2>1. \A i \in DOMAIN f : i \in DOMAIN s /\ f[i] = s[i] /\ i # n
      BY <1>2, <1>3
    <2>2. \A i \in DOMAIN s : i = n \/ (i \in DOMAIN f /\ f[i] = s[i])
      BY <1>2, <1>3
    <2> QED BY <1>2, <1>4, <2>1, <2>2 DEF Range
  <1>6. IsInjective(f)
    <2>1. \A i, j \in DOMAIN f : f[i] = f[j] => i = j
      BY <1>2, <1>3, <1>4
    <2> QED BY <2>1 DEF IsInjective
  <1>7. s[n] \in Range(s)
    BY <1>2 DEF Range
  <1>8. Range(f) = Range(s) \ {s[n]}
    BY <1>5
  <1> QED BY <1>1, <1>2, <1>3, <1>6, <1>7, <1>8

(* What _drain chooses is a worker without a task, or none of the pool's. *)
LEMMA ChosenIsFree ==
    ASSUME WorkersOK, NEW w \in Workers, Chosen(w)
    PROVE  /\ Popped \in Seq(Workers) /\ IsInjective(Popped)
           /\ Range(Popped) = Range(idleWorkers) \ {w}
           /\ w \in workers => serviceTask[w] = NoTask
           /\ \A t \in Tasks : pending[t] # w
  <1>1. PICK s : s = idleWorkers
    OBVIOUS
  <1>2. s \in Seq(Workers) /\ IsInjective(s) /\ Range(s) = {v \in workers : serviceTask[v] = NoTask}
    BY <1>1 DEF WorkersOK
  <1>3. CASE s # <<>>
    <2>1. w = Last(s) /\ Popped = Front(s)
      BY <1>1, <1>3 DEF Chosen, Popped
    <2>2. /\ Front(s) \in Seq(Workers) /\ IsInjective(Front(s))
          /\ w \in Range(s) /\ Range(Front(s)) = Range(s) \ {w}
      BY <1>2, <1>3, <2>1, Popping
    <2> QED BY <1>1, <1>2, <2>1, <2>2, PoolAssumption DEF WorkersOK
  <1>4. CASE s = <<>>
    <2>1. w \notin workers /\ Popped = s
      BY <1>1, <1>4 DEF Chosen, Popped
    <2>2. w \notin Range(s)
      BY <1>2, <2>1
    <2> QED BY <1>1, <1>2, <2>1, <2>2 DEF WorkersOK
  <1> QED BY <1>3, <1>4

LEMMA AssignTaskWorkers ==
    ASSUME PoolInv, WorkersOK, NEW w \in Workers, AssignTask(w)
    PROVE  WorkersOK'
  <1>1. PICK t : t = Head(queue)
    OBVIOUS
  <1>2. t \in Tasks /\ t \notin Active /\ t # NoTask
    BY <1>1, TakingHead, PoolAssumption DEF AssignTask, Chosen
  <1>3. /\ workers' = workers \cup {w} /\ idleWorkers' = Popped
        /\ pending' = [pending EXCEPT ![t] = w]
        /\ serviceTask' = [serviceTask EXCEPT ![w] = t]
        /\ faults' = faults
    BY <1>1 DEF AssignTask
  <1>4. /\ Popped \in Seq(Workers) /\ IsInjective(Popped)
        /\ Range(Popped) = Range(idleWorkers) \ {w}
        /\ \A u \in Tasks : pending[u] # w
    BY ChosenIsFree DEF AssignTask
  <1>5. serviceTask'[w] = t /\ \A v \in Workers \ {w} : serviceTask'[v] = serviceTask[v]
    BY <1>3 DEF PoolInv, PoolTypes
  <1>6. pending'[t] = w /\ \A u \in Tasks \ {t} : pending'[u] = pending[u]
    BY <1>2, <1>3 DEF PoolInv, PoolTypes
  <1>7. \A v \in Workers : pending[t] # v
    BY <1>2, PoolAssumption DEF Active
  <1>8. Range(idleWorkers') = {v \in workers' : serviceTask'[v] = NoTask}
    <2>1. Range(idleWorkers') = {v \in workers : serviceTask[v] = NoTask} \ {w}
      BY <1>3, <1>4 DEF WorkersOK
    <2> QED BY <1>2, <1>3, <1>5, <2>1 DEF WorkersOK
  <1>9. ASSUME NEW u \in Tasks, NEW v \in Workers
        PROVE  pending'[u] = v <=> v \in workers' /\ serviceTask'[v] = u
    <2>1. pending[u] = v <=> v \in workers /\ serviceTask[v] = u
      BY DEF WorkersOK
    <2>2. CASE u = t
      BY <1>3, <1>5, <1>6, <1>7, <2>1, <2>2
    <2>3. CASE u # t
      <3>1. CASE v = w
        BY <1>4, <1>5, <1>6, <2>3, <3>1
      <3>2. CASE v # w
        BY <1>3, <1>5, <1>6, <2>1, <2>3, <3>2
      <3> QED BY <3>1, <3>2
    <2> QED BY <2>2, <2>3
  <1>10. idleWorkers' \in Seq(Workers) /\ IsInjective(idleWorkers')
    BY <1>3, <1>4
  <1> QED BY <1>3, <1>8, <1>9, <1>10 DEF WorkersOK

LEMMA FaultCounted ==
    ASSUME faults \in 0 .. MaxFaults, Fault \/ UNCHANGED faults
    PROVE  faults' \in 0 .. MaxFaults
  BY PoolAssumption DEF Fault

LEMMA PostFailsWorkers ==
    ASSUME PoolInv, WorkersOK, NEW w \in Workers, PostFails(w)
    PROVE  WorkersOK'
  <1>1. /\ workers' = workers \ {w} /\ idleWorkers' = Popped
        /\ UNCHANGED <<pending, serviceTask>> /\ Fault
    BY DEF PostFails
  <1>2. /\ Popped \in Seq(Workers) /\ IsInjective(Popped)
        /\ Range(Popped) = Range(idleWorkers) \ {w}
        /\ \A u \in Tasks : pending[u] # w
    BY ChosenIsFree DEF PostFails
  <1>3. faults' \in 0 .. MaxFaults
    BY <1>1, FaultCounted DEF WorkersOK
  <1>4. Range(idleWorkers') = {v \in workers' : serviceTask'[v] = NoTask}
    BY <1>1, <1>2 DEF WorkersOK
  <1>5. \A u \in Tasks, v \in Workers : pending'[u] = v <=> v \in workers' /\ serviceTask'[v] = u
    BY <1>1, <1>2 DEF WorkersOK
  <1>6. idleWorkers' \in Seq(Workers) /\ IsInjective(idleWorkers') /\ workers' \subseteq Workers
    BY <1>1, <1>2 DEF WorkersOK
  <1> QED BY <1>3, <1>4, <1>5, <1>6 DEF WorkersOK

LEMMA HandleMessageWorkers ==
    ASSUME PoolInv, WorkersOK, NEW w \in Workers, HandleMessage(w)
    PROVE  WorkersOK'
  <1>1. PICK t : t = threads[w].task
    OBVIOUS
  <1>2. t \in Tasks /\ pending[t] = w /\ t # NoTask
    BY <1>1, PoolAssumption DEF HandleMessage, PoolInv, PoolTypes
  <1>3. /\ pending' = [pending EXCEPT ![t] = NoWorker]
        /\ serviceTask' = [serviceTask EXCEPT ![w] = NoTask]
        /\ idleWorkers' = Append(idleWorkers, w)
        /\ UNCHANGED <<workers, faults>>
    BY <1>1 DEF HandleMessage
  <1>4. w \in workers /\ serviceTask[w] = t /\ w \notin Range(idleWorkers)
    BY <1>2 DEF WorkersOK
  <1>5. serviceTask'[w] = NoTask /\ \A v \in Workers \ {w} : serviceTask'[v] = serviceTask[v]
    BY <1>3 DEF PoolInv, PoolTypes
  <1>6. pending'[t] = NoWorker /\ \A u \in Tasks \ {t} : pending'[u] = pending[u]
    BY <1>2, <1>3 DEF PoolInv, PoolTypes
  <1>7. /\ idleWorkers' \in Seq(Workers) /\ IsInjective(idleWorkers')
        /\ Range(idleWorkers') = Range(idleWorkers) \cup {w}
    <2>1. PICK s, z : s = idleWorkers /\ z = Append(s, w)
      OBVIOUS
    <2>2. s \in Seq(Workers) /\ w \notin Range(s) /\ \A i, j \in DOMAIN s : s[i] = s[j] => i = j
      BY <1>4, <2>1 DEF WorkersOK, IsInjective
    <2>3. z \in Seq(Workers) /\ Range(z) = Range(s) \cup {w} /\ \A i, j \in DOMAIN z : z[i] = z[j] => i = j
      BY <2>1, <2>2, Adding, AddingDistinct
    <2>4. IsInjective(z)
      BY <2>3 DEF IsInjective
    <2> QED BY <1>3, <2>1, <2>3, <2>4
  <1>8. Range(idleWorkers') = {v \in workers' : serviceTask'[v] = NoTask}
    <2>1. Range(idleWorkers') = {v \in workers : serviceTask[v] = NoTask} \cup {w}
      BY <1>7 DEF WorkersOK
    <2> QED BY <1>3, <1>4, <1>5, <2>1 DEF WorkersOK
  <1>9. ASSUME NEW u \in Tasks, NEW v \in Workers
        PROVE  pending'[u] = v <=> v \in workers' /\ serviceTask'[v] = u
    <2>1. pending[u] = v <=> v \in workers /\ serviceTask[v] = u
      BY DEF WorkersOK
    <2>2. CASE v = w
      <3>1. serviceTask'[v] # u
        BY <1>5, <2>2, PoolAssumption
      <3>2. pending'[u] # v
        <4>1. CASE u = t
          BY <1>6, <4>1, PoolAssumption
        <4>2. CASE u # t
          BY <1>4, <1>6, <2>1, <2>2, <4>2
        <4> QED BY <4>1, <4>2
      <3> QED BY <3>1, <3>2
    <2>3. CASE v # w
      <3>1. CASE u = t
        BY <1>2, <1>3, <1>5, <1>6, <2>1, <2>3, <3>1, PoolAssumption
      <3>2. CASE u # t
        BY <1>3, <1>5, <1>6, <2>1, <2>3, <3>2
      <3> QED BY <3>1, <3>2
    <2> QED BY <2>2, <2>3
  <1> QED BY <1>3, <1>7, <1>8, <1>9 DEF WorkersOK

LEMMA WorkerFailureWorkers ==
    ASSUME PoolInv, WorkersOK, NEW w \in Workers, HandleWorkerFailure(w)
    PROVE  WorkersOK'
  <1>1. /\ w \in workers /\ workers' = workers \ {w} /\ idleWorkers' = IdleWithout(w)
        /\ serviceTask' = [serviceTask EXCEPT ![w] = NoTask]
        /\ faults' = faults
    BY DEF HandleWorkerFailure
  <1>2. \A v \in Workers \ {w} : serviceTask'[v] = serviceTask[v]
    BY <1>1 DEF PoolInv, PoolTypes
  <1>3. /\ idleWorkers' \in Seq(Workers) /\ IsInjective(idleWorkers')
        /\ Range(idleWorkers') = Range(idleWorkers) \ {w}
    BY <1>1, IdleWithoutOne DEF WorkersOK
  <1>4. Range(idleWorkers') = {v \in workers' : serviceTask'[v] = NoTask}
    BY <1>1, <1>2, <1>3 DEF WorkersOK
  <1>5. \A u \in Tasks : /\ pending[u] = w => pending'[u] = NoWorker
                         /\ pending[u] # w => pending'[u] = pending[u]
    <2>1. CASE serviceTask[w] # NoTask /\ pending[serviceTask[w]] # NoWorker
      <3>1. PICK t \in Tasks : t = serviceTask[w]
        BY <2>1 DEF PoolInv, PoolTypes
      <3>2. pending' = [pending EXCEPT ![t] = NoWorker]
        BY <2>1, <3>1 DEF HandleWorkerFailure
      <3>3. \A u \in Tasks : pending[u] = w <=> u = t
        BY <1>1, <3>1 DEF WorkersOK
      <3> QED BY <3>2, <3>3 DEF PoolInv, PoolTypes
    <2>2. CASE ~(serviceTask[w] # NoTask /\ pending[serviceTask[w]] # NoWorker)
      <3>1. pending' = pending
        BY <2>2 DEF HandleWorkerFailure
      <3>2. \A u \in Tasks : pending[u] # w
        BY <2>2, PoolAssumption DEF WorkersOK
      <3> QED BY <3>1, <3>2
    <2> QED BY <2>1, <2>2
  <1>6. ASSUME NEW u \in Tasks, NEW v \in Workers
        PROVE  pending'[u] = v <=> v \in workers' /\ serviceTask'[v] = u
    <2>1. pending[u] = v <=> v \in workers /\ serviceTask[v] = u
      BY DEF WorkersOK
    <2>2. CASE v = w
      BY <1>1, <1>5, <2>2, PoolAssumption
    <2>3. CASE v # w
      BY <1>1, <1>2, <1>5, <2>1, <2>3, PoolAssumption
    <2> QED BY <2>2, <2>3
  <1> QED BY <1>1, <1>3, <1>4, <1>6 DEF WorkersOK

LEMMA WorkersUnchanged ==
    ASSUME WorkersOK, UNCHANGED <<workers, idleWorkers, pending, serviceTask>>,
           Fault \/ UNCHANGED faults
    PROVE  WorkersOK'
  <1>1. faults' \in 0 .. MaxFaults
    BY FaultCounted DEF WorkersOK
  <1> QED BY <1>1 DEF WorkersOK

LEMMA PoolWorkers ==
    ASSUME PoolInv, WorkersOK, DrainStep \/ PoolEvent \/ ThreadStep
    PROVE  WorkersOK'
  <1>1. CASE \E w \in Workers : AssignTask(w) \/ PostFails(w) \/ HandleMessage(w) \/ HandleWorkerFailure(w)
    BY <1>1, AssignTaskWorkers, PostFailsWorkers, HandleMessageWorkers, WorkerFailureWorkers
  <1>2. CASE \E t \in Tasks : TaskTimesOut(t)
    <2>1. PICK t \in Tasks : TaskTimesOut(t)
      BY <1>2
    <2>2. PICK w \in Workers : w = pending[t]
      BY <2>1 DEF TaskTimesOut, PoolInv, PoolTypes
    <2>3. HandleWorkerFailure(w)
      BY <2>1, <2>2 DEF TaskTimesOut
    <2> QED BY <2>3, WorkerFailureWorkers
  <1>3. CASE \E w \in Workers : WorkerFails(w)
    BY <1>3, WorkerFailureWorkers DEF WorkerFails
  <1>4. CASE DrainEnds \/ SpawnFails \/ ThreadStep \/ \E w \in Workers : LateMessageIgnored(w)
    <2>1. UNCHANGED <<workers, idleWorkers, pending, serviceTask>> /\ (Fault \/ UNCHANGED faults)
      BY <1>4 DEF DrainEnds, SpawnFails, ThreadStep, ThreadAnswers, ThreadDies, LateMessageIgnored
    <2> QED BY <2>1, WorkersUnchanged
  <1> QED BY <1>1, <1>2, <1>3, <1>4 DEF DrainStep, PoolEvent

--------------------------------------------------------------------------------
(* The promises somebody waits for. *)

(* What a connection waits for: its first packet is being decoded, or a    *)
(* packet it sent is to be encoded.                                        *)
Due(t) ==
    \/ \E c \in decoding : t = Packet(c, "in", Head(inbound[c]))
    \/ \E c \in Conns : \E i \in DOMAIN outbound[c] :
         outbound[c][i].encoded = "waiting" /\ t = Packet(c, "out", outbound[c][i].n)

Counted == Promised \subseteq codecTasks /\ codecTasks \subseteq Promised \cup Settling

PromisesOK == Counted /\ \A t : t \in Promised \cup Settling <=> Due(t)

(* A step of the pool settles promises and makes none.                     *)
PoolMoves ==
    /\ Promised' \subseteq Promised
    /\ Promised' \cup Settling' = Promised \cup Settling

LEMMA SettledMore ==
    ASSUME PoolTypes, NEW t \in Tasks, NEW ok \in BOOLEAN,
           settled' = Append(settled, [task |-> t, ok |-> ok])
    PROVE  Settling' = Settling \cup {t}
  <1>1. PICK s, e, R : s = settled /\ e = [task |-> t, ok |-> ok] /\ R = [task : Tasks, ok : BOOLEAN]
    OBVIOUS
  <1>2. s \in Seq(R) /\ e \in R /\ e.task = t
    BY <1>1 DEF PoolTypes
  <1>3. PICK z : z = Append(s, e)
    OBVIOUS
  <1>4. /\ \A i \in DOMAIN s : i \in DOMAIN z /\ z[i] = s[i]
        /\ Len(s) + 1 \in DOMAIN z /\ z[Len(s) + 1] = e
        /\ \A i \in DOMAIN z : i \in DOMAIN s \/ i = Len(s) + 1
    <2>1. DOMAIN Append(s, e) = 1 .. Len(s) + 1 /\ Len(s) \in Nat
      BY <1>2, Adding
    <2> QED BY <1>2, <1>3, <2>1, Adding
  <1>5. {z[i].task : i \in DOMAIN z} = {s[i].task : i \in DOMAIN s} \cup {t}
    BY <1>2, <1>4
  <1> QED BY <1>1, <1>3, <1>5 DEF Settling

LEMMA SettleMoves ==
    ASSUME PoolTypes, OnePlace, NEW t \in Tasks, t \in Range(queue) \cup Active,
           NEW ok \in BOOLEAN, Settle(t, ok),
           Range(queue') \cup Active' = (Range(queue) \cup Active) \ {t}
    PROVE  PoolMoves
  <1>1. abandoned' = abandoned \ {t}
    BY DEF Settle
  <1>2. CASE t \in abandoned
    <2>1. Settling' = Settling
      BY <1>2 DEF Settle, Settling
    <2>2. Promised' = Promised
      BY <1>1, <1>2 DEF Promised
    <2> QED BY <2>1, <2>2 DEF PoolMoves
  <1>3. CASE t \notin abandoned
    <2>1. settled' = Append(settled, [task |-> t, ok |-> ok])
      BY <1>3 DEF Settle
    <2>2. Settling' = Settling \cup {t}
      BY <2>1, SettledMore
    <2>3. t \in Promised /\ Promised' = Promised \ {t}
      BY <1>1, <1>3 DEF Promised
    <2> QED BY <2>2, <2>3 DEF PoolMoves
  <1> QED BY <1>2, <1>3

LEMMA NothingMoves ==
    ASSUME UNCHANGED <<settled, abandoned>>,
           Range(queue') \cup Active' = Range(queue) \cup Active
    PROVE  PoolMoves
  BY DEF PoolMoves, Promised, Settling

LEMMA AssignTaskMoves ==
    ASSUME PoolInv, NEW w \in Workers, AssignTask(w)
    PROVE  PoolMoves
  <1>1. PICK t, q : t = Head(queue) /\ q = Tail(queue)
    OBVIOUS
  <1>2. t \in Tasks /\ t \in Range(queue) /\ Range(q) = Range(queue) \ {t}
    BY <1>1, TakingHead DEF AssignTask, Chosen
  <1>3. queue' = q /\ pending' = [pending EXCEPT ![t] = w] /\ UNCHANGED <<settled, abandoned>>
    BY <1>1 DEF AssignTask
  <1>4. Active' = Active \cup {t}
    BY <1>2, <1>3, PoolAssumption DEF Active, PoolInv, PoolTypes
  <1>5. Range(queue') \cup Active' = Range(queue) \cup Active
    BY <1>2, <1>3, <1>4
  <1> QED BY <1>3, <1>5, NothingMoves

LEMMA PostFailsMoves ==
    ASSUME PoolInv, NEW w \in Workers, PostFails(w)
    PROVE  PoolMoves
  <1>1. PICK t, q : t = Head(queue) /\ q = Tail(queue)
    OBVIOUS
  <1>2. t \in Tasks /\ t \in Range(queue) /\ t \notin Active /\ Range(q) = Range(queue) \ {t}
    BY <1>1, TakingHead DEF PostFails, Chosen
  <1>3. queue' = q /\ pending' = pending /\ Settle(t, FALSE)
    BY <1>1 DEF PostFails
  <1>4. Range(queue') \cup Active' = (Range(queue) \cup Active) \ {t}
    BY <1>2, <1>3 DEF Active
  <1> QED BY <1>2, <1>3, <1>4, SettleMoves DEF PoolInv

LEMMA SpawnFailsMoves ==
    ASSUME PoolInv, SpawnFails
    PROVE  PoolMoves
  <1>1. PICK t : t = Last(queue)
    OBVIOUS
  <1>2. /\ drain = "run" /\ queue # <<>>
        /\ settled' = Append(settled, [task |-> t, ok |-> FALSE])
        /\ abandoned' = abandoned \cup {t}
        /\ UNCHANGED <<queue, pending>>
    BY <1>1 DEF SpawnFails
  <1>3. Len(queue) \in DOMAIN queue /\ t = queue[Len(queue)] /\ t \in Tasks
    BY <1>1, <1>2 DEF PoolInv, PoolTypes, Last
  <1>4. t \in Range(queue) /\ t \notin abandoned
    BY <1>2, <1>3 DEF PoolInv, NobodyWaits, Range
  <1>5. Settling' = Settling \cup {t}
    BY <1>2, <1>3, SettledMore DEF PoolInv
  <1>6. Promised' = Promised \ {t} /\ t \in Promised
    BY <1>2, <1>4 DEF Promised, Active
  <1> QED BY <1>5, <1>6 DEF PoolMoves

LEMMA WorkerTaskMoves ==
    ASSUME PoolInv, NEW t \in Tasks, pending[t] # NoWorker, NEW ok \in BOOLEAN, Settle(t, ok),
           pending' = [pending EXCEPT ![t] = NoWorker], queue' = queue
    PROVE  PoolMoves
  <1>1. Active' = Active \ {t} /\ t \in Active
    BY DEF Active, PoolInv, PoolTypes
  <1>2. Range(queue') \cup Active' = (Range(queue) \cup Active) \ {t}
    BY <1>1 DEF PoolInv, OnePlace, Range
  <1> QED BY <1>1, <1>2, SettleMoves DEF PoolInv

LEMMA HandleMessageMoves ==
    ASSUME PoolInv, NEW w \in Workers, HandleMessage(w)
    PROVE  PoolMoves
  <1>1. PICK t, ok : t = threads[w].task /\ ok = (threads[w].state = "result")
    OBVIOUS
  <1>2. /\ t \in Tasks /\ pending[t] # NoWorker /\ ok \in BOOLEAN /\ Settle(t, ok)
        /\ pending' = [pending EXCEPT ![t] = NoWorker] /\ queue' = queue
    BY <1>1, PoolAssumption DEF HandleMessage, PoolInv, PoolTypes
  <1> QED BY <1>2, WorkerTaskMoves

LEMMA WorkerFailureMoves ==
    ASSUME PoolInv, NEW w \in Workers, HandleWorkerFailure(w)
    PROVE  PoolMoves
  <1>1. queue' = queue
    BY DEF HandleWorkerFailure
  <1>2. CASE serviceTask[w] # NoTask /\ pending[serviceTask[w]] # NoWorker
    <2>1. PICK t \in Tasks, no \in BOOLEAN : t = serviceTask[w] /\ no = FALSE
      BY <1>2 DEF PoolInv, PoolTypes
    <2>2. pending[t] # NoWorker /\ pending' = [pending EXCEPT ![t] = NoWorker] /\ Settle(t, no)
      BY <1>2, <2>1 DEF HandleWorkerFailure
    <2> QED BY <1>1, <2>2, WorkerTaskMoves
  <1>3. CASE ~(serviceTask[w] # NoTask /\ pending[serviceTask[w]] # NoWorker)
    <2>1. UNCHANGED <<pending, settled, abandoned>>
      BY <1>3 DEF HandleWorkerFailure
    <2> QED BY <1>1, <2>1, NothingMoves DEF Active, Range
  <1> QED BY <1>2, <1>3

LEMMA PoolStepMoves ==
    ASSUME PoolInv, DrainStep \/ PoolEvent \/ ThreadStep
    PROVE  PoolMoves
  <1>1. CASE \E w \in Workers : AssignTask(w) \/ PostFails(w) \/ HandleMessage(w) \/ HandleWorkerFailure(w)
    BY <1>1, AssignTaskMoves, PostFailsMoves, HandleMessageMoves, WorkerFailureMoves
  <1>2. CASE \E t \in Tasks : TaskTimesOut(t)
    <2>1. PICK t \in Tasks : TaskTimesOut(t)
      BY <1>2
    <2>2. PICK w \in Workers : w = pending[t]
      BY <2>1 DEF TaskTimesOut, PoolInv, PoolTypes
    <2>3. HandleWorkerFailure(w)
      BY <2>1, <2>2 DEF TaskTimesOut
    <2> QED BY <2>3, WorkerFailureMoves
  <1>3. CASE \E w \in Workers : WorkerFails(w)
    BY <1>3, WorkerFailureMoves DEF WorkerFails
  <1>4. CASE DrainEnds \/ ThreadStep \/ \E w \in Workers : LateMessageIgnored(w)
    <2>1. UNCHANGED <<queue, pending, settled, abandoned>>
      BY <1>4 DEF DrainEnds, ThreadStep, ThreadAnswers, ThreadDies, LateMessageIgnored
    <2> QED BY <2>1, NothingMoves DEF Active, Range
  <1>5. CASE SpawnFails
    BY <1>5, SpawnFailsMoves
  <1> QED BY <1>1, <1>2, <1>3, <1>4, <1>5 DEF DrainStep, PoolEvent

(* runCodecTask: the promise is made, and counted unless the task was      *)
(* turned away at once.                                                    *)
LEMMA RunCodecTaskPromises ==
    ASSUME PoolInv, Counted, NEW t \in Tasks, t \notin Held, RunCodecTask(t)
    PROVE  /\ Counted'
           /\ Promised' \cup Settling' = Promised \cup Settling \cup {t}
           /\ UNCHANGED <<workers, idleWorkers, pending, serviceTask, faults>>
           /\ codecTasks' \subseteq codecTasks \cup {t}
  <1>1. t \notin Range(queue) \cup Active \cup Settling /\ t \notin abandoned
    BY DEF Held, PoolInv, OnePlace
  <1>2. UNCHANGED <<workers, idleWorkers, pending, serviceTask, faults, abandoned>> /\ Active' = Active
    BY DEF RunCodecTask, Run, RunRejected, Active
  <1>3. CASE queue' = Append(queue, t)
    <2>1. codecTasks' = codecTasks \cup {t} /\ settled' = settled
      <3>1. queue' # queue
        BY <1>3 DEF PoolInv, PoolTypes
      <3> QED BY <3>1 DEF RunCodecTask, Run, RunRejected
    <2>2. Range(queue') = Range(queue) \cup {t}
      <3>1. PICK q : q = queue
        OBVIOUS
      <3>2. q \in Seq(Tasks) /\ t \notin Range(q) /\ \A i, j \in DOMAIN q : q[i] = q[j] => i = j
        BY <1>1, <3>1 DEF PoolInv, PoolTypes, OnePlace
      <3>3. Range(Append(q, t)) = Range(q) \cup {t}
        BY <3>2, AddingDistinct
      <3> QED BY <1>3, <3>1, <3>3
    <2>3. Promised' = Promised \cup {t} /\ Settling' = Settling
      BY <1>1, <1>2, <2>1, <2>2 DEF Promised, Settling
    <2> QED BY <1>2, <2>1, <2>3 DEF Counted
  <1>4. CASE queue' # Append(queue, t)
    <2>1. /\ settled' = Append(settled, [task |-> t, ok |-> FALSE]) /\ queue' = queue
          /\ codecTasks' = codecTasks \/ codecTasks' = codecTasks \cup {t}
      BY <1>4 DEF RunCodecTask, Run, RunRejected
    <2>2. Settling' = Settling \cup {t}
      BY <2>1, SettledMore DEF PoolInv
    <2>3. Promised' = Promised
      BY <1>2, <2>1 DEF Promised, Range
    <2> QED BY <1>2, <2>1, <2>2, <2>3 DEF Counted
  <1> QED BY <1>3, <1>4

(* Its end: the promise is gone, and no longer counted.                    *)
LEMMA FinishPromises ==
    ASSUME PoolInv, Counted, settled # <<>>, NEW t, t = Head(settled).task, FinishCodecTask(t)
    PROVE  /\ Counted'
           /\ t \in Settling
           /\ Promised' \cup Settling' = (Promised \cup Settling) \ {t}
           /\ UNCHANGED <<workers, idleWorkers, pending, serviceTask, faults>>
           /\ codecTasks' \subseteq codecTasks
  <1>1. /\ settled' = Tail(settled) /\ codecTasks' = codecTasks \ {t}
        /\ UNCHANGED <<queue, workers, idleWorkers, pending, serviceTask, faults, abandoned>>
    BY DEF FinishCodecTask
  <1>2. PICK s, R : s = settled /\ R = [task : Tasks, ok : BOOLEAN]
    OBVIOUS
  <1>3. /\ s \in Seq(R) /\ s # <<>>
        /\ \A i, j \in DOMAIN s : s[i].task = s[j].task => i = j
    BY <1>2 DEF PoolInv, PoolTypes, OnePlace
  <1>4. /\ TasksIn(s) = {t} \cup TasksIn(Tail(s)) /\ t \notin TasksIn(Tail(s))
    BY <1>2, <1>3, TakingTasks
  <1>5. Settling = Settling' \cup {t} /\ t \notin Settling'
    BY <1>1, <1>2, <1>4, SettlingIsTasksIn
  <1>6. t \notin Promised /\ Promised' = Promised
    BY <1>1, <1>5 DEF PoolInv, OnePlace, Promised, Active, Range
  <1> QED BY <1>1, <1>5, <1>6 DEF Counted

AccountsOK ==
    /\ WorkersOK
    /\ PromisesOK
    /\ codecTasks \subseteq Tasks
    /\ paused \subseteq Conns
    /\ dispatchTurnScheduled \in BOOLEAN

LEMMA PacketFields ==
    ASSUME NEW c, NEW w, NEW n
    PROVE  Packet(c, w, n).conn = c /\ Packet(c, w, n).way = w /\ Packet(c, w, n).n = n
  BY DEF Packet

DueIn(t) == \E c \in decoding : t = Packet(c, "in", Head(inbound[c]))

DueOut(t, c) ==
    \E i \in DOMAIN outbound[c] :
      outbound[c][i].encoded = "waiting" /\ t = Packet(c, "out", outbound[c][i].n)

LEMMA DueParts ==
    /\ \A t : Due(t) <=> DueIn(t) \/ \E c \in Conns : DueOut(t, c)
    /\ \A t : Due(t)' <=> DueIn(t)' \/ \E c \in Conns : DueOut(t, c)'
  BY DEF Due, DueIn, DueOut

(* Steps of the pool, and of the connections by themselves. *)
LEMMA PoolAccounts ==
    ASSUME PoolInv, AccountsOK, DrainStep \/ PoolEvent \/ ThreadStep, UNCHANGED Sessions
    PROVE  AccountsOK'
  <1>1. PoolMoves
    BY PoolStepMoves
  <1>2. UNCHANGED <<codecTasks, paused, dispatchTurnScheduled, decoding, inbound, outbound>>
    BY DEF Sessions, inVars, outVars
  <1>3. WorkersOK'
    BY PoolWorkers DEF AccountsOK
  <1>4. \A t : Due(t)' <=> Due(t)
    BY <1>2 DEF Due
  <1>5. PromisesOK'
    <2>1. Counted /\ \A t : t \in Promised \cup Settling <=> Due(t)
      BY DEF AccountsOK, PromisesOK
    <2>2. Counted'
      BY <1>1, <1>2, <2>1 DEF Counted, PoolMoves
    <2> QED BY <1>1, <1>4, <2>1, <2>2 DEF PromisesOK, PoolMoves
  <1> QED BY <1>2, <1>3, <1>5 DEF AccountsOK

LEMMA AccountsAside ==
    ASSUME AccountsOK, UNCHANGED poolVars, codecTasks' = codecTasks,
           \A t : Due(t)' <=> Due(t),
           paused' \subseteq Conns, dispatchTurnScheduled' \in BOOLEAN
    PROVE  AccountsOK'
  <1>1. UNCHANGED <<queue, workers, idleWorkers, pending, serviceTask, settled, abandoned, faults>>
    BY DEF poolVars
  <1>2. WorkersOK'
    BY <1>1, WorkersUnchanged DEF AccountsOK
  <1>3. Promised' = Promised /\ Settling' = Settling
    BY <1>1 DEF Promised, Settling, Active, Range
  <1>4. PromisesOK'
    BY <1>3 DEF AccountsOK, PromisesOK, Counted
  <1> QED BY <1>2, <1>4 DEF AccountsOK

LEMMA DataArrivesAccounts ==
    ASSUME IInv, AccountsOK, NEW c \in Conns, NEW k \in 1 .. MaxChunk, DataArrives(c, k)
    PROVE  AccountsOK'
  <1>1. /\ UNCHANGED poolVars /\ UNCHANGED <<codecTasks, decoding, dispatchTurnScheduled, outbound>>
        /\ paused' \subseteq Conns
    BY DEF DataArrives, outVars, AccountsOK
  <1>2. \E x : inbound' = [inbound EXCEPT ![c] = inbound[c] \o x] /\ x \in Seq(Nat)
    <2>1. PICK taken : taken = IF k <= InboundLimit - Len(inbound[c]) THEN k
                               ELSE InboundLimit - Len(inbound[c])
      OBVIOUS
    <2>2. /\ inbound[c] \in Seq(Nat) /\ received[c] \in Nat /\ Len(inbound[c]) <= InboundLimit
          /\ InboundLimit \in Nat
      BY PipelineAssumption DEF IInv, SessionInv, SessionTypes, DecodeChain
    <2>3. taken \in Nat
      BY <2>1, <2>2
    <2>4. [i \in 1 .. taken |-> received[c] + i] \in Seq(Nat)
      BY <2>2, <2>3
    <2>5. inbound' = [inbound EXCEPT ![c] = inbound[c] \o [i \in 1 .. taken |-> received[c] + i]]
      BY <2>1 DEF DataArrives
    <2> QED BY <2>4, <2>5
  <1>3. PICK x \in Seq(Nat) : inbound' = [inbound EXCEPT ![c] = inbound[c] \o x]
    BY <1>2
  <1>4. \A d \in decoding : Head(inbound'[d]) = Head(inbound[d])
    <2>1. ASSUME NEW d \in decoding
          PROVE  Head(inbound'[d]) = Head(inbound[d])
      <3>1. d \in Conns /\ inbound \in [Conns -> Seq(Nat)] /\ inbound[d] # <<>>
        BY DEF IInv, SessionInv, SessionTypes, DecodeChain
      <3>2. CASE d = c
        <4>1. PICK s : s = inbound[c]
          OBVIOUS
        <4>2. s \in Seq(Nat) /\ s # <<>>
          BY <3>1, <3>2, <4>1
        <4>3. Head(s \o x) = Head(s)
          BY <4>2
        <4> QED BY <1>3, <3>1, <3>2, <4>1, <4>3
      <3>3. CASE d # c
        BY <1>3, <3>1, <3>3
      <3> QED BY <3>2, <3>3
    <2> QED BY <2>1
  <1>5. \A t : Due(t)' <=> Due(t)
    <2>1. \A t : DueIn(t)' <=> DueIn(t)
      BY <1>1, <1>4 DEF DueIn
    <2>2. \A t, d : DueOut(t, d)' <=> DueOut(t, d)
      BY <1>1 DEF DueOut
    <2> QED BY <2>1, <2>2, DueParts
  <1>6. dispatchTurnScheduled' \in BOOLEAN
    BY <1>1 DEF AccountsOK
  <1> QED BY <1>1, <1>5, <1>6, AccountsAside

(* The write chain gets a packet at its end. *)
LEMMA EnqueueDue ==
    ASSUME IInv, NEW c \in Conns, NEW e \in {"waiting", "ready"}, Enqueue(c, e)
    PROVE  \A t : \A d \in Conns :
             DueOut(t, d)' <=> \/ DueOut(t, d)
                               \/ d = c /\ e = "waiting" /\ t = Packet(c, "out", sent[c] + 1)
  <1>1. PICK s, x, R : /\ s = outbound[c] /\ x = [n |-> sent[c] + 1, encoded |-> e]
                       /\ R = [n : Nat, encoded : {"waiting", "ready", "failed"}]
    OBVIOUS
  <1>2. s \in Seq(R) /\ x \in R /\ outbound \in [Conns -> Seq(R)]
    BY <1>1 DEF IInv, SessionInv, SessionTypes
  <1>3. PICK z : z = Append(s, x)
    OBVIOUS
  <1>4. outbound' = [outbound EXCEPT ![c] = z]
    BY <1>1, <1>3 DEF Enqueue
  <1>5. outbound'[c] = z /\ \A d \in Conns \ {c} : outbound'[d] = outbound[d]
    BY <1>2, <1>4
  <1>6. /\ \A i \in DOMAIN s : i \in DOMAIN z /\ z[i] = s[i]
        /\ Len(s) + 1 \in DOMAIN z /\ z[Len(s) + 1] = x
        /\ \A i \in DOMAIN z : i \in DOMAIN s \/ i = Len(s) + 1
    <2>1. DOMAIN Append(s, x) = 1 .. Len(s) + 1 /\ Len(s) \in Nat
      BY <1>2, Adding
    <2> QED BY <1>2, <1>3, <2>1, Adding
  <1>7. x.n = sent[c] + 1 /\ x.encoded = e
    BY <1>1
  <1>8. ASSUME NEW t
        PROVE  DueOut(t, c)' <=> \/ DueOut(t, c)
                                 \/ e = "waiting" /\ t = Packet(c, "out", sent[c] + 1)
    <2>1. DueOut(t, c)' <=> \E i \in DOMAIN z : z[i].encoded = "waiting" /\ t = Packet(c, "out", z[i].n)
      BY <1>5 DEF DueOut
    <2>2. DueOut(t, c) <=> \E i \in DOMAIN s : s[i].encoded = "waiting" /\ t = Packet(c, "out", s[i].n)
      BY <1>1 DEF DueOut
    <2>3. (\E i \in DOMAIN z : z[i].encoded = "waiting" /\ t = Packet(c, "out", z[i].n))
            <=> \/ \E i \in DOMAIN s : s[i].encoded = "waiting" /\ t = Packet(c, "out", s[i].n)
                \/ x.encoded = "waiting" /\ t = Packet(c, "out", x.n)
      BY <1>6
    <2> QED BY <1>7, <2>1, <2>2, <2>3
  <1>9. ASSUME NEW t, NEW d \in Conns, d # c
        PROVE  DueOut(t, d)' <=> DueOut(t, d)
    BY <1>5, <1>9 DEF DueOut
  <1> QED BY <1>8, <1>9

LEMMA SendRawPayloadAccounts ==
    ASSUME IInv, AccountsOK, NEW c \in Conns, SendRawPayload(c)
    PROVE  AccountsOK'
  <1>1. /\ UNCHANGED poolVars
        /\ UNCHANGED <<codecTasks, paused, decoding, inbound, dispatchTurnScheduled>>
    BY DEF SendRawPayload, inVars
  <1>2. \A t : \A d \in Conns : DueOut(t, d)' <=> DueOut(t, d)
    <2>1. PICK e \in {"waiting", "ready"} : e = "ready"
      OBVIOUS
    <2>2. Enqueue(c, e)
      BY <2>1 DEF SendRawPayload
    <2> QED BY <2>1, <2>2, EnqueueDue
  <1>3. \A t : DueIn(t)' <=> DueIn(t)
    BY <1>1 DEF DueIn
  <1>4. \A t : Due(t)' <=> Due(t)
    BY <1>2, <1>3, DueParts
  <1> QED BY <1>1, <1>4, AccountsAside DEF AccountsOK

LEMMA WriteNextAccounts ==
    ASSUME IInv, AccountsOK, NEW c \in Conns, WriteNext(c)
    PROVE  AccountsOK'
  <1>1. /\ UNCHANGED poolVars
        /\ UNCHANGED <<codecTasks, paused, decoding, inbound, dispatchTurnScheduled>>
    BY DEF WriteNext, inVars
  <1>2. PICK s, R : s = outbound[c] /\ R = [n : Nat, encoded : {"waiting", "ready", "failed"}]
    OBVIOUS
  <1>3. s \in Seq(R) /\ outbound \in [Conns -> Seq(R)]
    BY <1>2 DEF IInv, SessionInv, SessionTypes
  <1>4. s # <<>> /\ Head(s).encoded # "waiting"
    BY <1>2 DEF WriteNext, WriteDue
  <1>5. PICK z : z = Tail(s)
    OBVIOUS
  <1>6. outbound' = [outbound EXCEPT ![c] = z]
    BY <1>2, <1>5 DEF WriteNext
  <1>7. outbound'[c] = z /\ \A d \in Conns \ {c} : outbound'[d] = outbound[d]
    BY <1>3, <1>6
  <1>8. /\ s[1].encoded # "waiting"
        /\ \A i \in DOMAIN z : i + 1 \in DOMAIN s /\ z[i] = s[i + 1]
        /\ \A i \in DOMAIN s : i = 1 \/ (i - 1 \in DOMAIN z /\ z[i - 1] = s[i])
    BY <1>3, <1>4, <1>5, TakingIndexes
  <1>9. ASSUME NEW t
        PROVE  DueOut(t, c)' <=> DueOut(t, c)
    <2>1. DueOut(t, c)' <=> \E i \in DOMAIN z : z[i].encoded = "waiting" /\ t = Packet(c, "out", z[i].n)
      BY <1>7 DEF DueOut
    <2>2. DueOut(t, c) <=> \E i \in DOMAIN s : s[i].encoded = "waiting" /\ t = Packet(c, "out", s[i].n)
      BY <1>2 DEF DueOut
    <2>3. (\E i \in DOMAIN z : z[i].encoded = "waiting" /\ t = Packet(c, "out", z[i].n))
            <=> \E i \in DOMAIN s : s[i].encoded = "waiting" /\ t = Packet(c, "out", s[i].n)
      BY <1>8
    <2> QED BY <2>1, <2>2, <2>3
  <1>10. ASSUME NEW t, NEW d \in Conns, d # c
         PROVE  DueOut(t, d)' <=> DueOut(t, d)
    BY <1>7, <1>10 DEF DueOut
  <1>11. \A t : DueIn(t)' <=> DueIn(t)
    BY <1>1 DEF DueIn
  <1>12. \A t : Due(t)' <=> Due(t)
    BY <1>9, <1>10, <1>11, DueParts
  <1> QED BY <1>1, <1>12, AccountsAside DEF AccountsOK

LEMMA OthersAccounts ==
    ASSUME AccountsOK,
           \/ \E c \in Conns : SendOverflows(c) \/ SocketCloses(c)
           \/ Dispatch \/ UNCHANGED vars
    PROVE  AccountsOK'
  <1>1. /\ UNCHANGED poolVars
        /\ UNCHANGED <<codecTasks, paused, decoding, inbound, outbound>>
    BY DEF SendOverflows, SocketCloses, Dispatch, vars, inVars, outVars
  <1>2. dispatchTurnScheduled' \in BOOLEAN
    <2>1. CASE Dispatch
      BY <2>1 DEF Dispatch
    <2>2. CASE ~Dispatch
      <3>1. dispatchTurnScheduled' = dispatchTurnScheduled
        BY <2>2 DEF SendOverflows, SocketCloses, vars, inVars
      <3> QED BY <3>1 DEF AccountsOK
    <2> QED BY <2>1, <2>2
  <1>3. \A t : Due(t)' <=> Due(t)
    BY <1>1 DEF Due
  <1> QED BY <1>1, <1>2, <1>3, AccountsAside DEF AccountsOK

(* A codec task begins, and ends, exactly when its connection starts, and  *)
(* stops, waiting for it.                                                  *)
LEMMA NewPromiseAccounts ==
    ASSUME PoolInv, AccountsOK, NEW t \in Tasks, t \notin Held, RunCodecTask(t),
           \A u : Due(u)' <=> Due(u) \/ u = t,
           paused' \subseteq Conns, dispatchTurnScheduled' \in BOOLEAN
    PROVE  AccountsOK'
  <1>1. Counted /\ (\A u : u \in Promised \cup Settling <=> Due(u)) /\ WorkersOK /\ codecTasks \subseteq Tasks
    BY DEF AccountsOK, PromisesOK
  <1>2. /\ Counted'
        /\ Promised' \cup Settling' = Promised \cup Settling \cup {t}
        /\ UNCHANGED <<workers, idleWorkers, pending, serviceTask, faults>>
        /\ codecTasks' \subseteq codecTasks \cup {t}
    BY <1>1, RunCodecTaskPromises
  <1>3. WorkersOK'
    BY <1>1, <1>2, WorkersUnchanged
  <1>4. \A u : u \in Promised' \cup Settling' <=> Due(u)'
    BY <1>1, <1>2
  <1> QED BY <1>1, <1>2, <1>3, <1>4 DEF AccountsOK, PromisesOK

LEMMA PromiseEndsAccounts ==
    ASSUME PoolInv, AccountsOK, settled # <<>>, NEW t, t = Head(settled).task, FinishCodecTask(t),
           \A u : Due(u)' <=> Due(u) /\ u # t,
           paused' \subseteq Conns, dispatchTurnScheduled' \in BOOLEAN
    PROVE  AccountsOK'
  <1>1. Counted /\ (\A u : u \in Promised \cup Settling <=> Due(u)) /\ WorkersOK /\ codecTasks \subseteq Tasks
    BY DEF AccountsOK, PromisesOK
  <1>2. /\ Counted'
        /\ Promised' \cup Settling' = (Promised \cup Settling) \ {t}
        /\ UNCHANGED <<workers, idleWorkers, pending, serviceTask, faults>>
        /\ codecTasks' \subseteq codecTasks
    BY <1>1, FinishPromises
  <1>3. WorkersOK'
    BY <1>1, <1>2, WorkersUnchanged
  <1>4. \A u : u \in Promised' \cup Settling' <=> Due(u)'
    BY <1>1, <1>2
  <1> QED BY <1>1, <1>2, <1>3, <1>4 DEF AccountsOK, PromisesOK

LEMMA StartDecodeAccounts ==
    ASSUME IInv, AccountsOK, NEW c \in Conns, StartDecode(c)
    PROVE  AccountsOK'
  <1>1. PICK t : t = Packet(c, "in", Head(inbound[c]))
    OBVIOUS
  <1>2. DecodeDue(c) /\ RunCodecTask(t) /\ t \in Tasks /\ t \notin Held
    BY <1>1, DecodeIsNew DEF IInv, StartDecode
  <1>3. /\ decoding' = decoding \cup {c}
        /\ UNCHANGED <<inbound, outbound, paused, dispatchTurnScheduled>>
    BY DEF StartDecode, outVars
  <1>4. \A u : DueIn(u)' <=> DueIn(u) \/ u = t
    BY <1>1, <1>3 DEF DueIn
  <1>5. \A u, d : DueOut(u, d)' <=> DueOut(u, d)
    BY <1>3 DEF DueOut
  <1>6. \A u : Due(u)' <=> Due(u) \/ u = t
    BY <1>4, <1>5, DueParts
  <1>7. paused' \subseteq Conns /\ dispatchTurnScheduled' \in BOOLEAN
    BY <1>3 DEF AccountsOK
  <1> QED BY <1>2, <1>6, <1>7, NewPromiseAccounts DEF IInv

LEMMA SendPacketAccounts ==
    ASSUME IInv, AccountsOK, NEW c \in Conns, SendPacket(c)
    PROVE  AccountsOK'
  <1>1. PICK t : t = Packet(c, "out", sent[c] + 1)
    OBVIOUS
  <1>2. /\ Enqueue(c, "waiting") /\ RunCodecTask(t) /\ sent[c] < MaxPackets[c]["out"]
        /\ sent[c] \in Nat
        /\ UNCHANGED <<inbound, decoding, paused, dispatchTurnScheduled>>
    BY <1>1 DEF SendPacket, Enqueue, inVars, IInv, SessionInv, SessionTypes
  <1>3. t \notin Held
    <2> SUFFICES ASSUME t \in Held PROVE FALSE
      OBVIOUS
    <2>1. t.way = "out" /\ t.conn = c /\ t.n = sent[c] + 1
      BY <1>1, PacketFields
    <2>2. t.n <= sent[t.conn]
      BY <2>1 DEF IInv, SessionInv, TasksOfPackets
    <2> QED BY <1>2, <2>1, <2>2
  <1>4. t \in Tasks
    <2>1. MaxPackets[c]["out"] \in Nat
      BY PipelineAssumption DEF Ways
    <2>2. sent[c] + 1 \in 1 .. MaxPackets[c]["out"]
      BY <1>2, <2>1
    <2> QED BY <1>1, <2>2, PipelineAssumption DEF Ways
  <1>5. \A u : \A d \in Conns : DueOut(u, d)' <=> DueOut(u, d) \/ (d = c /\ u = t)
    <2>1. PICK e \in {"waiting", "ready"} : e = "waiting"
      OBVIOUS
    <2>2. Enqueue(c, e)
      BY <1>2, <2>1
    <2> QED BY <1>1, <2>1, <2>2, EnqueueDue
  <1>6. \A u : DueIn(u)' <=> DueIn(u)
    BY <1>2 DEF DueIn
  <1>7. \A u : Due(u)' <=> Due(u) \/ u = t
    BY <1>5, <1>6, DueParts
  <1>8. paused' \subseteq Conns /\ dispatchTurnScheduled' \in BOOLEAN
    BY <1>2 DEF AccountsOK
  <1> QED BY <1>2, <1>3, <1>4, <1>7, <1>8, NewPromiseAccounts DEF IInv

(* The promise that settles is one its connection waits for.               *)
LEMMA SettledIsDue ==
    ASSUME PoolInv, AccountsOK, settled # <<>>, NEW t, t = Head(settled).task, FinishCodecTask(t)
    PROVE  Due(t)
  <1>1. Counted /\ \A u : u \in Promised \cup Settling <=> Due(u)
    BY DEF AccountsOK, PromisesOK
  <1>2. t \in Settling
    BY <1>1, FinishPromises
  <1> QED BY <1>1, <1>2

LEMMA InboundDecodedAccounts ==
    ASSUME IInv, AccountsOK, NEW c \in Conns, InboundDecoded(c)
    PROVE  AccountsOK'
  <1>1. PICK t : t = Head(settled).task
    OBVIOUS
  <1>2. settled # <<>> /\ FinishCodecTask(t) /\ t.way = "in" /\ t.conn = c
    BY <1>1 DEF InboundDecoded
  <1>3. /\ decoding' = decoding \ {c}
        /\ inbound' = [inbound EXCEPT ![c] = Tail(inbound[c])]
        /\ outbound' = outbound
    BY DEF InboundDecoded, outVars
  <1>4. \A d \in Conns \ {c} : inbound'[d] = inbound[d]
    BY <1>3 DEF IInv, SessionInv, SessionTypes
  <1>5. Due(t)
    BY <1>1, <1>2, SettledIsDue DEF IInv
  <1>6. c \in decoding /\ t = Packet(c, "in", Head(inbound[c]))
    <2>1. ~\E d \in Conns : DueOut(t, d)
      BY <1>2, PacketFields DEF DueOut
    <2>2. PICK d \in decoding : t = Packet(d, "in", Head(inbound[d]))
      BY <1>5, <2>1, DueParts DEF DueIn
    <2>3. d = c
      BY <1>2, <2>2, PacketFields
    <2> QED BY <2>2, <2>3
  <1>7. decoding \subseteq Conns
    BY DEF IInv, SessionInv, SessionTypes
  <1>8. ASSUME NEW u
        PROVE  DueIn(u)' <=> DueIn(u) /\ u # t
    <2>1. ASSUME DueIn(u)'
          PROVE  DueIn(u) /\ u # t
      <3>1. PICK d \in decoding' : u = Packet(d, "in", Head(inbound'[d]))
        BY <2>1 DEF DueIn
      <3>2. d \in decoding /\ d # c /\ inbound'[d] = inbound[d]
        BY <1>3, <1>4, <1>7, <3>1
      <3>3. u # t
        BY <1>2, <3>1, <3>2, PacketFields
      <3> QED BY <3>1, <3>2, <3>3 DEF DueIn
    <2>2. ASSUME DueIn(u), u # t
          PROVE  DueIn(u)'
      <3>1. PICK d \in decoding : u = Packet(d, "in", Head(inbound[d]))
        BY <2>2 DEF DueIn
      <3>2. d # c
        BY <1>6, <2>2, <3>1
      <3>3. d \in decoding' /\ inbound'[d] = inbound[d]
        BY <1>3, <1>4, <1>7, <3>2
      <3> QED BY <3>1, <3>3 DEF DueIn
    <2> QED BY <2>1, <2>2
  <1>9. \A u, d : (DueOut(u, d)' <=> DueOut(u, d)) /\ (DueOut(u, d) => u # t)
    BY <1>2, <1>3, PacketFields DEF DueOut
  <1>10. \A u : Due(u)' <=> Due(u) /\ u # t
    BY <1>8, <1>9, DueParts
  <1>11. paused' \subseteq Conns /\ dispatchTurnScheduled' \in BOOLEAN
    BY DEF InboundDecoded, AccountsOK
  <1> QED BY <1>1, <1>2, <1>10, <1>11, PromiseEndsAccounts DEF IInv

LEMMA OutboundEncodedAccounts ==
    ASSUME IInv, AccountsOK, NEW c \in Conns, OutboundEncoded(c)
    PROVE  AccountsOK'
  <1>1. PICK t, b : t = Head(settled).task /\ b = IF Head(settled).ok THEN "ready" ELSE "failed"
    OBVIOUS
  <1>2. /\ settled # <<>> /\ FinishCodecTask(t) /\ b \in {"ready", "failed"}
        /\ t.way = "out" /\ t.conn = c
        /\ outbound' = [outbound EXCEPT ![c] =
                          [i \in DOMAIN outbound[c] |->
                             IF outbound[c][i].n = t.n
                             THEN [outbound[c][i] EXCEPT !.encoded = b]
                             ELSE outbound[c][i]]]
        /\ UNCHANGED <<inbound, decoding, paused, dispatchTurnScheduled>>
    BY <1>1 DEF OutboundEncoded, inVars
  <1>3. outbound \in [Conns -> Links] /\ outbound[c] \in Links
    BY DEF IInv, SessionInv, SessionTypes, Links
  <1>4. PICK R : R = [n : Nat, encoded : {"waiting", "ready", "failed"}]
    OBVIOUS
  <1>5. PICK s, m : s = outbound[c] /\ m = t.n
    OBVIOUS
  <1>6. s \in Seq(R) /\ \A i \in DOMAIN s : s[i] \in R
    BY <1>3, <1>4, <1>5, Elements DEF Links
  <1>7. PICK z : z = [i \in DOMAIN s |-> IF s[i].n = m THEN [s[i] EXCEPT !.encoded = b] ELSE s[i]]
    OBVIOUS
  <1>8. outbound'[c] = z /\ \A d \in Conns \ {c} : outbound'[d] = outbound[d]
    BY <1>2, <1>3, <1>5, <1>7
  <1>9. DOMAIN z = DOMAIN s
    BY <1>7
  <1>10. ASSUME NEW i \in DOMAIN s
         PROVE  z[i].n = s[i].n /\ (z[i].encoded = "waiting" <=> s[i].encoded = "waiting" /\ s[i].n # m)
    <2>1. PICK r : r = s[i]
      OBVIOUS
    <2>2. r \in R
      BY <1>6, <2>1
    <2>3. z[i] = IF r.n = m THEN [r EXCEPT !.encoded = b] ELSE r
      BY <1>7, <2>1
    <2>4. CASE r.n = m
      <3>1. [r EXCEPT !.encoded = b].n = r.n /\ [r EXCEPT !.encoded = b].encoded = b
        BY <1>4, <2>2
      <3> QED BY <1>2, <2>1, <2>3, <2>4, <3>1
    <2>5. CASE r.n # m
      BY <2>1, <2>3, <2>5
    <2> QED BY <2>4, <2>5
  <1>11. ASSUME NEW u
         PROVE  DueOut(u, c)' <=> DueOut(u, c) /\ u # t
    <2>1. DueOut(u, c)' <=> \E i \in DOMAIN z : z[i].encoded = "waiting" /\ u = Packet(c, "out", z[i].n)
      BY <1>8 DEF DueOut
    <2>2. DueOut(u, c) <=> \E i \in DOMAIN s : s[i].encoded = "waiting" /\ u = Packet(c, "out", s[i].n)
      BY <1>5 DEF DueOut
    <2>3. t = Packet(c, "out", m)
      <3>1. Due(t)
        BY <1>1, <1>2, SettledIsDue DEF IInv
      <3>2. ~DueIn(t)
        BY <1>2, PacketFields DEF DueIn
      <3>3. PICK d \in Conns : DueOut(t, d)
        BY <3>1, <3>2, DueParts
      <3>4. \E n : t = Packet(d, "out", n)
        BY <3>3 DEF DueOut
      <3> QED BY <1>2, <1>5, <3>4, PacketFields
    <2>4. \A n : Packet(c, "out", n) = t <=> n = m
      BY <2>3, PacketFields
    <2> QED BY <1>9, <1>10, <2>1, <2>2, <2>4
  <1>12. \A u : \A d \in Conns \ {c} : (DueOut(u, d)' <=> DueOut(u, d)) /\ (DueOut(u, d) => u # t)
    <2>1. \A u : \A d \in Conns \ {c} : DueOut(u, d)' <=> DueOut(u, d)
      BY <1>8 DEF DueOut
    <2>2. \A u : \A d \in Conns \ {c} : DueOut(u, d) => u # t
      BY <1>2, PacketFields DEF DueOut
    <2> QED BY <2>1, <2>2
  <1>13. \A u : (DueIn(u)' <=> DueIn(u)) /\ (DueIn(u) => u # t)
    BY <1>2, PacketFields DEF DueIn
  <1>14. \A u : Due(u)' <=> Due(u) /\ u # t
    BY <1>11, <1>12, <1>13, DueParts
  <1>15. paused' \subseteq Conns /\ dispatchTurnScheduled' \in BOOLEAN
    BY <1>2 DEF AccountsOK
  <1> QED BY <1>1, <1>2, <1>14, <1>15, PromiseEndsAccounts DEF IInv

LEMMA InitAccounts == Init => AccountsOK
  <1> SUFFICES ASSUME Init PROVE AccountsOK
    OBVIOUS
  <1>1. /\ queue = <<>> /\ settled = <<>> /\ abandoned = {} /\ workers = {} /\ idleWorkers = <<>>
        /\ pending = [t \in Tasks |-> NoWorker] /\ faults = 0
        /\ codecTasks = {} /\ paused = {} /\ dispatchTurnScheduled = FALSE /\ decoding = {}
        /\ outbound = [c \in Conns |-> <<>>]
    BY DEF Init, PoolInit
  <1>2. Promised = {} /\ Settling = {}
    BY <1>1 DEF Promised, Range, Active, Settling
  <1>3. WorkersOK
    <2>1. Range(idleWorkers) = {} /\ IsInjective(idleWorkers) /\ idleWorkers \in Seq(Workers)
      BY <1>1 DEF Range, IsInjective
    <2>2. 0 \in 0 .. MaxFaults
      BY PoolAssumption
    <2> QED BY <1>1, <2>1, <2>2, PoolAssumption DEF WorkersOK
  <1>4. \A t : ~Due(t)
    BY <1>1 DEF Due
  <1> QED BY <1>1, <1>2, <1>3, <1>4 DEF AccountsOK, PromisesOK, Counted

LEMMA NextAccounts == IInv /\ AccountsOK /\ [Next]_vars => AccountsOK'
  <1> SUFFICES ASSUME IInv, AccountsOK, [Next]_vars PROVE AccountsOK'
    OBVIOUS
  <1>1. CASE Drain \/ Event \/ Thread
    BY <1>1, PoolAccounts DEF Drain, Event, Thread, IInv
  <1>2. CASE \E c \in Conns : StartDecode(c) \/ InboundDecoded(c)
                             \/ OutboundEncoded(c) \/ WriteNext(c)
    BY <1>2, StartDecodeAccounts, InboundDecodedAccounts, OutboundEncodedAccounts, WriteNextAccounts
  <1>3. CASE \E c \in Conns :
               \/ \E k \in 1 .. MaxChunk : DataArrives(c, k)
               \/ SendPacket(c) \/ SendRawPayload(c)
    BY <1>3, DataArrivesAccounts, SendPacketAccounts, SendRawPayloadAccounts
  <1>4. CASE \E c \in Conns : SendOverflows(c) \/ SocketCloses(c)
    BY <1>4, OthersAccounts
  <1>5. CASE Dispatch \/ UNCHANGED vars
    BY <1>5, OthersAccounts
  <1> QED BY <1>1, <1>2, <1>3, <1>4, <1>5 DEF Next, Turn

LEMMA AccountsOfTasks == AccountsOK => TasksAccountedFor
  <1> SUFFICES ASSUME AccountsOK PROVE TasksAccountedFor
    OBVIOUS
  <1>1. Counted /\ \A t : t \in Promised \cup Settling <=> Due(t)
    BY DEF AccountsOK, PromisesOK
  <1>2. \A t : Due(t) <=>
          t \in {Packet(c, "in", Head(inbound[c])) : c \in decoding}
            \cup UNION {{Packet(c, "out", outbound[c][i].n) :
                           i \in {j \in DOMAIN outbound[c] :
                                    outbound[c][j].encoded = "waiting"}} : c \in Conns}
    BY DEF Due
  <1> QED BY <1>1, <1>2 DEF AccountsOK, WorkersOK, Counted, TasksAccountedFor

(* Whatever threads answer, die or miss deadlines, in any order: a worker  *)
(* of the pool is idle or has exactly the pending task it records, and the *)
(* promises somebody waits for are those the decode and write chains wait  *)
(* on, none of them dropped or settled twice. The handlers must keep       *)
(* _idleWorkers, _pending and _serviceTaskID together, and                 *)
(* pendingCodecTasks must be counted down once for each promise.           *)
THEOREM TasksAreAccountedFor == Spec => []TasksAccountedFor
  <1>1. Spec => []AccountsOK
    BY InitAccounts, NextAccounts, Invariance, PTL DEF Spec
  <1> QED BY <1>1, AccountsOfTasks, PTL

(* Queues hold tasks, the records of workers hold workers and tasks, and   *)
(* the chains hold packets.                                                *)
THEOREM TypeCorrect == Spec => []PipelineTypeOK
  <1>1. Spec => []AccountsOK
    BY InitAccounts, NextAccounts, Invariance, PTL DEF Spec
  <1>2. IInv /\ AccountsOK => PipelineTypeOK
    <2> SUFFICES ASSUME IInv, AccountsOK PROVE PipelineTypeOK
      OBVIOUS
    <2>1. PoolTypeOK
      BY DEF IInv, PoolInv, PoolTypes, AccountsOK, WorkersOK, PoolTypeOK, States
    <2> QED BY <2>1 DEF IInv, SessionInv, SessionTypes, AccountsOK, PipelineTypeOK
  <1> QED BY <1>1, <1>2, Invariance, PTL
================================================================================
