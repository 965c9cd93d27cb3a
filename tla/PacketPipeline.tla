---------------------------- MODULE PacketPipeline -----------------------------
(***************************************************************************)
(* The packets of client connections (network/tcp/index.ts,                *)
(* network/clientSession.ts) and the codec pool they share                 *)
(* (network/tcp/packetCodecPool.ts over ServiceTaskPool).                  *)
(*                                                                         *)
(* A connection decodes one received packet at a time and encodes all the  *)
(* packets it sends at once; two promise chains per connection put the     *)
(* results back into order. Decoded packets of all connections wait in one *)
(* list, from which an event-loop turn dispatches one.                     *)
(*                                                                         *)
(* A callback of the event loop runs to its end, with all the promise      *)
(* continuations it makes due, before the next one: "AtRest" guards the    *)
(* former, the steps of "Turn" are the latter. Handlers that send packets  *)
(* may themselves be continuations, so sending only waits for a running    *)
(* _drain.                                                                 *)
(***************************************************************************)
EXTENDS ServiceTaskPool

CONSTANTS
    Conns,          \* connections
    MaxPackets,     \* bound on the packets of a connection, per way
    MaxChunk,       \* frames one data event may complete
    InboundLimit,   \* 64: more packets in the decode queue close the connection
    PauseAt,        \* 16: as many pause reading
    ResumeBelow,    \* 8: fewer resume it
    OutboundLimit   \* 256: more packets waiting to be written close it

Ways == {"in", "out"}

Packet(c, w, n) == [conn |-> c, way |-> w, n |-> n]

ASSUME PipelineAssumption ==
    /\ MaxPackets \in [Conns -> [Ways -> Nat]]
    /\ MaxChunk \in Nat
    /\ InboundLimit \in Nat \ {0}
    /\ PauseAt \in Nat /\ ResumeBelow \in Nat \ {0}
    /\ ResumeBelow <= PauseAt /\ PauseAt <= InboundLimit
    /\ OutboundLimit \in Nat \ {0}
    /\ \A c \in Conns, w \in Ways : \A n \in 1 .. MaxPackets[c][w] :
         Packet(c, w, n) \in Tasks

VARIABLES
    open,          \* connections whose socket is not destroyed
    codecTasks,    \* what pendingCodecTasks counts
    received,      \* packets admitted to inboundCodecTail so far
    inbound,       \* those whose link of the chain has not ended: queuedCodecPackets
    decoding,      \* connections with a decode at the pool
    paused,        \* codecReadPaused
    pendingDispatches, dispatchTurnScheduled,
    dispatched,    \* history: packets the dispatcher got
    sent,          \* packets admitted to _outboundWriteTail so far
    outbound,      \* those whose link has not ended, and how far their encoding is
    written        \* history: packets written to the socket

inVars == <<received, inbound, decoding, paused, pendingDispatches,
            dispatchTurnScheduled, dispatched>>
outVars == <<sent, outbound, written>>
vars == <<poolVars, open, codecTasks, inVars, outVars>>

PipelineTypeOK ==
    /\ PoolTypeOK
    /\ open \subseteq Conns
    /\ codecTasks \subseteq Tasks
    /\ received \in [Conns -> Nat]
    /\ inbound \in [Conns -> Seq(Nat)]
    /\ decoding \subseteq Conns
    /\ paused \subseteq Conns
    /\ pendingDispatches \in Seq([conn : Conns, n : Nat])
    /\ dispatchTurnScheduled \in BOOLEAN
    /\ dispatched \in [Conns -> Seq(Nat)]
    /\ sent \in [Conns -> Nat]
    /\ outbound \in [Conns -> Seq([n : Nat, encoded : {"waiting", "ready", "failed"}])]
    /\ written \in [Conns -> Seq(Nat)]

Init ==
    /\ PoolInit
    /\ open = Conns
    /\ codecTasks = {}
    /\ received = [c \in Conns |-> 0]
    /\ inbound = [c \in Conns |-> <<>>]
    /\ decoding = {}
    /\ paused = {}
    /\ pendingDispatches = <<>>
    /\ dispatchTurnScheduled = FALSE
    /\ dispatched = [c \in Conns |-> <<>>]
    /\ sent = [c \in Conns |-> 0]
    /\ outbound = [c \in Conns |-> <<>>]
    /\ written = [c \in Conns |-> <<>>]

(* Continuations that are due.                                             *)
DecodeDue(c) == inbound[c] # <<>> /\ c \notin decoding
WriteDue(c) == outbound[c] # <<>> /\ Head(outbound[c]).encoded # "waiting"

AtRest ==
    /\ drain = "no"
    /\ settled = <<>>
    /\ \A c \in Conns : ~DecodeDue(c) /\ ~WriteDue(c)

-------------------------------------------------------------------------------
(* runCodecTask: the wrapper's own admission, then the pool's. Its         *)
(* finally clause is part of FinishCodecTask.                              *)
RunCodecTask(t) ==
    IF Cardinality(codecTasks) >= MaxPendingTasks
    THEN /\ settled' = Append(settled, [task |-> t, ok |-> FALSE])
         /\ UNCHANGED <<codecTasks, queue, workers, idleWorkers, pending,
                        serviceTask, threads, drain, abandoned, faults>>
    ELSE /\ codecTasks' = codecTasks \cup {t}
         /\ Run(t) \/ RunRejected(t)

FinishCodecTask(t) ==
    /\ codecTasks' = codecTasks \ {t}
    /\ settled' = Tail(settled)
    /\ UNCHANGED <<queue, workers, idleWorkers, pending, serviceTask, threads,
                   drain, abandoned, faults>>

-------------------------------------------------------------------------------
(* Receiving.                                                              *)

(* socket.on("data") with k complete frames: queueInboundPacket of each.   *)
(* What is over the limit closes the connection; pausing the socket does   *)
(* not stop the loop over the frames that are already there.               *)
DataArrives(c, k) ==
    LET taken == IF k <= InboundLimit - Len(inbound[c]) THEN k
                 ELSE InboundLimit - Len(inbound[c])
        queued == Len(inbound[c]) + taken
    IN
    /\ AtRest
    /\ c \in open /\ c \notin paused
    /\ received[c] + taken <= MaxPackets[c]["in"]
    /\ received' = [received EXCEPT ![c] = @ + taken]
    /\ inbound' = [inbound EXCEPT
                     ![c] = @ \o [i \in 1 .. taken |-> received[c] + i]]
    /\ paused' = IF queued >= PauseAt THEN paused \cup {c} ELSE paused
    /\ open' = IF taken = k THEN open ELSE open \ {c}
    /\ UNCHANGED <<poolVars, codecTasks, decoding, pendingDispatches,
                   dispatchTurnScheduled, dispatched, outVars>>

(* The next link of inboundCodecTail begins.                               *)
StartDecode(c) ==
    /\ drain = "no"
    /\ DecodeDue(c)
    /\ decoding' = decoding \cup {c}
    /\ RunCodecTask(Packet(c, "in", Head(inbound[c])))
    /\ UNCHANGED <<open, received, inbound, paused, pendingDispatches,
                   dispatchTurnScheduled, dispatched, outVars>>

(* The link ends: the packet waits for its dispatch, or a failure closes   *)
(* the connection; in any case reading may resume.                         *)
InboundDecoded(c) ==
    LET e == Head(settled)
        rest == Tail(inbound[c])
    IN
    /\ drain = "no" /\ settled # <<>>
    /\ e.task.way = "in" /\ e.task.conn = c
    /\ open' = IF e.ok THEN open ELSE open \ {c}
    /\ IF e.ok /\ c \in open
       THEN /\ pendingDispatches' =
                 Append(pendingDispatches, [conn |-> c, n |-> e.task.n])
            /\ dispatchTurnScheduled' = TRUE
       ELSE UNCHANGED <<pendingDispatches, dispatchTurnScheduled>>
    /\ inbound' = [inbound EXCEPT ![c] = rest]
    /\ decoding' = decoding \ {c}
    /\ paused' = IF c \in open' /\ Len(rest) < ResumeBelow
                 THEN paused \ {c} ELSE paused
    /\ FinishCodecTask(e.task)
    /\ UNCHANGED <<received, dispatched, outVars>>

(* Mutant: the turn does not schedule the next one. *)
Dispatch_Once ==
    LET next == Head(pendingDispatches) IN
    /\ AtRest
    /\ dispatchTurnScheduled /\ pendingDispatches # <<>>
    /\ pendingDispatches' = Tail(pendingDispatches)
    /\ dispatchTurnScheduled' = FALSE
    /\ dispatched' = IF next.conn \in open
                     THEN [dispatched EXCEPT ![next.conn] = Append(@, next.n)]
                     ELSE dispatched
    /\ UNCHANGED <<poolVars, open, codecTasks, received, inbound, decoding,
                   paused, outVars>>

(* setImmediate of scheduleNextPacketDispatch: one packet, of whichever    *)
(* connection, unless its socket is gone.                                  *)
Dispatch ==
    LET next == Head(pendingDispatches) IN
    /\ AtRest
    /\ dispatchTurnScheduled /\ pendingDispatches # <<>>
    /\ pendingDispatches' = Tail(pendingDispatches)
    /\ dispatchTurnScheduled' = (pendingDispatches' # <<>>)
    /\ dispatched' = IF next.conn \in open
                     THEN [dispatched EXCEPT ![next.conn] = Append(@, next.n)]
                     ELSE dispatched
    /\ UNCHANGED <<poolVars, open, codecTasks, received, inbound, decoding,
                   paused, outVars>>

-------------------------------------------------------------------------------
(* Sending.                                                                *)

CanSend(c) == drain = "no" /\ c \in open

Enqueue(c, encoded) ==
    /\ sent[c] < MaxPackets[c]["out"]
    /\ sent' = [sent EXCEPT ![c] = @ + 1]
    /\ outbound' = [outbound EXCEPT
                      ![c] = Append(@, [n |-> sent[c] + 1, encoded |-> encoded])]
    /\ UNCHANGED written

SendPacket(c) ==
    /\ CanSend(c) /\ Len(outbound[c]) < OutboundLimit
    /\ Enqueue(c, "waiting")
    /\ RunCodecTask(Packet(c, "out", sent[c] + 1))
    /\ UNCHANGED <<open, inVars>>

(* A raw payload needs no encoding but keeps its place.                    *)
SendRawPayload(c) ==
    /\ CanSend(c) /\ Len(outbound[c]) < OutboundLimit
    /\ Enqueue(c, "ready")
    /\ UNCHANGED <<poolVars, open, codecTasks, inVars>>

SendOverflows(c) ==
    /\ CanSend(c) /\ Len(outbound[c]) >= OutboundLimit
    /\ open' = open \ {c}
    /\ UNCHANGED <<poolVars, codecTasks, inVars, outVars>>

(* encodedPacket settles.                                                  *)
OutboundEncoded(c) ==
    LET e == Head(settled) IN
    /\ drain = "no" /\ settled # <<>>
    /\ e.task.way = "out" /\ e.task.conn = c
    /\ outbound' = [outbound EXCEPT ![c] =
                      [i \in DOMAIN @ |->
                         IF @[i].n = e.task.n
                         THEN [@[i] EXCEPT !.encoded = IF e.ok THEN "ready" ELSE "failed"]
                         ELSE @[i]]]
    /\ FinishCodecTask(e.task)
    /\ UNCHANGED <<open, inVars, sent, written>>

(* Mutant: a packet that could not be encoded is skipped. *)
WriteNext_SkipsFailed(c) ==
    LET head == Head(outbound[c]) IN
    /\ drain = "no"
    /\ WriteDue(c)
    /\ outbound' = [outbound EXCEPT ![c] = Tail(@)]
    /\ IF head.encoded = "ready"
       THEN /\ written' = IF c \in open THEN [written EXCEPT ![c] = Append(@, head.n)]
                          ELSE written
            /\ UNCHANGED open
       ELSE UNCHANGED <<open, written>>
    /\ UNCHANGED <<poolVars, codecTasks, inVars, sent>>

(* The first link of _outboundWriteTail goes on: write, or close after a   *)
(* failed encoding. A closed connection's links end without writing.       *)
WriteNext(c) ==
    LET head == Head(outbound[c]) IN
    /\ drain = "no"
    /\ WriteDue(c)
    /\ outbound' = [outbound EXCEPT ![c] = Tail(@)]
    /\ IF head.encoded = "ready"
       THEN /\ written' = IF c \in open THEN [written EXCEPT ![c] = Append(@, head.n)]
                          ELSE written
            /\ UNCHANGED open
       ELSE open' = open \ {c} /\ UNCHANGED written
    /\ UNCHANGED <<poolVars, codecTasks, inVars, sent>>

-------------------------------------------------------------------------------
(* The peer closes the connection, or it breaks.                           *)
SocketCloses(c) ==
    /\ AtRest
    /\ c \in open
    /\ open' = open \ {c}
    /\ UNCHANGED <<poolVars, codecTasks, inVars, outVars>>

Sessions == <<open, codecTasks, inVars, outVars>>

Drain == DrainStep /\ UNCHANGED Sessions
Event == AtRest /\ PoolEvent /\ UNCHANGED Sessions
Thread == ThreadStep /\ UNCHANGED Sessions
Deadline == AtRest /\ (\E t \in Tasks : TaskTimesOut(t)) /\ UNCHANGED Sessions

Turn ==
    \/ Drain
    \/ \E c \in Conns : StartDecode(c) \/ InboundDecoded(c)
                        \/ OutboundEncoded(c) \/ WriteNext(c)

Next ==
    \/ Turn
    \/ Event
    \/ Thread
    \/ Dispatch
    \/ \E c \in Conns :
        \/ \E k \in 1 .. MaxChunk : DataArrives(c, k)
        \/ SendPacket(c) \/ SendRawPayload(c) \/ SendOverflows(c)
        \/ SocketCloses(c)

Spec == Init /\ [][Next]_vars

(* A turn ends, an immediate that is set runs, and of the timers that stay *)
(* due one fires. Nothing is assumed of threads, peers or callers.         *)
Fairness ==
    /\ WF_vars(Turn)
    /\ SF_vars(Dispatch)
    /\ SF_vars(Deadline)

FairSpec == Spec /\ Fairness

-------------------------------------------------------------------------------
(* Every direction of a connection is the channel of OrderedChannels.      *)

Accepted ==
    [c \in Conns |-> [w \in Ways |-> IF w = "in" THEN received[c] ELSE sent[c]]]
Delivered ==
    [c \in Conns |-> [w \in Ways |-> IF w = "in" THEN dispatched[c] ELSE written[c]]]

Channels == INSTANCE OrderedChannels WITH accepted <- Accepted, delivered <- Delivered

(* Packets are dispatched in the order they were received and written in   *)
(* the order they were sent, with no gap, however workers overtake each    *)
(* other, fail or time out; a closed socket gets nothing.                  *)
ImplementsOrderedChannels == Channels!ChannelsSpec

(* A worker of the pool is idle or has exactly the pending task that       *)
(* records it; a codec promise somebody waits for is queued, at a worker   *)
(* or settled, and pendingCodecTasks counts it. A message, a deadline and  *)
(* an exit event of the same worker all change these records, in any       *)
(* order.                                                                  *)
Promised == (Range(queue) \cup Active) \ abandoned
Settling == {settled[i].task : i \in DOMAIN settled}

TasksAccountedFor ==
    /\ IsInjective(idleWorkers)
    /\ Range(idleWorkers) = {w \in workers : serviceTask[w] = NoTask}
    /\ \A t \in Tasks, w \in Workers :
         pending[t] = w <=> w \in workers /\ serviceTask[w] = t
    /\ Promised \subseteq codecTasks /\ codecTasks \subseteq Promised \cup Settling
    /\ Promised \cup Settling =
         {Packet(c, "in", Head(inbound[c])) : c \in decoding}
         \cup UNION {{Packet(c, "out", outbound[c][i].n) :
                        i \in {j \in DOMAIN outbound[c] :
                                 outbound[c][j].encoded = "waiting"}} : c \in Conns}

(* A task somebody waits for never waits in the queue while a worker is    *)
(* idle or the pool may start one. (After new Worker() threw, the rejected *)
(* task itself does.)                                                      *)
NoTaskWaitsForAFreeWorker ==
    drain = "no" /\ ~(Range(queue) \subseteq abandoned)
        => idleWorkers = <<>> /\ ~HasRoom

(* No packet is stuck: a connection with packets on their way in or out    *)
(* delivers the next one (they leave in order, so each gets its turn), or  *)
(* closes; and reading that was paused resumes. This holds even if no      *)
(* thread ever answers: deadlines alone keep the chains moving.            *)
Waiting(c, w) == c \in open /\ Len(Delivered[c][w]) < Accepted[c][w]

EveryPacketLeaves ==
    \A c \in Conns :
        /\ \A w \in Ways :
             \/ []<>~Waiting(c, w)
             \/ []<><<Delivered'[c][w] # Delivered[c][w]>>_vars
        /\ c \in paused ~> c \notin paused \/ c \notin open
================================================================================
