--------------------------- MODULE IndustryProduction ---------------------------
(***************************************************************************)
(* The job lanes of one industry facility                                  *)
(* (server/src/services/frontier/industryProduction.ts), the background    *)
(* worker that settles them (industryProductionWorker.ts), and a durable   *)
(* job of an NPC that runs one of them                                     *)
(* (server/src/space/npc/npcIndustryJobService.ts).                        *)
(*                                                                         *)
(* Escrow, products and the record of what runs are in one table, the      *)
(* items, and change in one write, which is flushed later.  The checkpoint *)
(* of the NPC is in another table, which is flushed with every write, if   *)
(* the flush does not fail.  A crash takes each back to its last flush.    *)
(*                                                                         *)
(* A run takes one unit and one tick of the clock, and makes one product.  *)
(***************************************************************************)
EXTENDS Integers, FiniteSets

CONSTANTS
    NumLanes,      \* lanes that hold a record
    NpcLane,       \* the lane of the NPC's job
    NpcRuns,       \* the runs it asks for
    Units,         \* units there are
    InCap, OutCap, \* max_storable_quantity of a slot
    MaxTime,       \* bound: ticks of the clock
    MaxFaults,     \* bound: failed flushes of a checkpoint
    MaxEnds        \* bound: crashes

ASSUME IndustryAssumption ==
    /\ NumLanes \in Nat \ {0} /\ NpcLane \in 1..NumLanes
    /\ {NpcRuns, InCap, OutCap} \subseteq Nat \ {0}
    /\ {Units, MaxTime, MaxFaults, MaxEnds} \subseteq Nat

VARIABLES
    items,        \* the table
    itemsDisk,    \* what of it is flushed
    tracked,      \* the worker has the facility in its set
    laneCount,    \* lanes enabled by the configuration
    now,
    npc,          \* the NPC's checkpoint
    npcDisk,      \* what of it is flushed
    overwritten,  \* history: others replaced a record the NPC's file did not note
    faults, ends

vars == <<items, itemsDisk, tracked, laneCount, now, npc, npcDisk,
          overwritten, faults, ends>>

Lanes == 1..NumLanes
NoLimit == 0        \* requestedRuns is null

(* fresh: the recipe that was paid for is the one that is selected; by: the *)
(* executorKey; starts: history, how often the NPC started its lane.        *)
Jobs == [state : {"RUNNING", "DISCONTINUING", "COMPLETED", "INTERRUPTED"},
         requested : Nat, done : Nat, end : Nat, fresh : BOOLEAN,
         by : {"player", "npc"}]
NoJob == [state |-> "INTERRUPTED", requested |-> NoLimit, done |-> 0, end |-> 0,
          fresh |-> FALSE, by |-> "player"]

LaneRows == [inputs : 0..InCap, outputs : 0..OutCap, job : Jobs]
Tables == [stock : Nat, goods : Nat, lanes : [Lanes -> LaneRows], starts : Nat]

Running(job) == job.state \in {"RUNNING", "DISCONTINUING"}

(* Mutant: the worker asks for the first lane only, as it once did. *)
Active_FirstLane(table) == Running(table.lanes[1].job)

(* hasActiveProduction: of every stored lane, enabled or not. *)
Active(table) == \E l \in Lanes : Running(table.lanes[l].job)

NewTable == [stock |-> Units, goods |-> 0, starts |-> 0,
             lanes |-> [l \in Lanes |-> [inputs |-> 0, outputs |-> 0, job |-> NoJob]]]

IndustryInit ==
    /\ items = NewTable /\ itemsDisk = NewTable
    /\ tracked = FALSE
    /\ laneCount = NumLanes
    /\ now = 0
    /\ npc = "pending" /\ npcDisk = "pending"
    /\ overwritten = FALSE
    /\ faults = 0 /\ ends = 0

--------------------------------------------------------------------------------
(* Advancing the lanes: each step is one commit of a table. *)

DueJob(job) == Running(job) /\ job.end <= now
DueIn(table, lanes) == {l \in lanes : DueJob(table.lanes[l].job)}

(* Its reserved output space is occupied. *)
Blocked(row) == row.outputs + 1 > OutCap

(* Why it stops after a run, if it does; COMPLETED, or for another reason. *)
Completes(job) == job.requested # NoLimit /\ job.done + 1 >= job.requested

PaysNext(row, online) ==
    /\ row.job.state = "RUNNING" /\ ~Completes(row.job) /\ row.job.fresh /\ online
    /\ row.outputs + 2 <= OutCap
    /\ row.inputs >= 1

(* Mutant: the next run is begun, and not paid for. *)
RunOver_Unpaid(row, online) ==
    IF PaysNext(row, online)
    THEN [row EXCEPT !.outputs = @ + 1, !.job.done = @ + 1, !.job.end = @ + 1]
    ELSE [row EXCEPT !.outputs = @ + 1, !.job.done = @ + 1,
                     !.job.state = IF @ = "RUNNING" /\ Completes(row.job)
                                   THEN "COMPLETED" ELSE "INTERRUPTED"]

(* The product of the run that was paid for, and the next run paid for. *)
RunOver(row, online) ==
    IF PaysNext(row, online)
    THEN [row EXCEPT !.inputs = @ - 1, !.outputs = @ + 1,
                     !.job.done = @ + 1, !.job.end = @ + 1]
    ELSE [row EXCEPT !.outputs = @ + 1, !.job.done = @ + 1,
                     !.job.state = IF @ = "RUNNING" /\ Completes(row.job)
                                   THEN "COMPLETED" ELSE "INTERRUPTED"]

(* advanceProduction: the lanes in order, and one that is blocked ends the  *)
(* turn.  The facility is on or off line, as others have it.  A call may    *)
(* make up to MAX_ADVANCE_RUNS runs, but each is a commit of its own and,   *)
(* its time being bounded too, may be the last: here it makes one, and more *)
(* are made by a turn of the worker, or a call that only looks, that        *)
(* happens to follow.                                                       *)
FirstDue(table, lanes) ==
    {l \in DueIn(table, lanes) : \A k \in DueIn(table, lanes) : l <= k}

Turn(table, lanes) ==
    LET over == {l \in FirstDue(table, lanes) : ~Blocked(table.lanes[l])}
    IN  IF over = {} THEN {table}
        ELSE {[table EXCEPT !.lanes[l] = RunOver(@, online)] :
                l \in over, online \in BOOLEAN}

--------------------------------------------------------------------------------
(* The worker. *)

WorkerTurn ==
    /\ tracked
    /\ items' \in Turn(items, Lanes)
    /\ tracked' = Active(items')
    /\ UNCHANGED <<itemsDisk, laneCount, now, npc, npcDisk, overwritten,
                   faults, ends>>

--------------------------------------------------------------------------------
(* Players: the owner's calls settle the facility first, those of others    *)
(* with access to a lane do not.  A call goes by the table it then finds.   *)

Entered == {<<items, tracked>>} \cup {<<t, Active(t)>> : t \in Turn(items, Lanes)}

CanStart(table, l) ==
    /\ l <= laneCount
    /\ ~Running(table.lanes[l].job)
    /\ table.lanes[l].outputs + 1 <= OutCap
    /\ table.lanes[l].inputs >= 1

(* The first run is paid for in the write that starts it. *)
Started(table, l, requested, by) ==
    [table EXCEPT !.lanes[l].inputs = @ - 1,
                  !.lanes[l].job = [state |-> "RUNNING", requested |-> requested,
                                    done |-> 0, end |-> now + 1, fresh |-> TRUE,
                                    by |-> by]]

PlayerStart(table, l, requested) ==
    /\ CanStart(table, l)
    /\ items' = Started(table, l, requested, "player")
    /\ tracked' = TRUE
    /\ overwritten' = (overwritten \/ (npcDisk = "pending" /\ table.lanes[l].job.by = "npc"))

(* Mutant: the room in the slot is not looked at. *)
Deposited_NoLimit(table, l) ==
    IF table.stock > 0
    THEN {[table EXCEPT !.stock = @ - 1, !.lanes[l].inputs = @ + 1]} ELSE {}

(* depositInputItems, and withdrawItems on either side: one unit. *)
Deposited(table, l) ==
    IF table.stock > 0 /\ table.lanes[l].inputs < InCap
    THEN {[table EXCEPT !.stock = @ - 1, !.lanes[l].inputs = @ + 1]} ELSE {}

InputWithdrawn(table, l) ==
    IF table.lanes[l].inputs > 0
    THEN {[table EXCEPT !.stock = @ + 1, !.lanes[l].inputs = @ - 1]} ELSE {}

OutputWithdrawn(table, l) ==
    IF table.lanes[l].outputs > 0
    THEN {[table EXCEPT !.goods = @ + 1, !.lanes[l].outputs = @ - 1]} ELSE {}

(* A transfer, or a call that only looks (get_facility_details), or that is *)
(* refused.                                                                 *)
Transfer(table, isTracked) ==
    /\ items' \in {table} \cup UNION {Deposited(table, l) \cup InputWithdrawn(table, l)
                                      \cup OutputWithdrawn(table, l) : l \in Lanes}
    /\ tracked' = isTracked
    /\ UNCHANGED overwritten

(* Not settled first: the lane is marked before its deadline is looked at. *)
Discontinue(l) ==
    /\ l <= laneCount /\ Running(items.lanes[l].job)
    /\ items' \in Turn([items EXCEPT !.lanes[l].job.state = "DISCONTINUING"], {l})
    /\ tracked' = Active(items')
    /\ UNCHANGED overwritten

PlayerCalls ==
    /\ \/ \E entered \in Entered :
            \/ Transfer(entered[1], entered[2])
            \/ \E l \in Lanes, requested \in {NoLimit, 1} :
                  PlayerStart(entered[1], l, requested)
       \/ \E l \in Lanes : Discontinue(l)
    /\ UNCHANGED <<itemsDisk, laneCount, now, npc, npcDisk, faults, ends>>

--------------------------------------------------------------------------------
(* The NPC, once its inputs are staged. *)

ByNpc == UNCHANGED <<itemsDisk, tracked, laneCount, now, overwritten, ends>>

NpcJob == items.lanes[NpcLane].job

(* updateNpcJob, which ends a tick; what is not flushed stays in the cache. *)
Saves(checkpoint) ==
    /\ npc' = checkpoint
    /\ \/ npcDisk' = checkpoint /\ UNCHANGED faults
       \/ /\ faults < MaxFaults /\ faults' = faults + 1
          /\ UNCHANGED npcDisk

(* Mutant: a record with the NPC's key is not looked for. *)
NpcStart_NotAdopting ==
    /\ ByNpc
    /\ npc = "pending" /\ CanStart(items, NpcLane)
    /\ items' = [Started(items, NpcLane, NpcRuns, "npc") EXCEPT !.starts = @ + 1]
    /\ Saves("started")

NpcStart ==
    /\ ByNpc
    /\ npc = "pending" /\ NpcJob.by # "npc" /\ CanStart(items, NpcLane)
    /\ items' = [Started(items, NpcLane, NpcRuns, "npc") EXCEPT !.starts = @ + 1]
    /\ Saves("started")

(* Also of a record that it finds, and knows by the key.  A job that stops  *)
(* for another reason suspends it for good.                                 *)
NpcAdvance ==
    /\ ByNpc
    /\ npc \in {"pending", "started"} /\ NpcJob.by = "npc" /\ NpcLane <= laneCount
    /\ items' \in Turn(items, {NpcLane})
    /\ Saves(IF items'.lanes[NpcLane].job.state = "COMPLETED" THEN "done" ELSE "started")

(* Its ship was destroyed (retireStaleNpcJobs), or its lane is not there    *)
(* any more.  The lane's record is left alone.                              *)
NpcGoes ==
    /\ ByNpc
    /\ npc \in {"pending", "started"}
    /\ Saves("gone")
    /\ UNCHANGED items

--------------------------------------------------------------------------------
(* The surroundings. *)

Clock ==
    /\ now < MaxTime /\ now' = now + 1
    /\ UNCHANGED <<items, itemsDisk, tracked, laneCount, npc, npcDisk,
                   overwritten, faults, ends>>

(* The debounced flush of the items. *)
Flush ==
    /\ ends < MaxEnds
    /\ itemsDisk' = items
    /\ UNCHANGED <<items, tracked, laneCount, now, npc, npcDisk,
                   overwritten, faults, ends>>

(* A crash, and the start of the next life, which may have other recipes    *)
(* and another number of lanes: the worker looks for what is active, and    *)
(* takes its first turn.  After the last crash the file is not kept.        *)
Restart ==
    /\ ends < MaxEnds /\ ends' = ends + 1
    /\ \E upgraded \in BOOLEAN :
         LET found == IF upgraded
                      THEN [itemsDisk EXCEPT !.lanes =
                              [l \in Lanes |-> [@[l] EXCEPT !.job.fresh = FALSE]]]
                      ELSE itemsDisk
         IN  items' \in Turn(found, Lanes)
    /\ itemsDisk' = IF ends' < MaxEnds THEN itemsDisk ELSE NewTable
    /\ tracked' = Active(items')
    /\ laneCount' \in Lanes
    /\ npc' = npcDisk
    /\ UNCHANGED <<now, npcDisk, overwritten, faults>>

IndustryNext ==
    \/ WorkerTurn \/ PlayerCalls
    \/ NpcStart \/ NpcAdvance \/ NpcGoes
    \/ Clock \/ Flush \/ Restart

(* The interval of the worker, and the behaviour ticks of the NPC. *)
IndustrySpec ==
    /\ IndustryInit /\ [][IndustryNext]_vars
    /\ WF_vars(WorkerTurn) /\ WF_vars(NpcAdvance)

--------------------------------------------------------------------------------
(* Properties. *)

IndustryTypeOK ==
    /\ items \in Tables /\ itemsDisk \in Tables
    /\ tracked \in BOOLEAN /\ overwritten \in BOOLEAN
    /\ laneCount \in Lanes
    /\ now \in 0..MaxTime /\ faults \in 0..MaxFaults /\ ends \in 0..MaxEnds
    /\ {npc, npcDisk} \subseteq {"pending", "started", "done", "gone"}

(* Every run that was paid for has its place in the output slot, however    *)
(* many others move in and out beside it.                                   *)
RoomReserved ==
    \A table \in {items, itemsDisk} : \A l \in Lanes :
      Running(table.lanes[l].job) => ~Blocked(table.lanes[l])

(* Every unit is in stock or in escrow, is being worked on in exactly one   *)
(* lane, or has become one product.                                         *)
LaneUnits(row) == row.inputs + row.outputs + (IF Running(row.job) THEN 1 ELSE 0)

(* The units of the lanes, each by its lane and a number. *)
Held(table) ==
    {u \in Lanes \X (1..InCap + OutCap + 1) : u[2] <= LaneUnits(table.lanes[u[1]])}

Balanced(table) == Units = table.stock + table.goods + Cardinality(Held(table))

UnitsConserved == Balanced(items) /\ Balanced(itemsDisk)

(* A run that was paid for makes its product, and no other does: of what a  *)
(* crash finds, too, and with what was caught up, discontinued, interrupted *)
(* or paid for under another recipe.                                        *)
RunsConserved == RoomReserved /\ UnitsConserved

(* The NPC's job starts its lane once, although lane and checkpoint are     *)
(* written one after the other; but not when others had put their own job   *)
(* into the lane before it looked.                                          *)
NpcStartsOnce == items.starts <= 1 \/ overwritten

(* A run that is due is brought to an end, in a lane that was disabled,     *)
(* behind one that has much to catch up with, or after a restart; unless    *)
(* an NPC started it that is gone, and the worker was not told.             *)
Unattended(l) == items.lanes[l].job.by = "npc" /\ npc = "gone" /\ ~tracked

DueRunsSettle ==
    \A l \in Lanes :
      DueJob(items.lanes[l].job) ~> (~DueJob(items.lanes[l].job) \/ Unattended(l))
================================================================================
