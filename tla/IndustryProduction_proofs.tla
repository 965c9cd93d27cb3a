----------------------- MODULE IndustryProduction_proofs -----------------------
(***************************************************************************)
(* For any number of lanes, units and crashes, a run that was paid for has *)
(* its place in the output slot, no unit is made or lost, and a job of an  *)
(* NPC starts its lane once.                                               *)
(*                                                                         *)
(* Every step makes the new table from one that is there by a few changes  *)
(* to one lane, so most of the proof is about tables: what keeps them      *)
(* well-formed, and what leaves alone who started what.                    *)
(***************************************************************************)
EXTENDS IndustryProduction, FiniteSetTheorems, TLAPS

RowOK(row) == row \in LaneRows /\ (Running(row.job) => ~Blocked(row))

TableOK(table) == table \in Tables /\ \A l \in Lanes : RowOK(table.lanes[l])

SameStarts(table, other) ==
    /\ other.starts = table.starts
    /\ \A l \in Lanes : other.lanes[l].job.by = table.lanes[l].job.by

(* As long as its file does not note it, the record itself tells the NPC    *)
(* that it has started the lane.                                            *)
Adoptable(table) ==
    /\ table.starts <= 1
    /\ npcDisk = "pending" /\ table.starts = 1 => table.lanes[NpcLane].job.by = "npc"

IInv ==
    /\ IndustryTypeOK
    /\ TableOK(items) /\ TableOK(itemsDisk)
    /\ npc = "pending" => npcDisk = "pending"
    /\ overwritten \/ (Adoptable(items) /\ Adoptable(itemsDisk))

--------------------------------------------------------------------------------
(* Tables. *)

LEMMA NewTableOK == TableOK(NewTable) /\ NewTable.starts = 0
  BY IndustryAssumption
  DEF TableOK, RowOK, NewTable, Tables, LaneRows, NoJob, Jobs, Running, NoLimit

(* A lane of a table may be replaced by a lane that is well-formed. *)
LEMMA LaneReplaced ==
    ASSUME NEW table, TableOK(table), NEW l \in Lanes, NEW row, RowOK(row)
    PROVE  LET other == [table EXCEPT !.lanes[l] = row]
           IN  /\ TableOK(other)
               /\ other.starts = table.starts
               /\ other.lanes[l] = row
               /\ \A k \in Lanes \ {l} : other.lanes[k] = table.lanes[k]
  BY DEF TableOK, RowOK, Tables

LEMMA RunOverOK ==
    ASSUME NEW row, RowOK(row), ~Blocked(row), NEW online \in BOOLEAN
    PROVE  RowOK(RunOver(row, online)) /\ RunOver(row, online).job.by = row.job.by
  <1>1. /\ row \in LaneRows /\ row.job \in Jobs /\ row.job.done + 1 \in Nat /\ row.job.end + 1 \in Nat
        /\ row.inputs \in 0..InCap /\ row.outputs \in 0..OutCap
        /\ row.outputs + 1 <= OutCap
        /\ InCap \in Nat /\ OutCap \in Nat
    BY IndustryAssumption DEF RowOK, LaneRows, Jobs, Blocked
  <1>2. CASE PaysNext(row, online)
    <2> DEFINE job == [row.job EXCEPT !.done = @ + 1, !.end = @ + 1]
               other == [row EXCEPT !.inputs = @ - 1, !.outputs = @ + 1, !.job = job]
    <2>1. row.outputs + 2 <= OutCap /\ row.inputs >= 1
      BY <1>2 DEF PaysNext
    <2>2. RunOver(row, online) = other
      BY <1>1, <1>2 DEF RunOver, LaneRows, Jobs
    <2>3. job \in Jobs /\ job.by = row.job.by
      BY <1>1 DEF Jobs
    <2>4. row.inputs - 1 \in 0..InCap /\ row.outputs + 1 \in 0..OutCap
      BY <1>1, <2>1
    <2> HIDE DEF job
    <2>5. other \in LaneRows /\ other.outputs = row.outputs + 1 /\ other.job = job
      BY <1>1, <2>3, <2>4 DEF LaneRows
    <2> HIDE DEF other
    <2>6. RowOK(other)
      BY <1>1, <2>1, <2>5 DEF RowOK, Blocked
    <2> QED BY <2>2, <2>3, <2>5, <2>6
  <1>3. CASE ~PaysNext(row, online)
    <2>1. PICK state \in {"COMPLETED", "INTERRUPTED"} :
            RunOver(row, online) =
              [row EXCEPT !.outputs = @ + 1, !.job.done = @ + 1, !.job.state = state]
      BY <1>3 DEF RunOver
    <2> DEFINE job == [row.job EXCEPT !.done = @ + 1, !.state = state]
               other == [row EXCEPT !.inputs = row.inputs, !.outputs = @ + 1, !.job = job]
    <2>2. RunOver(row, online) = other
      BY <1>1, <2>1 DEF LaneRows, Jobs
    <2>3. job \in Jobs /\ job.by = row.job.by /\ job.state = state
      BY <1>1 DEF Jobs
    <2>4. row.outputs + 1 \in 0..OutCap
      BY <1>1
    <2> HIDE DEF job
    <2>5. other \in LaneRows /\ other.job = job
      BY <1>1, <2>3, <2>4 DEF LaneRows
    <2> HIDE DEF other
    <2>6. RowOK(other)
      BY <2>3, <2>5 DEF RowOK, Running
    <2> QED BY <2>2, <2>3, <2>5, <2>6
  <1> QED BY <1>2, <1>3

LEMMA TurnOK ==
    ASSUME NEW table, TableOK(table), NEW lanes \in SUBSET Lanes,
           NEW other \in Turn(table, lanes)
    PROVE  TableOK(other) /\ SameStarts(table, other)
  <1>1. CASE other = table
    BY <1>1 DEF SameStarts
  <1>2. ASSUME NEW l \in lanes, ~Blocked(table.lanes[l]), NEW online \in BOOLEAN,
               other = [table EXCEPT !.lanes[l] = RunOver(@, online)]
        PROVE  TableOK(other) /\ SameStarts(table, other)
    <2>1. RowOK(table.lanes[l]) /\ l \in Lanes
      BY <1>2 DEF TableOK
    <2>2. /\ RowOK(RunOver(table.lanes[l], online))
          /\ RunOver(table.lanes[l], online).job.by = table.lanes[l].job.by
      BY <1>2, <2>1, RunOverOK
    <2> DEFINE row == RunOver(table.lanes[l], online)
    <2>3. other = [table EXCEPT !.lanes[l] = row]
      BY <1>2
    <2> HIDE DEF row
    <2>4. /\ TableOK(other) /\ other.starts = table.starts /\ other.lanes[l] = row
          /\ \A k \in Lanes \ {l} : other.lanes[k] = table.lanes[k]
      BY <2>1, <2>2, <2>3, LaneReplaced DEF row
    <2> QED BY <2>2, <2>4 DEF SameStarts, row
  <1>3. \/ other = table
        \/ \E l \in lanes, online \in BOOLEAN :
             /\ ~Blocked(table.lanes[l])
             /\ other = [table EXCEPT !.lanes[l] = RunOver(@, online)]
    BY DEF Turn, FirstDue, DueIn
  <1> QED BY <1>1, <1>2, <1>3

LEMMA StartedOK ==
    ASSUME NEW table, TableOK(table), NEW l \in Lanes, CanStart(table, l), now \in Nat,
           NEW requested \in Nat, NEW by \in {"player", "npc"}
    PROVE  LET other == Started(table, l, requested, by)
           IN  /\ TableOK(other)
               /\ other.starts = table.starts
               /\ other.lanes[l].job.by = by
               /\ \A k \in Lanes \ {l} : other.lanes[k] = table.lanes[k]
  <1> DEFINE job == [state |-> "RUNNING", requested |-> requested, done |-> 0,
                     end |-> now + 1, fresh |-> TRUE, by |-> by]
             row == [table.lanes[l] EXCEPT !.inputs = @ - 1,
                                           !.outputs = table.lanes[l].outputs, !.job = job]
  <1>1. /\ table.lanes[l] \in LaneRows
        /\ table.lanes[l].inputs - 1 \in 0..InCap
        /\ table.lanes[l].outputs \in 0..OutCap /\ table.lanes[l].outputs + 1 <= OutCap
    BY IndustryAssumption DEF TableOK, RowOK, CanStart, LaneRows
  <1>2. job \in Jobs /\ job.by = by
    BY DEF Jobs
  <1>3. Started(table, l, requested, by) = [table EXCEPT !.lanes[l] = row]
    BY <1>1 DEF Started, LaneRows, TableOK, Tables
  <1> HIDE DEF job
  <1>4. row \in LaneRows /\ row.outputs = table.lanes[l].outputs /\ row.job = job
    BY <1>1, <1>2 DEF LaneRows
  <1> HIDE DEF row
  <1>5. RowOK(row)
    BY <1>1, <1>4, IndustryAssumption DEF RowOK, Blocked
  <1> QED BY <1>2, <1>3, <1>4, <1>5, LaneReplaced

(* The table that a transfer leaves. *)
SlotsChange(table, other, l, stock, goods, inputs, outputs) ==
    other = [table EXCEPT !.stock = stock, !.goods = goods,
                          !.lanes[l] = [@ EXCEPT !.inputs = inputs, !.outputs = outputs]]

LEMMA SlotsChangeOK ==
    ASSUME NEW table, TableOK(table), NEW l \in Lanes, NEW other,
           NEW stock \in Nat, NEW goods \in Nat, NEW inputs \in 0..InCap,
           NEW outputs \in 0..OutCap, outputs <= table.lanes[l].outputs,
           SlotsChange(table, other, l, stock, goods, inputs, outputs)
    PROVE  TableOK(other) /\ SameStarts(table, other)
  <1> DEFINE row == [table.lanes[l] EXCEPT !.inputs = inputs, !.outputs = outputs]
  <1>1. /\ table.lanes[l] \in LaneRows
        /\ table.lanes[l].outputs \in Nat /\ outputs \in Nat /\ OutCap \in Nat
        /\ Running(table.lanes[l].job) => ~Blocked(table.lanes[l])
    BY IndustryAssumption DEF TableOK, RowOK, LaneRows
  <1>2. row \in LaneRows
    BY <1>1 DEF LaneRows
  <1>3. row.job = table.lanes[l].job /\ row.outputs = outputs
    BY <1>1 DEF LaneRows
  <1>4. other = [table EXCEPT !.stock = stock, !.goods = goods, !.lanes[l] = row]
    BY DEF SlotsChange
  <1> HIDE DEF row
  <1>5. RowOK(row)
    BY <1>1, <1>2, <1>3 DEF RowOK, Blocked
  <1>6. /\ other \in Tables /\ other.starts = table.starts /\ other.lanes[l] = row
        /\ \A k \in Lanes \ {l} : other.lanes[k] = table.lanes[k]
    BY <1>2, <1>4 DEF TableOK, Tables
  <1> QED BY <1>3, <1>5, <1>6 DEF TableOK, SameStarts

(* What one call of a player moves. *)
Moved(table) ==
    UNION {Deposited(table, l) \cup InputWithdrawn(table, l) \cup OutputWithdrawn(table, l) :
             l \in Lanes}

LEMMA MovedOK ==
    ASSUME NEW table, TableOK(table), NEW other \in Moved(table)
    PROVE  TableOK(other) /\ SameStarts(table, other)
  <1>1. PICK l \in Lanes : \/ other \in Deposited(table, l)
                           \/ other \in InputWithdrawn(table, l)
                           \/ other \in OutputWithdrawn(table, l)
    BY DEF Moved
  <1> DEFINE row == table.lanes[l]
  <1>2. /\ table.stock \in Nat /\ table.goods \in Nat
        /\ row.inputs \in 0..InCap /\ row.outputs \in 0..OutCap
        /\ InCap \in Nat /\ OutCap \in Nat
        /\ row.outputs <= row.outputs
    BY IndustryAssumption DEF TableOK, RowOK, Tables, LaneRows
  <1>3. CASE other \in Deposited(table, l)
    <2>1. /\ table.stock - 1 \in Nat /\ row.inputs + 1 \in 0..InCap
          /\ other = [table EXCEPT !.stock = @ - 1, !.lanes[l].inputs = @ + 1]
      BY <1>2, <1>3 DEF Deposited
    <2>2. SlotsChange(table, other, l, table.stock - 1, table.goods, row.inputs + 1, row.outputs)
      BY <2>1 DEF SlotsChange, TableOK, RowOK, Tables, LaneRows
    <2> QED BY <1>2, <2>1, <2>2, SlotsChangeOK
  <1>4. CASE other \in InputWithdrawn(table, l)
    <2>1. /\ table.stock + 1 \in Nat /\ row.inputs - 1 \in 0..InCap
          /\ other = [table EXCEPT !.stock = @ + 1, !.lanes[l].inputs = @ - 1]
      BY <1>2, <1>4 DEF InputWithdrawn
    <2>2. SlotsChange(table, other, l, table.stock + 1, table.goods, row.inputs - 1, row.outputs)
      BY <2>1 DEF SlotsChange, TableOK, RowOK, Tables, LaneRows
    <2> QED BY <1>2, <2>1, <2>2, SlotsChangeOK
  <1>5. CASE other \in OutputWithdrawn(table, l)
    <2>1. /\ table.goods + 1 \in Nat /\ row.outputs - 1 \in 0..OutCap
          /\ row.outputs - 1 <= row.outputs
          /\ other = [table EXCEPT !.goods = @ + 1, !.lanes[l].outputs = @ - 1]
      BY <1>2, <1>5 DEF OutputWithdrawn
    <2>2. SlotsChange(table, other, l, table.stock, table.goods + 1, row.inputs, row.outputs - 1)
      BY <2>1 DEF SlotsChange, TableOK, RowOK, Tables, LaneRows
    <2> QED BY <1>2, <2>1, <2>2, SlotsChangeOK
  <1> QED BY <1>1, <1>3, <1>4, <1>5

(* Other recipes are there after a restart. *)
LEMMA UpgradedOK ==
    ASSUME NEW table, TableOK(table), NEW other,
           other = [table EXCEPT !.lanes = [l \in Lanes |-> [@[l] EXCEPT !.job.fresh = FALSE]]]
    PROVE  TableOK(other) /\ SameStarts(table, other)
  <1> DEFINE row(l) == [table.lanes[l] EXCEPT !.job.fresh = FALSE]
  <1>1. ASSUME NEW l \in Lanes
        PROVE  /\ RowOK(row(l)) /\ row(l) \in LaneRows
               /\ row(l).job.by = table.lanes[l].job.by
    <2> DEFINE job == [table.lanes[l].job EXCEPT !.fresh = FALSE]
    <2>1. table.lanes[l] \in LaneRows /\ (Running(table.lanes[l].job) => ~Blocked(table.lanes[l]))
      BY DEF TableOK, RowOK
    <2>2. job \in Jobs /\ job.by = table.lanes[l].job.by /\ job.state = table.lanes[l].job.state
      BY <2>1 DEF LaneRows, Jobs
    <2>3. row(l) = [table.lanes[l] EXCEPT !.job = job]
      BY <2>1 DEF LaneRows, Jobs
    <2> HIDE DEF job, row
    <2>4. row(l) \in LaneRows /\ row(l).job = job /\ row(l).outputs = table.lanes[l].outputs
      BY <2>1, <2>2, <2>3 DEF LaneRows
    <2> QED BY <2>1, <2>2, <2>4 DEF RowOK, Running, Blocked
  <1>2. other = [table EXCEPT !.lanes = [l \in Lanes |-> row(l)]]
    BY DEF TableOK, Tables
  <1> HIDE DEF row
  <1>3. other \in Tables /\ other.starts = table.starts /\ \A l \in Lanes : other.lanes[l] = row(l)
    <2>1. [l \in Lanes |-> row(l)] \in [Lanes -> LaneRows] /\ table \in Tables
      BY <1>1 DEF TableOK
    <2> QED BY <1>2, <2>1 DEF Tables
  <1> QED BY <1>1, <1>3 DEF TableOK, SameStarts

(* Only the lane's record and the count matter to the NPC. *)
LEMMA AdoptableKept ==
    ASSUME NEW table, NEW other, SameStarts(table, other), Adoptable(table)
    PROVE  Adoptable(other)
  BY IndustryAssumption DEF SameStarts, Adoptable, Lanes

--------------------------------------------------------------------------------
(* The steps. *)

LEMMA EnteredOK ==
    ASSUME IInv, NEW entered \in Entered
    PROVE  /\ TableOK(entered[1]) /\ SameStarts(items, entered[1])
           /\ entered[2] \in BOOLEAN
  <1>1. CASE entered = <<items, tracked>>
    BY <1>1 DEF IInv, IndustryTypeOK, SameStarts
  <1>2. CASE \E t \in Turn(items, Lanes) : entered = <<t, Active(t)>>
    BY <1>2, TurnOK DEF IInv, Active
  <1> QED BY <1>1, <1>2 DEF Entered

(* A call that leaves alone who started what. *)
LEMMA HarmlessStep ==
    ASSUME IInv, TableOK(items'), SameStarts(items, items'), tracked' \in BOOLEAN,
           UNCHANGED <<itemsDisk, laneCount, now, npc, npcDisk, overwritten, faults, ends>>
    PROVE  IInv'
  <1>1. IndustryTypeOK'
    BY DEF IInv, IndustryTypeOK, TableOK
  <1>2. Adoptable(items) => Adoptable(items)'
    BY IndustryAssumption DEF SameStarts, Adoptable, Lanes
  <1>3. TableOK(itemsDisk)' /\ TableOK(items)' /\ (Adoptable(itemsDisk) => Adoptable(itemsDisk)')
    BY DEF IInv, TableOK, Tables, RowOK, Adoptable
  <1> QED BY <1>1, <1>2, <1>3 DEF IInv, Adoptable

LEMMA WorkerTurnKeeps == ASSUME IInv, WorkerTurn PROVE IInv'
  <1>1. TableOK(items') /\ SameStarts(items, items')
    BY TurnOK DEF WorkerTurn, IInv
  <1>2. tracked' \in BOOLEAN
    BY DEF WorkerTurn, Active
  <1> QED BY <1>1, <1>2, HarmlessStep DEF WorkerTurn

LEMMA TransferKeeps ==
    ASSUME IInv, NEW entered \in Entered, Transfer(entered[1], entered[2]),
           UNCHANGED <<itemsDisk, laneCount, now, npc, npcDisk, faults, ends>>
    PROVE  IInv'
  <1>1. TableOK(entered[1]) /\ SameStarts(items, entered[1]) /\ entered[2] \in BOOLEAN
    BY EnteredOK
  <1>2. items' = entered[1] \/ items' \in Moved(entered[1])
    BY DEF Transfer, Moved
  <1>3. TableOK(items') /\ SameStarts(entered[1], items')
    BY <1>1, <1>2, MovedOK DEF SameStarts
  <1>4. SameStarts(items, items')
    BY <1>1, <1>3 DEF SameStarts
  <1> QED BY <1>1, <1>3, <1>4, HarmlessStep DEF Transfer

LEMMA DiscontinueKeeps ==
    ASSUME IInv, NEW l \in Lanes, Discontinue(l),
           UNCHANGED <<itemsDisk, laneCount, now, npc, npcDisk, faults, ends>>
    PROVE  IInv'
  <1> DEFINE job == [items.lanes[l].job EXCEPT !.state = "DISCONTINUING"]
             row == [items.lanes[l] EXCEPT !.job = job]
             marked == [items EXCEPT !.lanes[l] = row]
  <1>1. /\ items.lanes[l] \in LaneRows /\ Running(items.lanes[l].job)
        /\ ~Blocked(items.lanes[l])
    BY DEF IInv, TableOK, RowOK, Discontinue
  <1>2. job \in Jobs /\ job.by = items.lanes[l].job.by
    BY <1>1 DEF LaneRows, Jobs
  <1>3. marked = [items EXCEPT !.lanes[l].job.state = "DISCONTINUING"]
    BY <1>1 DEF IInv, TableOK, Tables, LaneRows, Jobs
  <1>4. items' \in Turn(marked, {l}) /\ tracked' \in BOOLEAN
    BY <1>3 DEF Discontinue, Active
  <1> HIDE DEF job
  <1>5. row \in LaneRows /\ row.job = job /\ row.outputs = items.lanes[l].outputs
    BY <1>1, <1>2 DEF LaneRows
  <1> HIDE DEF row
  <1>6. RowOK(row)
    BY <1>1, <1>5 DEF RowOK, Blocked
  <1>7. /\ TableOK(marked) /\ marked.starts = items.starts /\ marked.lanes[l] = row
        /\ \A k \in Lanes \ {l} : marked.lanes[k] = items.lanes[k]
    BY <1>6, LaneReplaced DEF IInv
  <1>8. SameStarts(items, marked)
    BY <1>2, <1>5, <1>7 DEF SameStarts
  <1> HIDE DEF marked
  <1>9. TableOK(items') /\ SameStarts(marked, items')
    BY <1>4, <1>7, TurnOK
  <1>10. SameStarts(items, items')
    BY <1>8, <1>9 DEF SameStarts
  <1> QED BY <1>4, <1>9, <1>10, HarmlessStep DEF Discontinue

(* The record of a start that the NPC's file does not note may go: that is  *)
(* what overwritten tells.                                                  *)
LEMMA PlayerStartKeeps ==
    ASSUME IInv, NEW entered \in Entered, NEW l \in Lanes, NEW requested \in Nat,
           PlayerStart(entered[1], l, requested),
           UNCHANGED <<itemsDisk, laneCount, now, npc, npcDisk, faults, ends>>
    PROVE  IInv'
  <1> DEFINE table == entered[1]
  <1>1. TableOK(table) /\ SameStarts(items, table)
    BY EnteredOK
  <1>2. now \in Nat
    BY DEF IInv, IndustryTypeOK
  <1>3. /\ TableOK(items') /\ items'.starts = table.starts
        /\ \A k \in Lanes \ {l} : items'.lanes[k] = table.lanes[k]
    BY <1>1, <1>2, StartedOK DEF PlayerStart
  <1>4. IndustryTypeOK'
    BY <1>3 DEF IInv, IndustryTypeOK, TableOK, PlayerStart
  <1>5. TableOK(itemsDisk)' /\ (npc = "pending" => npcDisk = "pending")'
    BY DEF IInv, TableOK, Tables, RowOK
  <1>6. overwritten' \/ (Adoptable(items) /\ Adoptable(itemsDisk))'
    <2> SUFFICES ASSUME ~overwritten' PROVE (Adoptable(items) /\ Adoptable(itemsDisk))'
      OBVIOUS
    <2>1. ~overwritten /\ ~(npcDisk = "pending" /\ table.lanes[l].job.by = "npc")
      BY DEF PlayerStart, IInv, IndustryTypeOK
    <2>2. Adoptable(items) /\ Adoptable(itemsDisk)
      BY <2>1 DEF IInv
    <2>3. Adoptable(table)
      BY <1>1, <2>2, AdoptableKept
    <2>4. Adoptable(items')
      BY <1>3, <2>1, <2>3, IndustryAssumption DEF Adoptable, Lanes
    <2> QED BY <2>2, <2>4 DEF Adoptable
  <1> QED BY <1>3, <1>4, <1>5, <1>6 DEF IInv, TableOK, Tables, RowOK

LEMMA PlayerCallsKeep == ASSUME IInv, PlayerCalls PROVE IInv'
  <1>1. UNCHANGED <<itemsDisk, laneCount, now, npc, npcDisk, faults, ends>>
    BY DEF PlayerCalls
  <1>2. \/ \E entered \in Entered : Transfer(entered[1], entered[2])
        \/ \E entered \in Entered, l \in Lanes, requested \in Nat :
              PlayerStart(entered[1], l, requested)
        \/ \E l \in Lanes : Discontinue(l)
    BY DEF PlayerCalls, NoLimit
  <1> QED BY <1>1, <1>2, TransferKeeps, PlayerStartKeeps, DiscontinueKeeps

(* The NPC's file never goes back to "pending". *)
LEMMA SavedCheckpoint ==
    ASSUME IInv, NEW checkpoint \in {"started", "done", "gone"}, Saves(checkpoint)
    PROVE  /\ npc' \in {"started", "done", "gone"}
           /\ npcDisk' \in {"pending", "started", "done", "gone"}
           /\ npcDisk' = "pending" => npcDisk = "pending"
           /\ faults' \in 0..MaxFaults
  BY IndustryAssumption DEF Saves, IInv, IndustryTypeOK

(* What the NPC did not start in this step it may still recognise. *)
LEMMA NpcStepKeeps ==
    ASSUME IInv, NEW checkpoint \in {"started", "done", "gone"}, Saves(checkpoint), ByNpc,
           TableOK(items'), overwritten \/ (npcDisk' = "pending" => items'.lanes[NpcLane].job.by = "npc"),
           overwritten \/ items'.starts <= 1
    PROVE  IInv'
  <1>1. IndustryTypeOK' /\ (npc = "pending" => npcDisk = "pending")'
    BY SavedCheckpoint DEF IInv, IndustryTypeOK, TableOK, ByNpc
  <1>2. TableOK(itemsDisk)' /\ TableOK(items)'
    BY DEF IInv, TableOK, Tables, RowOK, ByNpc
  <1>3. overwritten' \/ (Adoptable(items) /\ Adoptable(itemsDisk))'
    BY SavedCheckpoint DEF IInv, Adoptable, ByNpc
  <1> QED BY <1>1, <1>2, <1>3 DEF IInv, TableOK, Tables, RowOK

LEMMA NpcStartKeeps == ASSUME IInv, NpcStart PROVE IInv'
  <1> DEFINE table == Started(items, NpcLane, NpcRuns, "npc")
  <1>1. /\ NpcLane \in Lanes /\ NpcRuns \in Nat /\ now \in Nat
        /\ TableOK(items) /\ CanStart(items, NpcLane)
    BY IndustryAssumption DEF IInv, IndustryTypeOK, Lanes, NpcStart
  <1>2. TableOK(table) /\ table.starts = items.starts /\ table.lanes[NpcLane].job.by = "npc"
    BY <1>1, StartedOK
  <1>3. items' = [table EXCEPT !.starts = @ + 1]
    BY DEF NpcStart
  <1> HIDE DEF table
  <1>4. TableOK(items') /\ items'.starts = items.starts + 1 /\ items'.lanes = table.lanes
    BY <1>2, <1>3 DEF TableOK, Tables
  <1>5. overwritten \/ items.starts = 0
    BY <1>1 DEF IInv, Adoptable, NpcStart, NpcJob, TableOK, Tables
  <1>6. ByNpc /\ Saves("started")
    BY DEF NpcStart
  <1> QED BY <1>2, <1>4, <1>5, <1>6, NpcStepKeeps

LEMMA NpcAdvanceKeeps == ASSUME IInv, NpcAdvance PROVE IInv'
  <1>1. NpcLane \in Lanes /\ {NpcLane} \in SUBSET Lanes
    BY IndustryAssumption DEF Lanes
  <1>2. items' \in Turn(items, {NpcLane}) /\ items.lanes[NpcLane].job.by = "npc"
    BY DEF NpcAdvance, NpcJob
  <1>3. TableOK(items') /\ SameStarts(items, items')
    BY <1>1, <1>2, TurnOK DEF IInv
  <1>4. items'.lanes[NpcLane].job.by = "npc" /\ (overwritten \/ items'.starts <= 1)
    BY <1>1, <1>2, <1>3 DEF SameStarts, IInv, Adoptable
  <1>5. PICK checkpoint \in {"started", "done", "gone"} : Saves(checkpoint) /\ ByNpc
    BY DEF NpcAdvance
  <1> QED BY <1>3, <1>4, <1>5, NpcStepKeeps

(* It goes without a look at its lane. *)
LEMMA NpcGoesKeeps == ASSUME IInv, NpcGoes PROVE IInv'
  <1>1. ByNpc /\ Saves("gone") /\ UNCHANGED items
    BY DEF NpcGoes
  <1>2. IndustryTypeOK' /\ (npc = "pending" => npcDisk = "pending")'
    BY <1>1, SavedCheckpoint DEF IInv, IndustryTypeOK, ByNpc
  <1>3. overwritten' \/ (Adoptable(items) /\ Adoptable(itemsDisk))'
    BY <1>1, SavedCheckpoint DEF IInv, Adoptable, ByNpc
  <1> QED BY <1>1, <1>2, <1>3 DEF IInv, TableOK, Tables, RowOK, ByNpc

LEMMA ClockKeeps == ASSUME IInv, Clock PROVE IInv'
  BY IndustryAssumption DEF IInv, IndustryTypeOK, TableOK, Tables, RowOK, Adoptable, Clock

LEMMA FlushKeeps == ASSUME IInv, Flush PROVE IInv'
  BY DEF IInv, IndustryTypeOK, TableOK, Tables, RowOK, Adoptable, Flush

LEMMA RestartKeeps == ASSUME IInv, Restart PROVE IInv'
  <1>1. PICK found : /\ items' \in Turn(found, Lanes)
                     /\ \/ found = itemsDisk
                        \/ found = [itemsDisk EXCEPT !.lanes =
                                      [l \in Lanes |-> [@[l] EXCEPT !.job.fresh = FALSE]]]
    BY DEF Restart
  <1>2. TableOK(found) /\ SameStarts(itemsDisk, found)
    BY <1>1, UpgradedOK DEF IInv, SameStarts
  <1>3. TableOK(items') /\ SameStarts(found, items')
    BY <1>1, <1>2, TurnOK
  <1>4. SameStarts(itemsDisk, items')
    BY <1>2, <1>3 DEF SameStarts
  <1>5. itemsDisk' = itemsDisk \/ itemsDisk' = NewTable
    BY DEF Restart
  <1>6. TableOK(itemsDisk')
    BY <1>5, NewTableOK DEF IInv
  <1>7. Adoptable(itemsDisk) => Adoptable(items') /\ Adoptable(itemsDisk')
    BY <1>4, <1>5, AdoptableKept, NewTableOK DEF Adoptable
  <1>8. IndustryTypeOK' /\ (npc = "pending" => npcDisk = "pending")'
    BY <1>3, <1>6, IndustryAssumption DEF IInv, IndustryTypeOK, TableOK, Restart, Active
  <1>9. overwritten' \/ (Adoptable(items) /\ Adoptable(itemsDisk))'
    BY <1>7 DEF IInv, Adoptable, Restart
  <1> QED BY <1>3, <1>6, <1>8, <1>9 DEF IInv, TableOK, Tables, RowOK

LEMMA InitHolds == IndustryInit => IInv
  <1> SUFFICES ASSUME IndustryInit PROVE IInv
    OBVIOUS
  <1>1. items = NewTable /\ itemsDisk = NewTable /\ npc = "pending" /\ npcDisk = "pending"
    BY DEF IndustryInit
  <1>2. TableOK(items) /\ TableOK(itemsDisk) /\ items.starts = 0 /\ itemsDisk.starts = 0
    BY <1>1, NewTableOK
  <1>3. NumLanes \in Lanes
    BY IndustryAssumption DEF Lanes
  <1>4. IndustryTypeOK
    <2>1. 0 \in 0..MaxTime /\ 0 \in 0..MaxFaults /\ 0 \in 0..MaxEnds
      BY IndustryAssumption
    <2>2. items \in Tables /\ itemsDisk \in Tables
      BY <1>2 DEF TableOK
    <2>3. /\ tracked = FALSE /\ overwritten = FALSE /\ laneCount = NumLanes
          /\ now = 0 /\ faults = 0 /\ ends = 0
      BY DEF IndustryInit
    <2> QED BY <1>1, <1>3, <2>1, <2>2, <2>3 DEF IndustryTypeOK
  <1> QED BY <1>1, <1>2, <1>4 DEF IInv, Adoptable

LEMMA StepKeeps == IInv /\ [IndustryNext]_vars => IInv'
  <1> SUFFICES ASSUME IInv, [IndustryNext]_vars PROVE IInv'
    OBVIOUS
  <1>1. CASE UNCHANGED vars
    BY <1>1 DEF IInv, IndustryTypeOK, TableOK, Tables, RowOK, Adoptable, vars
  <1>2. CASE IndustryNext
    BY <1>2, WorkerTurnKeeps, PlayerCallsKeep, NpcStartKeeps, NpcAdvanceKeeps, NpcGoesKeeps,
       ClockKeeps, FlushKeeps, RestartKeeps
    DEF IndustryNext
  <1> QED BY <1>1, <1>2

LEMMA AlwaysIInv == IndustrySpec => []IInv
  BY InitHolds, StepKeeps, PTL DEF IndustrySpec

--------------------------------------------------------------------------------
(* The units. *)

(* A table in which no unit has moved. *)
SameUnits(table, other) ==
    /\ other.stock = table.stock /\ other.goods = table.goods
    /\ \A l \in Lanes : LaneUnits(other.lanes[l]) = LaneUnits(table.lanes[l])

(* The units of a table and those of its file are all there are. *)
AllThere == Balanced(items) /\ Balanced(itemsDisk)

LEMMA SameUnitsBalance ==
    ASSUME NEW table, NEW other, SameUnits(table, other), Balanced(table)
    PROVE  Balanced(other)
  <1>1. Held(other) = Held(table)
    BY DEF Held, SameUnits
  <1> QED BY <1>1 DEF Balanced, SameUnits

(* A lane has room for as many units as have a number. *)
LEMMA LaneUnitsBounded ==
    ASSUME NEW row, RowOK(row)
    PROVE  LaneUnits(row) \in 0..InCap + OutCap + 1
  <1>1. /\ row.inputs \in 0..InCap /\ row.outputs \in 0..OutCap
        /\ InCap \in Nat /\ OutCap \in Nat
    BY IndustryAssumption DEF RowOK, LaneRows
  <1> QED BY <1>1 DEF LaneUnits

LEMMA HeldFinite == ASSUME NEW table PROVE IsFiniteSet(Held(table)) /\ Cardinality(Held(table)) \in Nat
  <1>1. NumLanes \in Int /\ InCap + OutCap + 1 \in Int
    BY IndustryAssumption
  <1>2. IsFiniteSet(Lanes) /\ IsFiniteSet(1..InCap + OutCap + 1)
    BY <1>1, FS_Interval DEF Lanes
  <1>3. IsFiniteSet(Lanes \X (1..InCap + OutCap + 1))
    BY <1>2, FS_Product
  <1>4. Held(table) \in SUBSET (Lanes \X (1..InCap + OutCap + 1))
    BY DEF Held
  <1>5. IsFiniteSet(Held(table))
    BY <1>3, <1>4, FS_Subset
  <1> QED BY <1>5, FS_CardinalityType

(* One more unit in one lane is one more unit. *)
LEMMA OneUnit ==
    ASSUME NEW table, TableOK(table), NEW other, TableOK(other), NEW l \in Lanes,
           LaneUnits(other.lanes[l]) = LaneUnits(table.lanes[l]) + 1,
           \A k \in Lanes \ {l} : other.lanes[k] = table.lanes[k]
    PROVE  Cardinality(Held(other)) = Cardinality(Held(table)) + 1
  <1> DEFINE n == LaneUnits(table.lanes[l]) + 1
             unit == <<l, n>>
  <1>1. /\ n \in 1..InCap + OutCap + 1 /\ LaneUnits(other.lanes[l]) = n
        /\ LaneUnits(table.lanes[l]) = n - 1
    <2>1. /\ LaneUnits(table.lanes[l]) \in 0..InCap + OutCap + 1
          /\ LaneUnits(other.lanes[l]) \in 0..InCap + OutCap + 1
      BY LaneUnitsBounded DEF TableOK
    <2> QED BY <2>1
  <1> HIDE DEF n
  <1>2. Held(other) = Held(table) \cup {unit}
    <2>1. ASSUME NEW u \in Lanes \X (1..InCap + OutCap + 1)
          PROVE  u \in Held(other) <=> u \in Held(table) \/ u = unit
      <3>1. PICK k \in Lanes, i \in 1..InCap + OutCap + 1 : u = <<k, i>>
        OBVIOUS
      <3>2. CASE k = l
        <4>1. i <= n <=> i <= n - 1 \/ i = n
          <5>1. InCap \in Nat /\ OutCap \in Nat
            BY IndustryAssumption
          <5> QED BY <1>1, <3>1, <5>1
        <4> QED BY <1>1, <3>1, <3>2, <4>1 DEF Held
      <3>3. CASE k # l
        BY <3>1, <3>3 DEF Held
      <3> QED BY <3>2, <3>3
    <2>2. unit \in Lanes \X (1..InCap + OutCap + 1)
      BY <1>1
    <2>3. /\ Held(other) \subseteq Lanes \X (1..InCap + OutCap + 1)
          /\ Held(table) \subseteq Lanes \X (1..InCap + OutCap + 1)
      BY DEF Held
    <2> QED BY <2>1, <2>2, <2>3
  <1>3. unit \notin Held(table)
    <2>1. ~(n <= n - 1)
      BY <1>1, IndustryAssumption
    <2> QED BY <1>1, <2>1 DEF Held
  <1> QED BY <1>2, <1>3, HeldFinite, FS_AddElement

(* The product of a run takes the place of its unit, and what pays for the  *)
(* next was in escrow.                                                      *)
LEMMA RunOverUnits ==
    ASSUME NEW row, RowOK(row), Running(row.job), NEW online \in BOOLEAN
    PROVE  LaneUnits(RunOver(row, online)) = LaneUnits(row)
  <1>1. /\ row \in LaneRows /\ row.job \in Jobs
        /\ row.inputs \in Nat /\ row.outputs \in Nat
    BY IndustryAssumption DEF RowOK, LaneRows
  <1>2. CASE PaysNext(row, online)
    <2>1. /\ RunOver(row, online).inputs = row.inputs - 1
          /\ RunOver(row, online).outputs = row.outputs + 1
          /\ RunOver(row, online).job.state = row.job.state
      BY <1>1, <1>2 DEF RunOver, LaneRows, Jobs
    <2> QED BY <1>1, <2>1 DEF LaneUnits, Running
  <1>3. CASE ~PaysNext(row, online)
    <2>1. PICK state \in {"COMPLETED", "INTERRUPTED"} :
            RunOver(row, online) =
              [row EXCEPT !.outputs = @ + 1, !.job.done = @ + 1, !.job.state = state]
      BY <1>3 DEF RunOver
    <2>2. RunOver(row, online) =
            [row EXCEPT !.outputs = @ + 1,
                        !.job = [row.job EXCEPT !.done = @ + 1, !.state = state]]
      BY <1>1, <2>1 DEF LaneRows, Jobs
    <2>3. [row.job EXCEPT !.done = @ + 1, !.state = state].state = state
      BY <1>1 DEF Jobs
    <2>4. /\ RunOver(row, online).inputs = row.inputs
          /\ RunOver(row, online).outputs = row.outputs + 1
          /\ RunOver(row, online).job.state = state
      BY <1>1, <2>2, <2>3 DEF LaneRows
    <2> QED BY <1>1, <2>4 DEF LaneUnits, Running
  <1> QED BY <1>2, <1>3

LEMMA TurnUnits ==
    ASSUME NEW table, TableOK(table), NEW lanes \in SUBSET Lanes,
           NEW other \in Turn(table, lanes)
    PROVE  SameUnits(table, other)
  <1>1. CASE other = table
    BY <1>1 DEF SameUnits
  <1>2. ASSUME NEW l \in lanes, Running(table.lanes[l].job), NEW online \in BOOLEAN,
               other = [table EXCEPT !.lanes[l] = RunOver(@, online)]
        PROVE  SameUnits(table, other)
    <2> DEFINE row == RunOver(table.lanes[l], online)
    <2>1. LaneUnits(row) = LaneUnits(table.lanes[l]) /\ other = [table EXCEPT !.lanes[l] = row]
      BY <1>2, RunOverUnits DEF TableOK
    <2> HIDE DEF row
    <2>2. /\ other.stock = table.stock /\ other.goods = table.goods /\ other.lanes[l] = row
          /\ \A k \in Lanes \ {l} : other.lanes[k] = table.lanes[k]
      BY <2>1 DEF TableOK, Tables
    <2> QED BY <2>1, <2>2 DEF SameUnits
  <1>3. \/ other = table
        \/ \E l \in lanes, online \in BOOLEAN :
             /\ Running(table.lanes[l].job)
             /\ other = [table EXCEPT !.lanes[l] = RunOver(@, online)]
    BY DEF Turn, FirstDue, DueIn, DueJob
  <1> QED BY <1>1, <1>2, <1>3

(* The first run is paid for by a unit in escrow. *)
LEMMA StartedUnits ==
    ASSUME NEW table, TableOK(table), NEW l \in Lanes, CanStart(table, l),
           NEW requested, NEW by
    PROVE  SameUnits(table, Started(table, l, requested, by))
  <1> DEFINE other == Started(table, l, requested, by)
  <1>1. /\ table.lanes[l] \in LaneRows /\ ~Running(table.lanes[l].job)
        /\ table.lanes[l].inputs \in Nat /\ table.lanes[l].outputs \in Nat
    BY IndustryAssumption DEF TableOK, RowOK, LaneRows, CanStart
  <1>2. /\ other.stock = table.stock /\ other.goods = table.goods
        /\ other.lanes[l].inputs = table.lanes[l].inputs - 1
        /\ other.lanes[l].outputs = table.lanes[l].outputs
        /\ other.lanes[l].job.state = "RUNNING"
        /\ \A k \in Lanes \ {l} : other.lanes[k] = table.lanes[k]
    BY <1>1 DEF Started, TableOK, Tables, LaneRows
  <1> HIDE DEF other
  <1>3. LaneUnits(other.lanes[l]) = LaneUnits(table.lanes[l])
    BY <1>1, <1>2 DEF LaneUnits, Running
  <1> QED BY <1>2, <1>3 DEF SameUnits, other

(* What a player moves goes from one place to another. *)
LEMMA MovedUnits ==
    ASSUME NEW table, TableOK(table), NEW other \in Moved(table), Balanced(table)
    PROVE  Balanced(other)
  <1>1. PICK l \in Lanes : \/ other \in Deposited(table, l)
                           \/ other \in InputWithdrawn(table, l)
                           \/ other \in OutputWithdrawn(table, l)
    BY DEF Moved
  <1>2. /\ table \in Tables /\ table.lanes[l] \in LaneRows /\ TableOK(other)
        /\ table.stock \in Nat /\ table.goods \in Nat
        /\ table.lanes[l].inputs \in Nat /\ table.lanes[l].outputs \in Nat
    BY MovedOK, IndustryAssumption DEF TableOK, RowOK, Tables, LaneRows
  <1>3. /\ Cardinality(Held(table)) \in Nat /\ Cardinality(Held(other)) \in Nat
    BY HeldFinite
  <1>4. CASE other \in Deposited(table, l)
    <2>1. /\ other.stock = table.stock - 1 /\ other.goods = table.goods
          /\ other.lanes[l] = [table.lanes[l] EXCEPT !.inputs = @ + 1]
          /\ \A k \in Lanes \ {l} : other.lanes[k] = table.lanes[k]
      BY <1>2, <1>4 DEF Deposited, Tables
    <2>2. LaneUnits(other.lanes[l]) = LaneUnits(table.lanes[l]) + 1
      BY <1>2, <2>1 DEF LaneUnits, LaneRows
    <2>3. Cardinality(Held(other)) = Cardinality(Held(table)) + 1
      BY <1>2, <2>1, <2>2, OneUnit
    <2> QED BY <1>2, <1>3, <2>1, <2>3 DEF Balanced
  <1>5. CASE other \in InputWithdrawn(table, l)
    <2>1. /\ other.stock = table.stock + 1 /\ other.goods = table.goods
          /\ other.lanes[l] = [table.lanes[l] EXCEPT !.inputs = @ - 1]
          /\ \A k \in Lanes \ {l} : table.lanes[k] = other.lanes[k]
      BY <1>2, <1>5 DEF InputWithdrawn, Tables
    <2>2. LaneUnits(table.lanes[l]) = LaneUnits(other.lanes[l]) + 1
      BY <1>2, <2>1 DEF LaneUnits, LaneRows
    <2>3. Cardinality(Held(table)) = Cardinality(Held(other)) + 1
      BY <1>2, <2>1, <2>2, OneUnit
    <2> QED BY <1>2, <1>3, <2>1, <2>3 DEF Balanced
  <1>6. CASE other \in OutputWithdrawn(table, l)
    <2>1. /\ other.stock = table.stock /\ other.goods = table.goods + 1
          /\ other.lanes[l] = [table.lanes[l] EXCEPT !.outputs = @ - 1]
          /\ \A k \in Lanes \ {l} : table.lanes[k] = other.lanes[k]
      BY <1>2, <1>6 DEF OutputWithdrawn, Tables
    <2>2. LaneUnits(table.lanes[l]) = LaneUnits(other.lanes[l]) + 1
      BY <1>2, <2>1 DEF LaneUnits, LaneRows
    <2>3. Cardinality(Held(table)) = Cardinality(Held(other)) + 1
      BY <1>2, <2>1, <2>2, OneUnit
    <2> QED BY <1>2, <1>3, <2>1, <2>3 DEF Balanced
  <1> QED BY <1>1, <1>4, <1>5, <1>6

(* Other recipes move nothing. *)
LEMMA UpgradedUnits ==
    ASSUME NEW table, TableOK(table), NEW other,
           other = [table EXCEPT !.lanes = [l \in Lanes |-> [@[l] EXCEPT !.job.fresh = FALSE]]]
    PROVE  SameUnits(table, other)
  <1>1. /\ table \in Tables /\ other.stock = table.stock /\ other.goods = table.goods
        /\ \A l \in Lanes : other.lanes[l] = [table.lanes[l] EXCEPT !.job.fresh = FALSE]
    BY DEF TableOK, Tables
  <1>2. ASSUME NEW l \in Lanes
        PROVE  LaneUnits(other.lanes[l]) = LaneUnits(table.lanes[l])
    <2>1. table.lanes[l] \in LaneRows
      BY DEF TableOK, RowOK
    <2>2. /\ other.lanes[l].inputs = table.lanes[l].inputs
          /\ other.lanes[l].outputs = table.lanes[l].outputs
          /\ other.lanes[l].job.state = table.lanes[l].job.state
      BY <1>1, <2>1 DEF LaneRows, Jobs
    <2> QED BY <2>2 DEF LaneUnits, Running
  <1> QED BY <1>1, <1>2 DEF SameUnits

LEMMA NewTableUnits == Balanced(NewTable)
  <1>1. Held(NewTable) = {}
    <2>1. ASSUME NEW l \in Lanes PROVE LaneUnits(NewTable.lanes[l]) = 0
      BY DEF LaneUnits, NewTable, NoJob, Running
    <2>2. ASSUME NEW u \in Lanes \X (1..InCap + OutCap + 1) PROVE ~(u[2] <= 0) /\ u[1] \in Lanes
      BY IndustryAssumption
    <2> QED BY <2>1, <2>2 DEF Held
  <1>2. NewTable.stock = Units /\ NewTable.goods = 0 /\ Units \in Nat
    BY IndustryAssumption DEF NewTable
  <1> QED BY <1>1, <1>2, FS_EmptySet DEF Balanced

LEMMA PlayerCallsUnits == ASSUME IInv, AllThere, PlayerCalls PROVE AllThere'
  <1>1. UNCHANGED itemsDisk /\ TableOK(items)
    BY DEF PlayerCalls, IInv
  <1>2. ASSUME NEW entered \in Entered
        PROVE  TableOK(entered[1]) /\ Balanced(entered[1])
    <2>1. entered[1] = items \/ entered[1] \in Turn(items, Lanes)
      BY DEF Entered
    <2>2. Balanced(entered[1])
      BY <1>1, <2>1, TurnUnits, SameUnitsBalance DEF AllThere
    <2> QED BY <2>2, EnteredOK
  <1>3. ASSUME NEW entered \in Entered, Transfer(entered[1], entered[2])
        PROVE  Balanced(items')
    <2>1. items' = entered[1] \/ items' \in Moved(entered[1])
      BY <1>3 DEF Transfer, Moved
    <2> QED BY <1>2, <2>1, MovedUnits
  <1>4. ASSUME NEW entered \in Entered, NEW l \in Lanes, NEW requested,
               PlayerStart(entered[1], l, requested)
        PROVE  Balanced(items')
    BY <1>2, <1>4, StartedUnits, SameUnitsBalance DEF PlayerStart
  <1>5. ASSUME NEW l \in Lanes, Discontinue(l)
        PROVE  Balanced(items')
    <2> DEFINE job == [items.lanes[l].job EXCEPT !.state = "DISCONTINUING"]
               row == [items.lanes[l] EXCEPT !.job = job]
               marked == [items EXCEPT !.lanes[l] = row]
    <2>1. /\ items \in Tables /\ items.lanes[l] \in LaneRows /\ items.lanes[l].job \in Jobs
          /\ RowOK(items.lanes[l]) /\ Running(items.lanes[l].job)
      BY <1>1, <1>5 DEF TableOK, RowOK, LaneRows, Discontinue
    <2>2. items' \in Turn(marked, {l})
      <3>1. marked = [items EXCEPT !.lanes[l].job.state = "DISCONTINUING"]
        BY <2>1 DEF Tables, LaneRows, Jobs
      <3> QED BY <1>5, <3>1 DEF Discontinue
    <2>3. job \in Jobs /\ job.state = "DISCONTINUING"
      BY <2>1 DEF Jobs
    <2> HIDE DEF job
    <2>4. /\ row \in LaneRows /\ row.job = job
          /\ row.inputs = items.lanes[l].inputs /\ row.outputs = items.lanes[l].outputs
      BY <2>1, <2>3 DEF LaneRows
    <2> HIDE DEF row
    <2>5. RowOK(row) /\ LaneUnits(row) = LaneUnits(items.lanes[l])
      BY <2>1, <2>3, <2>4 DEF RowOK, Blocked, LaneUnits, Running
    <2>6. /\ marked.stock = items.stock /\ marked.goods = items.goods /\ marked.lanes[l] = row
          /\ \A k \in Lanes \ {l} : marked.lanes[k] = items.lanes[k]
      BY <2>1 DEF Tables
    <2>7. TableOK(marked)
      BY <1>1, <2>5, LaneReplaced
    <2> HIDE DEF marked
    <2>8. SameUnits(items, marked) /\ SameUnits(marked, items')
      BY <2>2, <2>5, <2>6, <2>7, TurnUnits DEF SameUnits
    <2> QED BY <2>8, SameUnitsBalance DEF AllThere
  <1>6. \/ \E entered \in Entered : Transfer(entered[1], entered[2])
        \/ \E entered \in Entered, l \in Lanes, requested \in {NoLimit, 1} :
              PlayerStart(entered[1], l, requested)
        \/ \E l \in Lanes : Discontinue(l)
    BY DEF PlayerCalls
  <1>7. Balanced(items')
    BY <1>3, <1>4, <1>5, <1>6
  <1> QED BY <1>1, <1>7 DEF AllThere, Balanced, Held, LaneUnits

LEMMA NpcStartUnits == ASSUME IInv, AllThere, NpcStart PROVE AllThere'
  <1> DEFINE table == Started(items, NpcLane, NpcRuns, "npc")
  <1>1. /\ NpcLane \in Lanes /\ NpcRuns \in Nat /\ now \in Nat
        /\ TableOK(items) /\ CanStart(items, NpcLane)
    BY IndustryAssumption DEF IInv, IndustryTypeOK, Lanes, NpcStart
  <1>2. TableOK(table) /\ SameUnits(items, table)
    BY <1>1, StartedOK, StartedUnits
  <1>3. items' = [table EXCEPT !.starts = @ + 1] /\ UNCHANGED itemsDisk
    BY DEF NpcStart, ByNpc
  <1> HIDE DEF table
  <1>4. SameUnits(items, items')
    BY <1>2, <1>3 DEF SameUnits, TableOK, Tables
  <1>5. Balanced(items')
    BY <1>4, SameUnitsBalance DEF AllThere
  <1> QED BY <1>3, <1>5 DEF AllThere, Balanced, Held, LaneUnits

LEMMA RestartUnits == ASSUME IInv, AllThere, Restart PROVE AllThere'
  <1>1. PICK found : /\ items' \in Turn(found, Lanes)
                     /\ \/ found = itemsDisk
                        \/ found = [itemsDisk EXCEPT !.lanes =
                                      [l \in Lanes |-> [@[l] EXCEPT !.job.fresh = FALSE]]]
    BY DEF Restart
  <1>2. TableOK(found) /\ SameUnits(itemsDisk, found)
    BY <1>1, UpgradedOK, UpgradedUnits DEF IInv, SameUnits
  <1>3. Balanced(items')
    BY <1>1, <1>2, TurnUnits, SameUnitsBalance DEF AllThere
  <1>4. Balanced(itemsDisk')
    BY NewTableUnits DEF Restart, AllThere
  <1> QED BY <1>3, <1>4 DEF AllThere, Balanced, Held, LaneUnits

(* No step makes a unit or loses one. *)
LEMMA UnitsKept == IInv /\ AllThere /\ [IndustryNext]_vars => AllThere'
  <1> SUFFICES ASSUME IInv, AllThere, [IndustryNext]_vars PROVE AllThere'
    OBVIOUS
  <1>1. ASSUME NEW lanes \in SUBSET Lanes, items' \in Turn(items, lanes), UNCHANGED itemsDisk
        PROVE  AllThere'
    <2>1. Balanced(items')
      BY <1>1, TurnUnits, SameUnitsBalance DEF IInv, AllThere
    <2> QED BY <1>1, <2>1 DEF AllThere, Balanced, Held, LaneUnits
  <1>2. ASSUME UNCHANGED <<items, itemsDisk>> PROVE AllThere'
    BY <1>2 DEF AllThere, Balanced, Held, LaneUnits
  <1>3. CASE WorkerTurn
    BY <1>1, <1>3 DEF WorkerTurn
  <1>4. CASE NpcAdvance
    BY <1>1, <1>4, IndustryAssumption DEF NpcAdvance, ByNpc, Lanes
  <1>5. CASE NpcGoes \/ Clock \/ UNCHANGED vars
    BY <1>2, <1>5 DEF NpcGoes, ByNpc, Clock, vars
  <1>6. CASE Flush
    BY <1>6 DEF Flush, AllThere, Balanced, Held, LaneUnits
  <1> QED BY <1>3, <1>4, <1>5, <1>6, PlayerCallsUnits, NpcStartUnits, RestartUnits DEF IndustryNext

--------------------------------------------------------------------------------
(* The theorems. *)

(* The tables have their types: no slot holds more than it may. *)
THEOREM IndustryTypeCorrect == IndustrySpec => []IndustryTypeOK
  <1>1. IInv => IndustryTypeOK
    BY DEF IInv
  <1> QED BY <1>1, AlwaysIInv, PTL

(* The product of a run that was paid for finds its place, whatever the     *)
(* number of lanes and the capacity of the slots, and wherever a crash      *)
(* comes.                                                                   *)
THEOREM PaidRunsHaveRoom == IndustrySpec => []RoomReserved
  <1>1. IInv => RoomReserved
    BY DEF IInv, RoomReserved, TableOK, RowOK
  <1> QED BY <1>1, AlwaysIInv, PTL

(* Every unit is in stock or in escrow, is worked on in one lane, or has    *)
(* become one product, and every run that was paid for has room for its     *)
(* own; in the table, and in the file that a crash goes back to.            *)
THEOREM RunsAreConserved == IndustrySpec => []RunsConserved
  <1>1. IndustryInit => AllThere
    BY NewTableUnits DEF IndustryInit, AllThere
  <1>2. IndustrySpec => []AllThere
    BY <1>1, UnitsKept, AlwaysIInv, PTL DEF IndustrySpec
  <1>3. RoomReserved /\ AllThere => RunsConserved
    BY DEF RunsConserved, UnitsConserved, AllThere
  <1> QED BY <1>2, <1>3, PaidRunsHaveRoom, PTL

(* A job of an NPC starts its lane once, as long as nobody replaced its     *)
(* record before the start was noted in its file.                           *)
THEOREM NpcStartsLaneOnce == IndustrySpec => []NpcStartsOnce
  <1>1. IInv => NpcStartsOnce
    BY DEF IInv, NpcStartsOnce, Adoptable
  <1> QED BY <1>1, AlwaysIInv, PTL
================================================================================
