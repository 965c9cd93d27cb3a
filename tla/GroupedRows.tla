------------------------------ MODULE GroupedRows ------------------------------
(***************************************************************************)
(* How a "wrapper" table is laid out in SQL rows: explodeToRows,           *)
(* assembleFromRows and rowValueForKey of sqliteStore.ts, and the partial  *)
(* flush of index.ts that relies on their agreement.                       *)
(*                                                                         *)
(* The table has one group (ROW_GROUPS, e.g. notifications.boxes).  Its    *)
(* entities are stored one row each, next to one container row that only   *)
(* says that the group exists.  A database written before the table was    *)
(* listed in ROW_GROUPS holds the whole group as a blob in that row.       *)
(*                                                                         *)
(* A flush is one step here: GameStore takes it apart.                     *)
(***************************************************************************)
EXTENDS Naturals

CONSTANTS
    Entities,     \* entity keys of the group
    Values,       \* JSON texts of an entity
    Missing,      \* "no such entity / no such row / no such group"
    Container,    \* the row key of the group itself
    LegacyBlobs,  \* the database may predate the per-entity layout
    MaxSteps      \* bound: writes and restarts along one behaviour

ASSUME GroupedRowsAssumption ==
    /\ Missing \notin Values
    /\ Container \notin Entities
    /\ LegacyBlobs \in BOOLEAN
    /\ MaxSteps \in Nat

VARIABLES
    group,      \* cache[table][group]
    stored,     \* stored[k]: the SQL row under key k
    baseline,   \* flushBaselines[table]
    dirtyKeys,  \* dirtyRowKeys[table]
    fullDirty,  \* the table is in fullDirty
    steps

vars == <<group, stored, baseline, dirtyKeys, fullDirty, steps>>

RowKeys == Entities \cup {Container}

Group == [Entities -> Values \cup {Missing}]

ASSUME GroupAssumption == Missing \notin Group

NoEntities == [e \in Entities |-> Missing]

(* An object of the group, or Missing when the table has no such key. *)
Present(g) == g # Missing

--------------------------------------------------------------------------------
(* The three conversions. *)

(* explodeToRows: an empty skeleton and one row per entity. *)
ExplodeToRows(g) ==
    [k \in RowKeys |-> IF ~Present(g) THEN Missing
                       ELSE IF k = Container THEN NoEntities ELSE g[k]]

(* assembleFromRows: entity rows win over what a container blob still says. *)
AssembleFromRows(rows) ==
    IF \A k \in RowKeys : rows[k] = Missing
      THEN Missing
      ELSE [e \in Entities |->
              IF rows[e] # Missing THEN rows[e]
              ELSE IF rows[Container] # Missing THEN rows[Container][e]
              ELSE Missing]

(* Mutant: the container row of a group whose last entity went is absent. *)
RowValueForKey_NoSkeleton(g, k) ==
    IF ~Present(g) THEN Missing
    ELSE IF k = Container THEN (IF g = NoEntities THEN Missing ELSE NoEntities)
    ELSE g[k]

(* rowValueForKey: one row without exploding the table. *)
RowValueForKey(g, k) ==
    IF ~Present(g) THEN Missing
    ELSE IF k = Container THEN NoEntities
    ELSE g[k]

--------------------------------------------------------------------------------

CountStep == steps < MaxSteps /\ steps' = steps + 1

(* The databases the program may find: rows as a flush leaves them or, with *)
(* LegacyBlobs, the whole group as one blob in the container's row.         *)
StoredDatabases ==
    {ExplodeToRows(g) : g \in Group \cup {Missing}}
      \cup (IF LegacyBlobs
              THEN {[k \in RowKeys |-> IF k = Container THEN g ELSE Missing] : g \in Group}
              ELSE {})

Init ==
    /\ stored \in StoredDatabases
    /\ baseline = stored
    /\ group = AssembleFromRows(stored)
    /\ dirtyKeys = {}
    /\ fullDirty = FALSE
    /\ steps = 0

(* Mutant: an entity that goes marks only the container. *)
MarkEntityDirty_ContainerOnly(e) ==
    /\ dirtyKeys' = IF fullDirty THEN dirtyKeys ELSE dirtyKeys \cup {Container}
    /\ UNCHANGED fullDirty

(* markRowDirty of a path below the group: the entity's row and the skeleton.*)
MarkEntityDirty(e) ==
    /\ dirtyKeys' = IF fullDirty THEN dirtyKeys ELSE dirtyKeys \cup {e, Container}
    /\ UNCHANGED fullDirty

(* markRowDirty of the group or of the root. *)
MarkGroupDirty == fullDirty' = TRUE /\ UNCHANGED dirtyKeys

(* write(table, "/group/e", v): a missing group is created on the way. *)
WriteEntity(e, v) ==
    /\ CountStep
    /\ Present(group) => group[e] # v
    /\ group' = [(IF Present(group) THEN group ELSE NoEntities) EXCEPT ![e] = v]
    /\ MarkEntityDirty(e)
    /\ UNCHANGED <<stored, baseline>>

(* remove(table, "/group/e") *)
RemoveEntity(e) ==
    /\ CountStep
    /\ Present(group) /\ group[e] # Missing
    /\ group' = [group EXCEPT ![e] = Missing]
    /\ MarkEntityDirty(e)
    /\ UNCHANGED <<stored, baseline>>

(* write(table, "/group", g), or a root write that brings g. *)
WriteGroup(g) ==
    /\ CountStep
    /\ group # g
    /\ group' = g
    /\ MarkGroupDirty
    /\ UNCHANGED <<stored, baseline>>

(* remove(table, "/group") *)
RemoveGroup ==
    /\ CountStep
    /\ Present(group)
    /\ group' = Missing
    /\ MarkGroupDirty
    /\ UNCHANGED <<stored, baseline>>

PartialFlush == dirtyKeys # {} /\ ~fullDirty

(* flushSqliteTable: the tracked rows by rowValueForKey, or every row by    *)
(* explodeToRows; both against the baseline.                                *)
FlushedRows ==
    [k \in RowKeys |->
       IF PartialFlush
         THEN IF k \in dirtyKeys THEN RowValueForKey(group, k) ELSE baseline[k]
         ELSE ExplodeToRows(group)[k]]

Flush ==
    /\ fullDirty \/ dirtyKeys # {}
    /\ stored' = [k \in RowKeys |-> IF FlushedRows[k] # baseline[k]
                                      THEN FlushedRows[k] ELSE stored[k]]
    /\ baseline' = FlushedRows
    /\ dirtyKeys' = {}
    /\ fullDirty' = FALSE
    /\ UNCHANGED <<group, steps>>

(* The process ends and loadSqliteTable builds cache and baseline afresh. *)
Restart ==
    /\ CountStep
    /\ group' = AssembleFromRows(stored)
    /\ baseline' = stored
    /\ dirtyKeys' = {}
    /\ fullDirty' = FALSE
    /\ UNCHANGED stored

Next ==
    \/ \E e \in Entities : RemoveEntity(e) \/ \E v \in Values : WriteEntity(e, v)
    \/ \E g \in Group : WriteGroup(g)
    \/ RemoveGroup
    \/ Flush
    \/ Restart

Spec == Init /\ [][Next]_vars

--------------------------------------------------------------------------------

(* The container row holds a group, every other row an entity. *)
TypeOK ==
    /\ group \in Group \cup {Missing}
    /\ \A content \in {stored, baseline} :
         /\ DOMAIN content = RowKeys
         /\ content[Container] \in Group \cup {Missing}
         /\ \A e \in Entities : content[e] \in Values \cup {Missing}
    /\ dirtyKeys \subseteq RowKeys
    /\ fullDirty \in BOOLEAN
    /\ steps \in Nat

(* A flushed table is loaded again exactly as it is in memory, whatever mix *)
(* of entity writes, group writes, flushes and restarts came before.  For a *)
(* database with a group blob the source promises the same: "so the first   *)
(* flush cleanly converts it" (sqliteStore.ts:181).                         *)
FlushedGroupSurvivesRestart ==
    ~fullDirty /\ dirtyKeys = {} => AssembleFromRows(stored) = group

(* The partial flush writes what the full diff would have written: after any*)
(* flush the rows are exactly the exploded group.                           *)
FlushConverges ==
    [][Flush => stored' = ExplodeToRows(group)]_vars

(* What makes them inductive without legacy blobs: the rows are those of    *)
(* some group, and every row that differs from the cache is tracked.        *)
RowsAreExploded ==
    /\ stored = baseline
    /\ \E g \in Group \cup {Missing} : stored = ExplodeToRows(g)

DirtyKeysCover ==
    \A k \in RowKeys :
      ExplodeToRows(group)[k] # baseline[k] => k \in dirtyKeys \/ fullDirty

Inv == TypeOK /\ RowsAreExploded /\ DirtyKeysCover
================================================================================
