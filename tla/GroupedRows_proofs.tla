--------------------------- MODULE GroupedRows_proofs --------------------------
(***************************************************************************)
(* A table whose rows were all written in the per-entity layout survives   *)
(* every flush and restart, for any number of entities and values.         *)
(***************************************************************************)
EXTENDS GroupedRows, TLAPS

(* Reading back what was exploded gives the group. *)
LEMMA AssembleExploded ==
    ASSUME NEW g \in Group \cup {Missing}
    PROVE  AssembleFromRows(ExplodeToRows(g)) = g
  <1>1. CASE g = Missing
    BY <1>1 DEF AssembleFromRows, ExplodeToRows, Present
  <1>2. CASE g \in Group
    <2>1. NoEntities \in Group
      BY DEF NoEntities, Group
    <2>2. /\ ExplodeToRows(g)[Container] = NoEntities
          /\ \A e \in Entities : ExplodeToRows(g)[e] = g[e]
      BY <1>2, GroupAssumption, GroupedRowsAssumption DEF ExplodeToRows, RowKeys, Present
    <2>3. NoEntities # Missing /\ Container \in RowKeys
      BY <2>1, GroupAssumption DEF RowKeys
    <2>4. AssembleFromRows(ExplodeToRows(g)) = [e \in Entities |-> g[e]]
      <3>1. \A e \in Entities : NoEntities[e] = Missing
        BY DEF NoEntities
      <3> QED BY <2>2, <2>3, <3>1 DEF AssembleFromRows
    <2> QED BY <1>2, <2>4 DEF Group
  <1> QED BY <1>1, <1>2

(* One row alone is what the whole explosion would have given it. *)
LEMMA RowValueIsExploded ==
    ASSUME NEW g, NEW k \in RowKeys
    PROVE  RowValueForKey(g, k) = ExplodeToRows(g)[k]
  BY DEF RowValueForKey, ExplodeToRows

(* So a flush writes exactly the exploded group. *)
LEMMA FlushedRowsAreExploded ==
    ASSUME Inv
    PROVE  FlushedRows = ExplodeToRows(group)
  <1>1. ASSUME NEW k \in RowKeys
        PROVE  FlushedRows[k] = ExplodeToRows(group)[k]
    BY <1>1, RowValueIsExploded DEF Inv, DirtyKeysCover, FlushedRows, PartialFlush
  <1> QED BY <1>1 DEF FlushedRows, ExplodeToRows

(* Rows and baseline alike. *)
LEMMA FlushWritesGroup ==
    ASSUME Inv, Flush
    PROVE  /\ stored' = ExplodeToRows(group)
           /\ baseline' = ExplodeToRows(group)
  <1>1. stored' = [k \in RowKeys |-> FlushedRows[k]]
    BY DEF Flush, Inv, RowsAreExploded
  <1> QED BY <1>1, FlushedRowsAreExploded DEF Flush, ExplodeToRows

(* Rows that are an exploded group have the types of rows. *)
LEMMA ExplodedTypes ==
    ASSUME NEW g \in Group \cup {Missing}
    PROVE  LET content == ExplodeToRows(g) IN
             /\ DOMAIN content = RowKeys
             /\ content[Container] \in Group \cup {Missing}
             /\ \A e \in Entities : content[e] \in Values \cup {Missing}
  <1>1. NoEntities \in Group
    BY DEF NoEntities, Group
  <1> QED BY <1>1, GroupedRowsAssumption DEF ExplodeToRows, RowKeys, Present, Group

(* The database of a new process, or of one whose rows were all exploded. *)
LEMMA LoadedRows ==
    ASSUME NEW g \in Group \cup {Missing}, stored = ExplodeToRows(g)
    PROVE  /\ AssembleFromRows(stored) \in Group \cup {Missing}
           /\ ExplodeToRows(AssembleFromRows(stored)) = stored
  BY AssembleExploded

(* A database without group blobs. *)
LEMMA GroupedInit ==
    ASSUME ~LegacyBlobs, Init
    PROVE  Inv
  <1>1. PICK g \in Group \cup {Missing} : stored = ExplodeToRows(g)
    BY DEF Init, StoredDatabases
  <1>2. baseline = stored /\ group = AssembleFromRows(stored)
        /\ dirtyKeys = {} /\ fullDirty = FALSE /\ steps = 0
    BY DEF Init
  <1>3. TypeOK
    BY <1>1, <1>2, LoadedRows, ExplodedTypes DEF TypeOK
  <1>4. RowsAreExploded /\ DirtyKeysCover
    BY <1>1, <1>2, LoadedRows DEF RowsAreExploded, DirtyKeysCover
  <1> QED BY <1>3, <1>4 DEF Inv

(* A change of one entity changes at most its row and the container's. *)
LEMMA EntityChange ==
    ASSUME Inv, NEW e \in Entities, NEW v \in Values \cup {Missing},
           group' = [(IF Present(group) THEN group ELSE NoEntities) EXCEPT ![e] = v],
           MarkEntityDirty(e), UNCHANGED <<stored, baseline>>, steps' \in Nat
    PROVE  Inv'
  <1> DEFINE before == IF Present(group) THEN group ELSE NoEntities
  <1>1. before \in Group
    BY DEF NoEntities, Group, Inv, TypeOK, Present
  <1>2. group' = [before EXCEPT ![e] = v] /\ group' \in Group
    BY <1>1 DEF Group
  <1>3. Present(group)'
    BY <1>2, GroupAssumption DEF Present
  <1>4. ASSUME NEW k \in Entities, k # e
        PROVE  ExplodeToRows(group')[k] = ExplodeToRows(group)[k]
    <2>1. k \in RowKeys /\ k # Container
      BY GroupedRowsAssumption DEF RowKeys
    <2>2. group'[k] = before[k]
      BY <1>1, <1>2, <1>4 DEF Group
    <2>3. before[k] = IF Present(group) THEN group[k] ELSE Missing
      BY DEF NoEntities
    <2>4. ExplodeToRows(group')[k] = group'[k]
      BY <1>3, <2>1 DEF ExplodeToRows, Present
    <2> QED BY <2>1, <2>2, <2>3, <2>4 DEF ExplodeToRows
  <1>5. DirtyKeysCover'
    BY <1>4 DEF DirtyKeysCover, MarkEntityDirty, Inv, RowKeys
  <1>6. TypeOK' /\ RowsAreExploded'
    BY <1>2 DEF Inv, TypeOK, RowsAreExploded, MarkEntityDirty, RowKeys
  <1> QED BY <1>5, <1>6 DEF Inv

(* Every step keeps rows and tracking in agreement with the cache. *)
LEMMA GroupedStep ==
    ASSUME Inv, [Next]_vars
    PROVE  Inv'
  <1>c. CountStep => steps' \in Nat
    BY DEF CountStep, Inv, TypeOK
  <1>1. ASSUME NEW e \in Entities, NEW v \in Values, WriteEntity(e, v)
        PROVE  Inv'
    BY <1>1, <1>c, EntityChange DEF WriteEntity
  <1>2. ASSUME NEW e \in Entities, RemoveEntity(e)
        PROVE  Inv'
    BY <1>2, <1>c, EntityChange DEF RemoveEntity
  <1>3. ASSUME NEW g \in Group \cup {Missing}, group' = g, MarkGroupDirty,
               UNCHANGED <<stored, baseline>>, CountStep
        PROVE  Inv'
    BY <1>3, <1>c DEF Inv, TypeOK, RowsAreExploded, DirtyKeysCover, MarkGroupDirty
  <1>4. CASE Flush
    <2>1. /\ stored' = ExplodeToRows(group) /\ baseline' = ExplodeToRows(group)
          /\ group' = group /\ group \in Group \cup {Missing}
      BY <1>4, FlushWritesGroup DEF Flush, Inv, TypeOK
    <2>2. TypeOK'
      BY <1>4, <2>1, ExplodedTypes DEF Flush, Inv, TypeOK
    <2>3. RowsAreExploded' /\ DirtyKeysCover'
      BY <2>1 DEF RowsAreExploded, DirtyKeysCover
    <2> QED BY <2>2, <2>3 DEF Inv
  <1>5. CASE Restart
    <2>1. PICK g \in Group \cup {Missing} : stored = ExplodeToRows(g)
      BY DEF Inv, RowsAreExploded
    <2>2. /\ group' = AssembleFromRows(stored) /\ stored' = stored /\ baseline' = stored
          /\ dirtyKeys' = {} /\ fullDirty' = FALSE /\ steps' \in Nat
      BY <1>5, <1>c DEF Restart
    <2>3. group' \in Group \cup {Missing} /\ ExplodeToRows(group') = stored
      BY <2>1, <2>2, LoadedRows
    <2>4. TypeOK'
      BY <2>2, <2>3 DEF Inv, TypeOK
    <2>5. RowsAreExploded' /\ DirtyKeysCover'
      BY <2>1, <2>2, <2>3 DEF RowsAreExploded, DirtyKeysCover
    <2> QED BY <2>4, <2>5 DEF Inv
  <1>6. CASE UNCHANGED vars
    BY <1>6 DEF vars, Inv, TypeOK, RowsAreExploded, DirtyKeysCover
  <1> QED BY <1>1, <1>2, <1>3, <1>4, <1>5, <1>6 DEF Next, WriteGroup, RemoveGroup

(* Inv is inductive for databases without group blobs. *)
THEOREM GroupedInductive == ~LegacyBlobs /\ Spec => []Inv
  <1>1. ~LegacyBlobs /\ Init => Inv
    BY GroupedInit
  <1>2. Inv /\ [Next]_vars => Inv'
    BY GroupedStep
  <1> QED BY <1>1, <1>2, PTL DEF Spec

(* Group, stored rows and baseline keep their types: no flush leaves a row  *)
(* that the next load could not assemble.                                   *)
THEOREM GroupedTypeCorrect == ~LegacyBlobs /\ Spec => []TypeOK
  <1>1. Inv => TypeOK
    BY DEF Inv
  <1> QED BY <1>1, GroupedInductive, PTL

(* Whatever is written, removed and flushed in whatever order, a flushed    *)
(* table is loaded again exactly as it was in memory.                       *)
THEOREM RestartFidelity == ~LegacyBlobs /\ Spec => []FlushedGroupSurvivesRestart
  <1>1. ASSUME Inv, ~fullDirty, dirtyKeys = {}
        PROVE  AssembleFromRows(stored) = group
    <2>1. \A k \in RowKeys : ExplodeToRows(group)[k] = baseline[k]
      BY <1>1 DEF Inv, DirtyKeysCover
    <2>2. stored = ExplodeToRows(group)
      BY <1>1, <2>1 DEF Inv, RowsAreExploded, ExplodeToRows
    <2> QED BY <1>1, <2>2, AssembleExploded DEF Inv, TypeOK
  <1>2. Inv => FlushedGroupSurvivesRestart
    BY <1>1 DEF FlushedGroupSurvivesRestart
  <1> QED BY <1>2, GroupedInductive, PTL

(* The partial flush writes what the full diff would have written. *)
THEOREM PartialFlushIsExact == ~LegacyBlobs /\ Spec => FlushConverges
  <1>1. Inv => [Flush => stored' = ExplodeToRows(group)]_vars
    BY FlushWritesGroup
  <1> QED BY <1>1, GroupedInductive, PTL DEF FlushConverges

================================================================================
