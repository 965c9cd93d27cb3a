------------------------------ MODULE MCGameStore ------------------------------
(***************************************************************************)
(* Small instances of GameStore for TLC.                                   *)
(***************************************************************************)
EXTENDS GameStore

CONSTANTS t1, t2, r1, r2, v1, v2

Empty == [r \in Rows |-> NoRow]

(* Callers overwrite a whole table with nothing or with one row. *)
MCRootContents == {Empty, [Empty EXCEPT ![r1] = v1]}

(* One commit, a transfer: the row appears in t1 and goes from every other  *)
(* table.                                                                   *)
Transfers ==
    {[t \in Tables |-> [NoBatch EXCEPT ![r1] = IF t = t1 THEN v1 ELSE NoRow]]}
================================================================================
