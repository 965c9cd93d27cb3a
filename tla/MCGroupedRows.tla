----------------------------- MODULE MCGroupedRows -----------------------------
(***************************************************************************)
(* Small instances of GroupedRows for TLC.                                 *)
(***************************************************************************)
EXTENDS GroupedRows

CONSTANTS e1, e2, v1, v2
================================================================================
