----------------------------- MODULE MCTransactions -----------------------------
(***************************************************************************)
(* Small instances of AssemblyTransactions for TLC.                        *)
(***************************************************************************)
EXTENDS AssemblyTransactions

CONSTANTS sync, player
================================================================================
