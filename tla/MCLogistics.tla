------------------------------ MODULE MCLogistics ------------------------------
(***************************************************************************)
(* Small instances of AssemblyLogistics for TLC.                           *)
(***************************************************************************)
EXTENDS AssemblyLogistics

CONSTANTS r1, r2
================================================================================
