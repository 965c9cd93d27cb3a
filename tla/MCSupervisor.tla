------------------------------ MODULE MCSupervisor ------------------------------
(***************************************************************************)
(* Small instances of AssemblySupervisor for TLC: callers that do anything *)
(* the interface of the supervisor allows.                                 *)
(***************************************************************************)
EXTENDS AssemblySupervisor

CONSTANTS c1, c2, j0, j1, b1
================================================================================
