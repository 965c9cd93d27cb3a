------------------------------- MODULE MCIndustry -------------------------------
(***************************************************************************)
(* A small instance of IndustryProduction for TLC.                         *)
(***************************************************************************)
EXTENDS IndustryProduction
================================================================================
