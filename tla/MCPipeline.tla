------------------------------ MODULE MCPipeline -------------------------------
(***************************************************************************)
(* A small instance of PacketPipeline for TLC.                             *)
(***************************************************************************)
EXTENDS PacketPipeline

CONSTANTS c1, w1, w2

MCPackets == [c \in Conns |-> [in |-> 2, out |-> 3]]

MCTasks ==
    {t \in [conn : Conns, way : Ways, n : 1 .. 3] : t.n <= MCPackets[t.conn][t.way]}
================================================================================
