---------------------------- MODULE MCExecution ----------------------------
(* Three commands: the smallest number with a cycle and a command that     *)
(* reaches into it; two replicas, to compare their orders.                 *)
EXTENDS Execution, TLC

CONSTANTS p1, p2

MCCmd == 1 .. 3
MCReplica == {p1, p2}
=============================================================================
