----------------------- MODULE MCConsistentBroadcast -----------------------
(***************************************************************************)
(* Two of four processes broadcast.  A quorum of three leaves out one: its *)
(* signature comes late, or the certificate is there before the message.   *)
(***************************************************************************)
EXTENDS ConsistentBroadcast

CONSTANTS p1, p2, p3, p4

FourProcesses == {p1, p2, p3, p4}
TwoMessages == {[process_id |-> p, message_id |-> 1] : p \in {p1, p2}}
=============================================================================
