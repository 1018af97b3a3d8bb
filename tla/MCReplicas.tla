----------------------------- MODULE MCReplicas -----------------------------
(* Three commands, two of them on the same key: enough for a cycle that a  *)
(* third command waits for.  Logs do not interact except through the       *)
(* decisions, so two replicas show every disagreement there can be.        *)
EXTENDS Replicas, TLC

CONSTANTS p1, p2, k1, k2

MCCmd == 1 .. 3
MCKey == {k1, k2}
MCKeyOf == [c \in MCCmd |-> IF c = 3 THEN k2 ELSE k1]
MCReplica == {p1, p2}
Symmetry == Permutations(MCReplica)
=============================================================================
