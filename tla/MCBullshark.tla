---------------------------- MODULE MCBullshark ----------------------------
(***************************************************************************)
(* Replicas at different places of a line.  Any two of the places in the   *)
(* configurations have a distance of their own, so that few events happen  *)
(* at the same time; the replicas may be near each other, spread out, or   *)
(* one of them far from the rest.  The shorter timeouts end many rounds    *)
(* before their anchors arrive, the longest one none.                      *)
(***************************************************************************)
EXTENDS Bullshark, TLC

CONSTANT Positions

Distance(a, b) == IF a < b THEN b - a ELSE a - b

OnALine ==
    {[e \in Replica \X Replica |-> Distance(x[e[1]], x[e[2]])] : x \in Injection(Replica, Positions)}

-----------------------------------------------------------------------------
\* Fewer arrangements, for five replicas: they follow each other along the
\* line, or every other one does, beginning anywhere.

Places == SetToSortSeq(Positions, <)

InTurn(step, first) == [p \in Replica |-> Places[((step * p + first) % N) + 1]]

InTurns ==
    {[e \in Replica \X Replica |-> Distance(x[e[1]], x[e[2]])] :
        x \in {InTurn(step, first) : step \in {1, 2}, first \in Replica}}
=============================================================================
