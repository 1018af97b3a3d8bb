----------------------------- MODULE MCHotStuff -----------------------------
(* Four processes, the fewest where a quorum is not everybody.             *)
EXTENDS HotStuff, TLC

CONSTANT c1

NoCommand == {}
OneCommand == {c1}
ByLast == [c \in Cmd |-> N - 1]
=============================================================================
