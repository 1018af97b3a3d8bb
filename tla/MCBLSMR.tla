------------------------------ MODULE MCBLSMR ------------------------------
(* Commands on one key.  Four replicas are the fewest at which a           *)
(* dissemination quorum (3 of 4) is not a single replica; with fewer, one  *)
(* response is a quorum, which is the harder case for liveness.            *)
EXTENDS BLSMR, TLC

CONSTANTS p1, p2, p3, p4, k1

TwoReplicas == {p1, p2}
FourReplicas == {p1, p2, p3, p4}

TwoCmds == 1 .. 2
ThreeCmds == 1 .. 3
MCKey == {k1}
MCKeyOf == [c \in Cmd |-> k1]

\* p1 creates every command but the last.
TwoOwners == [c \in Cmd |-> IF c + 1 \in Cmd THEN p1 ELSE p2]

\* The quorum systems the simulations configure: a threshold for
\* Wintermute, a grid (here 2 x 2) for 3Jane.
TwoDissemination == QS!NewDissemination(<<p1, p2>>)
FourDissemination == QS!NewDissemination(<<p1, p2, p3, p4>>)
Grid == QS!NewWitnessingGrid(<<p1, p2, p3, p4>>)

Everybody == [c \in Cmd |-> Replica]

\* What can still matter: a response to an announcement that is over, and
\* its timer, change nothing but themselves.
LiveState ==
    <<submitted, log, owners, records, timers \cap pending,
      {m \in msgs : m.type = "Res" => m.cmd \in pending}>>

Symmetry == Permutations(Replica \ {p1, p2})
============================================================================
