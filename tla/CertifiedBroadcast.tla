------------------------- MODULE CertifiedBroadcast -------------------------
(***************************************************************************)
(* What a broadcast with certificates promises its user: a message that    *)
(* was broadcast is signed by processes, and once a quorum of them has     *)
(* signed it every process delivers it, once.                              *)
(***************************************************************************)
CONSTANTS
    Process,
    MessageId,
    Quorum  \* the sets of processes that are large enough

VARIABLES
    started,   \* the messages that were broadcast
    signers,   \* those who have signed a message
    delivered  \* the processes that have delivered a message

vars == <<started, signers, delivered>>

Init ==
    /\ started = {}
    /\ signers = [id \in MessageId |-> {}]
    /\ delivered = [id \in MessageId |-> {}]

Start(id) ==
    /\ id \notin started
    /\ started' = started \cup {id}
    /\ UNCHANGED <<signers, delivered>>

Sign(id, p) ==
    /\ id \in started /\ p \notin signers[id]
    /\ signers' = [signers EXCEPT ![id] = @ \cup {p}]
    /\ UNCHANGED <<started, delivered>>

Deliver(id, p) ==
    /\ \E Q \in Quorum : Q \subseteq signers[id]
    /\ p \notin delivered[id]
    /\ delivered' = [delivered EXCEPT ![id] = @ \cup {p}]
    /\ UNCHANGED <<started, signers>>

Next ==
    \E id \in MessageId :
        Start(id) \/ \E p \in Process : Sign(id, p) \/ Deliver(id, p)

Spec == Init /\ [][Next]_vars
=============================================================================
