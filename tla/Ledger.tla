------------------------------- MODULE Ledger -------------------------------
(***************************************************************************)
(* What the HotStuff replicas promise together: one ledger that only       *)
(* grows, holds a command at most once, and is executed by every replica   *)
(* from the first block on, no block twice.  A block is executed when it   *)
(* heads a chain of three: three blocks have been built on it.             *)
(***************************************************************************)
EXTENDS Naturals, Sequences, Functions

CONSTANTS Cmd, Replica

VARIABLES
    ledger,    \* the commands of every block, in the order of the chain
    executed   \* per replica, the positions of the blocks it has executed

vars == <<ledger, executed>>

\* The first block is proposed, empty, when the protocol starts.
Init ==
    /\ ledger = <<{}>>
    /\ executed = [p \in Replica |-> <<>>]

\* p executes the next k blocks.
Execute(p, k) ==
    /\ k > 0 => Len(executed[p]) + k + 3 <= Len(ledger')
    /\ executed' = [executed EXCEPT ![p] = @ \o [i \in 1 .. k |-> Len(@) + i]]

\* The leader p builds a block out of the commands B.
Grow(p, B) ==
    /\ B \cap UNION Range(ledger) = {}
    /\ ledger' = Append(ledger, B)
    /\ \E k \in 0 .. Len(ledger) : Execute(p, k)

\* p learns how long the ledger is.
Learn(p) ==
    /\ UNCHANGED ledger
    /\ \E k \in 1 .. Len(ledger) : Execute(p, k)

Next == \E p \in Replica : Learn(p) \/ \E B \in SUBSET Cmd : Grow(p, B)

Spec == Init /\ [][Next]_vars
=============================================================================
