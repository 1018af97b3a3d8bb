-------------------------- MODULE DependencyOrder --------------------------
(***************************************************************************)
(* What the replicas of BLSMR promise together, without messages or logs:  *)
(* the dependencies of a command are decided once, and every replica       *)
(* executes decided commands in batches that are closed under dependencies *)
(* (a batch becomes stable in one call of CmdLog::promote_stable).         *)
(***************************************************************************)
EXTENDS DepGraph

CONSTANTS
    Cmd,      \* command ids, numbered in the order of CmdId (pid, then id)
    Replica   \* the processes of the pool

ASSUME CmdAssumption == Cmd \subseteq Nat /\ IsFiniteSet(Cmd)

VARIABLES
    decided,      \* commands whose dependencies are decided
    decidedDeps,  \* the decided dependencies
    order         \* per replica, the commands it has executed, in order

vars == <<decided, decidedDeps, order>>

TypeOK ==
    /\ decided \in SUBSET Cmd
    /\ decidedDeps \in [Cmd -> SUBSET Cmd]
    /\ order \in [Replica -> Seq(Cmd)]

Init ==
    /\ decided = {}
    /\ decidedDeps = [c \in Cmd |-> {}]
    /\ order = [p \in Replica |-> <<>>]

\* p executes a batch of decided commands whose dependencies are in the
\* batch or done.  The batch may be empty.
Execute(p, B) ==
    /\ B \subseteq decided' \ Range(order[p])
    /\ \A c \in B : decidedDeps'[c] \subseteq B \cup Range(order[p])
    /\ \E s \in ExecutionOrders(decidedDeps', B) :
          order' = [order EXCEPT ![p] = @ \o s]

\* The owner p of c fixes its dependencies, once, and executes what it can.
Decide(p, c, D) ==
    /\ c \notin decided
    /\ decided' = decided \cup {c}
    /\ decidedDeps' = [decidedDeps EXCEPT ![c] = D]
    /\ \E B \in SUBSET (decided \cup {c}) : Execute(p, B)

\* Another replica executes what it has learned.
Learn(p) ==
    /\ UNCHANGED <<decided, decidedDeps>>
    /\ \E B \in SUBSET decided : Execute(p, B)

Next ==
    \E p \in Replica :
        \/ \E c \in Cmd : \E D \in SUBSET (Cmd \ {c}) : Decide(p, c, D)
        \/ Learn(p)

Spec == Init /\ [][Next]_vars

-----------------------------------------------------------------------------

\* One of the commands depends on the other, directly or through others.
Related(a, b) ==
    \/ Reaches(decidedDeps, Cmd, a, b)
    \/ Reaches(decidedDeps, Cmd, b, a)

(***************************************************************************)
(* Two replicas never execute two related commands in different orders:    *)
(* the point of agreeing on dependencies (process.rs, log.rs), whatever    *)
(* the order in which the replicas learn the decisions.                    *)
(***************************************************************************)
SameOrder ==
    \A p, q \in Replica : \A a, b \in Cmd :
        Related(a, b) /\ Precedes(order[p], a, b) => ~Precedes(order[q], b, a)

(***************************************************************************)
(* "Executes root and every not-yet-executed command reachable through it, *)
(* dependencies first" (log.rs): a dependency of an executed command is    *)
(* executed, and it ran earlier unless the two are in a cycle.             *)
(***************************************************************************)
DependencyFirst ==
    \A p \in Replica : \A i \in DOMAIN order[p] : \A d \in decidedDeps[order[p][i]] :
        \E j \in DOMAIN order[p] :
            /\ order[p][j] = d
            /\ j < i \/ Reaches(decidedDeps, Cmd, d, order[p][i])

(***************************************************************************)
(* The invariant behind both: what a replica has executed is decided,      *)
(* closed under dependencies and free of repetitions, and its order        *)
(* respects reachability in the whole decided graph.                       *)
(***************************************************************************)
OrderSound(D, G, s) ==
    /\ Range(s) \subseteq D
    /\ IsInjective(s)
    /\ ClosedIn(G, Cmd, Range(s))
    /\ \A i, j \in DOMAIN s :
          i < j /\ Reaches(G, Cmd, s[i], s[j])
              => Reaches(G, Cmd, s[j], s[i]) /\ s[i] < s[j]

OrderInv == \A p \in Replica : OrderSound(decided, decidedDeps, order[p])
=============================================================================
