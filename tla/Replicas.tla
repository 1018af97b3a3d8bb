------------------------------ MODULE Replicas ------------------------------
(***************************************************************************)
(* The command logs of all replicas, driven by any sequence of calls the   *)
(* protocol can make: dependencies are decided once per command, with any  *)
(* dependency graph, and each replica learns bodies and decisions in any   *)
(* order.  The announce and quorum phases (module BLSMR) only choose which *)
(* graphs and which orders happen.                                         *)
(***************************************************************************)
EXTENDS CmdLog

CONSTANT Replica

VARIABLES
    decided,      \* commands whose dependencies are decided
    decidedDeps,  \* the decided dependencies (ConflictTracker::dependencies)
    log           \* the CmdLog of every replica

vars == <<decided, decidedDeps, log>>

TypeOK ==
    /\ decided \in SUBSET Cmd
    /\ decidedDeps \in [Cmd -> SUBSET Cmd]
    /\ log \in [Replica -> Log]

Init ==
    /\ decided = {}
    /\ decidedDeps = [c \in Cmd |-> {}]
    /\ log = [p \in Replica |-> EmptyLog]

\* A replica creates a command of its own, before anything is decided on it.
Create(p, c) ==
    /\ c \notin decided
    /\ log' = [log EXCEPT ![p] = RecordCreation(@, c)]
    /\ UNCHANGED <<decided, decidedDeps>>

\* A replica receives the body of a command.
Receive(p, c) ==
    /\ log' = [log EXCEPT ![p] = Submit(@, c)]
    /\ UNCHANGED <<decided, decidedDeps>>

\* The log of p learns the decision on c.
Learn(p, c, D) ==
    \E l \in CommitOutcomes(log[p], c, D) : log' = [log EXCEPT ![p] = l]

\* The owner decides and commits in the same call of decide.
Decide(p, c, D) ==
    /\ c \notin decided
    /\ decided' = decided \cup {c}
    /\ decidedDeps' = [decidedDeps EXCEPT ![c] = D]
    /\ Learn(p, c, D)

\* A peer receives Announce::Commit.
Commit(p, c) ==
    /\ c \in decided
    /\ Learn(p, c, decidedDeps[c])
    /\ UNCHANGED <<decided, decidedDeps>>

Next ==
    \E p \in Replica, c \in Cmd :
        \/ Create(p, c)
        \/ Receive(p, c)
        \/ \E D \in SUBSET (Cmd \ {c}) : Decide(p, c, D)
        \/ Commit(p, c)

Spec == Init /\ [][Next]_vars

-----------------------------------------------------------------------------

(***************************************************************************)
(* Every log stays consistent whatever the order of creation, arrival of   *)
(* the body and decision (IndexExact), and what it holds of a decision is  *)
(* what was decided.                                                       *)
(***************************************************************************)
LogsExact ==
    \A p \in Replica :
        /\ IndexExact(log[p])
        /\ log[p].pending_commit \cup log[p].stable \subseteq decided
        /\ \A c \in log[p].pending_commit : log[p].entries[c].deps = decidedDeps[c]

(***************************************************************************)
(* No wake-up is lost: once a replica has the decisions of a set of        *)
(* commands closed under dependencies, all of them are stable there.       *)
(* promote_stable runs only when a decision arrives, so a command whose    *)
(* last missing dependency is overlooked would wait for ever.              *)
(***************************************************************************)
NoneStranded ==
    \A p \in Replica :
        LET learned == log[p].pending_commit \cup log[p].stable IN
        \A S \in SUBSET learned :
            ClosedIn(decidedDeps, Cmd, S) => S \subseteq log[p].stable

\* The executed sequences, as the abstract specification sees them.
order == [p \in Replica |-> log[p].executed]

Abstract == INSTANCE DependencyOrder

(***************************************************************************)
(* The logs implement the abstract specification: whatever a replica       *)
(* learns and when, a call of commit executes one batch closed under       *)
(* dependencies, and no other call executes anything.                      *)
(***************************************************************************)
ImplementsDependencyOrder == Abstract!Spec
=============================================================================
