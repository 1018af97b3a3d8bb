----------------------------- MODULE Execution -----------------------------
(***************************************************************************)
(* How a replica computes the order of execution: promote_stable, the two  *)
(* graph walks and Tarjan's algorithm of crates/blsmr/src/log.rs, run call *)
(* by call.  DependencyOrder says only which orders are allowed.           *)
(*                                                                         *)
(* A call of commit(c, deps) adds c to what the replica has learned and    *)
(* promotes in one pass.  "learned" is pending_commit with what is stable; *)
(* the commands in "order" are the stable ones.  Entries without a         *)
(* decision do not matter here: no walk of a committed closure meets them. *)
(***************************************************************************)
EXTENDS DependencyOrder, SequencesExt

VARIABLE learned  \* per replica, the commands it has the decisions of

loopVars == <<vars, learned>>

LoopTypeOK == TypeOK /\ learned \in [Replica -> SUBSET decided]

\* s, then f[1][s], and so on n times.
Repeat(f, n, s) ==
    LET after[k \in 0 .. n] == IF k = 0 THEN s ELSE f[k][after[k - 1]] IN after[n]

SortedById(S) ==
    CHOOSE s \in [1 .. Cardinality(S) -> S] :
        \A i, j \in 1 .. Cardinality(S) : i < j => s[i] < s[j]

-----------------------------------------------------------------------------
\* fn tarjan_sccs over the commands in "nodes".  An index of 0 is no index.

Smaller(a, b) == IF a < b THEN a ELSE b

\* struct State
Visits(nodes) == [index : [nodes -> Nat], low_link : [nodes -> Nat], stack : Seq(nodes),
                  counter : Nat, sccs : Seq(Seq(nodes))]

NoVisit(nodes) == [index    |-> [c \in nodes |-> 0],
                   low_link |-> [c \in nodes |-> 0],
                   stack    |-> <<>>,
                   counter  |-> 1,
                   sccs     |-> <<>>]

Open(s, v) == [index    |-> [s.index EXCEPT ![v] = s.counter],
               low_link |-> [s.low_link EXCEPT ![v] = s.counter],
               stack    |-> Append(s.stack, v),
               counter  |-> s.counter + 1,
               sccs     |-> s.sccs]

Lower(s, v, n) == [s EXCEPT !.low_link[v] = Smaller(@, n)]

\* Faulty: a dependency on the stack is not looked at again.
MergeNothing(s, v, w) == s

\* v has a dependency w that was visited before.
MergeVisited(s, v, w) == IF w \in Range(s.stack) THEN Lower(s, v, s.index[w]) ELSE s

\* v has a dependency w; connect has the results of strongconnect for it.
VisitDep(connect, s, v, w) ==
    IF s.index[w] # 0 THEN MergeVisited(s, v, w)
    ELSE LET t == connect[w][s] IN Lower(t, v, t.low_link[w])

\* The stack down to v is a strongly connected component.
CloseScc(s, v) ==
    LET i == CHOOSE j \in DOMAIN s.stack : s.stack[j] = v
    IN  [s EXCEPT !.stack = SubSeq(@, 1, i - 1),
                  !.sccs = Append(@, Reverse(SubSeq(s.stack, i, Len(s.stack))))]

\* fn strongconnect, with the results of the calls that it makes.
ConnectFrom(G, nodes, connect, v, s) ==
    LET deps == SortedById(G[v] \cap nodes)
        visited == Repeat([k \in DOMAIN deps |->
                              [t \in Visits(nodes) |-> VisitDep(connect, t, v, deps[k])]],
                          Len(deps), Open(s, v))
    IN  IF visited.low_link[v] = visited.index[v] THEN CloseScc(visited, v) ELSE visited

\* No call is nested deeper than there are commands (StrongConnectConnected).
StrongConnect(G, nodes) ==
    LET connect[depth \in 0 .. Cardinality(nodes)] ==
            [v \in nodes |-> [s \in Visits(nodes) |->
                IF depth = 0 THEN s ELSE ConnectFrom(G, nodes, connect[depth - 1], v, s)]]
    IN  connect[Cardinality(nodes)]

\* The components, dependencies first.
TarjanSccs(G, nodes) ==
    LET list == SortedById(nodes)
        connect == StrongConnect(G, nodes)
    IN  Repeat([k \in DOMAIN list |-> [s \in Visits(nodes) |->
                   IF s.index[list[k]] = 0 THEN connect[list[k]][s] ELSE s]],
               Len(list), NoVisit(nodes)).sccs

-----------------------------------------------------------------------------
\* fn try_execute.  A pass works on the record run: the entries still in
\* the log, those of them marked executed, and the sequence of executions.

Runs == [entries : SUBSET Cmd, executed : SUBSET Cmd, order : Seq(Cmd)]

\* What a walk from S reaches along dependencies in T: rounds that still
\* add a command are no more than there are commands (WalkCloses).
Walk(G, S, T) ==
    Repeat([k \in 1 .. Cardinality(Cmd) |-> [R \in SUBSET Cmd |->
               R \cup ((UNION {G[c] : c \in R}) \cap T)]],
           Cardinality(Cmd), S)

\* fn collect_pending_closure
PendingClosure(G, run, root) == Walk(G, {root}, run.entries \ run.executed)

\* Faulty: a component runs in the order in which Tarjan's stack gives it.
AsFound(scc) == scc

InOrder(scc) == SortedById(Range(scc))

ExecuteAll(sccs, sequence) ==
    Repeat([k \in DOMAIN sccs |-> [s \in Seq(Cmd) |-> s \o InOrder(sccs[k])]],
           Len(sccs), sequence)

TryExecute(G, run, root) ==
    IF root \in run.executed THEN run
    ELSE LET nodes == PendingClosure(G, run, root)
         IN  [run EXCEPT !.executed = @ \cup nodes, !.order = ExecuteAll(TarjanSccs(G, nodes), @)]

\* Faulty: only the direct dependencies are looked at.
DirectDepsCommitted(G, known, c) == G[c] \subseteq known

\* fn is_deps_closure_committed
IsDepsClosureCommitted(G, known, c) == Walk(G, G[c], Cmd) \subseteq known

\* Faulty: from one command to the next it is forgotten what is executed.
PromoteKeepingEntry(G, run, c) ==
    [TryExecute(G, [run EXCEPT !.executed = {}], c) EXCEPT !.entries = @ \ {c}]

\* The body of the loop of promote_stable, for the command c.
PromoteOne(G, run, c) == [TryExecute(G, run, c) EXCEPT !.entries = @ \ {c}]

\* Faulty: a command waits until its dependencies are executed.
AfterItsDeps(G, known, done) == {c \in known \ done : G[c] \subseteq done}

\* The list of commands that the loop of promote_stable goes through.
NewlyStable(G, known, done) == {c \in known \ done : IsDepsClosureCommitted(G, known, c)}

\* fn promote_stable; the list is in the order of a hash set.
PassOrders(G, known, done) ==
    LET start == [entries |-> known \ done, executed |-> {}, order |-> <<>>]
    IN  {Repeat([k \in DOMAIN list |-> [run \in Runs |-> PromoteOne(G, run, list[k])]],
                Len(list), start).order : list \in SetToSeqs(NewlyStable(G, known, done))}

-----------------------------------------------------------------------------
LoopInit == Init /\ learned = [p \in Replica |-> {}]

\* fn commit of p's log.
Commit(p, c) ==
    /\ learned' = [learned EXCEPT ![p] = @ \cup {c}]
    /\ \E s \in PassOrders(decidedDeps', learned'[p], Range(order[p])) :
          order' = [order EXCEPT ![p] = @ \o s]

\* The owner p of c decides and commits in its own log.
DecideAndCommit(p, c, D) ==
    /\ c \notin decided
    /\ decided' = decided \cup {c}
    /\ decidedDeps' = [decidedDeps EXCEPT ![c] = D]
    /\ Commit(p, c)

\* A Commit message reaches p.
HandleCommit(p, c) ==
    /\ c \in decided \ learned[p]
    /\ UNCHANGED <<decided, decidedDeps>>
    /\ Commit(p, c)

LoopNext ==
    \E p \in Replica : \E c \in Cmd :
        \/ \E D \in SUBSET (Cmd \ {c}) : DecideAndCommit(p, c, D)
        \/ HandleCommit(p, c)

LoopSpec == LoopInit /\ [][LoopNext]_loopVars

(***************************************************************************)
(* What a replica has learned is decided; what it has executed is decided, *)
(* closed under dependencies and free of repetitions, in an order that     *)
(* respects reachability: the loops of promote_stable and try_execute mark *)
(* each entry once and with all it depends on.                             *)
(***************************************************************************)
LoopInv == LoopTypeOK /\ OrderInv

(***************************************************************************)
(* No command is left behind: what a replica has learned and whose         *)
(* dependencies it has learned too, direct and indirect, is executed, for  *)
(* a call of commit looks at every command of pending_commit again.        *)
(***************************************************************************)
NothingWaits ==
    \A p \in Replica : \A c \in learned[p] :
        IsDepsClosureCommitted(decidedDeps, learned[p], c) => c \in Range(order[p])

(***************************************************************************)
(* The code's loops and walks implement the specification of the order:    *)
(* whatever the order of decisions and of the hash set, a pass executes    *)
(* one batch that is closed under dependencies, each command once, in an   *)
(* order that ExecutionOrders allows.                                      *)
(***************************************************************************)
ImplementsOrder == Spec
=============================================================================
