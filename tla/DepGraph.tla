------------------------------ MODULE DepGraph ------------------------------
(***************************************************************************)
(* The dependency graph a replica executes, and the orders in which it may *)
(* execute a batch of commands.  A graph G maps a command to the set of    *)
(* commands it depends on.                                                 *)
(*                                                                         *)
(* The code walks the graph with an explicit stack and with Tarjan's       *)
(* algorithm.  Reachability is given here by closed sets: y is reachable   *)
(* from x when every set that holds x and the dependencies of its members  *)
(* holds y.                                                                *)
(***************************************************************************)
EXTENDS Naturals, Sequences, FiniteSets, Functions

\* G restricted to B has no edge that leaves S.
ClosedIn(G, B, S) == \A c \in S : G[c] \cap B \subseteq S

\* There is a path of dependencies from x to y inside B.
Reaches(G, B, x, y) ==
    \A S \in SUBSET B : x \in S /\ ClosedIn(G, B, S) => y \in S

\* a occurs before b in the sequence s.
Precedes(s, a, b) ==
    \E i, j \in DOMAIN s : i < j /\ s[i] = a /\ s[j] = b

(***************************************************************************)
(* What one batch of executions looks like.  Tarjan's algorithm emits the  *)
(* strongly connected components dependencies first, and every component   *)
(* is sorted by command id before it is executed; so a command that runs   *)
(* before one of its dependencies is in a cycle with it and has the        *)
(* smaller id.  The order between unrelated commands depends on the        *)
(* iteration order of a hash set and is left open.                         *)
(***************************************************************************)
ExecutionOrders(G, B) ==
    {s \in Bijection(1 .. Cardinality(B), B) :
        \A i, j \in 1 .. Cardinality(B) :
            i < j /\ Reaches(G, B, s[i], s[j])
                => Reaches(G, B, s[j], s[i]) /\ s[i] < s[j]}
=============================================================================
