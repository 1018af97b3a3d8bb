-------------------------- MODULE BullsharkProofs --------------------------
(***************************************************************************)
(* Any number of processes, any latencies, timeout and budget of time.     *)
(*                                                                         *)
(* The invariant has three parts.  One is about each process (StateOK):    *)
(* the rows of its DAG are those from gc_offset on, the vertices that an   *)
(* edge leads to are there until their round is collected, and what was    *)
(* ordered is marked, with all that it refers to, until then.  So whatever *)
(* order_from reaches after a vertex was ordered neither is that vertex    *)
(* nor is referred to by it (CausalOrder).  Another is about the graph of  *)
(* all vertices that were made (Sole, Graph): a process makes one in a     *)
(* round, with edges to a quorum of the round before.  The third relates   *)
(* the two (AnchorsOK): the anchors of a process are those that a walk     *)
(* back over the whole graph finds from the last one, which was committed  *)
(* directly, whatever part of the graph the process had at the time.       *)
(*                                                                         *)
(* A handler is a sequence of changes to a record w (Handling); each of    *)
(* them keeps the parts, the vertices X that there were before it beside   *)
(* those that it has made.                                                 *)
(***************************************************************************)
EXTENDS Bullshark, SequenceTheorems, FiniteSetTheorems, WellFoundedInduction, TLAPS

\* A set of numbers has a least one.
LEMMA LeastNumber ==
    ASSUME NEW T \in SUBSET Nat, T # {}
    PROVE  \E x \in T : \A y \in T : x <= y
<1>1. IsWellFoundedOn(OpToRel(<, Nat), Nat)
  BY NatLessThanWellFounded
<1>2. PICK x \in T : \A y \in T : <<y, x>> \notin OpToRel(<, Nat)
  BY <1>1, WFMin
<1>3. \A y \in T : ~(y < x)
  BY <1>2 DEF OpToRel
<1> QED
  BY <1>3

\* Induction up to n.
LEMMA UpTo ==
    ASSUME NEW n \in Nat, NEW S, 0 \in S, \A k \in 1 .. n : k - 1 \in S => k \in S
    PROVE  \A k \in 0 .. n : k \in S
<1> DEFINE Bad == {k \in Nat : k <= n /\ k \notin S}
<1> SUFFICES ASSUME Bad # {} PROVE FALSE
  OBVIOUS
<1>1. PICK k \in Bad : \A j \in Bad : k <= j
  BY LeastNumber
<1>2. k \in 1 .. n /\ k - 1 \in Nat /\ k - 1 <= n /\ ~(k <= k - 1)
  BY <1>1
<1>3. k - 1 \notin Bad
  BY <1>1, <1>2
<1> QED
  BY <1>1, <1>2, <1>3

-----------------------------------------------------------------------------
(***************************************************************************)
(* The graph of all vertices G that were made, of which every process has  *)
(* a part.                                                                 *)
(***************************************************************************)

\* No two vertices of V have the same round and source.
Sole(V) == \A u, v \in V : u.round = v.round /\ u.source = v.source => u = v

\* A vertex refers to vertices that were made before, to a quorum of them.
Graph(G) ==
    \A v \in G :
        /\ \A s \in v.strong_edges : \E u \in G : u.round = v.round - 1 /\ u.source = s
        /\ v.round > 0 => Cardinality(v.strong_edges) >= QuorumSize

Closed(C, G) == \A v \in C, u \in G : RefersTo(v, u) => u \in C

\* A path leads from x to y.
Reaches(G, x, y) == \A C \in SUBSET G : x \in C /\ Closed(C, G) => y \in C

\* a can be committed directly.
Direct(G, a) ==
    \E S \in SUBSET Replica :
        /\ Cardinality(S) >= DirectCommitThreshold
        /\ \A s \in S : \E u \in G : u.source = s /\ RefersTo(u, a)

\* A new vertex opens no path between old ones.
LEMMA ReachesStable ==
    ASSUME NEW G, NEW H, G \subseteq H, Graph(G), Sole(H), NEW x \in G, NEW y
    PROVE  Reaches(G, x, y) <=> Reaches(H, x, y)
<1>1. ASSUME NEW v \in G, NEW u \in H, RefersTo(v, u) PROVE u \in G
  <2>1. PICK w \in G : w.round = v.round - 1 /\ w.source = u.source
    BY <1>1 DEF Graph, RefersTo
  <2> QED
    BY <1>1, <2>1 DEF Sole, RefersTo
<1>2. ASSUME Reaches(G, x, y), NEW C \in SUBSET H, x \in C, Closed(C, H) PROVE y \in C
  <2>1. C \cap G \in SUBSET G /\ x \in C \cap G /\ Closed(C \cap G, G)
    BY <1>2 DEF Closed
  <2> QED
    BY <1>2, <2>1 DEF Reaches
<1>3. ASSUME Reaches(H, x, y), NEW C \in SUBSET G, x \in C, Closed(C, G) PROVE y \in C
  <2>1. C \in SUBSET H /\ Closed(C, H)
    BY <1>1, <1>3 DEF Closed
  <2> QED
    BY <1>3, <2>1 DEF Reaches
<1> QED
  BY <1>2, <1>3 DEF Reaches

\* ... nor one to itself.
LEMMA NewUnreached ==
    ASSUME NEW G, NEW H, G \subseteq H, Graph(G), Sole(H), NEW x \in G, NEW y \in H \ G
    PROVE  ~Reaches(H, x, y)
<1>1. ASSUME NEW v \in G, NEW u \in H, RefersTo(v, u) PROVE u \in G
  <2>1. PICK w \in G : w.round = v.round - 1 /\ w.source = u.source
    BY <1>1 DEF Graph, RefersTo
  <2> QED
    BY <1>1, <2>1 DEF Sole, RefersTo
<1>2. Closed(G, H)
  BY <1>1 DEF Closed
<1> QED
  BY <1>2 DEF Reaches

\* The processes are finitely many.
LEMMA ReplicaCount == IsFiniteSet(Replica) /\ Cardinality(Replica) = N
<1>1. N \in Nat \ {0}
  BY BullsharkAssumption
<1>2. IsFiniteSet(0 .. N - 1) /\ Cardinality(0 .. N - 1) = N
  BY <1>1, FS_Interval
<1> QED
  BY <1>2 DEF Replica

LEMMA Thresholds ==
    /\ AdversaryThreshold \in Nat
    /\ QuorumSize \in Nat /\ QuorumSize >= 1 /\ QuorumSize <= N
    /\ DirectCommitThreshold \in Nat /\ DirectCommitThreshold >= 1
    /\ N = 3 * AdversaryThreshold + 1 => QuorumSize + DirectCommitThreshold > N
<1>1. N \in Nat \ {0}
  BY BullsharkAssumption
<1>2. (N - 1) \div 3 \in Nat /\ 3 * ((N - 1) \div 3) <= N - 1
  BY <1>1
<1> QED
  BY <1>1, <1>2 DEF QuorumSize, DirectCommitThreshold, AdversaryThreshold

\* A process has one vertex in a round, so vertices are counted by their sources.
LEMMA SourceCount ==
    ASSUME NEW V \in SUBSET Vertex, Sole(V), NEW r, \A v \in V : v.round = r
    PROVE  LET S == {v.source : v \in V}
           IN  /\ IsFiniteSet(V) /\ S \in SUBSET Replica
               /\ Cardinality(S) = Cardinality(V)
<1> DEFINE S == {v.source : v \in V}
           f == [v \in V |-> v.source]
<1>1. S \in SUBSET Replica
  BY DEF Vertex
<1>2. IsFiniteSet(S)
  BY <1>1, ReplicaCount, FS_Subset
<1>3. f \in Injection(V, S)
  BY DEF Injection, IsInjective, Sole
<1>4. f \in Surjection(V, S)
  BY DEF Surjection
<1> HIDE DEF f, S
<1>5. IsFiniteSet(V) /\ Cardinality(V) = Cardinality(S)
  BY <1>2, <1>3, <1>4, FS_Injection
<1> QED
  BY <1>1, <1>5 DEF S

(***************************************************************************)
(* Where quorums meet the direct votes, every vertex from two rounds later *)
(* on has a path to an anchor that can be committed directly: the vertices *)
(* of the second round refer to one of the votes each, and later ones to   *)
(* vertices of the round before.                                           *)
(***************************************************************************)
LEMMA DirectReached ==
    ASSUME N = 3 * AdversaryThreshold + 1,
           NEW G \in SUBSET Vertex, Graph(G), NEW a \in G, Direct(G, a),
           NEW b \in G, b.round >= a.round + 2
    PROVE  Reaches(G, b, a)
<1> SUFFICES ASSUME NEW C \in SUBSET G, b \in C, Closed(C, G) PROVE a \in C
  BY DEF Reaches
<1> DEFINE T == {v.round : v \in {w \in C : w.round >= a.round + 2}}
<1>1. \A v \in G : v.round \in Nat /\ v.strong_edges \subseteq Replica
  BY DEF Vertex
<1>2. T \in SUBSET Nat /\ T # {}
  BY <1>1
<1>3. PICK r \in T : \A t \in T : r <= t
  BY <1>2, LeastNumber
<1>4. PICK v \in C : v.round = r /\ r >= a.round + 2
  BY <1>3
<1>5. Cardinality(v.strong_edges) >= QuorumSize
  BY <1>1, <1>4 DEF Graph
<1>6. IsFiniteSet(v.strong_edges) /\ Cardinality(v.strong_edges) \in Nat
  BY <1>1, ReplicaCount, FS_Subset, FS_CardinalityType
<1>7. r = a.round + 2
  <2> SUFFICES ASSUME r # a.round + 2 PROVE FALSE
    OBVIOUS
  <2>1. v.strong_edges # {}
    <3>1. Cardinality({}) = 0
      BY FS_EmptySet
    <3> QED
      BY <1>5, <3>1, Thresholds
  <2>2. PICK s \in v.strong_edges : TRUE
    BY <2>1
  <2>3. PICK u \in G : u.round = v.round - 1 /\ u.source = s
    BY <2>2 DEF Graph
  <2>4. u \in C
    BY <2>2, <2>3 DEF Closed, RefersTo
  <2>5. r \in Nat /\ a.round \in Nat
    BY <1>1, <1>4
  <2>6. u.round = r - 1 /\ u.round >= a.round + 2
    BY <1>4, <2>3, <2>5
  <2>7. u.round \in T
    BY <2>4, <2>6
  <2> HIDE DEF T
  <2>8. r <= u.round
    BY <1>3, <2>7
  <2> QED
    BY <2>5, <2>6, <2>8
<1>8. PICK S \in SUBSET Replica :
           /\ Cardinality(S) >= DirectCommitThreshold
           /\ \A s \in S : \E u \in G : u.source = s /\ RefersTo(u, a)
  BY DEF Direct
<1>9. PICK s \in S : s \in v.strong_edges
  <2>1. IsFiniteSet(S) /\ Cardinality(S) \in Nat
    BY ReplicaCount, FS_Subset, FS_CardinalityType
  <2>2. Cardinality(S) + Cardinality(v.strong_edges) > Cardinality(Replica)
    BY <1>5, <1>6, <1>8, <2>1, ReplicaCount, Thresholds, BullsharkAssumption
  <2>3. S \cap v.strong_edges # {}
    BY <1>1, <2>2, ReplicaCount, FS_MajoritiesIntersect
  <2> QED
    BY <2>3
<1>10. PICK u \in G : u.source = s /\ RefersTo(u, a)
  BY <1>8
<1>11. u.round = v.round - 1
  BY <1>1, <1>4, <1>7, <1>10 DEF RefersTo
<1>12. u \in C
  BY <1>9, <1>10, <1>11 DEF Closed, RefersTo
<1> QED
  BY <1>10, <1>12 DEF Closed

-----------------------------------------------------------------------------
\* The state of a process.

\* The rows that there are.
RowsKept(st) == \A v \in st.matrix : st.gc_offset <= v.round /\ v.round < st.allocated

\* An edge leads to a vertex of the DAG, unless its round was collected.
EdgesKept(st) ==
    \A v \in st.matrix : v.round > st.gc_offset =>
        \A s \in v.strong_edges : \E u \in st.matrix : u.round = v.round - 1 /\ u.source = s

\* What was ordered is marked, and so is what it refers to, unless the round
\* was collected.
OrderKept(st) ==
    \A i \in DOMAIN st.commits : \A v \in st.commits[i].vertices :
        /\ v.round >= st.gc_offset => v \in st.ordered
        /\ v.round > st.gc_offset =>
              \A s \in v.strong_edges : \E u \in st.ordered : u.round = v.round - 1 /\ u.source = s

\* CausalOrder, of the commits of one process.
Causal(c) ==
    \A i, j \in DOMAIN c : i < j =>
        \A v \in c[i].vertices, u \in c[j].vertices : u # v /\ ~RefersTo(v, u)

StateOK(st) ==
    /\ st \in State
    /\ st.submitted <= SubmitLimit
    /\ IsFiniteSet(st.buffer)
    /\ st.ordered \subseteq st.matrix
    /\ Sole(st.matrix)
    /\ RowsKept(st)
    /\ EdgesKept(st)
    /\ OrderKept(st)
    /\ Causal(st.commits)

\* The numbers of a process.
LEMMA Numbers ==
    ASSUME NEW st \in State
    PROVE  /\ st.submitted \in Nat /\ st.round \in Nat /\ st.timer \in Nat
           /\ st.allocated \in Nat /\ st.gc_offset \in Nat /\ st.last_ordered_round \in Nat
           /\ st.matrix \subseteq Vertex /\ st.buffer \subseteq Vertex /\ st.ordered \subseteq Vertex
           /\ \A v \in Vertex : v.round \in Nat
BY DEF State, Vertex

\* ... and its commits.
LEMMA CommitTypes ==
    ASSUME NEW st \in State
    PROVE  /\ st.commits \in Seq([anchor : Vertex, vertices : SUBSET Vertex])
           /\ \A i \in DOMAIN st.commits : st.commits[i].vertices \subseteq Vertex
<1> DEFINE C == [anchor : Vertex, vertices : SUBSET Vertex]
           c == st.commits
<1>1. c \in Seq(C)
  BY DEF State
<1> HIDE DEF C, c
<1>2. \A i \in DOMAIN c : c[i] \in C
  BY <1>1
<1> USE DEF C, c
<1> QED
  BY <1>1, <1>2

\* What the operations of the DAG leave alone.
SameRounds(st, r) ==
    /\ r.submitted = st.submitted /\ r.pending_commands = st.pending_commands
    /\ r.round = st.round /\ r.timer = st.timer /\ r.buffer = st.buffer

-----------------------------------------------------------------------------
\* The operations of the DAG.

\* A vertex may come late, but not into a collected row and not before what it
\* refers to.
LEMMA AddVertexKeeps ==
    ASSUME NEW st, StateOK(st), NEW v \in Vertex, v.round >= st.gc_offset,
           Sole(st.matrix \cup {v}),
           v.round > st.gc_offset => \A s \in v.strong_edges :
               \E u \in st.matrix : u.round = v.round - 1 /\ u.source = s
    PROVE  LET r == AddVertex(st, v)
           IN  StateOK(r) /\ r.matrix = st.matrix \cup {v} /\ SameRounds(st, r)
<1> DEFINE r == AddVertex(st, v)
           a == IF v.round >= st.allocated THEN v.round + 1 ELSE st.allocated
<1>1. r = [st EXCEPT !.matrix = @ \cup {v}, !.allocated = a]
  BY DEF AddVertex, StateOK, State
<1>2. a \in Nat /\ v.round < a /\ st.allocated <= a
  BY Numbers DEF StateOK
<1> HIDE DEF a, r
<1>3. r \in State /\ r.matrix = st.matrix \cup {v} /\ r.allocated = a
      /\ r.submitted = st.submitted /\ r.buffer = st.buffer /\ r.ordered = st.ordered
      /\ r.gc_offset = st.gc_offset /\ r.commits = st.commits /\ SameRounds(st, r)
  BY <1>1, <1>2 DEF StateOK, State, SameRounds
<1>4. RowsKept(r)
  <2>1. \A u \in st.matrix : u.round \in Nat
    BY Numbers DEF StateOK
  <2> QED
    BY <1>2, <1>3, <2>1, Numbers DEF RowsKept, StateOK
<1>5. EdgesKept(r)
  BY <1>3 DEF EdgesKept, StateOK
<1>6. OrderKept(r)
  BY <1>3 DEF OrderKept, StateOK
<1> QED
  BY <1>3, <1>4, <1>5, <1>6 DEF StateOK, r

\* With a row go its marks, and no edge leads out of the oldest row that stays.
LEMMA CollectGarbageKeeps ==
    ASSUME NEW st, StateOK(st), NEW keep \in Nat
    PROVE  LET r == CollectGarbage(st, keep)
           IN  /\ StateOK(r) /\ r.matrix \subseteq st.matrix
               /\ SameRounds(st, r)
<1> DEFINE r == CollectGarbage(st, keep)
           o == Min({keep, st.allocated - 1})
<1>1. CASE o <= st.gc_offset
  BY <1>1 DEF CollectGarbage, SameRounds
<1>2. CASE ~(o <= st.gc_offset)
  <2>1. o \in Int
    <3>1. keep \in Int /\ st.allocated - 1 \in Int
      BY Numbers DEF StateOK
    <3>2. \E x \in {keep, st.allocated - 1} : \A y \in {keep, st.allocated - 1} : x <= y
      BY <3>1
    <3>3. o \in {keep, st.allocated - 1}
      BY <3>2 DEF Min
    <3> QED
      BY <3>1, <3>3
  <2>2. o \in Nat /\ st.gc_offset < o
    BY <1>2, <2>1, Numbers DEF StateOK
  <2>3. r = [st EXCEPT !.gc_offset = o, !.matrix = {v \in @ : v.round >= o},
                       !.ordered = {v \in @ : v.round >= o}]
    BY <1>2 DEF CollectGarbage
  <2> HIDE DEF o, r
  <2>4. /\ r \in State /\ r.gc_offset = o
        /\ r.matrix = {v \in st.matrix : v.round >= o}
        /\ r.ordered = {v \in st.ordered : v.round >= o}
        /\ r.submitted = st.submitted /\ r.pending_commands = st.pending_commands
        /\ r.round = st.round /\ r.timer = st.timer /\ r.buffer = st.buffer
        /\ r.commits = st.commits /\ r.allocated = st.allocated
    BY <2>2, <2>3 DEF StateOK, State
  <2>5. st.gc_offset \in Nat /\ \A v \in Vertex : v.round \in Nat
    BY Numbers DEF StateOK
  <2>6. st.matrix \subseteq Vertex /\ st.ordered \subseteq st.matrix
    BY Numbers DEF StateOK
  <2>7. RowsKept(r) /\ Sole(r.matrix)
    BY <2>4 DEF RowsKept, StateOK, Sole
  <2>8. EdgesKept(r)
    <3> SUFFICES ASSUME NEW v \in r.matrix, v.round > o, NEW s \in v.strong_edges
                 PROVE  \E u \in r.matrix : u.round = v.round - 1 /\ u.source = s
      BY <2>4 DEF EdgesKept
    <3>1. v \in st.matrix /\ v.round \in Nat /\ v.round > st.gc_offset
      BY <2>2, <2>4, <2>5, <2>6
    <3>2. PICK u \in st.matrix : u.round = v.round - 1 /\ u.source = s
      BY <3>1 DEF StateOK, EdgesKept
    <3> QED
      BY <2>2, <2>4, <3>1, <3>2
  <2>9. OrderKept(r)
    <3> SUFFICES ASSUME NEW i \in DOMAIN st.commits, NEW v \in st.commits[i].vertices
                 PROVE  /\ v.round >= o => v \in r.ordered
                        /\ v.round > o => \A s \in v.strong_edges :
                              \E u \in r.ordered : u.round = v.round - 1 /\ u.source = s
      BY <2>4 DEF OrderKept
    <3>1. v.round \in Nat
      <4>1. st.commits[i].vertices \subseteq Vertex
        BY CommitTypes DEF StateOK
      <4> QED
        BY <2>5, <4>1
    <3>2. /\ v.round >= st.gc_offset => v \in st.ordered
          /\ v.round > st.gc_offset => \A s \in v.strong_edges :
                \E u \in st.ordered : u.round = v.round - 1 /\ u.source = s
      BY DEF StateOK, OrderKept
    <3> QED
      BY <2>2, <2>4, <2>5, <3>1, <3>2
  <2> QED
    BY <2>4, <2>7, <2>8, <2>9 DEF StateOK, SameRounds, r
<1> QED
  BY <1>1, <1>2

(***************************************************************************)
(* What order_from and path_exists reach is in the matrix and not in S,    *)
(* and an edge from it leads to more of it or to S; there is no smaller    *)
(* such set.  The layers are a recursive function; that it exists is shown *)
(* from a least length for which it would not.                             *)
(***************************************************************************)
LEMMA ReachableClosed ==
    ASSUME NEW st, StateOK(st), NEW v \in st.matrix, NEW S
    PROVE  LET R == Reachable(st, v, S)
           IN  /\ R \subseteq st.matrix \ S
               /\ v \notin S => v \in R
               /\ \A u \in R : Parents(st, u) \subseteq R \cup S
              /\ \A C : {v} \ S \subseteq C /\ (\A u \in C : Parents(st, u) \ S \subseteq C)
                       => R \subseteq C
<1> DEFINE n == v.round - st.gc_offset
           Layer(L, k) == IF k = 0 THEN {v} \ S
                          ELSE (UNION {Parents(st, u) : u \in L[k - 1]}) \ S
           F(m, L) == [k \in 0 .. m |-> Layer(L, k)]
           Missing == {m \in Nat : ~\E L : L = F(m, L)}
<1> HIDE DEF Layer
<1>1. n \in Nat /\ v.round \in Nat /\ st.gc_offset \in Nat
  BY Numbers DEF StateOK, RowsKept
<1>2. Missing = {}
  <2> SUFFICES ASSUME Missing # {} PROVE FALSE
    OBVIOUS
  <2>1. PICK m \in Missing : \A k \in Missing : m <= k
    BY LeastNumber
  <2>2. CASE m = 0
    <3> DEFINE L == [k \in 0 .. 0 |-> {v} \ S]
    <3>1. L = F(0, L)
      BY DEF Layer
    <3> QED
      BY <2>1, <2>2, <3>1
  <2>3. CASE m # 0
    <3>1. m \in Nat /\ m - 1 \in Nat /\ m - 1 < m /\ m - 1 \notin Missing
      BY <2>1, <2>3
    <3>2. PICK L : L = F(m - 1, L)
      BY <3>1
    <3> DEFINE M == [k \in 0 .. m |-> IF k = m THEN Layer(L, m) ELSE L[k]]
    <3>3. M = F(m, M)
      <4>1. ASSUME NEW k \in 0 .. m PROVE M[k] = Layer(M, k)
        <5>1. k # 0 => M[k - 1] = L[k - 1]
          BY <3>1
        <5>2. Layer(M, k) = Layer(L, k)
          BY <5>1 DEF Layer
        <5>3. CASE k = m
          BY <5>2, <5>3
        <5>4. CASE k # m
          <6>1. k \in 0 .. m - 1
            BY <3>1, <5>4
          <6>2. M[k] = L[k] /\ L[k] = Layer(L, k)
            BY <3>2, <5>4, <6>1
          <6> QED
            BY <5>2, <6>2
        <5> QED
          BY <5>3, <5>4
      <4> QED
        BY <4>1
    <3> QED
      BY <2>1, <3>3
  <2> QED
    BY <2>2, <2>3
<1>3. PICK T : T = F(n, T)
  BY <1>1, <1>2
<1> DEFINE D == CHOOSE L : L = F(n, L)
           R == Reachable(st, v, S)
<1>4. D = F(n, D)
  BY <1>3
<1>5. R = UNION {D[k] : k \in 0 .. n}
  BY DEF Reachable, Layer
<1> HIDE DEF D, R, n
<1>6. \A k \in 0 .. n : D[k] = Layer(D, k)
  BY <1>4
<1>7. \A u : Parents(st, u) \subseteq st.matrix
  BY DEF Parents, Row
<1>a. Layer(D, 0) = {v} \ S
  BY DEF Layer
<1>b. \A k \in 1 .. n : Layer(D, k) = (UNION {Parents(st, u) : u \in D[k - 1]}) \ S
  BY <1>1 DEF Layer
<1>9. D[0] = {v} \ S
  BY <1>1, <1>6, <1>a
<1>8. \A k \in 0 .. n : D[k] \subseteq st.matrix \ S
  <2>1. \A k \in 1 .. n : D[k] \subseteq st.matrix \ S
    BY <1>1, <1>6, <1>7, <1>b
  <2> QED
    BY <1>1, <1>9, <2>1
<1>10. \A k \in 0 .. n : \A u \in D[k] : u.round = v.round - k
  <2> DEFINE Bad == {k \in Nat : k <= n /\ \E u \in D[k] : u.round # v.round - k}
  <2> SUFFICES ASSUME Bad # {} PROVE FALSE
    BY <1>1
  <2>1. PICK k \in Bad : \A j \in Bad : k <= j
    BY LeastNumber
  <2>2. k # 0
    BY <1>1, <1>9, <2>1
  <2>3. k - 1 \in Nat /\ k - 1 <= n /\ k - 1 \notin Bad /\ k \in 0 .. n
    BY <1>1, <2>1, <2>2
  <2>4. PICK u \in D[k] : u.round # v.round - k
    BY <2>1
  <2>5. PICK w \in D[k - 1] : u \in Parents(st, w)
    BY <1>1, <1>6, <1>b, <2>2, <2>3, <2>4
  <2>6. w.round = v.round - (k - 1) /\ u.round = w.round - 1
    BY <2>3, <2>5 DEF Parents, Row
  <2> QED
    BY <1>1, <2>1, <2>4, <2>6
<1>11. ASSUME NEW u \in R PROVE Parents(st, u) \subseteq R \cup S
  <2>1. PICK k \in 0 .. n : u \in D[k]
    BY <1>5
  <2>2. CASE k = n
    <3> SUFFICES ASSUME NEW w \in Parents(st, u) PROVE FALSE
      OBVIOUS
    <3>1. w \in st.matrix /\ w.round = u.round - 1 /\ u.round = st.gc_offset
      BY <1>1, <1>10, <2>1, <2>2 DEF Parents, Row, n
    <3>2. w.round >= st.gc_offset
      BY <3>1 DEF StateOK, RowsKept
    <3> QED
      BY <1>1, <3>1, <3>2
  <2>3. CASE k # n
    <3>1. k + 1 \in 0 .. n /\ k + 1 # 0 /\ (k + 1) - 1 = k
      BY <1>1, <2>1, <2>3
    <3>2. Parents(st, u) \subseteq D[k + 1] \cup S
      BY <1>1, <1>6, <1>b, <2>1, <3>1
    <3> QED
      BY <1>5, <3>1, <3>2
  <2> QED
    BY <2>2, <2>3
<1>12. R \subseteq st.matrix \ S
  BY <1>5, <1>8
<1>13. v \notin S => v \in R
  BY <1>1, <1>5, <1>9
<1>14. ASSUME NEW C, {v} \ S \subseteq C, \A u \in C : Parents(st, u) \ S \subseteq C
       PROVE  R \subseteq C
  <2> DEFINE Bad == {k \in Nat : k <= n /\ ~(D[k] \subseteq C)}
  <2> SUFFICES ASSUME Bad # {} PROVE FALSE
    BY <1>1, <1>5
  <2>1. PICK k \in Bad : \A j \in Bad : k <= j
    BY LeastNumber
  <2>2. k # 0
    BY <1>9, <1>14, <2>1
  <2>3. k - 1 \in Nat /\ k - 1 <= n /\ k - 1 \notin Bad /\ k \in 1 .. n /\ k \in 0 .. n
    BY <1>1, <2>1, <2>2
  <2>4. D[k] = (UNION {Parents(st, u) : u \in D[k - 1]}) \ S
    BY <1>6, <1>b, <2>3
  <2>5. D[k - 1] \subseteq C
    BY <2>3
  <2>6. D[k] \subseteq C
    BY <1>14, <2>4, <2>5
  <2> QED
    BY <2>1, <2>6
<1> QED
  BY <1>11, <1>12, <1>13, <1>14 DEF R

\* So it is no later than v, and nothing if v is in S.
LEMMA ReachableBelow ==
    ASSUME NEW st, StateOK(st), NEW v \in st.matrix, NEW S
    PROVE  /\ \A u \in Reachable(st, v, S) : u.round <= v.round
           /\ v \in S => Reachable(st, v, S) = {}
<1> DEFINE R == Reachable(st, v, S)
           C == {u \in st.matrix : u.round <= v.round}
<1>1. \A B : {v} \ S \subseteq B /\ (\A u \in B : Parents(st, u) \ S \subseteq B) => R \subseteq B
  BY ReachableClosed
<1>2. \A u \in st.matrix : u.round \in Nat
  BY Numbers DEF StateOK
<1>3. v \in C
  BY <1>2
<1>4. ASSUME NEW u \in C PROVE Parents(st, u) \ S \subseteq C
  <2> SUFFICES ASSUME NEW w \in Parents(st, u) PROVE w \in C
    OBVIOUS
  <2>1. w \in st.matrix /\ w.round = u.round - 1
    BY DEF Parents, Row
  <2> QED
    BY <1>2, <2>1
<1> HIDE DEF R, C
<1>5. R \subseteq C
  BY <1>1, <1>3, <1>4
<1>6. ASSUME v \in S PROVE R = {}
  <2>1. {v} \ S \subseteq {} /\ \A u \in {} : Parents(st, u) \ S \subseteq {}
    BY <1>6
  <2>2. R \subseteq {}
    BY <1>1, <2>1
  <2> QED
    BY <2>2
<1> QED
  BY <1>5, <1>6 DEF R, C

(***************************************************************************)
(* A process finds a path between vertices of the rows that it has exactly *)
(* if there is one (path_exists).                                          *)
(***************************************************************************)
LEMMA PathFound ==
    ASSUME NEW st, StateOK(st), NEW G \in SUBSET Vertex, st.matrix \subseteq G, Sole(G),
           NEW x \in st.matrix, NEW y \in G, y.round >= st.gc_offset
    PROVE  PathExists(st, x, y) <=> Reaches(G, x, y)
<1> DEFINE R == Reachable(st, x, {})
<1>1. /\ R \subseteq st.matrix /\ x \in R
      /\ \A u \in R : Parents(st, u) \subseteq R
      /\ \A C : x \in C /\ (\A u \in C : Parents(st, u) \subseteq C) => R \subseteq C
  <2>1. /\ R \subseteq st.matrix \ {} /\ (x \notin {} => x \in R)
        /\ \A u \in R : Parents(st, u) \subseteq R \cup {}
        /\ \A C : {x} \ {} \subseteq C /\ (\A u \in C : Parents(st, u) \ {} \subseteq C) => R \subseteq C
    BY ReachableClosed
  <2> HIDE DEF R
  <2> QED
    BY <2>1
<1>2. PathExists(st, x, y) <=> y \in R
  BY DEF PathExists
<1> HIDE DEF R
<1>3. ASSUME y \in R PROVE Reaches(G, x, y)
  <2> SUFFICES ASSUME NEW C \in SUBSET G, x \in C, Closed(C, G) PROVE y \in C
    BY DEF Reaches
  <2>1. \A u \in C : Parents(st, u) \subseteq C
    BY DEF Closed, RefersTo, Parents, Row
  <2> QED
    BY <1>1, <1>3, <2>1
<1>4. ASSUME Reaches(G, x, y) PROVE y \in R
  <2> DEFINE C == R \cup {u \in G : u.round < st.gc_offset}
  <2>1. st.gc_offset \in Nat /\ \A u \in G : u.round \in Nat
    BY Numbers DEF StateOK
  <2>2. ASSUME NEW v \in C, NEW u \in G, RefersTo(v, u) PROVE u \in C
    <3>1. v \in G /\ v.round \in Nat /\ u.round \in Nat /\ u.round = v.round - 1
      BY <1>1, <2>1, <2>2 DEF RefersTo
    <3>2. CASE u.round < st.gc_offset
      BY <3>2
    <3>3. CASE u.round >= st.gc_offset
      <4>1. v \in R /\ v.round > st.gc_offset
        BY <2>1, <3>1, <3>3
      <4>2. PICK w \in st.matrix : w.round = v.round - 1 /\ w.source = u.source
        BY <1>1, <2>2, <4>1 DEF StateOK, EdgesKept, RefersTo
      <4>3. w = u
        BY <3>1, <4>2 DEF Sole
      <4>4. u \in Parents(st, v)
        BY <2>2, <4>2, <4>3 DEF Parents, Row, RefersTo
      <4> QED
        BY <1>1, <4>1, <4>4
    <3> QED
      BY <2>1, <3>1, <3>2, <3>3
  <2>3. C \in SUBSET G /\ x \in C /\ Closed(C, G)
    BY <1>1, <2>2 DEF Closed
  <2> HIDE DEF C
  <2>4. y \in C
    BY <1>4, <2>3 DEF Reaches
  <2> QED
    BY <2>1, <2>4 DEF C
<1> QED
  BY <1>2, <1>3, <1>4

\* What is ordered is new, and everything it refers to is marked afterwards.
LEMMA OrderFromKeeps ==
    ASSUME NEW st, StateOK(st), NEW a \in st.matrix
    PROVE  LET r == OrderFrom(st, a)
           IN  StateOK(r) /\ r.matrix = st.matrix /\ SameRounds(st, r)
<1> DEFINE r == OrderFrom(st, a)
           new == Reachable(st, a, st.ordered)
           c == st.commits
           last == [anchor |-> a, vertices |-> new]
<1>1. /\ new \subseteq st.matrix \ st.ordered
      /\ \A u \in new : Parents(st, u) \subseteq new \cup st.ordered
  BY ReachableClosed
<1> HIDE DEF new
<1>2. CASE new = {}
  <2>1. r = st
    BY <1>2 DEF OrderFrom, new
  <2> QED
    BY <2>1 DEF SameRounds
<1>3. CASE new # {}
  <2>1. r = [st EXCEPT !.ordered = @ \cup new, !.commits = Append(@, last)]
    BY <1>3 DEF OrderFrom, new
  <2>2. st.matrix \subseteq Vertex /\ st.gc_offset \in Nat /\ \A v \in Vertex : v.round \in Nat
    BY Numbers DEF StateOK
  <2>3. last \in [anchor : Vertex, vertices : SUBSET Vertex] /\ last.vertices = new
    BY <1>1, <2>2
  <2>4. c \in Seq([anchor : Vertex, vertices : SUBSET Vertex])
    BY CommitTypes DEF StateOK
  <2>5. /\ Append(c, last) \in Seq([anchor : Vertex, vertices : SUBSET Vertex])
        /\ Len(c) \in Nat /\ DOMAIN c = 1 .. Len(c)
        /\ DOMAIN Append(c, last) = 1 .. Len(c) + 1
        /\ \A i \in 1 .. Len(c) : Append(c, last)[i] = c[i]
        /\ Append(c, last)[Len(c) + 1] = last
    BY <2>3, <2>4, AppendProperties
  <2> DEFINE d == Append(c, last)
  <2> HIDE DEF r, c, last, d
  <2>6. /\ r \in State /\ r.ordered = st.ordered \cup new /\ r.commits = d
        /\ r.matrix = st.matrix /\ r.gc_offset = st.gc_offset /\ r.allocated = st.allocated
        /\ SameRounds(st, r)
    <3>1. st.ordered \cup new \in SUBSET Vertex
      BY <1>1, <2>2, Numbers DEF StateOK
    <3> QED
      BY <2>1, <2>5, <3>1 DEF StateOK, State, SameRounds, c, d
  <2>7. RowsKept(r) /\ EdgesKept(r)
    BY <2>6 DEF RowsKept, EdgesKept, StateOK
  <2>8. OrderKept(r)
    <3> SUFFICES ASSUME NEW i \in DOMAIN d, NEW v \in d[i].vertices
                 PROVE  /\ v.round >= st.gc_offset => v \in r.ordered
                        /\ v.round > st.gc_offset => \A s \in v.strong_edges :
                              \E u \in r.ordered : u.round = v.round - 1 /\ u.source = s
      BY <2>6 DEF OrderKept
    <3>1. CASE i \in DOMAIN c
      <4>1. v \in c[i].vertices
        BY <2>5, <3>1 DEF d
      <4> QED
        BY <2>6, <3>1, <4>1 DEF StateOK, OrderKept, c
    <3>2. CASE i = Len(c) + 1
      <4>1. v \in new /\ v \in st.matrix
        BY <1>1, <2>3, <2>5, <3>2 DEF d
      <4>2. ASSUME v.round > st.gc_offset, NEW s \in v.strong_edges
            PROVE  \E u \in r.ordered : u.round = v.round - 1 /\ u.source = s
        <5>1. PICK u \in st.matrix : u.round = v.round - 1 /\ u.source = s
          BY <4>1, <4>2 DEF StateOK, EdgesKept
        <5>2. u \in Parents(st, v)
          BY <4>2, <5>1 DEF Parents, Row
        <5> QED
          BY <1>1, <2>6, <4>1, <5>1, <5>2
      <4> QED
        BY <2>6, <4>1, <4>2
    <3> QED
      BY <2>5, <3>1, <3>2 DEF d
  <2>9. Causal(d)
    <3> SUFFICES ASSUME NEW i \in DOMAIN d, NEW j \in DOMAIN d, i < j,
                        NEW v \in d[i].vertices, NEW u \in d[j].vertices
                 PROVE  u # v /\ ~RefersTo(v, u)
      BY DEF Causal
    <3>1. i \in DOMAIN c /\ v \in c[i].vertices
      BY <2>5 DEF d
    <3>2. CASE j \in DOMAIN c
      <4>1. u \in c[j].vertices
        BY <2>5, <3>2 DEF d
      <4> QED
        BY <3>1, <3>2, <4>1 DEF StateOK, Causal, c
    <3>3. CASE j = Len(c) + 1
      <4>1. u \in st.matrix /\ u \notin st.ordered /\ u.round \in Nat /\ u.round >= st.gc_offset
        BY <1>1, <2>2, <2>3, <2>5, <3>3 DEF d, StateOK, RowsKept
      <4>2. /\ v.round >= st.gc_offset => v \in st.ordered
            /\ v.round > st.gc_offset => \A s \in v.strong_edges :
                  \E x \in st.ordered : x.round = v.round - 1 /\ x.source = s
        BY <3>1 DEF StateOK, OrderKept, c
      <4>3. u # v
        BY <4>1, <4>2
      <4>4. ASSUME RefersTo(v, u) PROVE FALSE
        <5>1. v \in Vertex /\ v.round \in Nat
          BY <2>2, <3>1, CommitTypes DEF StateOK, c
        <5>2. PICK x \in st.ordered : x.round = v.round - 1 /\ x.source = u.source
          BY <2>2, <4>1, <4>2, <4>4, <5>1 DEF RefersTo
        <5>3. x = u
          BY <4>1, <4>4, <5>2 DEF RefersTo, StateOK, Sole
        <5> QED
          BY <4>1, <5>2, <5>3
      <4> QED
        BY <4>3, <4>4
    <3> QED
      BY <2>5, <3>2, <3>3 DEF d
  <2> QED
    BY <1>1, <2>6, <2>7, <2>8, <2>9 DEF StateOK, SameRounds, r
<1> QED
  BY <1>2, <1>3

-----------------------------------------------------------------------------
\* Ordering.

LEMMA StepsBackNat ==
    ASSUME NEW st, StateOK(st), NEW anchor \in st.matrix
    PROVE  LET n == StepsBack(st, anchor)
           IN  /\ n \in Nat
               /\ n > 0 => 2 * n <= anchor.round - 1 - st.last_ordered_round
               /\ \A k \in Nat : 2 * k <= anchor.round - 1 - st.last_ordered_round => k <= n
<1>1. anchor.round \in Nat /\ st.last_ordered_round \in Nat
  BY Numbers DEF StateOK
<1> DEFINE d == anchor.round - 1 - st.last_ordered_round
           x == d \div 2
<1>2. d \in Int
  BY <1>1
<1> HIDE DEF d
<1>3. x \in Int /\ 2 * x <= d /\ d <= 2 * x + 1
  BY <1>2
<1> HIDE DEF x
<1>4. \E y \in {0, x} : \A z \in {0, x} : y >= z
  BY <1>3
<1>5. Max({0, x}) \in {0, x} /\ Max({0, x}) >= 0 /\ Max({0, x}) >= x
  BY <1>4 DEF Max
<1> DEFINE n == Max({0, x})
<1>6. StepsBack(st, anchor) = n
  BY DEF StepsBack, x, d
<1>7. n \in Nat /\ n >= x /\ (n > 0 => n = x)
  BY <1>3, <1>5
<1> HIDE DEF n
<1>8. n > 0 => 2 * n <= d
  BY <1>3, <1>7
<1>9. \A k \in Nat : 2 * k <= d => k <= n
  BY <1>2, <1>3, <1>7
<1> QED
  BY <1>6, <1>7, <1>8, <1>9 DEF d

\* A step of order_anchors goes back to the leader's vertex two rounds before,
\* where it finds a path to it, and stays where it is otherwise.
LEMMA AnchorsBackSteps ==
    ASSUME NEW st, StateOK(st), NEW anchor \in st.matrix
    PROVE  LET D == AnchorsBack(st, anchor)
           IN  /\ D[0] = anchor
               /\ \A k \in 1 .. StepsBack(st, anchor) :
                     \/ /\ D[k] \in Anchor(st, anchor.round - 2 * k)
                        /\ PathExists(st, D[k - 1], D[k])
                     \/ /\ D[k] = D[k - 1]
                        /\ \A a \in Anchor(st, anchor.round - 2 * k) : ~PathExists(st, D[k - 1], a)
<1> DEFINE n == StepsBack(st, anchor)
           Older(L, k) == {a \in Anchor(st, anchor.round - 2 * k) : PathExists(st, L[k - 1], a)}
           Some(S) == CHOOSE a \in S : TRUE
           Found(L, k) == IF k = 0 THEN anchor
                          ELSE IF Older(L, k) = {} THEN L[k - 1]
                          ELSE Some(Older(L, k))
           F(m, L) == [k \in 0 .. m |-> Found(L, k)]
           Missing == {m \in Nat : ~\E L : L = F(m, L)}
<1>1. n \in Nat
  BY StepsBackNat
<1> HIDE DEF Older, Some
<1>a. \A L, M, k : L[k - 1] = M[k - 1] => Older(L, k) = Older(M, k)
  BY DEF Older
<1>b. \A L, k : Older(L, k) = {a \in Anchor(st, anchor.round - 2 * k) : PathExists(st, L[k - 1], a)}
  BY DEF Older
<1>0. \A S : S # {} => Some(S) \in S
  BY DEF Some
<1>c. \A L, M, k : (k # 0 => L[k - 1] = M[k - 1]) => Found(L, k) = Found(M, k)
  BY <1>a
<1>d. \A L : Found(L, 0) = anchor
  OBVIOUS
<1>e. \A L, k : k # 0 => IF Older(L, k) = {} THEN Found(L, k) = L[k - 1]
                          ELSE Found(L, k) \in Older(L, k)
  BY <1>0
<1> HIDE DEF Found
<1>2. Missing = {}
  <2> SUFFICES ASSUME Missing # {} PROVE FALSE
    OBVIOUS
  <2>1. PICK m \in Missing : \A k \in Missing : m <= k
    BY LeastNumber
  <2>2. CASE m = 0
    <3> DEFINE L == [k \in 0 .. 0 |-> anchor]
    <3>1. L = F(0, L)
      BY <1>d
    <3> QED
      BY <2>1, <2>2, <3>1
  <2>3. CASE m # 0
    <3>1. m \in Nat /\ m - 1 \in Nat /\ m - 1 < m /\ m - 1 \notin Missing
      BY <2>1, <2>3
    <3>2. PICK L : L = F(m - 1, L)
      BY <3>1
    <3> DEFINE M == [k \in 0 .. m |-> IF k = m THEN Found(L, m) ELSE L[k]]
    <3>3. M = F(m, M)
      <4>1. ASSUME NEW k \in 0 .. m PROVE M[k] = Found(M, k)
        <5>1. k # 0 => M[k - 1] = L[k - 1]
          BY <3>1
        <5>2. Found(M, k) = Found(L, k)
          BY <1>c, <5>1
        <5>3. CASE k = m
          BY <5>2, <5>3
        <5>4. CASE k # m
          <6>1. k \in 0 .. m - 1
            BY <3>1, <5>4
          <6>2. M[k] = L[k] /\ L[k] = Found(L, k)
            BY <3>2, <5>4, <6>1
          <6> QED
            BY <5>2, <6>2
        <5> QED
          BY <5>3, <5>4
      <4> QED
        BY <4>1
    <3> QED
      BY <2>1, <3>3
  <2> QED
    BY <2>2, <2>3
<1>3. PICK T : T = F(n, T)
  BY <1>1, <1>2
<1> DEFINE D == CHOOSE L : L = F(n, L)
<1>4. D = F(n, D)
  BY <1>3
<1>5. AnchorsBack(st, anchor) = D
  BY DEF AnchorsBack, Found, Older, Some
<1> HIDE DEF D, n
<1>6. \A k \in 0 .. n : D[k] = Found(D, k)
  BY <1>4
<1>7. D[0] = anchor
  BY <1>1, <1>6, <1>d
<1>8. ASSUME NEW k \in 1 .. n
      PROVE  \/ /\ D[k] \in Anchor(st, anchor.round - 2 * k)
                /\ PathExists(st, D[k - 1], D[k])
             \/ /\ D[k] = D[k - 1]
                /\ \A a \in Anchor(st, anchor.round - 2 * k) : ~PathExists(st, D[k - 1], a)
  <2>1. k # 0 /\ D[k] = Found(D, k)
    BY <1>1, <1>6
  <2>2. CASE Older(D, k) = {}
    BY <1>b, <1>e, <2>1, <2>2
  <2>3. CASE Older(D, k) # {}
    BY <1>b, <1>e, <2>1, <2>3
  <2> QED
    BY <2>2, <2>3
<1> QED
  BY <1>5, <1>7, <1>8 DEF n

LEMMA AnchorsInMatrix ==
    ASSUME NEW st, StateOK(st), NEW anchor \in st.matrix
    PROVE  \A k \in 0 .. StepsBack(st, anchor) : AnchorsBack(st, anchor)[k] \in st.matrix
<1> DEFINE n == StepsBack(st, anchor)
           D == AnchorsBack(st, anchor)
           S == {k \in Nat : D[k] \in st.matrix}
<1>1. n \in Nat
  BY StepsBackNat
<1>2. /\ D[0] = anchor
      /\ \A k \in 1 .. n : D[k] \in Anchor(st, anchor.round - 2 * k) \/ D[k] = D[k - 1]
  BY AnchorsBackSteps
<1> HIDE DEF n, D
<1>3. 0 \in S
  BY <1>2
<1>4. \A k \in 1 .. n : k - 1 \in S => k \in S
  BY <1>1, <1>2 DEF Anchor, Row
<1>5. \A k \in 0 .. n : k \in S
  BY <1>1, <1>3, <1>4, UpTo
<1> QED
  BY <1>5 DEF n, D

\* The vertex of the leader of an even round.
IsAnchor(v) == v.round % 2 = 0 /\ v.source = LeaderId(v.round)

\* From step to step the anchor is the same or one of the round of the step,
\* so one that was left behind does not come back.
LEMMA AnchorsWalked ==
    ASSUME NEW st, StateOK(st), NEW anchor \in st.matrix, IsAnchor(anchor)
    PROVE  LET n == StepsBack(st, anchor)
               D == AnchorsBack(st, anchor)
           IN  /\ \A k \in 0 .. n : /\ D[k] \in st.matrix /\ IsAnchor(D[k])
                                   /\ D[k].round >= anchor.round - 2 * k
               /\ \A k, j \in 0 .. n : k <= j =>
                     D[j] = D[k] \/ D[j].round <= anchor.round - 2 * (k + 1)
<1> DEFINE n == StepsBack(st, anchor)
           D == AnchorsBack(st, anchor)
           r == anchor.round
<1>1. n \in Nat /\ r \in Nat
  BY StepsBackNat, Numbers DEF StateOK
<1>2. /\ D[0] = anchor
      /\ \A k \in 1 .. n : D[k] \in Anchor(st, r - 2 * k) \/ D[k] = D[k - 1]
  BY AnchorsBackSteps
<1>3. \A k \in 0 .. n : D[k] \in st.matrix
  BY AnchorsInMatrix
<1>4. \A k \in 0 .. n : D[k].round \in Nat
  BY <1>3, Numbers DEF StateOK
<1> HIDE DEF n, D
<1>5. \A k \in 1 .. n : \/ D[k].round = r - 2 * k /\ IsAnchor(D[k])
                        \/ D[k] = D[k - 1]
  <2> SUFFICES ASSUME NEW k \in 1 .. n, D[k] \in Anchor(st, r - 2 * k)
               PROVE  D[k].round = r - 2 * k /\ IsAnchor(D[k])
    BY <1>2
  <2>1. D[k].round = r - 2 * k /\ D[k].source = LeaderId(D[k].round)
    BY DEF Anchor, Row
  <2>2. r % 2 = 0
    BY DEF IsAnchor
  <2>3. (r - 2 * k) % 2 = 0
    BY <1>1, <2>2
  <2> QED
    BY <2>1, <2>3 DEF IsAnchor
<1>6. \A k \in 0 .. n : IsAnchor(D[k]) /\ D[k].round >= r - 2 * k
  <2> DEFINE S == {k \in Nat : IsAnchor(D[k]) /\ D[k].round >= r - 2 * k}
  <2>1. 0 \in S
    BY <1>1, <1>2
  <2>2. ASSUME NEW k \in 1 .. n, k - 1 \in S PROVE k \in S
    <3>1. D[k - 1].round >= r - 2 * (k - 1) /\ D[k].round \in Nat /\ k \in Nat
      BY <1>1, <1>4, <2>2
    <3>2. CASE D[k] = D[k - 1]
      BY <1>1, <2>2, <3>1, <3>2
    <3>3. CASE D[k].round = r - 2 * k /\ IsAnchor(D[k])
      BY <1>1, <3>1, <3>3
    <3> QED
      BY <1>5, <3>2, <3>3
  <2> HIDE DEF S
  <2>3. \A k \in 0 .. n : k \in S
    BY <1>1, <2>1, <2>2, UpTo
  <2> QED
    BY <2>3 DEF S
<1>7. ASSUME NEW k \in 0 .. n, NEW j \in 0 .. n, k <= j
      PROVE  D[j] = D[k] \/ D[j].round <= r - 2 * (k + 1)
  <2> DEFINE S == {i \in Nat : k <= i => D[i] = D[k] \/ D[i].round <= r - 2 * (k + 1)}
  <2>1. 0 \in S
    BY <1>7
  <2>2. ASSUME NEW i \in 1 .. n, i - 1 \in S PROVE i \in S
    <3>1. i \in Nat /\ D[i].round \in Nat
      BY <1>1, <1>4
    <3>2. CASE D[i].round = r - 2 * i /\ k < i
      BY <1>1, <3>1, <3>2
    <3>3. CASE D[i] = D[i - 1] /\ k < i
      <4>1. k <= i - 1
        BY <3>1, <3>3
      <4> QED
        BY <2>2, <3>1, <3>3, <4>1
    <3>4. CASE ~(k < i)
      BY <3>1, <3>4
    <3> QED
      BY <1>5, <3>2, <3>3, <3>4
  <2> HIDE DEF S
  <2>3. \A i \in 0 .. n : i \in S
    BY <1>1, <2>1, <2>2, UpTo
  <2> QED
    BY <1>7, <2>3 DEF S
<1> QED
  BY <1>3, <1>6, <1>7 DEF n, D

\* No step goes back to what was committed before.
LEMMA AnchorsAbove ==
    ASSUME NEW st, StateOK(st), NEW anchor \in st.matrix, IsAnchor(anchor),
           st.last_ordered_round < anchor.round
    PROVE  \A k \in 0 .. StepsBack(st, anchor) :
              st.last_ordered_round < AnchorsBack(st, anchor)[k].round
<1> DEFINE n == StepsBack(st, anchor)
           D == AnchorsBack(st, anchor)
           r == anchor.round
           o == st.last_ordered_round
<1>1. n \in Nat /\ (n > 0 => 2 * n <= r - 1 - o)
  BY StepsBackNat
<1>2. \A k \in 0 .. n : D[k] \in st.matrix /\ D[k].round >= r - 2 * k
  BY AnchorsWalked
<1>3. r \in Nat /\ o \in Nat /\ \A k \in 0 .. n : D[k].round \in Nat
  BY <1>2, Numbers DEF StateOK
<1>4. o < r
  OBVIOUS
<1> HIDE DEF n, D, r, o
<1>5. \A k \in 0 .. n : o < D[k].round
  <2> SUFFICES ASSUME NEW k \in 0 .. n PROVE o < D[k].round
    OBVIOUS
  <2>1. k \in Nat /\ 2 * k <= 2 * n
    BY <1>1
  <2> QED
    BY <1>1, <1>2, <1>3, <1>4, <2>1
<1> QED
  BY <1>5 DEF n, D, o

\* Of the anchors back to what was committed before, the next one after D[i]
\* is the first that it has a path to.
LEMMA AnchorsComplete ==
    ASSUME NEW st, StateOK(st), NEW anchor \in st.matrix, IsAnchor(anchor),
           NEW n, n = StepsBack(st, anchor), NEW D, D = AnchorsBack(st, anchor),
           NEW b \in st.matrix, IsAnchor(b), NEW i \in 0 .. n,
           st.last_ordered_round < b.round, b.round < D[i].round,
           \A j \in 0 .. n : ~(b.round < D[j].round /\ D[j].round < D[i].round)
    PROVE  (\E j \in 0 .. n : D[j] = b) <=> PathExists(st, D[i], b)
<1> DEFINE r == anchor.round
           o == st.last_ordered_round
           s == b.round
<1>1. /\ n \in Nat
      /\ \A k \in Nat : 2 * k <= r - 1 - o => k <= n
  BY StepsBackNat
<1>2. /\ \A k \in 0 .. n : D[k] \in st.matrix /\ IsAnchor(D[k]) /\ D[k].round >= r - 2 * k
      /\ \A k, j \in 0 .. n : k <= j => D[j] = D[k] \/ D[j].round <= r - 2 * (k + 1)
  BY AnchorsWalked
<1>3. /\ D[0] = anchor
      /\ \A k \in 1 .. n :
            \/ D[k] \in Anchor(st, r - 2 * k) /\ PathExists(st, D[k - 1], D[k])
            \/ /\ D[k] = D[k - 1]
               /\ \A a \in Anchor(st, r - 2 * k) : ~PathExists(st, D[k - 1], a)
  BY AnchorsBackSteps
<1>4. r \in Nat /\ o \in Nat /\ s \in Nat /\ \A k \in 0 .. n : D[k].round \in Nat
  BY <1>2, Numbers DEF StateOK
<1>5. r % 2 = 0 /\ s % 2 = 0 /\ o < s /\ s < D[i].round
  BY DEF IsAnchor
<1>6. \A u, v \in st.matrix : IsAnchor(u) /\ IsAnchor(v) /\ u.round = v.round => u = v
  BY DEF StateOK, Sole, IsAnchor
<1>7. D[0].round = r /\ (D[i] = D[0] \/ D[i].round <= r - 2)
  <2>1. 0 \in 0 .. n /\ 0 <= i /\ r - 2 * (0 + 1) = r - 2
    BY <1>1, <1>4
  <2> QED
    BY <1>2, <1>3, <2>1
<1> HIDE DEF r, o, s
<1>8. PICK k \in Nat : 2 * k = r - s
  <2>1. s < r
    BY <1>4, <1>5, <1>7
  <2>2. (r - s) \div 2 \in Nat /\ 2 * ((r - s) \div 2) = r - s
    BY <1>4, <1>5, <2>1
  <2> QED
    BY <2>2
<1>9. k >= 1 /\ k <= n /\ k \in 0 .. n /\ k \in 1 .. n /\ k - 1 \in 0 .. n
  <2>1. s < r
    BY <1>4, <1>5, <1>7
  <2>2. 2 * k <= r - 1 - o
    BY <1>4, <1>5, <1>8
  <2>3. k <= n /\ k >= 1
    BY <1>1, <1>4, <1>8, <2>1, <2>2
  <2> QED
    BY <1>1, <2>3
<1>10. D[k - 1].round > s /\ D[k - 1].round \in Nat
  <2>1. D[k - 1].round >= r - 2 * (k - 1) /\ D[k - 1].round \in Nat
    BY <1>2, <1>4, <1>9
  <2> QED
    BY <1>4, <1>8, <2>1
<1>11. D[i] = D[k - 1]
  <2>1. i \in Nat /\ D[i].round \in Nat /\ D[i].round >= r - 2 * i
    BY <1>1, <1>2, <1>4
  <2>2. CASE i <= k - 1
    <3>1. D[k - 1] = D[i] \/ D[k - 1].round <= r - 2 * (i + 1)
      BY <1>2, <1>9, <2>2
    <3>2. ASSUME D[k - 1].round <= r - 2 * (i + 1) PROVE FALSE
      <4>1. D[k - 1].round < D[i].round
        BY <1>4, <1>10, <2>1, <3>2
      <4> QED
        BY <1>9, <1>10, <4>1 DEF s
    <3> QED
      BY <3>1, <3>2
  <2>3. CASE k - 1 <= i
    <3>1. D[i] = D[k - 1] \/ D[i].round <= r - 2 * ((k - 1) + 1)
      BY <1>2, <1>9, <2>3
    <3>2. r - 2 * ((k - 1) + 1) = s
      BY <1>4, <1>8
    <3> QED
      BY <1>4, <1>5, <2>1, <3>1, <3>2
  <2> QED
    BY <1>8, <2>1, <2>2, <2>3
<1>12. CASE D[k] \in Anchor(st, r - 2 * k) /\ PathExists(st, D[k - 1], D[k])
  <2>1. D[k].round = s
    BY <1>4, <1>8, <1>12 DEF Anchor, Row
  <2>2. D[k] = b
    BY <1>2, <1>6, <1>9, <2>1 DEF s
  <2> QED
    BY <1>9, <1>11, <1>12, <2>2
<1>13. CASE D[k] = D[k - 1] /\ \A a \in Anchor(st, r - 2 * k) : ~PathExists(st, D[k - 1], a)
  <2>1. b \in Anchor(st, r - 2 * k)
    <3>1. b.round = r - 2 * k
      BY <1>4, <1>8 DEF s
    <3> QED
      BY <3>1 DEF Anchor, Row, IsAnchor
  <2>2. ASSUME NEW j \in 0 .. n, D[j] = b PROVE FALSE
    <3>1. j \in Nat /\ s >= r - 2 * j /\ D[j].round = s
      BY <1>2, <2>2 DEF s
    <3>2. CASE j <= k - 1
      <4>1. D[k - 1] = D[j] \/ D[k - 1].round <= r - 2 * (j + 1)
        BY <1>2, <1>9, <3>2
      <4> QED
        BY <1>4, <1>10, <3>1, <4>1
    <3>3. CASE k <= j
      <4>1. D[j] = D[k] \/ D[j].round <= r - 2 * (k + 1)
        BY <1>2, <1>9, <3>3
      <4> QED
        BY <1>4, <1>8, <1>10, <1>13, <3>1, <4>1
    <3> QED
      BY <1>8, <3>1, <3>2, <3>3
  <2> QED
    BY <1>11, <1>13, <2>1, <2>2
<1> QED
  BY <1>3, <1>9, <1>12, <1>13

\* One order_from after the other, then gc.
LEMMA OrderAnchorsSteps ==
    ASSUME NEW st, StateOK(st), NEW anchor \in st.matrix
    PROVE  LET n == StepsBack(st, anchor)
               anchors == AnchorsBack(st, anchor)
               start == [st EXCEPT !.last_ordered_round = anchor.round]
           IN  /\ StateOK(start) /\ start.matrix = st.matrix /\ start.gc_offset = st.gc_offset
               /\ start.ordered = st.ordered /\ start.commits = st.commits
               /\ start.last_ordered_round = anchor.round
               /\ \E D :
                     /\ D[0] = OrderFrom(start, anchors[n])
                     /\ \A k \in 1 .. n : D[k] = OrderFrom(D[k - 1], anchors[n - k])
                     /\ \A k \in 0 .. n :
                           StateOK(D[k]) /\ D[k].matrix = st.matrix /\ SameRounds(st, D[k])
                     /\ OrderAnchors(st, anchor) = CollectGarbage(D[n], anchor.round)
<1> DEFINE n == StepsBack(st, anchor)
           anchors == AnchorsBack(st, anchor)
           start == [st EXCEPT !.last_ordered_round = anchor.round]
           Step(L, k) == OrderFrom(IF k = 0 THEN start ELSE L[k - 1], anchors[n - k])
           F(m, L) == [k \in 0 .. m |-> Step(L, k)]
           Missing == {m \in Nat : ~\E L : L = F(m, L)}
           Good(r) == StateOK(r) /\ r.matrix = st.matrix /\ SameRounds(st, r)
<1>1. n \in Nat /\ \A k \in 0 .. n : anchors[k] \in st.matrix
  BY StepsBackNat, AnchorsInMatrix
<1>2. /\ Good(start) /\ start.gc_offset = st.gc_offset
      /\ start.ordered = st.ordered /\ start.commits = st.commits
      /\ start.last_ordered_round = anchor.round
  <2>1. anchor.round \in Nat
    BY Numbers DEF StateOK
  <2> DEFINE r == start
  <2>2. /\ r \in State /\ r.ordered = st.ordered /\ r.commits = st.commits
        /\ r.matrix = st.matrix /\ r.gc_offset = st.gc_offset /\ r.allocated = st.allocated
        /\ SameRounds(st, r) /\ r.last_ordered_round = anchor.round
    BY <2>1 DEF StateOK, State, SameRounds
  <2> HIDE DEF r
  <2>3. RowsKept(r) /\ EdgesKept(r) /\ OrderKept(r)
    BY <2>2 DEF RowsKept, EdgesKept, OrderKept, StateOK
  <2>4. Good(r)
    BY <2>2, <2>3 DEF StateOK, SameRounds
  <2> QED
    BY <2>2, <2>4 DEF r
<1> HIDE DEF start, n, anchors
<1>a. \A L, M, k : (k # 0 => L[k - 1] = M[k - 1]) => Step(L, k) = Step(M, k)
  OBVIOUS
<1>b. \A L : Step(L, 0) = OrderFrom(start, anchors[n - 0])
  OBVIOUS
<1>c. \A L, k : k # 0 => Step(L, k) = OrderFrom(L[k - 1], anchors[n - k])
  OBVIOUS
<1> HIDE DEF Step
<1>3. Missing = {}
  <2> SUFFICES ASSUME Missing # {} PROVE FALSE
    OBVIOUS
  <2>1. PICK m \in Missing : \A k \in Missing : m <= k
    BY LeastNumber
  <2>2. CASE m = 0
    <3> DEFINE L == [k \in 0 .. 0 |-> OrderFrom(start, anchors[n - 0])]
    <3>1. L = F(0, L)
      BY <1>b
    <3> QED
      BY <2>1, <2>2, <3>1
  <2>3. CASE m # 0
    <3>1. m \in Nat /\ m - 1 \in Nat /\ m - 1 < m /\ m - 1 \notin Missing
      BY <2>1, <2>3
    <3>2. PICK L : L = F(m - 1, L)
      BY <3>1
    <3> DEFINE M == [k \in 0 .. m |-> IF k = m THEN Step(L, m) ELSE L[k]]
    <3>3. M = F(m, M)
      <4>1. ASSUME NEW k \in 0 .. m PROVE M[k] = Step(M, k)
        <5>1. k # 0 => M[k - 1] = L[k - 1]
          BY <3>1
        <5>2. Step(M, k) = Step(L, k)
          BY <1>a, <5>1
        <5>3. CASE k = m
          BY <5>2, <5>3
        <5>4. CASE k # m
          <6>1. k \in 0 .. m - 1
            BY <3>1, <5>4
          <6>2. M[k] = L[k] /\ L[k] = Step(L, k)
            BY <3>2, <5>4, <6>1
          <6> QED
            BY <5>2, <6>2
        <5> QED
          BY <5>3, <5>4
      <4> QED
        BY <4>1
    <3> QED
      BY <2>1, <3>3
  <2> QED
    BY <2>2, <2>3
<1>4. PICK T : T = F(n, T)
  BY <1>1, <1>3
<1> DEFINE D == CHOOSE L : L = F(n, L)
<1>5. D = F(n, D)
  BY <1>4
<1>6. OrderAnchors(st, anchor) = CollectGarbage(D[n], anchor.round)
  BY DEF OrderAnchors, Step, start, n, anchors
<1> HIDE DEF D
<1>7. \A k \in 0 .. n : D[k] = Step(D, k)
  BY <1>5
<1>8. \A r, a : Good(r) /\ a \in st.matrix => Good(OrderFrom(r, a))
  <2> SUFFICES ASSUME NEW r, Good(r), NEW a \in st.matrix PROVE Good(OrderFrom(r, a))
    OBVIOUS
  <2>1. /\ StateOK(OrderFrom(r, a)) /\ OrderFrom(r, a).matrix = r.matrix
        /\ SameRounds(r, OrderFrom(r, a))
    BY OrderFromKeeps
  <2> QED
    BY <2>1 DEF SameRounds
<1> HIDE DEF Good
<1>9. D[0] = OrderFrom(start, anchors[n])
  BY <1>1, <1>7, <1>b
<1>10. \A k \in 1 .. n : D[k] = OrderFrom(D[k - 1], anchors[n - k])
  BY <1>1, <1>7, <1>c
<1>11. \A k \in 0 .. n : Good(D[k])
  <2> DEFINE S == {k \in Nat : Good(D[k])}
  <2>1. 0 \in S
    BY <1>1, <1>2, <1>8, <1>9
  <2>2. \A k \in 1 .. n : k - 1 \in S => k \in S
    BY <1>1, <1>8, <1>10
  <2> HIDE DEF S
  <2>3. \A k \in 0 .. n : k \in S
    BY <1>1, <2>1, <2>2, UpTo
  <2> QED
    BY <2>3 DEF S
<1> QED
  BY <1>2, <1>6, <1>9, <1>10, <1>11 DEF Good, start, n, anchors

LEMMA OrderAnchorsKeeps ==
    ASSUME NEW st, StateOK(st), NEW anchor \in st.matrix
    PROVE  LET r == OrderAnchors(st, anchor)
           IN  StateOK(r) /\ r.matrix \subseteq st.matrix /\ SameRounds(st, r)
<1> DEFINE n == StepsBack(st, anchor)
<1>1. n \in Nat /\ anchor.round \in Nat
  BY StepsBackNat, Numbers DEF StateOK
<1>2. PICK D : /\ \A k \in 0 .. n :
                     StateOK(D[k]) /\ D[k].matrix = st.matrix /\ SameRounds(st, D[k])
               /\ OrderAnchors(st, anchor) = CollectGarbage(D[n], anchor.round)
  BY OrderAnchorsSteps
<1> HIDE DEF n
<1>3. StateOK(D[n]) /\ D[n].matrix = st.matrix /\ SameRounds(st, D[n])
  BY <1>1, <1>2
<1>4. LET r == CollectGarbage(D[n], anchor.round)
      IN  StateOK(r) /\ r.matrix \subseteq D[n].matrix /\ SameRounds(D[n], r)
  BY <1>1, <1>3, CollectGarbageKeeps
<1> QED
  BY <1>2, <1>3, <1>4 DEF SameRounds

\* Ordering may collect rows but changes nothing about rounds.
LEMMA OrderIfLeaderKeeps ==
    ASSUME NEW st, StateOK(st), NEW v
    PROVE  LET r == OrderIfLeader(st, v)
           IN  StateOK(r) /\ r.matrix \subseteq st.matrix /\ SameRounds(st, r)
<1>1. SameRounds(st, st)
  BY DEF SameRounds
<1>2. CASE OrderIfLeader(st, v) = st
  BY <1>1, <1>2
<1>3. CASE OrderIfLeader(st, v) # st
  <2> DEFINE a == CHOOSE a \in Anchor(st, v.round - 2) : TRUE
  <2>1. Anchor(st, v.round - 2) # {} /\ OrderIfLeader(st, v) = OrderAnchors(st, a)
    BY <1>3 DEF OrderIfLeader, TryOrdering
  <2>2. a \in st.matrix
    BY <2>1 DEF Anchor, Row
  <2> HIDE DEF a
  <2> QED
    BY <2>1, <2>2, OrderAnchorsKeeps
<1> QED
  BY <1>2, <1>3

-----------------------------------------------------------------------------
(***************************************************************************)
(* Which anchors a process has committed.                                  *)
(***************************************************************************)

AnchorsOf(c) == {c[i].anchor : i \in DOMAIN c}

\* An anchor is ordered with what it brings.
Headed(c) == \A i \in DOMAIN c : c[i].anchor \in c[i].vertices

Ascending(c) == \A i, j \in DOMAIN c : i < j => c[i].anchor.round < c[j].anchor.round

\* The next anchor below a committed one is the first that it has a path to.
WalkedBack(A, G) ==
    \A x \in A, b \in G :
        /\ IsAnchor(b) /\ 0 < b.round /\ b.round < x.round
        /\ \A y \in A : ~(b.round < y.round /\ y.round < x.round)
        => (b \in A <=> Reaches(G, x, b))

(***************************************************************************)
(* The last anchor was committed directly, and from there the others are   *)
(* found going back, in G as in the part of it that the process had then.  *)
(***************************************************************************)
AnchorsOK(st, G) ==
    /\ st.gc_offset = st.last_ordered_round
    /\ \A v \in st.ordered : v.round <= st.last_ordered_round
    /\ Headed(st.commits) /\ Ascending(st.commits)
    /\ \A a \in AnchorsOf(st.commits) :
          a \in G /\ IsAnchor(a) /\ a.round <= st.last_ordered_round
    /\ st.last_ordered_round > 0 =>
          \E a \in AnchorsOf(st.commits) : a.round = st.last_ordered_round /\ Direct(G, a)
    /\ N = 3 * AdversaryThreshold + 1 => WalkedBack(AnchorsOf(st.commits), G)

\* Vertices made later do not matter.
LEMMA AnchorsStable ==
    ASSUME NEW st, NEW G, NEW H, G \subseteq H, Graph(G), Sole(H), AnchorsOK(st, G)
    PROVE  AnchorsOK(st, H)
<1> DEFINE A == AnchorsOf(st.commits)
<1>1. A \subseteq G
  BY DEF AnchorsOK
<1>2. \A a \in A : Direct(G, a) => Direct(H, a)
  <2> SUFFICES ASSUME NEW a \in A, Direct(G, a) PROVE Direct(H, a)
    OBVIOUS
  <2>1. PICK S \in SUBSET Replica :
             /\ Cardinality(S) >= DirectCommitThreshold
             /\ \A s \in S : \E u \in G : u.source = s /\ RefersTo(u, a)
    BY DEF Direct
  <2>2. \A s \in S : \E u \in H : u.source = s /\ RefersTo(u, a)
    BY <2>1
  <2> QED
    BY <2>1, <2>2 DEF Direct
<1> HIDE DEF A
<1>3. ASSUME WalkedBack(A, G) PROVE WalkedBack(A, H)
  <2> SUFFICES ASSUME NEW x \in A, NEW b \in H,
                      IsAnchor(b), 0 < b.round, b.round < x.round,
                      \A y \in A : ~(b.round < y.round /\ y.round < x.round)
               PROVE  b \in A <=> Reaches(H, x, b)
    BY DEF WalkedBack
  <2>1. CASE b \in G
    <3>1. b \in A <=> Reaches(G, x, b)
      BY <1>3, <2>1 DEF WalkedBack
    <3>2. Reaches(G, x, b) <=> Reaches(H, x, b)
      BY <1>1, ReachesStable
    <3> QED
      BY <3>1, <3>2
  <2>2. CASE b \notin G
    BY <1>1, <2>2, NewUnreached
  <2> QED
    BY <2>1, <2>2
<1> QED
  BY <1>1, <1>2, <1>3 DEF AnchorsOK, A

\* r is what becomes of st when the anchor a is committed with the vertices V.
Commits(st, a, V, r) ==
    /\ V \in SUBSET Vertex /\ a \in V /\ \A v \in V : v.round <= a.round
    /\ r.ordered = st.ordered \cup V
    /\ r.commits = Append(st.commits, [anchor |-> a, vertices |-> V])

\* order_from commits an anchor unless it was ordered.
LEMMA OrderFromAnchor ==
    ASSUME NEW st, StateOK(st), NEW a \in st.matrix
    PROVE  LET r == OrderFrom(st, a)
           IN  /\ r.gc_offset = st.gc_offset /\ r.last_ordered_round = st.last_ordered_round
               /\ a \in st.ordered => r = st
               /\ a \notin st.ordered => \E V : Commits(st, a, V, r)
<1> DEFINE new == Reachable(st, a, st.ordered)
           r == OrderFrom(st, a)
<1>1. /\ \A v \in new : v.round <= a.round
      /\ a \in st.ordered => new = {}
  BY ReachableBelow
<1>2. (a \notin st.ordered => a \in new) /\ new \in SUBSET Vertex
  <2>1. (a \notin st.ordered => a \in new) /\ new \subseteq st.matrix
    BY ReachableClosed
  <2> QED
    BY <2>1, Numbers DEF StateOK
<1>3. r = IF new = {} THEN st
          ELSE [st EXCEPT !.ordered = @ \cup new,
                          !.commits = Append(@, [anchor |-> a, vertices |-> new])]
  BY DEF OrderFrom
<1>4. st \in State
  BY DEF StateOK
<1> HIDE DEF new, r
<1>5. CASE new = {}
  BY <1>2, <1>3, <1>5 DEF r
<1>6. CASE new # {}
  <2>1. r = [st EXCEPT !.ordered = @ \cup new,
                       !.commits = Append(@, [anchor |-> a, vertices |-> new])]
    BY <1>3, <1>6
  <2>2. /\ r.gc_offset = st.gc_offset /\ r.last_ordered_round = st.last_ordered_round
        /\ r.ordered = st.ordered \cup new
        /\ r.commits = Append(st.commits, [anchor |-> a, vertices |-> new])
    BY <1>4, <2>1 DEF State
  <2>3. a \notin st.ordered /\ a \in new
    BY <1>1, <1>2, <1>6
  <2> QED
    BY <1>1, <1>2, <2>2, <2>3 DEF r, Commits
<1> QED
  BY <1>5, <1>6

\* One more commit.
LEMMA CommitAppended ==
    ASSUME NEW st \in State, NEW a \in Vertex, NEW V \in SUBSET Vertex, a \in V,
           Headed(st.commits), Ascending(st.commits),
           \A x \in AnchorsOf(st.commits) : x.round < a.round
    PROVE  LET d == Append(st.commits, [anchor |-> a, vertices |-> V])
           IN  Headed(d) /\ Ascending(d) /\ AnchorsOf(d) = AnchorsOf(st.commits) \cup {a}
<1> DEFINE c == st.commits
           last == [anchor |-> a, vertices |-> V]
           d == Append(c, last)
<1>1. c \in Seq([anchor : Vertex, vertices : SUBSET Vertex])
  BY CommitTypes
<1>2. /\ Len(c) \in Nat /\ DOMAIN c = 1 .. Len(c)
      /\ DOMAIN d = 1 .. Len(c) + 1
      /\ \A i \in 1 .. Len(c) : d[i] = c[i]
      /\ d[Len(c) + 1] = last
  <2> DEFINE T == [anchor : Vertex, vertices : SUBSET Vertex]
  <2>1. c \in Seq(T) /\ last \in T
    BY <1>1
  <2> HIDE DEF T, last
  <2> QED
    BY <2>1, AppendProperties
<1>3. last.anchor = a /\ last.vertices = V
  OBVIOUS
<1> HIDE DEF last, c, d
<1>4. Headed(d)
  <2> SUFFICES ASSUME NEW i \in DOMAIN d PROVE d[i].anchor \in d[i].vertices
    BY DEF Headed
  <2>1. CASE i = Len(c) + 1
    BY <1>2, <1>3, <2>1
  <2>2. CASE i \in DOMAIN c
    BY <1>2, <2>2 DEF Headed, c
  <2> QED
    BY <1>2, <2>1, <2>2
<1>5. AnchorsOf(d) = AnchorsOf(c) \cup {a}
  <2>1. \A i \in DOMAIN d : d[i].anchor \in AnchorsOf(c) \cup {a}
    <3> SUFFICES ASSUME NEW i \in DOMAIN d PROVE d[i].anchor \in AnchorsOf(c) \cup {a}
      OBVIOUS
    <3>1. CASE i = Len(c) + 1
      BY <1>2, <1>3, <3>1
    <3>2. CASE i \in DOMAIN c
      BY <1>2, <3>2 DEF AnchorsOf
    <3> QED
      BY <1>2, <3>1, <3>2
  <2>2. a \in AnchorsOf(d)
    BY <1>2, <1>3 DEF AnchorsOf
  <2>3. AnchorsOf(c) \subseteq AnchorsOf(d)
    BY <1>2 DEF AnchorsOf
  <2> QED
    BY <2>1, <2>2, <2>3 DEF AnchorsOf
<1>6. Ascending(d)
  <2> SUFFICES ASSUME NEW i \in DOMAIN d, NEW j \in DOMAIN d, i < j
               PROVE  d[i].anchor.round < d[j].anchor.round
    BY DEF Ascending
  <2>1. i \in DOMAIN c /\ d[i] = c[i]
    BY <1>2
  <2>2. CASE j \in DOMAIN c
    BY <1>2, <2>1, <2>2 DEF Ascending, c
  <2>3. CASE j = Len(c) + 1
    <3>1. d[j].anchor = a
      BY <1>2, <1>3, <2>3
    <3> QED
      BY <2>1, <3>1 DEF AnchorsOf, c
  <2> QED
    BY <1>2, <2>2, <2>3
<1> QED
  BY <1>4, <1>5, <1>6 DEF c, d, last

\* gc goes up to the anchor.
LEMMA CollectedTo ==
    ASSUME NEW st, StateOK(st), NEW a \in st.matrix, st.gc_offset <= a.round
    PROVE  LET r == CollectGarbage(st, a.round)
           IN  /\ r.gc_offset = a.round /\ r.last_ordered_round = st.last_ordered_round
               /\ r.commits = st.commits /\ r.ordered \subseteq st.ordered
<1> DEFINE k == a.round
           o == Min({k, st.allocated - 1})
           r == CollectGarbage(st, k)
<1>1. /\ st \in State /\ k \in Nat /\ st.allocated \in Nat /\ st.gc_offset \in Nat
      /\ k < st.allocated
  BY Numbers DEF StateOK, RowsKept
<1>2. \A y \in {k, st.allocated - 1} : k <= y
  BY <1>1
<1>3. o \in {k, st.allocated - 1} /\ \A y \in {k, st.allocated - 1} : o <= y
  <2>1. \E x \in {k, st.allocated - 1} : \A y \in {k, st.allocated - 1} : x <= y
    BY <1>2
  <2> QED
    BY <2>1 DEF Min
<1>4. o = k
  BY <1>1, <1>2, <1>3
<1> HIDE DEF o
<1>5. r = IF k <= st.gc_offset THEN st
          ELSE [st EXCEPT !.gc_offset = k,
                          !.matrix = {v \in @ : v.round >= k},
                          !.ordered = {v \in @ : v.round >= k}]
  BY <1>4 DEF CollectGarbage, o
<1>8. st.gc_offset <= k
  OBVIOUS
<1> HIDE DEF r, k
<1>6. CASE k <= st.gc_offset
  <2>1. r = st /\ st.gc_offset = k
    BY <1>1, <1>5, <1>6, <1>8
  <2> QED
    BY <2>1 DEF k, r
<1>7. CASE ~(k <= st.gc_offset)
  <2>1. r = [st EXCEPT !.gc_offset = k,
                       !.matrix = {v \in @ : v.round >= k},
                       !.ordered = {v \in @ : v.round >= k}]
    BY <1>5, <1>7
  <2>2. /\ r.gc_offset = k /\ r.last_ordered_round = st.last_ordered_round
        /\ r.commits = st.commits /\ r.ordered \subseteq st.ordered
    BY <1>1, <2>1 DEF State
  <2> QED
    BY <2>2 DEF k, r
<1> QED
  BY <1>6, <1>7

(***************************************************************************)
(* Every anchor between the one before and the new one is committed        *)
(* exactly if the next committed one above reaches it: above the one       *)
(* before by the steps back, which find all paths; the one before because  *)
(* it was committed directly; below it as before.                          *)
(***************************************************************************)
LEMMA AnchorsWalkedBack ==
    ASSUME N = 3 * AdversaryThreshold + 1,
           NEW st, StateOK(st), NEW G \in SUBSET Vertex, st.matrix \subseteq G,
           Sole(G), Graph(G), AnchorsOK(st, G),
           NEW anchor \in st.matrix, IsAnchor(anchor), st.last_ordered_round < anchor.round
    PROVE  WalkedBack(AnchorsOf(st.commits) \cup
                          {AnchorsBack(st, anchor)[k] : k \in 0 .. StepsBack(st, anchor)}, G)
<1> DEFINE n == StepsBack(st, anchor)
           D == AnchorsBack(st, anchor)
           A == AnchorsOf(st.commits)
           W == {D[k] : k \in 0 .. n}
           o == st.last_ordered_round
<1>1. \A k \in 0 .. n : D[k] \in st.matrix /\ IsAnchor(D[k]) /\ o < D[k].round
  BY AnchorsWalked, AnchorsAbove
<1>2. /\ st.gc_offset = o
      /\ \A a \in A : a \in G /\ IsAnchor(a) /\ a.round <= o
      /\ o > 0 => \E a \in A : a.round = o /\ Direct(G, a)
      /\ WalkedBack(A, G)
  BY DEF AnchorsOK
<1>3. o \in Nat /\ \A v \in G : v.round \in Nat
  BY Numbers DEF StateOK
<1>4. \A u, v \in G : IsAnchor(u) /\ IsAnchor(v) /\ u.round = v.round => u = v
  BY DEF Sole, IsAnchor
<1> HIDE DEF A, W, D, n
<1> SUFFICES ASSUME NEW x \in A \cup W, NEW b \in G,
                    IsAnchor(b), 0 < b.round, b.round < x.round,
                    \A y \in A \cup W : ~(b.round < y.round /\ y.round < x.round)
             PROVE  b \in A \cup W <=> Reaches(G, x, b)
  BY DEF WalkedBack, A, W, D, n
<1>5. W \subseteq G /\ \A y \in W : o < y.round /\ IsAnchor(y) /\ y \in st.matrix
  BY <1>1 DEF W
<1>6. CASE x \in A
  <2>1. x.round <= o /\ x.round \in Nat /\ b.round \in Nat
    BY <1>2, <1>3, <1>6
  <2>2. b \in A <=> Reaches(G, x, b)
    BY <1>2, <1>6 DEF WalkedBack
  <2>3. b \notin W
    BY <1>3, <1>5, <2>1
  <2> QED
    BY <2>2, <2>3
<1>7. CASE x \in W /\ o < b.round
  <2>1. PICK i \in 0 .. n : x = D[i]
    BY <1>7 DEF W
  <2>2. PathExists(st, x, b) <=> Reaches(G, x, b)
    <3>1. x \in st.matrix /\ b.round >= st.gc_offset
      BY <1>2, <1>3, <1>5, <1>7
    <3> QED
      BY <3>1, PathFound
  <2>3. b \notin A
    BY <1>2, <1>3, <1>7
  <2>4. CASE b \in st.matrix
    <3>1. \A j \in 0 .. n : ~(b.round < D[j].round /\ D[j].round < D[i].round)
      BY <2>1 DEF W
    <3>2. (\E j \in 0 .. n : D[j] = b) <=> PathExists(st, D[i], b)
      BY <1>7, <2>1, <2>4, <3>1, AnchorsComplete DEF n, D
    <3>3. b \in W <=> \E j \in 0 .. n : D[j] = b
      BY DEF W
    <3> QED
      BY <2>1, <2>2, <2>3, <3>2, <3>3
  <2>5. CASE b \notin st.matrix
    <3>1. ~PathExists(st, x, b)
      <4>1. Reachable(st, x, {}) \subseteq st.matrix
        BY <1>5, <1>7, ReachableClosed
      <4> QED
        BY <2>5, <4>1 DEF PathExists
    <3> QED
      BY <1>5, <2>2, <2>3, <2>5, <3>1
  <2> QED
    BY <2>4, <2>5
<1>8. CASE x \in W /\ ~(o < b.round)
  <2>1. o > 0 /\ b.round <= o /\ b.round \in Nat /\ x.round \in Nat /\ o < x.round /\ x \in G
    BY <1>3, <1>5, <1>8
  <2>2. PICK a \in A : a.round = o /\ Direct(G, a)
    BY <1>2, <2>1
  <2>3. b.round = o
    <3>1. ~(b.round < a.round /\ a.round < x.round)
      BY <2>2
    <3> QED
      BY <1>3, <2>1, <2>2, <3>1
  <2>4. b = a
    BY <1>2, <1>4, <2>2, <2>3
  <2>5. x.round >= b.round + 2
    <3>1. x.round % 2 = 0 /\ b.round % 2 = 0
      BY <1>5, <1>8 DEF IsAnchor
    <3> QED
      BY <2>1, <2>3, <3>1
  <2>6. Reaches(G, x, b)
    BY <2>1, <2>2, <2>4, <2>5, DirectReached
  <2> QED
    BY <2>2, <2>4, <2>6
<1> QED
  BY <1>6, <1>7, <1>8

\* order_from from an anchor above all that was ordered, or again from the
\* last one.
LEMMA OrderFromClimbs ==
    ASSUME NEW st, StateOK(st), Headed(st.commits), Ascending(st.commits),
           NEW y \in Nat,
           \A v \in st.ordered : v.round <= y, \A a \in AnchorsOf(st.commits) : a.round <= y,
           NEW x \in st.matrix,
           \/ y < x.round
           \/ y = x.round /\ x \in st.ordered /\ x \in AnchorsOf(st.commits)
    PROVE  LET r == OrderFrom(st, x)
           IN  /\ r.gc_offset = st.gc_offset /\ r.last_ordered_round = st.last_ordered_round
               /\ Headed(r.commits) /\ Ascending(r.commits)
               /\ AnchorsOf(r.commits) = AnchorsOf(st.commits) \cup {x}
               /\ x \in r.ordered /\ \A v \in r.ordered : v.round <= x.round
               /\ \A a \in AnchorsOf(r.commits) : a.round <= x.round
<1> DEFINE r == OrderFrom(st, x)
<1>1. /\ st \in State /\ x \in Vertex /\ x.round \in Nat
      /\ \A v \in st.ordered : v.round \in Nat
  BY Numbers DEF StateOK
<1>2. \A a \in AnchorsOf(st.commits) : a.round \in Nat
  <2>1. \A i \in DOMAIN st.commits : st.commits[i].anchor \in Vertex
    <3>1. \A i \in DOMAIN st.commits : st.commits[i].vertices \subseteq Vertex
      BY <1>1, CommitTypes
    <3> QED
      BY <3>1 DEF Headed
  <2> QED
    BY <2>1 DEF AnchorsOf, Vertex
<1>3. /\ r.gc_offset = st.gc_offset /\ r.last_ordered_round = st.last_ordered_round
      /\ x \in st.ordered => r = st
      /\ x \notin st.ordered => \E V : Commits(st, x, V, r)
  BY OrderFromAnchor
<1> HIDE DEF r
<1>4. CASE y = x.round /\ x \in st.ordered /\ x \in AnchorsOf(st.commits)
  BY <1>3, <1>4 DEF r
<1>5. CASE y < x.round
  <2>1. x \notin st.ordered
    BY <1>1, <1>5
  <2>2. PICK V : /\ V \in SUBSET Vertex /\ x \in V /\ \A v \in V : v.round <= x.round
                 /\ r.ordered = st.ordered \cup V
                 /\ r.commits = Append(st.commits, [anchor |-> x, vertices |-> V])
    BY <1>3, <2>1 DEF Commits
  <2>3. \A a \in AnchorsOf(st.commits) : a.round < x.round
    BY <1>1, <1>2, <1>5
  <2>4. /\ Headed(r.commits) /\ Ascending(r.commits)
        /\ AnchorsOf(r.commits) = AnchorsOf(st.commits) \cup {x}
    BY <1>1, <2>2, <2>3, CommitAppended
  <2>5. x \in r.ordered /\ \A v \in r.ordered : v.round <= x.round
    BY <1>1, <1>5, <2>2
  <2>6. \A a \in AnchorsOf(r.commits) : a.round <= x.round
    BY <1>1, <1>2, <2>3, <2>4
  <2> QED
    BY <1>3, <2>4, <2>5, <2>6 DEF r
<1> QED
  BY <1>4, <1>5

\* So order_anchors commits the anchors that it goes back to, oldest first.
LEMMA AnchorsClimb ==
    ASSUME NEW st, StateOK(st), NEW G, AnchorsOK(st, G),
           NEW anchor \in st.matrix, IsAnchor(anchor), st.last_ordered_round < anchor.round,
           NEW n, n = StepsBack(st, anchor), NEW A, A = AnchorsBack(st, anchor),
           NEW start, StateOK(start), start.matrix = st.matrix, start.gc_offset = st.gc_offset,
           start.ordered = st.ordered, start.commits = st.commits,
           start.last_ordered_round = anchor.round,
           NEW D, D[0] = OrderFrom(start, A[n]),
           \A k \in 1 .. n : D[k] = OrderFrom(D[k - 1], A[n - k]),
           \A k \in 0 .. n : StateOK(D[k]) /\ D[k].matrix = st.matrix
    PROVE  LET r == D[n]
           IN  /\ r.gc_offset = st.gc_offset /\ r.last_ordered_round = anchor.round
               /\ Headed(r.commits) /\ Ascending(r.commits)
               /\ AnchorsOf(r.commits) = AnchorsOf(st.commits) \cup {A[k] : k \in 0 .. n}
               /\ \A v \in r.ordered : v.round <= anchor.round
<1> DEFINE o == st.last_ordered_round
           c == st.commits
           From(k) == {A[i] : i \in n - k .. n}
           Good(r, k) == /\ r.gc_offset = st.gc_offset /\ r.last_ordered_round = anchor.round
                         /\ Headed(r.commits) /\ Ascending(r.commits)
                         /\ AnchorsOf(r.commits) = AnchorsOf(c) \cup From(k)
                         /\ A[n - k] \in r.ordered
                         /\ \A v \in r.ordered : v.round <= A[n - k].round
                         /\ \A a \in AnchorsOf(r.commits) : a.round <= A[n - k].round
<1>1. n \in Nat
  BY StepsBackNat
<1>2. /\ \A k \in 0 .. n : A[k] \in st.matrix /\ IsAnchor(A[k])
                         /\ A[k].round >= anchor.round - 2 * k
      /\ \A k, j \in 0 .. n : k <= j => A[j] = A[k] \/ A[j].round <= anchor.round - 2 * (k + 1)
  BY AnchorsWalked
<1>3. \A k \in 0 .. n : o < A[k].round
  BY AnchorsAbove
<1>4. /\ o \in Nat /\ anchor.round \in Nat
      /\ \A k \in 0 .. n : A[k].round \in Nat
  BY <1>2, Numbers DEF StateOK
<1>5. A[0] = anchor
  BY AnchorsBackSteps
<1>6. /\ \A v \in st.ordered : v.round <= o
      /\ \A a \in AnchorsOf(c) : a.round <= o
      /\ Headed(c) /\ Ascending(c)
  BY DEF AnchorsOK
<1>7. Good(D[0], 0)
  <2>1. n \in 0 .. n /\ n - 0 = n
    BY <1>1
  <2>2. LET r == OrderFrom(start, A[n])
        IN  /\ r.gc_offset = start.gc_offset /\ r.last_ordered_round = start.last_ordered_round
            /\ Headed(r.commits) /\ Ascending(r.commits)
            /\ AnchorsOf(r.commits) = AnchorsOf(start.commits) \cup {A[n]}
            /\ A[n] \in r.ordered /\ \A v \in r.ordered : v.round <= A[n].round
            /\ \A a \in AnchorsOf(r.commits) : a.round <= A[n].round
    <3>1. A[n] \in start.matrix /\ o < A[n].round
      BY <1>2, <1>3, <2>1
    <3> QED
      BY <1>4, <1>6, <3>1, OrderFromClimbs
  <2>3. From(0) = {A[n]}
    BY <1>1
  <2> QED
    BY <2>1, <2>2, <2>3
<1>8. ASSUME NEW k \in 1 .. n, Good(D[k - 1], k - 1) PROVE Good(D[k], k)
  <2> DEFINE r == D[k - 1]
             x == A[n - k]
             u == A[n - (k - 1)]
  <2>1. n - k \in 0 .. n /\ n - (k - 1) \in 0 .. n /\ n - k <= n - (k - 1) /\ k - 1 \in 0 .. n
    BY <1>1
  <2>2. StateOK(r) /\ r.matrix = st.matrix /\ x \in r.matrix /\ u \in st.matrix
        /\ x.round \in Nat /\ u.round \in Nat
    BY <1>2, <1>4, <2>1
  <2>3. u = x \/ u.round < x.round
    <3>1. u = x \/ u.round <= anchor.round - 2 * ((n - k) + 1)
      BY <1>2, <2>1
    <3>2. x.round >= anchor.round - 2 * (n - k)
      BY <1>2, <2>1
    <3> HIDE DEF x, u
    <3> QED
      BY <1>1, <1>4, <2>2, <3>1, <3>2
  <2>4. u \in AnchorsOf(r.commits)
    <3>1. n - (k - 1) \in n - (k - 1) .. n
      BY <1>1
    <3>2. u \in From(k - 1)
      BY <3>1
    <3> QED
      BY <1>8, <3>2
  <2>5. From(k) = From(k - 1) \cup {x}
    <3>1. n - k .. n = (n - (k - 1) .. n) \cup {n - k}
      BY <1>1
    <3> QED
      BY <3>1
  <2>6. D[k] = OrderFrom(r, x)
    OBVIOUS
  <2>7. /\ r.gc_offset = st.gc_offset /\ r.last_ordered_round = anchor.round
        /\ Headed(r.commits) /\ Ascending(r.commits)
        /\ AnchorsOf(r.commits) = AnchorsOf(c) \cup From(k - 1)
        /\ u \in r.ordered
        /\ \A v \in r.ordered : v.round <= u.round
        /\ \A a \in AnchorsOf(r.commits) : a.round <= u.round
    BY <1>8
  <2> HIDE DEF r, x, u, From
  <2>8. LET s == OrderFrom(r, x)
        IN  /\ s.gc_offset = r.gc_offset /\ s.last_ordered_round = r.last_ordered_round
            /\ Headed(s.commits) /\ Ascending(s.commits)
            /\ AnchorsOf(s.commits) = AnchorsOf(r.commits) \cup {x}
            /\ x \in s.ordered /\ \A v \in s.ordered : v.round <= x.round
            /\ \A a \in AnchorsOf(s.commits) : a.round <= x.round
    <3>1. \/ u.round < x.round
          \/ u.round = x.round /\ x \in r.ordered /\ x \in AnchorsOf(r.commits)
      BY <2>3, <2>4, <2>7
    <3> QED
      BY <2>2, <2>7, <3>1, OrderFromClimbs
  <2>9. AnchorsOf(OrderFrom(r, x).commits) = AnchorsOf(c) \cup From(k)
    BY <2>5, <2>7, <2>8
  <2> QED
    BY <2>6, <2>7, <2>8, <2>9 DEF x
<1>9. Good(D[n], n)
  <2> DEFINE S == {k \in Nat : Good(D[k], k)}
  <2> HIDE DEF Good
  <2>1. 0 \in S
    BY <1>7
  <2>2. \A k \in 1 .. n : k - 1 \in S => k \in S
    BY <1>1, <1>8
  <2> HIDE DEF S
  <2>3. n \in S
    BY <1>1, <2>1, <2>2, UpTo
  <2> QED
    BY <2>3 DEF S
<1>10. n - n = 0 /\ From(n) = {A[k] : k \in 0 .. n}
  BY <1>1
<1> QED
  BY <1>5, <1>9, <1>10

\* An anchor of the last round is only committed if none of it was: the one of
\* round 0.
LEMMA AnchorAgain ==
    ASSUME NEW st, StateOK(st), NEW G \in SUBSET Vertex, st.matrix \subseteq G, Sole(G),
           AnchorsOK(st, G),
           NEW anchor \in st.matrix, IsAnchor(anchor), st.last_ordered_round = anchor.round,
           NEW start, StateOK(start), start.matrix = st.matrix, start.gc_offset = st.gc_offset,
           start.ordered = st.ordered, start.commits = st.commits,
           start.last_ordered_round = anchor.round
    PROVE  LET r == OrderFrom(start, anchor)
           IN  /\ r.gc_offset = st.gc_offset /\ r.last_ordered_round = anchor.round
               /\ Headed(r.commits) /\ Ascending(r.commits)
               /\ \A v \in r.ordered : v.round <= anchor.round
               /\ \/ AnchorsOf(r.commits) = AnchorsOf(st.commits) /\ anchor \in AnchorsOf(st.commits)
                  \/ anchor.round = 0 /\ AnchorsOf(r.commits) \subseteq {anchor}
<1> DEFINE r == OrderFrom(start, anchor)
           c == st.commits
           A == AnchorsOf(c)
<1>1. /\ start \in State /\ anchor \in Vertex /\ anchor.round \in Nat
      /\ \A v \in st.matrix : v.round \in Nat
  BY Numbers DEF StateOK
<1>2. /\ st.gc_offset = anchor.round
      /\ \A v \in st.ordered : v.round <= anchor.round
      /\ Headed(c) /\ Ascending(c)
      /\ \A a \in A : a \in G /\ IsAnchor(a) /\ a.round <= anchor.round
      /\ anchor.round > 0 => \E a \in A : a.round = anchor.round
  BY DEF AnchorsOK
<1>3. \A a \in A : a.round = anchor.round => a = anchor
  BY <1>2 DEF Sole, IsAnchor
<1>4. CASE anchor \in A
  <2>1. anchor \in st.ordered
    <3>1. PICK i \in DOMAIN c : c[i].anchor = anchor
      BY <1>4 DEF AnchorsOf
    <3>2. anchor \in c[i].vertices
      BY <1>2, <3>1 DEF Headed
    <3> QED
      BY <1>1, <1>2, <3>2 DEF StateOK, OrderKept
  <2>2. /\ r.gc_offset = start.gc_offset /\ r.last_ordered_round = start.last_ordered_round
        /\ Headed(r.commits) /\ Ascending(r.commits)
        /\ AnchorsOf(r.commits) = AnchorsOf(start.commits) \cup {anchor}
        /\ \A v \in r.ordered : v.round <= anchor.round
    BY <1>1, <1>2, <1>4, <2>1, OrderFromClimbs
  <2> QED
    BY <1>4, <2>2
<1>5. CASE anchor \notin A
  <2>1. anchor.round = 0
    BY <1>1, <1>2, <1>3, <1>5
  <2>2. A = {}
    <3> SUFFICES ASSUME NEW a \in A PROVE FALSE
      OBVIOUS
    <3>1. a.round <= 0 /\ a.round \in Nat
      BY <1>2, <2>1 DEF Vertex
    <3> QED
      BY <1>3, <1>5, <2>1, <3>1
  <2>3. /\ r.gc_offset = start.gc_offset /\ r.last_ordered_round = start.last_ordered_round
        /\ anchor \in start.ordered => r = start
    BY OrderFromAnchor
  <2>4. CASE anchor \in start.ordered
    BY <1>2, <2>1, <2>2, <2>3, <2>4
  <2>5. CASE anchor \notin start.ordered
    <3> HIDE DEF r, c, A
    <3>1. PICK V : /\ V \in SUBSET Vertex /\ anchor \in V /\ \A v \in V : v.round <= anchor.round
                   /\ r.ordered = start.ordered \cup V
                   /\ r.commits = Append(start.commits, [anchor |-> anchor, vertices |-> V])
      <4>1. \E V : Commits(start, anchor, V, r)
        BY <2>5, OrderFromAnchor DEF r
      <4> QED
        BY <4>1 DEF Commits
    <3>2. /\ Headed(start.commits) /\ Ascending(start.commits)
          /\ \A x \in AnchorsOf(start.commits) : x.round < anchor.round
      BY <1>2, <2>2 DEF A, c
    <3>4. AnchorsOf(start.commits) = {}
      BY <2>2 DEF A, c
    <3>3. /\ Headed(r.commits) /\ Ascending(r.commits)
          /\ AnchorsOf(r.commits) = AnchorsOf(start.commits) \cup {anchor}
      BY <1>1, <3>1, <3>2, CommitAppended
    <3> QED
      BY <1>2, <2>1, <2>3, <3>1, <3>3, <3>4 DEF r
  <2> QED
    BY <2>4, <2>5
<1> QED
  BY <1>4, <1>5

\* After the steps and gc.
LEMMA OrderAnchorsAgree ==
    ASSUME NEW st, StateOK(st), NEW G \in SUBSET Vertex, st.matrix \subseteq G,
           Sole(G), Graph(G), AnchorsOK(st, G),
           NEW anchor \in st.matrix, IsAnchor(anchor),
           st.last_ordered_round <= anchor.round, Direct(G, anchor)
    PROVE  LET r == OrderAnchors(st, anchor)
           IN  AnchorsOK(r, G) /\ r.gc_offset = anchor.round
<1> DEFINE n == StepsBack(st, anchor)
           A == AnchorsBack(st, anchor)
           start == [st EXCEPT !.last_ordered_round = anchor.round]
           o == st.last_ordered_round
           c == st.commits
<1>1. /\ n \in Nat /\ (n > 0 => 2 * n <= anchor.round - 1 - o)
      /\ o \in Nat /\ anchor.round \in Nat
  BY StepsBackNat, Numbers DEF StateOK
<1>2. /\ A[0] = anchor
      /\ \A k \in 0 .. n : A[k] \in st.matrix /\ IsAnchor(A[k])
      /\ \A j \in 0 .. n : A[j] = A[0] \/ A[j].round <= anchor.round - 2 * (0 + 1)
  <2>1. 0 \in 0 .. n /\ \A j \in 0 .. n : 0 <= j
    BY <1>1
  <2> QED
    BY <2>1, AnchorsBackSteps, AnchorsWalked
<1>3. /\ StateOK(start) /\ start.matrix = st.matrix /\ start.gc_offset = st.gc_offset
      /\ start.ordered = st.ordered /\ start.commits = st.commits
      /\ start.last_ordered_round = anchor.round
      /\ \E D : /\ D[0] = OrderFrom(start, A[n])
                /\ \A k \in 1 .. n : D[k] = OrderFrom(D[k - 1], A[n - k])
                /\ \A k \in 0 .. n :
                      StateOK(D[k]) /\ D[k].matrix = st.matrix /\ SameRounds(st, D[k])
                /\ OrderAnchors(st, anchor) = CollectGarbage(D[n], anchor.round)
  BY OrderAnchorsSteps
<1> HIDE DEF start
<1>4. PICK D : /\ D[0] = OrderFrom(start, A[n])
               /\ \A k \in 1 .. n : D[k] = OrderFrom(D[k - 1], A[n - k])
               /\ \A k \in 0 .. n :
                     StateOK(D[k]) /\ D[k].matrix = st.matrix /\ SameRounds(st, D[k])
               /\ OrderAnchors(st, anchor) = CollectGarbage(D[n], anchor.round)
  BY <1>3
<1> DEFINE d == D[n]
           W == {A[k] : k \in 0 .. n}
<1>5. /\ d.gc_offset = st.gc_offset /\ d.last_ordered_round = anchor.round
      /\ Headed(d.commits) /\ Ascending(d.commits)
      /\ \A v \in d.ordered : v.round <= anchor.round
      /\ \/ o < anchor.round /\ AnchorsOf(d.commits) = AnchorsOf(c) \cup W
         \/ AnchorsOf(d.commits) = AnchorsOf(c) /\ anchor \in AnchorsOf(c)
         \/ anchor.round = 0 /\ AnchorsOf(d.commits) \subseteq {anchor}
  <2>1. CASE o < anchor.round
    <3>1. LET r == D[n]
          IN  /\ r.gc_offset = st.gc_offset /\ r.last_ordered_round = anchor.round
              /\ Headed(r.commits) /\ Ascending(r.commits)
              /\ AnchorsOf(r.commits) = AnchorsOf(st.commits) \cup {A[k] : k \in 0 .. n}
              /\ \A v \in r.ordered : v.round <= anchor.round
      <4>1. n = StepsBack(st, anchor) /\ A = AnchorsBack(st, anchor)
        OBVIOUS
      <4>2. /\ D[0] = OrderFrom(start, A[n])
            /\ \A k \in 1 .. n : D[k] = OrderFrom(D[k - 1], A[n - k])
            /\ \A k \in 0 .. n : StateOK(D[k]) /\ D[k].matrix = st.matrix
        BY <1>4
      <4>3. /\ StateOK(start) /\ start.matrix = st.matrix /\ start.gc_offset = st.gc_offset
            /\ start.ordered = st.ordered /\ start.commits = st.commits
            /\ start.last_ordered_round = anchor.round
        BY <1>3
      <4>4. /\ StateOK(st) /\ AnchorsOK(st, G) /\ anchor \in st.matrix /\ IsAnchor(anchor)
            /\ st.last_ordered_round < anchor.round
        BY <2>1
      <4> HIDE DEF n, A
      <4> QED
        BY ONLY <4>1, <4>2, <4>3, <4>4, AnchorsClimb
    <3> QED
      BY <2>1, <3>1
  <2>2. CASE o = anchor.round
    <3>1. n = 0
      BY <1>1, <2>2
    <3>2. d = OrderFrom(start, anchor)
      BY <1>2, <1>4, <3>1
    <3> HIDE DEF n, A, d
    <3>3. LET r == OrderFrom(start, anchor)
          IN  /\ r.gc_offset = st.gc_offset /\ r.last_ordered_round = anchor.round
              /\ Headed(r.commits) /\ Ascending(r.commits)
              /\ \A v \in r.ordered : v.round <= anchor.round
              /\ \/ AnchorsOf(r.commits) = AnchorsOf(st.commits) /\ anchor \in AnchorsOf(st.commits)
                 \/ anchor.round = 0 /\ AnchorsOf(r.commits) \subseteq {anchor}
      BY <1>3, <2>2, AnchorAgain
    <3> QED
      BY <3>2, <3>3
  <2> QED
    BY <1>1, <2>1, <2>2
<1>6. /\ \A a \in AnchorsOf(c) : a \in G /\ IsAnchor(a) /\ a.round <= o /\ a.round \in Nat
      /\ st.gc_offset = o
      /\ N = 3 * AdversaryThreshold + 1 => WalkedBack(AnchorsOf(c), G)
  <2>1. \A a \in AnchorsOf(c) : a \in G
    BY DEF AnchorsOK
  <2> QED
    BY <2>1 DEF AnchorsOK, Vertex
<1>7. anchor \in W /\ \A a \in W : a \in G /\ IsAnchor(a) /\ a.round <= anchor.round
  <2>1. 0 \in 0 .. n /\ anchor.round - 2 * (0 + 1) <= anchor.round
    BY <1>1
  <2>2. anchor \in W
    BY <1>2, <2>1
  <2>3. ASSUME NEW k \in 0 .. n PROVE A[k] \in G /\ IsAnchor(A[k]) /\ A[k].round <= anchor.round
    <3>1. A[k] \in st.matrix /\ IsAnchor(A[k])
          /\ (A[k] = anchor \/ A[k].round <= anchor.round - 2 * (0 + 1))
      BY <1>2
    <3>2. A[k].round \in Nat
      BY <3>1, Numbers DEF StateOK
    <3> HIDE DEF A, n
    <3> QED
      BY <1>1, <3>1, <3>2
  <2> QED
    BY <2>2, <2>3
<1>8. N = 3 * AdversaryThreshold + 1 /\ o < anchor.round => WalkedBack(AnchorsOf(c) \cup W, G)
  BY AnchorsWalkedBack
<1>9. StateOK(d) /\ anchor \in d.matrix /\ d.gc_offset <= anchor.round
  BY <1>1, <1>4, <1>5, <1>6
<1>10. /\ \A a \in AnchorsOf(d.commits) : a \in G /\ IsAnchor(a) /\ a.round <= anchor.round
       /\ anchor.round > 0 => anchor \in AnchorsOf(d.commits)
       /\ N = 3 * AdversaryThreshold + 1 => WalkedBack(AnchorsOf(d.commits), G)
  <2> HIDE DEF d, W, c, o
  <2>1. CASE o < anchor.round /\ AnchorsOf(d.commits) = AnchorsOf(c) \cup W
    BY <1>1, <1>6, <1>7, <1>8, <2>1
  <2>2. CASE AnchorsOf(d.commits) = AnchorsOf(c) /\ anchor \in AnchorsOf(c)
    <3>1. o <= anchor.round
      BY DEF o
    <3> QED
      BY <1>1, <1>6, <2>2, <3>1
  <2>3. CASE anchor.round = 0 /\ AnchorsOf(d.commits) \subseteq {anchor}
    <3>1. anchor \in G /\ \A b \in G : b.round \in Nat
      BY DEF Vertex
    <3>2. WalkedBack(AnchorsOf(d.commits), G)
      <4>1. \A x \in AnchorsOf(d.commits) : x.round = 0
        BY <2>3
      <4> QED
        BY <3>1, <4>1 DEF WalkedBack
    <3> QED
      BY <2>3, <3>1, <3>2
  <2> QED
    BY <1>5, <2>1, <2>2, <2>3
<1> DEFINE r == CollectGarbage(d, anchor.round)
<1>11. /\ r.gc_offset = anchor.round /\ r.last_ordered_round = d.last_ordered_round
       /\ r.commits = d.commits /\ r.ordered \subseteq d.ordered
  BY <1>9, CollectedTo
<1>12. OrderAnchors(st, anchor) = r
  BY <1>4
<1> HIDE DEF r, d
<1>13. AnchorsOK(r, G)
  BY <1>5, <1>10, <1>11 DEF AnchorsOK
<1> QED
  BY <1>11, <1>12, <1>13

\* A direct commit is at the last committed round or above: the vertex that
\* brings the votes is above it.
LEMMA OrderIfLeaderAgrees ==
    ASSUME NEW st, StateOK(st), NEW G \in SUBSET Vertex, st.matrix \subseteq G,
           Sole(G), Graph(G), AnchorsOK(st, G), NEW v \in Vertex, st.gc_offset < v.round
    PROVE  LET r == OrderIfLeader(st, v)
           IN  AnchorsOK(r, G) /\ r.gc_offset < v.round
<1> DEFINE r == OrderIfLeader(st, v)
           a == CHOOSE a \in Anchor(st, v.round - 2) : TRUE
           V == Votes(st, v)
<1>1. \/ r = st
      \/ /\ v.round % 2 = 0 /\ v.round > 0
         /\ Anchor(st, v.round - 2) # {}
         /\ Cardinality(V) >= DirectCommitThreshold
         /\ r = OrderAnchors(st, a)
  BY DEF OrderIfLeader, TryOrdering
<1> HIDE DEF r
<1>2. CASE r = st
  BY <1>2 DEF r
<1>3. CASE /\ v.round % 2 = 0 /\ v.round > 0
           /\ Anchor(st, v.round - 2) # {}
           /\ Cardinality(V) >= DirectCommitThreshold
           /\ r = OrderAnchors(st, a)
  <2>1. a \in Anchor(st, v.round - 2)
    BY <1>3
  <2> HIDE DEF a
  <2>2. /\ a \in st.matrix /\ a.round = v.round - 2 /\ a.source = LeaderId(a.round)
        /\ a.round \in Nat /\ v.round \in Nat /\ st.last_ordered_round \in Nat
    <3>1. a \in st.matrix /\ a.round = v.round - 2 /\ a.source = LeaderId(v.round - 2)
      BY <2>1 DEF Anchor, Row
    <3> QED
      BY <3>1, Numbers DEF StateOK
  <2>3. IsAnchor(a)
    <3>1. a.round % 2 = 0
      BY <1>3, <2>2
    <3> QED
      BY <2>2, <3>1 DEF IsAnchor
  <2>4. st.last_ordered_round <= a.round
    <3> DEFINE o == st.last_ordered_round
    <3>1. st.gc_offset = o /\ (o > 0 => \E x \in AnchorsOf(st.commits) : IsAnchor(x) /\ x.round = o)
      BY DEF AnchorsOK
    <3> HIDE DEF o
    <3>2. o \in Nat /\ o < v.round
      BY <2>2, <3>1 DEF o
    <3>3. o % 2 = 0
      <4>1. CASE o > 0
        BY <3>1, <4>1 DEF IsAnchor
      <4>2. CASE o = 0
        BY <4>2
      <4> QED
        BY <3>2, <4>1, <4>2
    <3>4. o <= a.round
      BY <1>3, <2>2, <3>2, <3>3
    <3> QED
      BY <3>4 DEF o
  <2>5. Direct(G, a)
    <3>1. /\ V \in SUBSET Vertex /\ V \subseteq G
          /\ \A u \in V : u.round = v.round - 1 /\ a.source \in u.strong_edges
      <4>1. \A u \in V : u \in st.matrix /\ u.round = v.round - 1
                         /\ LeaderId(v.round - 2) \in u.strong_edges
        BY DEF Votes, Parents, Row
      <4> QED
        BY <2>2, <4>1
    <3> HIDE DEF V
    <3>2. Sole(V)
      BY <3>1 DEF Sole
    <3> DEFINE S == {u.source : u \in V}
    <3>3. S \in SUBSET Replica /\ Cardinality(S) = Cardinality(V)
      BY <3>1, <3>2, SourceCount
    <3>4. \A s \in S : \E u \in G : u.source = s /\ RefersTo(u, a)
      <4>1. \A u \in V : RefersTo(u, a)
        BY <2>2, <3>1 DEF RefersTo
      <4> QED
        BY <3>1, <4>1
    <3> HIDE DEF S
    <3> QED
      BY <1>3, <3>3, <3>4 DEF Direct
  <2>6. AnchorsOK(OrderAnchors(st, a), G) /\ OrderAnchors(st, a).gc_offset = a.round
    BY <2>2, <2>3, <2>4, <2>5, OrderAnchorsAgree
  <2> QED
    BY <1>3, <2>2, <2>6 DEF r
<1> QED
  BY <1>1, <1>2, <1>3

-----------------------------------------------------------------------------
\* Handlers.

\* A change that leaves the DAG alone.
SameDag(st, r) ==
    /\ r.matrix = st.matrix /\ r.allocated = st.allocated /\ r.gc_offset = st.gc_offset
    /\ r.ordered = st.ordered /\ r.commits = st.commits
    /\ r.last_ordered_round = st.last_ordered_round

LEMMA DagKept ==
    ASSUME NEW st, StateOK(st), NEW r \in State, SameDag(st, r),
           r.submitted <= SubmitLimit, IsFiniteSet(r.buffer)
    PROVE  StateOK(r)
<1>1. RowsKept(r) /\ EdgesKept(r) /\ OrderKept(r)
  BY DEF StateOK, SameDag, RowsKept, EdgesKept, OrderKept
<1> QED
  BY <1>1 DEF StateOK, SameDag

LEMMA AnchorsKept ==
    ASSUME NEW st, NEW G, AnchorsOK(st, G), NEW r, SameDag(st, r)
    PROVE  AnchorsOK(r, G)
BY DEF AnchorsOK, SameDag

LEMMA AddVertexAnchors ==
    ASSUME NEW st \in State, NEW G, AnchorsOK(st, G), NEW v
    PROVE  LET r == AddVertex(st, v)
           IN  AnchorsOK(r, G) /\ r.gc_offset = st.gc_offset
<1> DEFINE r == AddVertex(st, v)
<1>1. /\ r.gc_offset = st.gc_offset /\ r.last_ordered_round = st.last_ordered_round
      /\ r.ordered = st.ordered /\ r.commits = st.commits
  BY DEF AddVertex, State
<1> HIDE DEF r
<1>2. AnchorsOK(r, G)
  BY <1>1 DEF AnchorsOK
<1> QED
  BY <1>1, <1>2 DEF r

Worker == [pid : Replica, time : Nat, st : State, sent : SUBSET Vertex, added : BOOLEAN]

(***************************************************************************)
(* The process w.pid is in the middle of a handler; X are the vertices     *)
(* that were made before, by any process.                                  *)
(***************************************************************************)
Handling(w, X) ==
    /\ w \in Worker
    /\ StateOK(w.st)
    /\ w.st.timer > 0 => w.st.timer >= w.time
    /\ w.st.matrix \cup w.st.buffer \subseteq X \cup w.sent
    /\ X \subseteq Vertex
    /\ \A v \in w.sent : v.source = w.pid
    /\ \A v \in X \cup w.sent : v.source = w.pid => v.round <= w.st.round
    /\ Sole(X \cup w.sent) /\ Graph(X \cup w.sent)
    /\ AnchorsOK(w.st, X \cup w.sent)

\* r is w some changes later.
Later(w, r) == r.pid = w.pid /\ r.time = w.time /\ w.sent \subseteq r.sent

LEMMA LaterTransitive == \A u, v, w : Later(u, v) /\ Later(v, w) => Later(u, w)
BY DEF Later

\* A change that sends nothing and stays in the round.
LEMMA HandlingOn ==
    ASSUME NEW w, NEW X, Handling(w, X), NEW r \in Worker,
           r.pid = w.pid, r.time = w.time, r.sent = w.sent,
           StateOK(r.st), r.st.round = w.st.round, r.st.timer = w.st.timer,
           r.st.matrix \cup r.st.buffer \subseteq X \cup w.sent, AnchorsOK(r.st, X \cup w.sent)
    PROVE  Handling(r, X) /\ Later(w, r)
BY DEF Handling, Later

\* The vertex that is made is the first of the process in this round.
LEMMA EnterRoundKeeps ==
    ASSUME NEW w, NEW X, Handling(w, X), timeout \in Nat \ {0},
           NEW r \in Nat, w.st.round < r, w.st.gc_offset < r,
           Cardinality({u.source : u \in Row(w.st, r - 1)}) >= QuorumSize
    PROVE  /\ Handling(EnterRound(w, r), X) /\ Later(w, EnterRound(w, r))
           /\ EnterRound(w, r).st.gc_offset < r
<1> DEFINE vertex == CreateVertex(w, r)
           st == w.st
           s1 == [st EXCEPT !.round = r, !.timer = w.time + timeout, !.wait = TRUE,
                            !.pending_commands = {}]
           s2 == AddVertex(s1, vertex)
           s3 == OrderIfLeader(s2, vertex)
           x == EnterRound(w, r)
<1>1. /\ w.pid \in Replica /\ w.time \in Nat /\ st \in State
      /\ w.sent \subseteq Vertex /\ w.added \in BOOLEAN
      /\ StateOK(st) /\ X \subseteq Vertex
  BY DEF Handling, Worker
<1>2. /\ vertex \in Vertex /\ vertex.round = r /\ vertex.source = w.pid
      /\ \A s \in vertex.strong_edges : \E u \in st.matrix : u.round = r - 1 /\ u.source = s
      /\ Cardinality(vertex.strong_edges) >= QuorumSize
  <2>1. {u.source : u \in Row(st, r - 1)} \in SUBSET Replica
    <3>1. \A u \in Row(st, r - 1) : u \in Vertex
      BY <1>1, Numbers DEF Row
    <3> QED
      BY <3>1 DEF Vertex
  <2>2. st.pending_commands \in SUBSET Command
    BY <1>1 DEF State
  <2>3. vertex = [round |-> r, source |-> w.pid,
                  strong_edges |-> {u.source : u \in Row(st, r - 1)},
                  commands |-> st.pending_commands]
    BY DEF CreateVertex
  <2>x. Cardinality({u.source : u \in Row(st, r - 1)}) >= QuorumSize
    OBVIOUS
  <2> HIDE DEF vertex, st
  <2>4. vertex.strong_edges = {u.source : u \in Row(st, r - 1)}
    BY <2>3
  <2>5. vertex \in Vertex /\ vertex.round = r /\ vertex.source = w.pid
    BY <1>1, <2>1, <2>2, <2>3 DEF Vertex
  <2>6. \A s \in vertex.strong_edges : \E u \in st.matrix : u.round = r - 1 /\ u.source = s
    BY <2>4 DEF Row
  <2> QED
    BY <2>4, <2>5, <2>6, <2>x
<1> HIDE DEF vertex
<1>3. x = [w EXCEPT !.st = s3, !.sent = @ \cup {vertex}]
  BY DEF EnterRound, vertex
<1> HIDE DEF x
<1>4. /\ s1 \in State /\ SameDag(st, s1) /\ s1.submitted = st.submitted /\ s1.buffer = st.buffer
      /\ s1.round = r /\ s1.timer = w.time + timeout
  <2>1. w.time + timeout \in Nat
    BY <1>1
  <2> QED
    BY <1>1, <2>1 DEF State, SameDag
<1> HIDE DEF s1
<1>5. StateOK(s1)
  BY <1>1, <1>4, DagKept DEF StateOK
<1>6. Sole(X \cup (w.sent \cup {vertex}))
  <2>1. \A v \in X \cup w.sent : v.source = w.pid => v.round < r
    <3>1. \A v \in X \cup w.sent : v.round \in Nat
      BY <1>1 DEF Vertex
    <3>2. w.st.round \in Nat
      BY <1>1, Numbers
    <3> QED
      BY <3>1, <3>2 DEF Handling
  <2> QED
    BY <1>2, <2>1 DEF Handling, Sole
<1> DEFINE H == X \cup (w.sent \cup {vertex})
<1>a. H \in SUBSET Vertex /\ X \cup w.sent \subseteq H /\ Graph(X \cup w.sent) /\ Sole(H)
  BY <1>1, <1>2, <1>6 DEF Handling
<1>b. Graph(H)
  <2>1. st.matrix \subseteq H
    BY <1>a DEF Handling
  <2> HIDE DEF st
  <2> SUFFICES ASSUME NEW v \in H
               PROVE  /\ \A s \in v.strong_edges : \E u \in H : u.round = v.round - 1 /\ u.source = s
                      /\ v.round > 0 => Cardinality(v.strong_edges) >= QuorumSize
    BY DEF Graph
  <2>2. CASE v = vertex
    BY <1>2, <2>1, <2>2
  <2>3. CASE v \in X \cup w.sent
    BY <1>a, <2>3 DEF Graph
  <2> QED
    BY <2>2, <2>3
<1>c. AnchorsOK(s1, H)
  <2>1. AnchorsOK(st, X \cup w.sent)
    BY DEF Handling
  <2> HIDE DEF st, H
  <2>2. AnchorsOK(st, H)
    BY <1>a, <2>1, AnchorsStable
  <2> QED
    BY <1>4, <2>2, AnchorsKept
<1>7. Sole(s1.matrix \cup {vertex})
  BY <1>4, <1>6 DEF Handling, SameDag, Sole
<1>8. StateOK(s2) /\ s2.matrix = s1.matrix \cup {vertex} /\ SameRounds(s1, s2)
  <2>1. vertex.round >= s1.gc_offset
    BY <1>1, <1>2, <1>4, Numbers DEF SameDag
  <2> QED
    BY <1>2, <1>4, <1>5, <1>7, <2>1, AddVertexKeeps DEF SameDag
<1>d. AnchorsOK(s2, H) /\ s2.gc_offset < r /\ s2.matrix \subseteq H
  <2>1. AnchorsOK(s2, H) /\ s2.gc_offset = s1.gc_offset
    BY <1>4, <1>c, AddVertexAnchors
  <2>2. s1.matrix \subseteq H
    BY <1>4 DEF SameDag, Handling
  <2> QED
    BY <1>4, <1>8, <2>1, <2>2 DEF SameDag
<1> HIDE DEF s2
<1>9. StateOK(s3) /\ s3.matrix \subseteq s2.matrix /\ SameRounds(s2, s3)
  BY <1>8, OrderIfLeaderKeeps
<1>e. AnchorsOK(s3, H) /\ s3.gc_offset < r
  <2> HIDE DEF H
  <2> QED
    BY <1>2, <1>8, <1>a, <1>b, <1>d, OrderIfLeaderAgrees
<1> HIDE DEF s3
<1>10. /\ s3.round = r /\ s3.timer = w.time + timeout
       /\ s3.matrix \cup s3.buffer \subseteq X \cup (w.sent \cup {vertex})
  BY <1>4, <1>8, <1>9 DEF SameRounds, SameDag, Handling
<1>11. /\ x \in Worker /\ x.st = s3 /\ x.sent = w.sent \cup {vertex}
       /\ x.pid = w.pid /\ x.time = w.time
  <2>1. s3 \in State
    BY <1>9 DEF StateOK
  <2> HIDE DEF st
  <2> QED
    BY <1>1, <1>2, <1>3, <2>1 DEF Worker, Handling
<1>12. \A v \in X \cup x.sent : v.source = x.pid => v.round <= x.st.round
  <2>1. \A v \in X \cup w.sent : v.round \in Nat
    BY <1>1 DEF Vertex
  <2>2. w.st.round \in Nat
    BY <1>1, Numbers
  <2> QED
    BY <1>2, <1>10, <1>11, <2>1, <2>2 DEF Handling
<1>13. x.st.timer >= x.time
  BY <1>1, <1>10, <1>11
<1> QED
  BY <1>1, <1>2, <1>6, <1>9, <1>10, <1>11, <1>12, <1>13, <1>b, <1>e DEF Handling, Later, x

\* The round advanced from was not collected, or it would have no quorum.
LEMMA TryAdvanceRoundKeeps ==
    ASSUME NEW w, NEW X, Handling(w, X), timeout \in Nat \ {0}
    PROVE  Handling(TryAdvanceRound(w), X) /\ Later(w, TryAdvanceRound(w))
<1>1. CASE ~QuorumReached(w.st, w.st.round)
  BY <1>1 DEF TryAdvanceRound, Later
<1>2. CASE QuorumReached(w.st, w.st.round)
  <2>1. /\ StateOK(w.st) /\ w.st.round \in Nat /\ w.st.gc_offset \in Nat
        /\ w.st.matrix \subseteq Vertex
    BY Numbers DEF Handling, StateOK
  <2>2. Row(w.st, w.st.round) # {}
    <3>1. Cardinality({}) = 0
      BY FS_EmptySet
    <3>2. QuorumSize >= 1
      BY Thresholds
    <3>3. QuorumSize \in Nat
      BY Thresholds
    <3> QED
      BY <1>2, <3>1, <3>2, <3>3 DEF QuorumReached
  <2>3. w.st.gc_offset <= w.st.round
    BY <2>1, <2>2 DEF Row, StateOK, RowsKept
  <2>4. w.st.round + 1 \in Nat /\ w.st.round < w.st.round + 1 /\ w.st.gc_offset < w.st.round + 1
    BY <2>1, <2>3
  <2>5. Cardinality({u.source : u \in Row(w.st, (w.st.round + 1) - 1)}) >= QuorumSize
    <3> DEFINE V == Row(w.st, w.st.round)
    <3>1. V \in SUBSET Vertex /\ Sole(V) /\ \A v \in V : v.round = w.st.round
      BY <2>1 DEF Row, StateOK, Sole
    <3>2. Cardinality(V) >= QuorumSize /\ (w.st.round + 1) - 1 = w.st.round
      BY <1>2, <2>1 DEF QuorumReached
    <3> HIDE DEF V
    <3>3. Cardinality({u.source : u \in V}) = Cardinality(V)
      BY <3>1, SourceCount
    <3> QED
      BY <3>2, <3>3 DEF V
  <2> QED
    BY <1>2, <2>4, <2>5, EnterRoundKeeps DEF TryAdvanceRound
<1> QED
  BY <1>1, <1>2

\* A panic leaves the DAG as it is.
LEMMA PanicKeeps ==
    ASSUME NEW w, NEW X, Handling(w, X), NEW what \in {"index", "live strong edge"}
    PROVE  Handling(Panic(w, what), X) /\ Later(w, Panic(w, what))
<1> DEFINE s == [w.st EXCEPT !.panic = what]
           r == Panic(w, what)
<1>1. StateOK(w.st) /\ w.st \in State /\ w \in Worker
  BY DEF Handling, StateOK
<1>2. /\ s \in State /\ SameDag(w.st, s) /\ s.submitted = w.st.submitted
      /\ s.buffer = w.st.buffer /\ s.round = w.st.round /\ s.timer = w.st.timer
  BY <1>1 DEF State, SameDag
<1>3. r = [w EXCEPT !.st = s]
  BY <1>1 DEF Panic
<1> HIDE DEF s, r
<1>4. StateOK(s)
  BY <1>1, <1>2, DagKept DEF StateOK
<1>5. s.matrix \cup s.buffer \subseteq X \cup w.sent
  BY <1>2 DEF SameDag, Handling
<1>6. r \in Worker /\ r.pid = w.pid /\ r.time = w.time /\ r.sent = w.sent /\ r.st = s
  BY <1>1, <1>2, <1>3 DEF Worker
<1>7. AnchorsOK(s, X \cup w.sent)
  BY <1>2, AnchorsKept DEF Handling
<1> QED
  BY <1>2, <1>4, <1>5, <1>6, <1>7, HandlingOn DEF r

\* The buffer loses or gains a vertex.
LEMMA BufferKeeps ==
    ASSUME NEW w, NEW X, Handling(w, X), NEW B \in SUBSET (X \cup w.sent), IsFiniteSet(B)
    PROVE  LET s == [w.st EXCEPT !.buffer = B]
           IN  /\ StateOK(s) /\ s.matrix = w.st.matrix /\ s.round = w.st.round
               /\ s.timer = w.st.timer /\ s.buffer = B /\ s.gc_offset = w.st.gc_offset
               /\ s.matrix \cup s.buffer \subseteq X \cup w.sent
               /\ AnchorsOK(s, X \cup w.sent)
<1> DEFINE s == [w.st EXCEPT !.buffer = B]
<1>1. StateOK(w.st) /\ w.st \in State /\ w \in Worker /\ X \subseteq Vertex
  BY DEF Handling, StateOK
<1>2. B \in SUBSET Vertex
  BY <1>1 DEF Worker
<1>3. /\ s \in State /\ SameDag(w.st, s) /\ s.submitted = w.st.submitted
      /\ s.buffer = B /\ s.round = w.st.round /\ s.timer = w.st.timer
  BY <1>1, <1>2 DEF State, SameDag
<1> HIDE DEF s
<1>4. StateOK(s)
  BY <1>1, <1>3, DagKept DEF StateOK
<1>5. s.matrix \cup s.buffer \subseteq X \cup w.sent
  BY <1>3 DEF SameDag, Handling
<1>6. AnchorsOK(s, X \cup w.sent)
  BY <1>3, AnchorsKept DEF Handling
<1> QED
  BY <1>3, <1>4, <1>5, <1>6 DEF SameDag, s

\* Only a vertex that misses none of its edges is added.
LEMMA TryAddToDagKeeps ==
    ASSUME NEW w, NEW X, Handling(w, X), timeout \in Nat \ {0},
           NEW v \in X \cup w.sent, NEW A
    PROVE  Handling(TryAddToDag(w, v, A), X) /\ Later(w, TryAddToDag(w, v, A))
<1> DEFINE st == w.st
           missing == v.strong_edges \ {u.source : u \in Row(st, v.round - 1)}
           added == [w EXCEPT !.st = AddVertex(st, v), !.added = TRUE]
           enters == QuorumReached(added.st, v.round) /\ v.round > st.round
           jumped == IF enters THEN EnterRound(added, v.round) ELSE added
           tried == [jumped.st EXCEPT !.buffer = @ \ {v}]
           ordered == [jumped EXCEPT !.st = OrderIfLeader(tried, v)]
           x == TryAddToDag(w, v, A)
<1>1. /\ StateOK(st) /\ st \in State /\ w \in Worker /\ X \subseteq Vertex /\ w.sent \subseteq Vertex
      /\ st.matrix \cup st.buffer \subseteq X \cup w.sent /\ Sole(X \cup w.sent)
      /\ AnchorsOK(st, X \cup w.sent) /\ Graph(X \cup w.sent)
  BY DEF Handling, StateOK, Worker
<1>2. v \in Vertex /\ v.round \in Nat /\ st.gc_offset \in Nat /\ st.round \in Nat
  BY <1>1, Numbers
<1>3. LET r == [w EXCEPT !.added = FALSE] IN Handling(r, X) /\ Later(w, r)
  <2> DEFINE r == [w EXCEPT !.added = FALSE]
  <2>1. r \in Worker /\ r.pid = w.pid /\ r.time = w.time /\ r.sent = w.sent /\ r.st = st
    BY <1>1 DEF Worker
  <2> HIDE DEF r
  <2> QED
    BY <1>1, <2>1, HandlingOn DEF r
<1>4. CASE v.round <= st.gc_offset
  <2>1. x = [w EXCEPT !.st.buffer = @ \ {v}, !.added = TRUE]
    BY <1>4 DEF TryAddToDag
  <2> DEFINE B == st.buffer \ {v}
  <2>2. x = [w EXCEPT !.st = [w.st EXCEPT !.buffer = B], !.added = TRUE]
    BY <1>1, <2>1 DEF Worker
  <2>3. B \in SUBSET (X \cup w.sent) /\ IsFiniteSet(B)
    BY <1>1, FS_Subset DEF StateOK
  <2> DEFINE s == [w.st EXCEPT !.buffer = B]
  <2> HIDE DEF B, x
  <2>4. /\ StateOK(s) /\ s.round = st.round /\ s.timer = st.timer
        /\ s.matrix \cup s.buffer \subseteq X \cup w.sent /\ AnchorsOK(s, X \cup w.sent)
    BY <2>3, BufferKeeps
  <2>5. s \in State
    BY <2>4 DEF StateOK
  <2> HIDE DEF s
  <2>6. x \in Worker /\ x.pid = w.pid /\ x.time = w.time /\ x.sent = w.sent /\ x.st = s
    BY <1>1, <2>2, <2>5 DEF Worker, s
  <2> QED
    BY <2>4, <2>6, HandlingOn DEF x
<1>5. CASE v.round > st.gc_offset /\ x = [w EXCEPT !.added = FALSE]
  BY <1>3, <1>5
<1>6. CASE v.round > st.gc_offset /\ \E what \in {"index", "live strong edge"} : x = Panic(w, what)
  BY <1>6, PanicKeeps
<1>7. CASE /\ v.round > st.gc_offset /\ missing = {}
           /\ x = ordered
  <2>1. \A s \in v.strong_edges : \E u \in st.matrix : u.round = v.round - 1 /\ u.source = s
    BY <1>7 DEF Row
  <2>2. Sole(st.matrix \cup {v})
    BY <1>1 DEF Sole
  <2> DEFINE s1 == AddVertex(st, v)
  <2>3. StateOK(s1) /\ s1.matrix = st.matrix \cup {v} /\ SameRounds(st, s1)
    BY <1>1, <1>2, <1>7, <2>1, <2>2, AddVertexKeeps
  <2>4. s1.gc_offset = st.gc_offset /\ AnchorsOK(s1, X \cup w.sent)
    BY <1>1, AddVertexAnchors
  <2> HIDE DEF s1
  <2>5. s1.matrix \cup s1.buffer \subseteq X \cup w.sent /\ s1.round = st.round /\ s1.timer = st.timer
    BY <1>1, <2>3 DEF SameRounds
  <2>6. added = [w EXCEPT !.st = s1, !.added = TRUE]
    BY DEF s1
  <2> HIDE DEF added
  <2>7. Handling(added, X) /\ Later(w, added) /\ added.st = s1
    <3>1. s1 \in State
      BY <2>3 DEF StateOK
    <3>2. /\ added \in Worker /\ added.pid = w.pid /\ added.time = w.time
          /\ added.sent = w.sent /\ added.st = s1
      BY <1>1, <2>6, <3>1 DEF Worker
    <3> QED
      BY <2>3, <2>4, <2>5, <3>2, HandlingOn
  <2>8. Handling(jumped, X) /\ Later(w, jumped) /\ jumped.st.gc_offset < v.round
    <3>1. CASE enters
      <4>1. added.st.round < v.round /\ added.st.gc_offset < v.round
        BY <1>2, <1>7, <2>4, <2>5, <2>7, <3>1
      <4>2. Cardinality({u.source : u \in Row(added.st, v.round - 1)}) >= QuorumSize
        <5> DEFINE S == {u.source : u \in Row(added.st, v.round - 1)}
        <5>1. v.strong_edges \subseteq S
          BY <2>1, <2>3, <2>7 DEF Row
        <5>2. S \in SUBSET Replica
          <6>1. \A u \in Row(added.st, v.round - 1) : u \in Vertex
            BY <1>1, <2>5, <2>7 DEF Row
          <6> QED
            BY <6>1 DEF Vertex
        <5>3. Cardinality(v.strong_edges) >= QuorumSize
          BY <1>1, <1>2, <1>7 DEF Graph
        <5> HIDE DEF S
        <5>4. IsFiniteSet(S)
          BY <5>2, ReplicaCount, FS_Subset
        <5>5. Cardinality(v.strong_edges) <= Cardinality(S) /\ IsFiniteSet(v.strong_edges)
          BY <5>1, <5>4, FS_Subset
        <5>6. Cardinality(S) \in Nat /\ Cardinality(v.strong_edges) \in Nat
          BY <5>4, <5>5, FS_CardinalityType
        <5>7. Cardinality(S) >= QuorumSize
          BY <5>3, <5>5, <5>6, Thresholds
        <5> QED
          BY <5>7 DEF S
      <4>3. /\ Handling(EnterRound(added, v.round), X) /\ Later(added, EnterRound(added, v.round))
            /\ EnterRound(added, v.round).st.gc_offset < v.round
        BY <1>2, <2>7, <4>1, <4>2, EnterRoundKeeps
      <4> QED
        BY <2>7, <3>1, <4>3, LaterTransitive
    <3>2. CASE ~enters
      BY <1>2, <1>7, <2>4, <2>7, <3>2
    <3> QED
      BY <3>1, <3>2
  <2> HIDE DEF jumped
  <2>y. ordered = [jumped EXCEPT !.st =
                      OrderIfLeader([jumped.st EXCEPT !.buffer = jumped.st.buffer \ {v}], v)]
    OBVIOUS
  <2> DEFINE B == jumped.st.buffer \ {v}
             s2 == [jumped.st EXCEPT !.buffer = B]
             s3 == OrderIfLeader(s2, v)
  <2>9. B \in SUBSET (X \cup jumped.sent) /\ IsFiniteSet(B)
    <3>1. IsFiniteSet(jumped.st.buffer) /\ jumped.st.buffer \subseteq X \cup jumped.sent
      BY <2>8 DEF Handling, StateOK
    <3> QED
      BY <3>1, FS_Subset
  <2>x. x = [jumped EXCEPT !.st = s3]
    BY <1>7, <2>y
  <2> HIDE DEF B, x, s3
  <2>10. /\ StateOK(s2) /\ s2.matrix = jumped.st.matrix /\ s2.round = jumped.st.round
         /\ s2.timer = jumped.st.timer /\ s2.buffer = B
         /\ s2.gc_offset = jumped.st.gc_offset /\ AnchorsOK(s2, X \cup jumped.sent)
    BY <2>8, <2>9, BufferKeeps
  <2> HIDE DEF s2
  <2>12. StateOK(s3) /\ s3.matrix \subseteq s2.matrix /\ SameRounds(s2, s3)
    BY <2>10, OrderIfLeaderKeeps DEF s3
  <2>11. /\ x \in Worker /\ x.pid = jumped.pid /\ x.time = jumped.time
         /\ x.sent = jumped.sent /\ x.st = s3
    <3>1. jumped \in Worker /\ s3 \in State
      BY <2>8, <2>12 DEF Handling, StateOK
    <3> QED
      BY <2>x, <3>1 DEF Worker
  <2>13. /\ s3.round = jumped.st.round /\ s3.timer = jumped.st.timer
         /\ s3.matrix \cup s3.buffer \subseteq X \cup jumped.sent
    BY <2>8, <2>9, <2>10, <2>12 DEF SameRounds, Handling
  <2>14. AnchorsOK(s3, X \cup jumped.sent)
    <3> DEFINE G == X \cup jumped.sent
    <3>1. G \in SUBSET Vertex /\ s2.matrix \subseteq G /\ Sole(G) /\ Graph(G)
      BY <2>8, <2>10 DEF Handling, Worker
    <3>2. AnchorsOK(s2, G) /\ s2.gc_offset < v.round
      BY <2>8, <2>10
    <3> HIDE DEF G
    <3>3. AnchorsOK(s3, G)
      BY <1>2, <2>10, <3>1, <3>2, OrderIfLeaderAgrees DEF s3
    <3> QED
      BY <3>3 DEF G
  <2>15. Handling(x, X) /\ Later(jumped, x)
    BY <2>8, <2>9, <2>11, <2>12, <2>13, <2>14, HandlingOn
  <2> QED
    BY <2>8, <2>15, LaterTransitive DEF x
<1>8. CASE v.round > st.gc_offset
  <2>1. ~(v.round <= st.gc_offset)
    BY <1>2, <1>8
  <2>2. x = IF v.round > Max({st.allocated, 1}) THEN [w EXCEPT !.added = FALSE]
            ELSE IF st.allocated = 0 THEN Panic(w, "index")
            ELSE IF missing # {}
            THEN IF <<v.round - 1, Min(missing)>> \in A \cup Names(st.buffer)
                 THEN [w EXCEPT !.added = FALSE] ELSE Panic(w, "live strong edge")
            ELSE ordered
    BY <2>1 DEF TryAddToDag
  <2> HIDE DEF x, ordered, missing
  <2>3. \/ x = [w EXCEPT !.added = FALSE]
        \/ \E what \in {"index", "live strong edge"} : x = Panic(w, what)
        \/ missing = {} /\ x = ordered
    BY <2>2
  <2> QED
    BY <1>5, <1>6, <1>7, <1>8, <2>3 DEF x, ordered, missing
<1> QED
  BY <1>2, <1>4, <1>8

\* The order of vertices (Vertex::cmp) has a least one.
LEMMA FirstExists == ASSUME NEW V \in SUBSET Vertex, V # {} PROVE First(V) \in V
<1>1. \A v \in V : v.round \in Nat /\ v.source \in Nat
  BY BullsharkAssumption DEF Vertex, Replica
<1>2. PICK r \in {v.round : v \in V} : \A y \in {v.round : v \in V} : r <= y
  BY <1>1, LeastNumber
<1> DEFINE S == {v.source : v \in {v \in V : v.round = r}}
<1>3. PICK s \in S : \A y \in S : s <= y
  <2>1. S \subseteq Nat /\ S # {}
    BY <1>1, <1>2
  <2> HIDE DEF S
  <2> QED
    BY <2>1, LeastNumber
<1>4. PICK v \in V : v.round = r /\ v.source = s
  BY <1>3
<1>5. \A u \in V : ~Earlier(u, v)
  <2> SUFFICES ASSUME NEW u \in V, Earlier(u, v) PROVE FALSE
    OBVIOUS
  <2>1. r <= u.round /\ u.round \in Nat /\ r \in Nat /\ u.source \in Nat /\ s \in Nat
    BY <1>1, <1>2, <1>4
  <2>2. u.round = r /\ u.source < s
    BY <1>4, <2>1 DEF Earlier
  <2>3. s <= u.source
    BY <1>3, <2>2
  <2> QED
    BY <2>1, <2>2, <2>3
<1> QED
  BY <1>5 DEF First

\* One try_add_to_dag after the other.
LEMMA RetryBufferKeeps ==
    ASSUME NEW w, NEW X, Handling(w, X), timeout \in Nat \ {0}, NEW A
    PROVE  Handling(RetryBuffer(w, A), X) /\ Later(w, RetryBuffer(w, A))
<1> DEFINE V == w.st.buffer
           n == Cardinality(V)
           Try(x) == [left |-> x.left \ {First(x.left)}, w |-> TryAddToDag(x.w, First(x.left), A)]
           start == [left |-> V, w |-> w]
           Step(L, k) == IF k = 0 THEN start ELSE Try(L[k - 1])
           F(m, L) == [k \in 0 .. m |-> Step(L, k)]
           Missing == {m \in Nat : ~\E L : L = F(m, L)}
<1>1. IsFiniteSet(V) /\ n \in Nat /\ V \subseteq Vertex /\ V \subseteq X \cup w.sent
  BY FS_CardinalityType, Numbers DEF Handling, StateOK
<1>a. \A L, M, k : (k # 0 => L[k - 1] = M[k - 1]) => Step(L, k) = Step(M, k)
  OBVIOUS
<1>b. \A L : Step(L, 0) = start
  OBVIOUS
<1>c. \A L, k : k # 0 => Step(L, k) = Try(L[k - 1])
  OBVIOUS
<1> HIDE DEF Step
<1>2. Missing = {}
  <2> SUFFICES ASSUME Missing # {} PROVE FALSE
    OBVIOUS
  <2>1. PICK m \in Missing : \A k \in Missing : m <= k
    BY LeastNumber
  <2>2. CASE m = 0
    <3> DEFINE L == [k \in 0 .. 0 |-> start]
    <3>1. L = F(0, L)
      BY <1>b
    <3> QED
      BY <2>1, <2>2, <3>1
  <2>3. CASE m # 0
    <3>1. m \in Nat /\ m - 1 \in Nat /\ m - 1 < m /\ m - 1 \notin Missing
      BY <2>1, <2>3
    <3>2. PICK L : L = F(m - 1, L)
      BY <3>1
    <3> DEFINE M == [k \in 0 .. m |-> IF k = m THEN Step(L, m) ELSE L[k]]
    <3>3. M = F(m, M)
      <4>1. ASSUME NEW k \in 0 .. m PROVE M[k] = Step(M, k)
        <5>1. k # 0 => M[k - 1] = L[k - 1]
          BY <3>1
        <5>2. Step(M, k) = Step(L, k)
          BY <1>a, <5>1
        <5>3. CASE k = m
          BY <5>2, <5>3
        <5>4. CASE k # m
          <6>1. k \in 0 .. m - 1
            BY <3>1, <5>4
          <6>2. M[k] = L[k] /\ L[k] = Step(L, k)
            BY <3>2, <5>4, <6>1
          <6> QED
            BY <5>2, <6>2
        <5> QED
          BY <5>3, <5>4
      <4> QED
        BY <4>1
    <3> QED
      BY <2>1, <3>3
  <2> QED
    BY <2>2, <2>3
<1>3. PICK T : T = F(n, T)
  BY <1>1, <1>2
<1> DEFINE D == CHOOSE L : L = F(n, L)
<1>4. D = F(n, D)
  BY <1>3
<1>5. RetryBuffer(w, A) = D[n].w
  BY DEF RetryBuffer, Step
<1> HIDE DEF D, n
<1>6. \A k \in 0 .. n : D[k] = Step(D, k)
  BY <1>4
<1> DEFINE Good(x, k) == /\ x.left \subseteq V /\ IsFiniteSet(x.left) /\ Cardinality(x.left) = n - k
                         /\ Handling(x.w, X) /\ Later(w, x.w)
<1>7. Good(start, 0)
  BY <1>1 DEF Later, n
<1>8. ASSUME NEW x, NEW k \in 0 .. n, k # 0, Good(x, k - 1) PROVE Good(Try(x), k)
  <2> DEFINE v == First(x.left)
             y == TryAddToDag(x.w, v, A)
  <2>1. x.left # {}
    <3>1. Cardinality({}) = 0
      BY FS_EmptySet
    <3>2. Cardinality(x.left) # 0
      BY <1>1, <1>8
    <3> QED
      BY <3>1, <3>2
  <2>2. v \in x.left
    <3>1. x.left \in SUBSET Vertex
      BY <1>1, <1>8
    <3> QED
      BY <2>1, <3>1, FirstExists
  <2> HIDE DEF v
  <2>3. v \in X \cup x.w.sent
    BY <1>1, <1>8, <2>2 DEF Later
  <2>4. Handling(y, X) /\ Later(x.w, y)
    BY <1>8, <2>3, TryAddToDagKeeps
  <2>5. IsFiniteSet(x.left \ {v}) /\ Cardinality(x.left \ {v}) = n - k
    <3>1. IsFiniteSet(x.left \ {v}) /\ Cardinality(x.left \ {v}) = Cardinality(x.left) - 1
      BY <1>8, <2>2, FS_RemoveElement
    <3> QED
      BY <1>1, <1>8, <3>1
  <2>6. Later(w, y)
    BY <1>8, <2>4, LaterTransitive
  <2>7. Try(x).left = x.left \ {v} /\ Try(x).w = y
    BY DEF v
  <2> QED
    BY <1>8, <2>4, <2>5, <2>6, <2>7
<1> HIDE DEF Good, Try, start
<1>9. \A k \in 0 .. n : Good(D[k], k)
  <2> DEFINE Bad == {k \in Nat : k <= n /\ ~Good(D[k], k)}
  <2> SUFFICES ASSUME Bad # {} PROVE FALSE
    BY <1>1
  <2>1. PICK k \in Bad : \A j \in Bad : k <= j
    BY LeastNumber
  <2>2. k \in 0 .. n /\ D[k] = Step(D, k)
    BY <1>1, <1>6, <2>1
  <2>3. k # 0
    BY <1>7, <1>b, <2>1, <2>2
  <2>4. k - 1 \in Nat /\ k - 1 <= n /\ k - 1 \notin Bad
    BY <1>1, <2>1, <2>3
  <2>5. Good(D[k - 1], k - 1)
    BY <2>4
  <2> QED
    BY <1>8, <1>c, <2>1, <2>2, <2>3, <2>5
<1>10. Good(D[n], n)
  BY <1>1, <1>9
<1> QED
  BY <1>5, <1>10 DEF Good

\* A Genesis vertex refers to nothing.
LEMMA OnGenesisKeeps ==
    ASSUME NEW w, NEW X, Handling(w, X), timeout \in Nat \ {0},
           NEW v \in X, v.round = 0
    PROVE  Handling(OnGenesis(w, v), X) /\ Later(w, OnGenesis(w, v))
<1>1. CASE v.round < w.st.gc_offset
  BY <1>1, PanicKeeps DEF OnGenesis
<1>2. CASE ~(v.round < w.st.gc_offset)
  <2> DEFINE s == AddVertex(w.st, v)
             r == [w EXCEPT !.st = s]
  <2>1. /\ StateOK(w.st) /\ w \in Worker /\ v \in Vertex /\ w.st.gc_offset = 0
        /\ w.st.matrix \subseteq X \cup w.sent
    BY <1>2, Numbers DEF Handling, StateOK
  <2>2. Sole(w.st.matrix \cup {v})
    BY DEF Sole, Handling
  <2>3. StateOK(s) /\ s.matrix = w.st.matrix \cup {v} /\ SameRounds(w.st, s)
    BY <2>1, <2>2, AddVertexKeeps
  <2> HIDE DEF s
  <2>4. r \in Worker /\ r.pid = w.pid /\ r.time = w.time /\ r.sent = w.sent /\ r.st = s
    <3>1. s \in State
      BY <2>3 DEF StateOK
    <3> QED
      BY <2>1, <3>1 DEF Worker
  <2>9. AnchorsOK(s, X \cup w.sent)
    BY <2>1, AddVertexAnchors DEF s, Handling, StateOK
  <2>5. s.matrix \cup s.buffer \subseteq X \cup w.sent
    BY <2>3 DEF SameRounds, Handling
  <2>6. OnGenesis(w, v) = TryAdvanceRound(r)
    BY <1>2 DEF OnGenesis, s
  <2> HIDE DEF r
  <2>7. Handling(r, X) /\ Later(w, r)
    BY <2>3, <2>4, <2>5, <2>9, HandlingOn DEF SameRounds
  <2>8. Handling(TryAdvanceRound(r), X) /\ Later(r, TryAdvanceRound(r))
    BY <2>7, TryAdvanceRoundKeeps
  <2> QED
    BY <2>6, <2>7, <2>8, LaterTransitive
<1> QED
  BY <1>1, <1>2

\* A vertex from the network is there already, among X.
LEMMA OnVertexKeeps ==
    ASSUME NEW w, NEW X, Handling(w, X), timeout \in Nat \ {0}, NEW v \in X, NEW A
    PROVE  Handling(OnVertex(w, v, A), X) /\ Later(w, OnVertex(w, v, A))
<1> DEFINE s == [w.st EXCEPT !.pending_commands = @ \ v.commands]
           forgot == [w EXCEPT !.st.pending_commands = @ \ v.commands]
           retried == RetryBuffer(forgot, A)
           tried == TryAddToDag(retried, v, A)
           kept == IF tried.added THEN tried ELSE [tried EXCEPT !.st.buffer = @ \cup {v}]
           x == OnVertex(w, v, A)
<1>1. /\ w \in Worker /\ StateOK(w.st) /\ w.st \in State
      /\ w.st.matrix \cup w.st.buffer \subseteq X \cup w.sent
  BY DEF Handling, StateOK
<1>2. /\ s \in State /\ SameDag(w.st, s) /\ s.submitted = w.st.submitted
      /\ s.buffer = w.st.buffer /\ s.round = w.st.round /\ s.timer = w.st.timer
  BY <1>1 DEF State, SameDag
<1>3. forgot = [w EXCEPT !.st = s]
  BY <1>1 DEF Worker
<1>0. x = IF Cardinality(v.strong_edges) < QuorumSize THEN w
          ELSE IF kept.st.round = v.round /\ RoundDone(kept.st) THEN TryAdvanceRound(kept)
          ELSE kept
  BY DEF OnVertex
<1> HIDE DEF s, forgot, x
<1>4. StateOK(s)
  BY <1>1, <1>2, DagKept DEF StateOK
<1>5. /\ forgot \in Worker /\ forgot.pid = w.pid /\ forgot.time = w.time
      /\ forgot.sent = w.sent /\ forgot.st = s
  BY <1>1, <1>2, <1>3 DEF Worker
<1>12. AnchorsOK(s, X \cup w.sent)
  BY <1>2, AnchorsKept DEF Handling
<1>6. Handling(forgot, X) /\ Later(w, forgot)
  BY <1>1, <1>2, <1>4, <1>5, <1>12, HandlingOn DEF SameDag
<1>7. Handling(retried, X) /\ Later(w, retried)
  BY <1>6, RetryBufferKeeps, LaterTransitive
<1> HIDE DEF retried
<1>8. Handling(tried, X) /\ Later(w, tried)
  BY <1>7, TryAddToDagKeeps, LaterTransitive
<1> HIDE DEF tried
<1>9. Handling(kept, X) /\ Later(w, kept)
  <2>1. CASE tried.added
    BY <1>8, <2>1
  <2>2. CASE ~tried.added
    <3> DEFINE B == tried.st.buffer \cup {v}
               s2 == [tried.st EXCEPT !.buffer = B]
    <3>1. B \in SUBSET (X \cup tried.sent) /\ IsFiniteSet(B)
      <4>1. IsFiniteSet(tried.st.buffer) /\ tried.st.buffer \subseteq X \cup tried.sent
        BY <1>8 DEF Handling, StateOK
      <4> QED
        BY <4>1, FS_AddElement
    <3>2. tried \in Worker
      BY <1>8 DEF Handling
    <3>3. kept = [tried EXCEPT !.st = s2]
      BY <2>2, <3>2 DEF Worker
    <3> HIDE DEF B, kept
    <3>4. /\ StateOK(s2) /\ s2.round = tried.st.round /\ s2.timer = tried.st.timer
          /\ s2.matrix \cup s2.buffer \subseteq X \cup tried.sent
          /\ AnchorsOK(s2, X \cup tried.sent)
      BY <1>8, <3>1, BufferKeeps
    <3>5. s2 \in State
      BY <3>4 DEF StateOK
    <3> HIDE DEF s2
    <3>6. /\ kept \in Worker /\ kept.pid = tried.pid /\ kept.time = tried.time
          /\ kept.sent = tried.sent /\ kept.st = s2
      BY <3>2, <3>3, <3>5 DEF Worker
    <3>7. Handling(kept, X) /\ Later(tried, kept)
      BY <1>8, <3>4, <3>6, HandlingOn
    <3> QED
      BY <1>8, <3>7, LaterTransitive
  <2> QED
    BY <2>1, <2>2
<1> HIDE DEF kept
<1>10. Handling(TryAdvanceRound(kept), X) /\ Later(w, TryAdvanceRound(kept))
  BY <1>9, TryAdvanceRoundKeeps, LaterTransitive
<1>11. Later(w, w)
  BY DEF Later
<1> QED
  BY <1>0, <1>9, <1>10, <1>11 DEF x

-----------------------------------------------------------------------------
\* Links.

\* A certificate goes out at some time: a quorum has signed once all have.
LEMMA CertifiedAfterNat ==
    ASSUME NEW l \in [Replica \X Replica -> Nat], NEW p \in Replica
    PROVE  CertifiedAfter(l, p) \in Nat
<1> DEFINE signed == [q \in Replica |-> l[p, q] + l[q, p]]
           Enough(t) == Cardinality({q \in Replica : signed[q] <= t}) >= QuorumSize
           T == {t \in {signed[q] : q \in Replica} : Enough(t)}
<1>1. N \in Nat \ {0} /\ Replica = 0 .. N - 1
  BY BullsharkAssumption DEF Replica
<1>2. \A q \in Replica : signed[q] \in Nat
  <2> SUFFICES ASSUME NEW q \in Replica PROVE signed[q] \in Nat
    OBVIOUS
  <2>1. l[p, q] \in Nat /\ l[q, p] \in Nat
    OBVIOUS
  <2>2. signed[q] = l[p, q] + l[q, p]
    OBVIOUS
  <2> DEFINE a == l[p, q]
             b == l[q, p]
             c == signed[q]
  <2>3. a \in Nat /\ b \in Nat /\ c = a + b
    BY <2>1, <2>2
  <2> HIDE DEF a, b, c
  <2>4. c \in Nat
    BY <2>3
  <2> QED
    BY <2>4 DEF c
<1>3. CertifiedAfter(l, p) = Min(T)
  BY DEF CertifiedAfter
<1> HIDE DEF signed
<1>4. \E t \in Nat : \A q \in Replica : signed[q] <= t
  <2> DEFINE Bounded(n) == \E t \in Nat : \A q \in 0 .. n - 1 : signed[q] <= t
             Bad == {n \in Nat : n <= N /\ ~Bounded(n)}
  <2> HIDE DEF Bounded
  <2>1. Bad = {}
    <3> SUFFICES ASSUME Bad # {} PROVE FALSE
      OBVIOUS
    <3>1. PICK n \in Bad : \A k \in Bad : n <= k
      BY LeastNumber
    <3>2. n # 0
      <4>1. 0 .. 0 - 1 = {}
        OBVIOUS
      <4>2. Bounded(0)
        BY <4>1 DEF Bounded
      <4> QED
        BY <3>1, <4>2
    <3>0. n \in Nat /\ n <= N
      BY <3>1
    <3>3. n - 1 \in Nat /\ n - 1 < n /\ n - 1 <= N /\ n - 1 \in Replica
      BY <1>1, <3>0, <3>2
    <3>x. n - 1 \notin Bad
      BY <3>0, <3>1, <3>3
    <3>4. PICK t \in Nat : \A q \in 0 .. (n - 1) - 1 : signed[q] <= t
      BY <3>3, <3>x DEF Bounded
    <3> DEFINE b == signed[n - 1]
               u == IF t <= b THEN b ELSE t
    <3>y. b \in Nat
      BY <1>2, <3>3
    <3> HIDE DEF b
    <3>5. u \in Nat /\ t <= u /\ b <= u
      BY <3>y, <3>4
    <3> HIDE DEF u
    <3>6. \A q \in 0 .. n - 1 : signed[q] <= u
      <4> SUFFICES ASSUME NEW q \in 0 .. n - 1 PROVE signed[q] <= u
        OBVIOUS
      <4>1. CASE q = n - 1
        BY <3>5, <4>1 DEF b
      <4>2. CASE q # n - 1
        <5>1. q \in 0 .. (n - 1) - 1 /\ q \in Replica
          BY <1>1, <3>0, <3>3, <4>2
        <5>2. signed[q] <= t /\ signed[q] \in Nat
          BY <1>2, <3>4, <5>1
        <5> QED
          BY <3>4, <3>5, <5>2
      <4> QED
        BY <4>1, <4>2
    <3>7. Bounded(n)
      BY <3>5, <3>6 DEF Bounded
    <3> QED
      BY <3>1, <3>7
  <2>2. N \notin Bad /\ N \in Nat
    BY <1>1, <2>1
  <2> QED
    BY <1>1, <2>2 DEF Bounded
<1>5. PICK t \in {x \in Nat : \A q \in Replica : signed[q] <= x} :
           \A u \in {x \in Nat : \A q \in Replica : signed[q] <= x} : t <= u
  BY <1>4, LeastNumber
<1>6. \E q \in Replica : signed[q] = t
  <2> SUFFICES ASSUME \A q \in Replica : signed[q] # t PROVE FALSE
    OBVIOUS
  <2>1. \A q \in Replica : signed[q] <= t - 1
    BY <1>2, <1>5
  <2>2. t - 1 \in Nat
    BY <1>1, <1>2, <1>5, <2>1
  <2> QED
    BY <1>5, <2>1, <2>2
<1>7. Enough(t)
  <2>1. {q \in Replica : signed[q] <= t} = Replica
    BY <1>5
  <2>2. Cardinality(Replica) = N
    BY <1>1, FS_Interval
  <2> QED
    BY <1>1, <2>1, <2>2, Thresholds
<1>8. T # {} /\ T \subseteq Nat
  BY <1>2, <1>6, <1>7
<1> HIDE DEF T
<1>9. \E x \in T : \A y \in T : x <= y
  BY <1>8, LeastNumber
<1> QED
  BY <1>3, <1>8, <1>9 DEF Min

\* What is sent arrives now or later.
LEMMA BroadcastSent ==
    ASSUME latency \in Latencies, NEW t \in Nat, NEW p \in Replica, NEW V \in SUBSET Vertex,
           NEW m \in Broadcast(latency, t, p, V)
    PROVE  m \in Message /\ m.at >= t /\ m.vertex \in V
<1>1. latency \in [Replica \X Replica -> Nat]
  BY BullsharkAssumption
<1>2. CertifiedAfter(latency, p) \in Nat
  BY <1>1, CertifiedAfterNat
<1> DEFINE At(q) == t + CertifiedAfter(latency, p) + latency[p, q]
           Sent(v, q) == [vertex |-> v, dst |-> q, at |-> At(q)]
<1>3. Broadcast(latency, t, p, V) = UNION {{Sent(v, q) : q \in Replica} : v \in V}
  BY DEF Broadcast
<1> DEFINE c == CertifiedAfter(latency, p)
<1>4. \A q \in Replica : At(q) \in Nat /\ At(q) >= t
  <2> SUFFICES ASSUME NEW q \in Replica PROVE At(q) \in Nat /\ At(q) >= t
    OBVIOUS
  <2>1. latency[p, q] \in Nat
    BY <1>1
  <2> DEFINE b == latency[p, q]
             a == At(q)
  <2>2. a = t + c + b /\ c \in Nat /\ b \in Nat
    BY <1>2, <2>1
  <2> HIDE DEF c, a, b
  <2>3. a \in Nat /\ a >= t
    BY <2>2
  <2> QED
    BY <2>3 DEF a
<1>5. \A v, q : Sent(v, q).vertex = v /\ Sent(v, q).dst = q /\ Sent(v, q).at = At(q)
  OBVIOUS
<1>6. \A v \in V, q \in Replica : Sent(v, q) \in Message
  BY <1>4 DEF Message
<1> HIDE DEF Sent, At
<1>7. PICK v \in V, q \in Replica : m = Sent(v, q)
  BY <1>3
<1> QED
  BY <1>4, <1>5, <1>6, <1>7

-----------------------------------------------------------------------------
\* The invariant.

\* Every process and message has vertices that were made; no process is behind
\* its own.
Inv ==
    /\ latency \in Latencies /\ timeout \in Timeouts
    /\ now \in 0 .. MaxTime
    /\ replica \in [Replica -> State]
    /\ \A p \in Replica :
          /\ StateOK(replica[p]) /\ AnchorsOK(replica[p], made)
          /\ replica[p].matrix \cup replica[p].buffer \subseteq made
          /\ replica[p].timer > 0 => replica[p].timer >= now
    /\ msgs \subseteq Message /\ submits \subseteq Submit
    /\ \A m \in msgs \cup submits : m.at >= now
    /\ \A m \in msgs : m.vertex \in made
    /\ made \subseteq Vertex /\ Sole(made) /\ Graph(made)
    /\ \A v \in made : v.round <= replica[v.source].round

LEMMA Started == Init => Inv
<1> SUFFICES ASSUME Init PROVE Inv
  OBVIOUS
<1>1. /\ latency \in Latencies /\ timeout \in Timeouts /\ now = 0 /\ MaxTime \in Nat
      /\ SubmitLimit \in Nat
  BY BullsharkAssumption DEF Init
<1>2. Start \in State /\ Start.matrix = {} /\ Start.buffer = {} /\ Start.timer = 0
      /\ Start.round = 0 /\ Start.ordered = {} /\ Start.submitted = 0 /\ Start.commits = <<>>
      /\ Start.gc_offset = 0 /\ Start.last_ordered_round = 0
  BY DEF Start, State
<1> HIDE DEF Start
<1>3. StateOK(Start)
  <2>1. RowsKept(Start) /\ EdgesKept(Start) /\ OrderKept(Start) /\ Causal(Start.commits)
        /\ Sole(Start.matrix)
    BY <1>2 DEF RowsKept, EdgesKept, OrderKept, Causal, Sole
  <2>2. IsFiniteSet(Start.buffer)
    BY <1>2, FS_EmptySet
  <2> QED
    BY <1>1, <1>2, <2>1, <2>2 DEF StateOK
<1>4. replica = [p \in Replica |-> Start]
  BY DEF Init
<1>5. \A p \in Replica : /\ Genesis(p) \in Vertex /\ Genesis(p).round = 0
                         /\ Genesis(p).source = p /\ Genesis(p).strong_edges = {}
  BY DEF Genesis, Vertex
<1>6. \A m \in msgs : m \in Message /\ m.at >= 0 /\ \E p \in Replica : m.vertex = Genesis(p)
  <2> SUFFICES ASSUME NEW m \in msgs
               PROVE  m \in Message /\ m.at >= 0 /\ \E p \in Replica : m.vertex = Genesis(p)
    OBVIOUS
  <2>1. PICK p \in Replica : m \in Broadcast(latency, 0, p, {Genesis(p)})
    BY DEF Init
  <2>2. {Genesis(p)} \in SUBSET Vertex
    BY <1>5
  <2>3. m \in Message /\ m.at >= 0 /\ m.vertex \in {Genesis(p)}
    BY <1>1, <2>1, <2>2, BroadcastSent
  <2> QED
    BY <2>3
<1>7. made = {Genesis(p) : p \in Replica} /\ submits = {}
  BY DEF Init
<1>8. Sole(made) /\ Graph(made) /\ made \subseteq Vertex /\ \A m \in msgs : m.vertex \in made
  BY <1>5, <1>6, <1>7 DEF Sole, Graph
<1>9. AnchorsOK(Start, made)
  <2>1. AnchorsOf(Start.commits) = {} /\ Headed(Start.commits) /\ Ascending(Start.commits)
    BY <1>2 DEF AnchorsOf, Headed, Ascending
  <2> QED
    BY <1>2, <2>1 DEF AnchorsOK, WalkedBack
<1>10. \A v \in made : v.round <= replica[v.source].round
  BY <1>2, <1>4, <1>5, <1>7
<1>11. \A p \in Replica :
          /\ StateOK(replica[p]) /\ AnchorsOK(replica[p], made)
          /\ replica[p].matrix \cup replica[p].buffer \subseteq made
          /\ replica[p].timer > 0 => replica[p].timer >= now
  BY <1>1, <1>2, <1>3, <1>4, <1>9
<1>12. replica \in [Replica -> State]
  BY <1>2, <1>4
<1>13. \A m \in msgs \cup submits : m.at >= now
  BY <1>1, <1>6, <1>7
<1>14. msgs \subseteq Message /\ submits \subseteq Submit
  BY <1>6, <1>7
<1>15. now \in 0 .. MaxTime
  BY <1>1
<1> QED
  BY <1>1, <1>8, <1>10, <1>11, <1>12, <1>13, <1>14, <1>15 DEF Inv

\* No event is passed over.
LEMMA EventTime ==
    ASSUME Inv, NEW t \in Nat, NextEventAt(t)
    PROVE  /\ now' = t /\ now' \in 0 .. MaxTime
           /\ \A m \in msgs \cup submits : m.at >= now'
           /\ \A p \in Replica : replica[p].timer > 0 => replica[p].timer >= now'
<1>1. MaxTime \in Nat
  BY BullsharkAssumption
<1>2. now' = t /\ now' \in 0 .. MaxTime
  BY <1>1 DEF NextEventAt
<1>3. \A m \in msgs \cup submits : m.at >= now'
  BY <1>2 DEF NextEventAt, Inv, Message, Submit
<1>4. \A p \in Replica : replica[p].timer > 0 => replica[p].timer >= now'
  <2>1. \A p \in Replica : replica[p].timer \in Nat
    BY Numbers DEF Inv
  <2> QED
    BY <1>2, <2>1 DEF NextEventAt
<1> QED
  BY <1>2, <1>3, <1>4

\* A handler starts from a state that the invariant describes.
LEMMA AtWork ==
    ASSUME Inv, NEW t \in Nat, NextEventAt(t), NEW p \in Replica
    PROVE  /\ Handling(Work(p), made) /\ Work(p).pid = p /\ Work(p).time = now'
           /\ Work(p).sent = {} /\ Work(p).st = replica[p]
<1> DEFINE w == Work(p)
<1>1. now' \in Nat /\ (replica[p].timer > 0 => replica[p].timer >= now')
  BY EventTime
<1>2. replica[p] \in State /\ StateOK(replica[p])
  BY DEF Inv
<1>3. w \in Worker /\ w.pid = p /\ w.time = now' /\ w.sent = {} /\ w.st = replica[p]
  BY <1>1, <1>2 DEF Work, Worker
<1> HIDE DEF w
<1>4. /\ made \subseteq Vertex /\ Sole(made) /\ Graph(made) /\ AnchorsOK(replica[p], made)
      /\ replica[p].matrix \cup replica[p].buffer \subseteq made
      /\ \A v \in made : v.source = p => v.round <= replica[p].round
  BY DEF Inv
<1>5. made \cup w.sent = made /\ \A v \in w.sent : v.source = w.pid
  BY <1>3
<1>6. Handling(w, made)
  BY <1>1, <1>2, <1>3, <1>4, <1>5 DEF Handling
<1> QED
  BY <1>3, <1>6 DEF w

\* After a handler the processes and messages are as the invariant says.
LEMMA HandledKeeps ==
    ASSUME Inv, NEW t \in Nat, NextEventAt(t),
           NEW p \in Replica, NEW w, NEW rest \in SUBSET msgs,
           Handling(w, made), w.pid = p, w.time = now', Handled(p, w, rest)
    PROVE  Inv'
<1>1. /\ now' = t /\ now' \in 0 .. MaxTime
      /\ \A m \in msgs \cup submits : m.at >= now'
      /\ \A q \in Replica : replica[q].timer > 0 => replica[q].timer >= now'
  BY EventTime
<1>2. /\ replica' = [replica EXCEPT ![p] = w.st]
      /\ msgs' = rest \cup Broadcast(latency, now', p, w.sent)
      /\ latency' = latency /\ timeout' = timeout /\ submits' = submits
      /\ made' = made \cup w.sent
  BY DEF Handled
<1>3. /\ w.st \in State /\ StateOK(w.st) /\ w.sent \in SUBSET Vertex
      /\ (w.st.timer > 0 => w.st.timer >= now')
  BY DEF Handling, Worker
<1>4. replica' \in [Replica -> State] /\ replica'[p] = w.st
      /\ \A q \in Replica \ {p} : replica'[q] = replica[q]
  BY <1>2, <1>3 DEF Inv
<1>5. \A m \in msgs' : m \in Message /\ m.at >= now' /\ m.vertex \in made'
  <2> SUFFICES ASSUME NEW m \in msgs'
               PROVE  m \in Message /\ m.at >= now' /\ m.vertex \in made'
    OBVIOUS
  <2>1. CASE m \in rest
    <3>1. m \in msgs
      BY <2>1
    <3> QED
      BY <1>1, <1>2, <3>1 DEF Inv
  <2>2. CASE m \in Broadcast(latency, now', p, w.sent)
    <3>1. latency \in Latencies /\ now' \in Nat
      BY <1>1 DEF Inv
    <3> QED
      BY <1>2, <1>3, <2>2, <3>1, BroadcastSent
  <2> QED
    BY <1>2, <2>1, <2>2
<1>6. /\ Sole(made') /\ Graph(made') /\ AnchorsOK(w.st, made')
      /\ made' \subseteq Vertex /\ w.st.matrix \cup w.st.buffer \subseteq made'
  BY <1>2, <1>3 DEF Handling
<1>7. ASSUME NEW q \in Replica \ {p}
      PROVE  AnchorsOK(replica[q], made') /\ replica[q].matrix \cup replica[q].buffer \subseteq made'
  <2>1. made \subseteq made' /\ Graph(made) /\ AnchorsOK(replica[q], made)
    BY <1>2 DEF Inv
  <2>2. AnchorsOK(replica[q], made')
    BY <1>6, <2>1, AnchorsStable
  <2> QED
    BY <2>1, <2>2 DEF Inv
<1>9. \A v \in made' : v.round <= replica'[v.source].round
  <2> SUFFICES ASSUME NEW v \in made' PROVE v.round <= replica'[v.source].round
    OBVIOUS
  <2>1. CASE v.source = p
    BY <1>2, <1>4, <2>1 DEF Handling
  <2>2. CASE v.source # p
    <3>1. v \in made /\ v.source \in Replica
      BY <1>2, <1>6, <2>2 DEF Handling, Vertex
    <3> QED
      BY <1>4, <2>2, <3>1 DEF Inv
  <2> QED
    BY <2>1, <2>2
<1>10. \A q \in Replica :
          /\ StateOK(replica'[q]) /\ AnchorsOK(replica'[q], made')
          /\ replica'[q].matrix \cup replica'[q].buffer \subseteq made'
          /\ replica'[q].timer > 0 => replica'[q].timer >= now'
  BY <1>1, <1>3, <1>4, <1>6, <1>7 DEF Inv
<1>11. \A m \in msgs' \cup submits' : m.at >= now'
  BY <1>1, <1>2, <1>5
<1>12. /\ latency' \in Latencies /\ timeout' \in Timeouts
       /\ msgs' \subseteq Message /\ submits' \subseteq Submit
  BY <1>2, <1>5 DEF Inv
<1> QED
  BY <1>1, <1>4, <1>5, <1>6, <1>9, <1>10, <1>11, <1>12 DEF Inv

LEMMA OnMessageKeeps == ASSUME Inv, NEW m \in msgs, OnMessage(m) PROVE Inv'
<1> DEFINE p == m.dst
           w == IF m.vertex.round = 0 THEN OnGenesis(Work(p), m.vertex)
                ELSE OnVertex(Work(p), m.vertex, AliveElsewhere(p))
<1>1. p \in Replica /\ m.at \in Nat /\ m.vertex \in made
  BY DEF Inv, Message
<1>2. NextEventAt(m.at) /\ Handled(p, w, msgs \ {m})
  BY DEF OnMessage
<1>3. timeout \in Nat \ {0}
  BY BullsharkAssumption DEF Inv
<1>4. Handling(Work(p), made) /\ Work(p).pid = p /\ Work(p).time = now'
  BY <1>1, <1>2, AtWork
<1>5. Handling(w, made) /\ Later(Work(p), w)
  BY <1>1, <1>3, <1>4, OnGenesisKeeps, OnVertexKeeps
<1>6. w.pid = p /\ w.time = now'
  BY <1>4, <1>5 DEF Later
<1> HIDE DEF w, p
<1> QED
  BY <1>1, <1>2, <1>5, <1>6, HandledKeeps

LEMMA OnTimerKeeps == ASSUME Inv, NEW p \in Replica, OnTimer(p) PROVE Inv'
<1> DEFINE w == Work(p)
           s == [replica[p] EXCEPT !.wait = FALSE, !.timer = 0]
           x == [Work(p) EXCEPT !.st.wait = FALSE, !.st.timer = 0]
<1>1. replica[p] \in State /\ replica[p].timer \in Nat /\ StateOK(replica[p])
  BY Numbers DEF Inv
<1>2. NextEventAt(replica[p].timer) /\ Handled(p, TryAdvanceRound(x), msgs)
  BY DEF OnTimer
<1>3. timeout \in Nat \ {0}
  BY BullsharkAssumption DEF Inv
<1>4. Handling(w, made) /\ w.pid = p /\ w.time = now' /\ w.st = replica[p]
  BY <1>1, <1>2, AtWork
<1>5. /\ s \in State /\ SameDag(replica[p], s) /\ s.submitted = replica[p].submitted
      /\ s.buffer = replica[p].buffer /\ s.round = replica[p].round /\ s.timer = 0
  BY <1>1 DEF State, SameDag
<1>6. w \in Worker
  BY <1>4 DEF Handling
<1>7. x = [w EXCEPT !.st = s]
  BY <1>4, <1>6 DEF Worker
<1> HIDE DEF s, x, w
<1>8. StateOK(s)
  BY <1>1, <1>5, DagKept DEF StateOK
<1>9. x \in Worker /\ x.pid = p /\ x.time = now' /\ x.sent = w.sent /\ x.st = s
  BY <1>4, <1>5, <1>6, <1>7 DEF Worker
<1>10. Handling(x, made)
  <2>1. AnchorsOK(s, made \cup w.sent)
    BY <1>4, <1>5, AnchorsKept DEF Handling
  <2> QED
    BY <1>4, <1>5, <1>8, <1>9, <2>1 DEF Handling, SameDag
<1>11. Handling(TryAdvanceRound(x), made) /\ Later(x, TryAdvanceRound(x))
  BY <1>3, <1>10, TryAdvanceRoundKeeps
<1>12. TryAdvanceRound(x).pid = p /\ TryAdvanceRound(x).time = now'
  BY <1>9, <1>11 DEF Later
<1> QED
  BY <1>1, <1>2, <1>11, <1>12, HandledKeeps

\* A step of the commands leaves the vertices alone.
LEMMA CommandStepKeeps ==
    ASSUME Inv, NEW t \in Nat, NextEventAt(t), NEW p \in Replica, NEW s, StateOK(s),
           SameDag(replica[p], s), s.buffer = replica[p].buffer,
           s.round = replica[p].round, s.timer = replica[p].timer,
           replica' = [replica EXCEPT ![p] = s],
           submits' \subseteq Submit, \A m \in submits' : m.at >= now',
           UNCHANGED <<latency, timeout, msgs, made>>
    PROVE  Inv'
<1>1. /\ now' \in 0 .. MaxTime
      /\ \A m \in msgs \cup submits : m.at >= now'
      /\ \A q \in Replica : replica[q].timer > 0 => replica[q].timer >= now'
  BY EventTime
<1>2. /\ replica' \in [Replica -> State] /\ replica'[p] = s
      /\ \A q \in Replica \ {p} : replica'[q] = replica[q]
  BY DEF Inv, StateOK
<1>3. \A q \in Replica : /\ replica'[q].matrix = replica[q].matrix
                         /\ replica'[q].buffer = replica[q].buffer
                         /\ replica'[q].round = replica[q].round
                         /\ replica'[q].timer = replica[q].timer
                         /\ StateOK(replica'[q])
  BY <1>2 DEF SameDag, Inv
<1>4. \A q \in Replica : AnchorsOK(replica'[q], made)
  <2>1. AnchorsOK(s, made)
    BY AnchorsKept DEF Inv
  <2> QED
    BY <1>2, <2>1 DEF Inv
<1>5. \A v \in made : v.source \in Replica
  BY DEF Inv, Vertex
<1>6. \A v \in made : v.round <= replica'[v.source].round
  BY <1>3, <1>5 DEF Inv
<1> QED
  BY <1>1, <1>2, <1>3, <1>4, <1>6 DEF Inv

LEMMA OnSubmitTimerKeeps == ASSUME Inv, NEW p \in Replica, OnSubmitTimer(p) PROVE Inv'
<1> DEFINE n == replica[p].submitted + 1
           s == [replica[p] EXCEPT !.submitted = n]
           Sent(q) == [command |-> <<p, n>>, dst |-> q, at |-> now' + latency[p, q]]
<1>1. replica[p] \in State /\ StateOK(replica[p]) /\ n \in Nat /\ n >= 1
  BY Numbers DEF Inv
<1>2. /\ n <= SubmitLimit /\ NextEventAt(SubmitAt(p))
      /\ replica' = [replica EXCEPT ![p] = s]
      /\ submits' = submits \cup {Sent(q) : q \in Replica}
      /\ UNCHANGED <<latency, timeout, msgs, made>>
  BY DEF OnSubmitTimer
<1>3. SubmitAt(p) \in Nat
  BY <1>1, BullsharkAssumption DEF SubmitAt
<1>4. /\ s \in State /\ SameDag(replica[p], s) /\ s.submitted = n
      /\ s.buffer = replica[p].buffer /\ s.round = replica[p].round
      /\ s.timer = replica[p].timer
  BY <1>1 DEF State, SameDag
<1>5. now' \in Nat /\ \A m \in submits : m.at >= now'
  BY <1>2, <1>3, EventTime
<1> HIDE DEF n
<1>6. <<p, n>> \in Command
  <2>0. SubmitLimit \in Nat
    BY BullsharkAssumption
  <2>1. n \in Nat /\ n >= 1 /\ n <= SubmitLimit
    BY <1>1, <1>2
  <2>2. n \in 1 .. SubmitLimit
    BY <2>0, <2>1
  <2> QED
    BY <2>2 DEF Command
<1>7. \A q \in Replica : Sent(q) \in Submit /\ Sent(q).at >= now'
  <2> SUFFICES ASSUME NEW q \in Replica PROVE Sent(q) \in Submit /\ Sent(q).at >= now'
    OBVIOUS
  <2> DEFINE a == latency[p, q]
             b == now'
             at == b + a
  <2>1. a \in Nat
    <3>1. latency \in [Replica \X Replica -> Nat]
      BY BullsharkAssumption DEF Inv
    <3> QED
      BY <3>1
  <2>2. b \in Nat
    BY <1>5
  <2>3. Sent(q) = [command |-> <<p, n>>, dst |-> q, at |-> at]
    OBVIOUS
  <2> HIDE DEF a, b
  <2>4. at \in Nat /\ at >= b
    BY <2>1, <2>2
  <2> HIDE DEF at, Sent
  <2>5. Sent(q) \in Submit /\ Sent(q).at >= b
    BY <1>6, <2>3, <2>4 DEF Submit
  <2> QED
    BY <2>5 DEF b
<1> HIDE DEF Sent, s
<1>8. StateOK(s)
  BY <1>1, <1>2, <1>4, DagKept DEF StateOK
<1>9. submits' \subseteq Submit /\ \A m \in submits' : m.at >= now'
  BY <1>2, <1>5, <1>7 DEF Inv
<1> QED
  BY <1>2, <1>3, <1>4, <1>8, <1>9, CommandStepKeeps

LEMMA OnSubmitKeeps == ASSUME Inv, NEW m \in submits, OnSubmit(m) PROVE Inv'
<1> DEFINE p == m.dst
           st == replica[p]
           s == [st EXCEPT !.pending_commands = @ \cup {m.command}]
<1>1. p \in Replica /\ m.at \in Nat /\ m.command \in Command
  BY DEF Inv, Submit
<1>2. st \in State /\ StateOK(st)
  BY <1>1 DEF Inv
<1>3. /\ NextEventAt(m.at) /\ replica' = [replica EXCEPT ![p] = s]
      /\ submits' = submits \ {m} /\ UNCHANGED <<latency, timeout, msgs, made>>
  BY DEF OnSubmit
<1>4. /\ s \in State /\ SameDag(st, s) /\ s.submitted = st.submitted
      /\ s.buffer = st.buffer /\ s.round = st.round /\ s.timer = st.timer
  BY <1>1, <1>2 DEF State, SameDag
<1> HIDE DEF s
<1>5. StateOK(s)
  BY <1>2, <1>4, DagKept DEF StateOK
<1>6. submits' \subseteq Submit /\ \A x \in submits' : x.at >= now'
  BY <1>1, <1>3, EventTime DEF Inv
<1> HIDE DEF p
<1> QED
  BY <1>1, <1>3, <1>4, <1>5, <1>6, CommandStepKeeps

LEMMA StepKeeps == Inv /\ [Next]_vars => Inv'
<1> SUFFICES ASSUME Inv, [Next]_vars PROVE Inv'
  OBVIOUS
<1>1. CASE \E m \in msgs : OnMessage(m)
  BY <1>1, OnMessageKeeps
<1>2. CASE \E p \in Replica : OnTimer(p)
  BY <1>2, OnTimerKeeps
<1>3. CASE \E p \in Replica : OnSubmitTimer(p)
  BY <1>3, OnSubmitTimerKeeps
<1>4. CASE \E m \in submits : OnSubmit(m)
  BY <1>4, OnSubmitKeeps
<1>5. CASE UNCHANGED vars
  BY <1>5 DEF vars, Inv
<1> QED
  BY <1>1, <1>2, <1>3, <1>4, <1>5 DEF Next

LEMMA Invariance == Spec => []Inv
BY Started, StepKeeps, PTL DEF Spec

-----------------------------------------------------------------------------
\* The properties.

\* A process has only the rows of its DAG from gc_offset on, marks only what is
\* in them, and no message or timer is overdue (lib.rs, dag_utils.rs).
THEOREM TypeCorrect == Spec => []TypeOK
<1>1. Inv => TypeOK
  <2> SUFFICES ASSUME Inv PROVE TypeOK
    OBVIOUS
  <2>1. ASSUME NEW p \in Replica
        PROVE  LET st == replica[p] IN
               /\ DOMAIN st = DOMAIN Start
               /\ \A v \in st.matrix \cup st.buffer \cup st.ordered :
                     v.source \in Replica /\ v.strong_edges \subseteq Replica
               /\ \A v \in st.matrix : st.gc_offset <= v.round /\ v.round < st.allocated
               /\ st.ordered \subseteq st.matrix
               /\ st.timer > 0 => st.timer >= now
               /\ st.submitted <= SubmitLimit /\ st.pending_commands \subseteq Command
    <3> DEFINE st == replica[p]
    <3>1. st \in State /\ StateOK(st) /\ (st.timer > 0 => st.timer >= now)
      BY DEF Inv
    <3> HIDE DEF st
    <3>2. DOMAIN st = DOMAIN Start
      BY <3>1 DEF State, Start
    <3>3. \A v \in st.matrix \cup st.buffer \cup st.ordered :
             v.source \in Replica /\ v.strong_edges \subseteq Replica
      <4>1. st.matrix \cup st.buffer \cup st.ordered \subseteq Vertex
        BY <3>1, Numbers
      <4> QED
        BY <4>1 DEF Vertex
    <3>4. st.pending_commands \subseteq Command
      BY <3>1 DEF State
    <3> QED
      BY <3>1, <3>2, <3>3, <3>4 DEF StateOK, RowsKept, st
  <2>2. \A m \in msgs \cup submits : m.dst \in Replica /\ m.at >= now
    BY DEF Inv, Message, Submit
  <2>3. /\ DOMAIN replica = Replica /\ latency \in Latencies /\ timeout \in Timeouts
        /\ now \in 0 .. MaxTime
    BY DEF Inv
  <2> QED
    BY <2>1, <2>2, <2>3 DEF TypeOK
<1> QED
  BY <1>1, Invariance, PTL

(***************************************************************************)
(* A vertex is ordered once, and with no later anchor than the vertices    *)
(* that refer to it, whatever gc has collected and in whatever order       *)
(* vertices arrive (order_from, gc, try_add_to_dag).                       *)
(***************************************************************************)
THEOREM CausalOrderHolds == Spec => []CausalOrder
<1>1. Inv => CausalOrder
  BY DEF Inv, StateOK, Causal, CausalOrder
<1> QED
  BY <1>1, Invariance, PTL

(***************************************************************************)
(* A process makes one vertex in a round, though it may jump to a round    *)
(* while it retries its buffer and advance again in the same handler: so a *)
(* slot of RoundBasedDAG is only ever set to the vertex that is in it      *)
(* (insert), and two vertices of one round and source, in two processes or *)
(* messages, are the same (try_advance_round, try_add_to_dag, on_message). *)
(***************************************************************************)
THEOREM OneVertexARound == Spec => []Sole(made)
<1>1. Inv => Sole(made)
  BY DEF Inv
<1> QED
  BY <1>1, Invariance, PTL

(***************************************************************************)
(* A vertex of round > 0 refers to a quorum of vertices of the round       *)
(* before, all of which were made: the process jumps or advances only with *)
(* a full row before its own (try_advance_round, try_add_to_dag).          *)
(***************************************************************************)
THEOREM QuorumOfEdges == Spec => []Graph(made)
<1>1. Inv => Graph(made)
  BY DEF Inv
<1> QED
  BY <1>1, Invariance, PTL

(***************************************************************************)
(* For any N: a process commits its anchors in ascending rounds, the last  *)
(* one has f + 1 votes among the vertices that were made, whichever of its *)
(* votes the process has seen, and gc collects up to that one              *)
(* (try_ordering, order_anchors, gc).                                      *)
(***************************************************************************)
THEOREM LastAnchorDirect ==
    Spec => [](\A p \in Replica :
                  LET st == replica[p] IN
                  /\ Ascending(st.commits) /\ st.gc_offset = st.last_ordered_round
                  /\ st.last_ordered_round > 0 =>
                        \E a \in AnchorsOf(st.commits) :
                            a.round = st.last_ordered_round /\ Direct(made, a))
<1>1. Inv => \A p \in Replica :
                  LET st == replica[p] IN
                  /\ Ascending(st.commits) /\ st.gc_offset = st.last_ordered_round
                  /\ st.last_ordered_round > 0 =>
                        \E a \in AnchorsOf(st.commits) :
                            a.round = st.last_ordered_round /\ Direct(made, a)
  BY DEF Inv, AnchorsOK
<1> QED
  BY <1>1, Invariance, PTL

(***************************************************************************)
(* The strong edges of a vertex in the DAG lead to vertices that are there *)
(* too, as long as their round was not collected: the weak pointers that   *)
(* order_from and path_exists follow (live_edges) are alive until gc.      *)
(***************************************************************************)
THEOREM ParentsPresent == Spec => [](\A p \in Replica : EdgesKept(replica[p]))
<1>1. Inv => \A p \in Replica : EdgesKept(replica[p])
  BY DEF Inv, StateOK
<1> QED
  BY <1>1, Invariance, PTL
-----------------------------------------------------------------------------
(***************************************************************************)
(* Agreement on anchors.  Everything that AnchorsOK says is about the one  *)
(* graph of all vertices, so two processes that share an anchor share all  *)
(* below it, and the last anchor of the one that is behind was committed   *)
(* directly: any later anchor has a path to it.                            *)
(***************************************************************************)

\* The last anchor of the process that is behind is one of the other's, too.
LEMMA LastShared ==
    ASSUME N = 3 * AdversaryThreshold + 1,
           NEW G \in SUBSET Vertex, Sole(G), Graph(G),
           NEW st, AnchorsOK(st, G), NEW r, AnchorsOK(r, G),
           st.last_ordered_round \in Nat \ {0}, r.last_ordered_round \in Nat,
           st.last_ordered_round <= r.last_ordered_round
    PROVE  \E t \in AnchorsOf(st.commits) \cap AnchorsOf(r.commits) :
              t.round = st.last_ordered_round
<1> DEFINE A == AnchorsOf(st.commits)
           B == AnchorsOf(r.commits)
           last == st.last_ordered_round
           T == {y.round : y \in {z \in B : z.round >= last}}
<1>1. PICK t \in A : t.round = last /\ Direct(G, t)
  BY DEF AnchorsOK
<1>2. PICK u \in B : u.round = r.last_ordered_round
  BY DEF AnchorsOK
<1>3. /\ \A y \in A \cup B : y \in G /\ IsAnchor(y)
      /\ \A y \in G : y.round \in Nat
  BY DEF AnchorsOK, Vertex
<1>4. T \in SUBSET Nat /\ u.round \in T
  BY <1>2, <1>3
<1>5. PICK n \in T : \A m \in T : n <= m
  BY <1>4, LeastNumber
<1>6. PICK x \in B : x.round = n /\ x.round >= last
  BY <1>5
<1>7. \A y \in B : ~(last < y.round /\ y.round < x.round)
  <2> SUFFICES ASSUME NEW y \in B, last < y.round, y.round < x.round PROVE FALSE
    OBVIOUS
  <2>1. y.round \in Nat /\ x.round \in Nat /\ y.round >= last
    BY <1>3
  <2>2. y.round \in T
    BY <2>1
  <2>3. x.round <= y.round
    BY <1>5, <1>6, <2>2
  <2> QED
    BY <2>1, <2>3
<1>8. CASE x.round = last
  <2>1. x = t
    BY <1>1, <1>3, <1>6, <1>8 DEF Sole, IsAnchor
  <2> QED
    BY <1>1, <1>6, <2>1
<1>9. CASE x.round # last
  <2>1. x.round >= t.round + 2 /\ t.round < x.round
    BY <1>1, <1>3, <1>6, <1>9 DEF IsAnchor
  <2>2. Reaches(G, x, t)
    BY <1>1, <1>3, <1>6, <2>1, DirectReached
  <2>3. WalkedBack(B, G)
    BY DEF AnchorsOK
  <2>4. t \in B
    BY <1>1, <1>3, <1>6, <1>7, <2>1, <2>2, <2>3 DEF WalkedBack
  <2> QED
    BY <1>1, <2>4
<1> QED
  BY <1>8, <1>9

\* Two sets of anchors that share one share all below it.
LEMMA SharedBelow ==
    ASSUME NEW G \in SUBSET Vertex, Sole(G),
           NEW A \in SUBSET G, NEW B \in SUBSET G, \A a \in A \cup B : IsAnchor(a),
           WalkedBack(A, G), WalkedBack(B, G), NEW t \in A \cap B
    PROVE  \A a \in A \cup B : 0 < a.round /\ a.round <= t.round => a \in A \cap B
<1> DEFINE Bad == {a \in A \cup B : 0 < a.round /\ a.round <= t.round /\ a \notin A \cap B}
           Gaps == {t.round - a.round : a \in Bad}
<1> SUFFICES ASSUME Bad # {} PROVE FALSE
  OBVIOUS
<1>1. \A v \in G : v.round \in Nat
  BY DEF Vertex
<1>2. Gaps \in SUBSET Nat /\ Gaps # {}
  BY <1>1
<1>3. PICK g \in Gaps : \A h \in Gaps : g <= h
  BY <1>2, LeastNumber
<1>4. PICK b \in Bad : g = t.round - b.round
  BY <1>3
<1>5. \A y \in A \cup B : b.round < y.round /\ y.round <= t.round => y \in A \cap B
  <2> SUFFICES ASSUME NEW y \in A \cup B, b.round < y.round, y.round <= t.round, y \in Bad
               PROVE  FALSE
    BY <1>1, <1>4
  <2>1. t.round - y.round \in Gaps
    OBVIOUS
  <2> QED
    BY <1>1, <1>3, <1>4, <2>1
<1>6. b \in G /\ IsAnchor(b) /\ 0 < b.round /\ b.round < t.round
  <2>1. b.round # t.round
    BY <1>4 DEF Sole, IsAnchor
  <2> QED
    BY <1>1, <1>4, <2>1
<1> DEFINE T == {y.round : y \in {z \in A : z.round > b.round}}
<1>7. T \in SUBSET Nat /\ t.round \in T
  BY <1>1, <1>6
<1>8. PICK n \in T : \A m \in T : n <= m
  BY <1>7, LeastNumber
<1>9. PICK x \in A : x.round = n /\ x.round > b.round
  BY <1>8
<1>10. x.round <= t.round /\ x \in A \cap B
  BY <1>1, <1>5, <1>7, <1>8, <1>9
<1>11. \A y \in A : ~(b.round < y.round /\ y.round < x.round)
  <2> SUFFICES ASSUME NEW y \in A, b.round < y.round, y.round < x.round PROVE FALSE
    OBVIOUS
  <2>1. y.round \in Nat /\ x.round \in Nat /\ y.round > b.round
    BY <1>1, <1>6
  <2>2. x.round <= y.round
    BY <1>8, <1>9, <2>1
  <2> QED
    BY <2>1, <2>2
<1>12. \A y \in B : ~(b.round < y.round /\ y.round < x.round)
  BY <1>1, <1>5, <1>10, <1>11
<1>13. b \in A <=> Reaches(G, x, b)
  BY <1>6, <1>9, <1>11 DEF WalkedBack
<1>14. b \in B <=> Reaches(G, x, b)
  BY <1>6, <1>9, <1>10, <1>12 DEF WalkedBack
<1> QED
  BY <1>4, <1>13, <1>14

(***************************************************************************)
(* No two processes disagree about an anchor that both have passed, for    *)
(* any number 3f + 1 of processes, any latencies and timeouts, though      *)
(* order_anchors decides it from the part of the graph that a process has  *)
(* at the time and from how far it was before (try_ordering,               *)
(* order_anchors, gc).                                                     *)
(***************************************************************************)
THEOREM AnchorAgreementHolds ==
    ASSUME N = 3 * AdversaryThreshold + 1
    PROVE  Spec => []AnchorAgreement
<1>1. ASSUME Inv PROVE AnchorAgreement
  <2>1. ASSUME NEW p \in Replica, NEW i \in DOMAIN replica[p].commits,
               NEW j \in DOMAIN replica[p].commits, i < j
        PROVE  replica[p].commits[i].anchor.round < replica[p].commits[j].anchor.round
    BY <1>1, <2>1 DEF Inv, AnchorsOK, Ascending
  <2>2. ASSUME NEW p \in Replica, NEW q \in Replica, NEW a \in Anchors(p),
               0 < a.round, a.round <= replica[q].last_ordered_round
        PROVE  a \in Anchors(q)
    <3> DEFINE A == AnchorsOf(replica[p].commits)
               B == AnchorsOf(replica[q].commits)
               k == replica[p].last_ordered_round
               l == replica[q].last_ordered_round
    <3>1. Anchors(p) = A /\ Anchors(q) = B
      BY DEF Anchors, AnchorsOf, Range
    <3>2. /\ AnchorsOK(replica[p], made) /\ AnchorsOK(replica[q], made)
          /\ made \in SUBSET Vertex /\ Sole(made) /\ Graph(made)
      BY <1>1 DEF Inv
    <3>3. k \in Nat /\ l \in Nat
      BY <1>1, Numbers DEF Inv
    <3>4. a \in A /\ a.round \in Nat /\ a.round <= k
      BY <2>2, <3>1, <3>2 DEF AnchorsOK, Vertex
    <3>5. PICK t \in A \cap B : a.round <= t.round
      <4>1. CASE k <= l
        BY <2>2, <3>2, <3>3, <3>4, <4>1, LastShared
      <4>2. CASE l <= k
        BY <2>2, <3>2, <3>3, <3>4, <4>2, LastShared
      <4> QED
        BY <3>3, <4>1, <4>2
    <3>6. /\ A \in SUBSET made /\ B \in SUBSET made
          /\ \A x \in A \cup B : IsAnchor(x)
          /\ WalkedBack(A, made) /\ WalkedBack(B, made)
      BY <3>2 DEF AnchorsOK
    <3> HIDE DEF A, B
    <3>7. a \in B
      BY <2>2, <3>2, <3>4, <3>5, <3>6, SharedBelow
    <3> QED
      BY <3>1, <3>7
  <2> QED
    BY <2>1, <2>2 DEF AnchorAgreement
<1> QED
  BY <1>1, Invariance, PTL
=============================================================================
