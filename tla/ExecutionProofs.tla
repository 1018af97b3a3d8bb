-------------------------- MODULE ExecutionProofs --------------------------
(***************************************************************************)
(* Proofs about DependencyOrder and Execution, for every set of commands   *)
(* and replicas.                                                           *)
(*                                                                         *)
(* The order.  OrderInv is inductive: two facts about Reaches carry it.    *)
(* Paths between executed commands are not changed by later decisions      *)
(* (ReachesSurvives), and a path between two commands of a batch stays in  *)
(* the batch (ReachesInBatch), because what is executed is closed.         *)
(*                                                                         *)
(* The code that computes it.  The loops keep an invariant each            *)
(* (RepeatKeeps).  What strongconnect(v) makes of a state of the search is *)
(* Connected; ConnectFromConnected shows it from the same for the calls    *)
(* that strongconnect(v) makes, and StrongConnectConnected by the number   *)
(* of commands not yet visited.  TarjanCorrect follows: the components are *)
(* the classes of mutual reachability, dependencies first.  A pass of      *)
(* promote_stable then executes the ready commands, one closed batch in an *)
(* allowed order (PassExecutesReady), which is a step of DependencyOrder.  *)
(***************************************************************************)
EXTENDS Execution, SequenceTheorems, FiniteSetTheorems, WellFoundedInduction, TLAPS

\* A closed set holds what is reachable from its members.
LEMMA ReachesStaysIn ==
    ASSUME NEW G, NEW C, NEW S \in SUBSET C, ClosedIn(G, C, S),
           NEW x \in S, NEW y, Reaches(G, C, x, y)
    PROVE  y \in S
BY DEF Reaches

\* Reachability from x depends only on a closed set around x.
LEMMA ReachesSurvives ==
    ASSUME NEW G, NEW H, NEW C, NEW S \in SUBSET C,
           ClosedIn(G, C, S), \A d \in S : G[d] = H[d],
           NEW x \in S, NEW y, Reaches(G, C, x, y)
    PROVE  Reaches(H, C, x, y)
<1> SUFFICES ASSUME NEW T \in SUBSET C, x \in T, ClosedIn(H, C, T)
             PROVE  y \in T
  BY DEF Reaches
<1>1. ClosedIn(G, C, T \cap S)
  BY DEF ClosedIn
<1>2. T \cap S \in SUBSET C
  OBVIOUS
<1> QED
  BY <1>1, <1>2 DEF Reaches

\* Inside a batch whose dependencies are in the batch or in a closed set S,
\* reachability in the batch and in the whole graph are the same.
LEMMA ReachesInBatch ==
    ASSUME NEW C, NEW G \in [C -> SUBSET C], NEW S \in SUBSET C, NEW B \in SUBSET C,
           ClosedIn(G, C, S), S \cap B = {},
           \A c \in B : G[c] \subseteq B \cup S,
           NEW x \in B, NEW y \in B
    PROVE  Reaches(G, C, x, y) <=> Reaches(G, B, x, y)
<1>1. ASSUME Reaches(G, C, x, y), NEW T \in SUBSET B, x \in T, ClosedIn(G, B, T)
      PROVE  y \in T
  <2>1. ClosedIn(G, C, T \cup S)
    <3> SUFFICES ASSUME NEW c \in T \cup S PROVE G[c] \cap C \subseteq T \cup S
      BY DEF ClosedIn
    <3>1. CASE c \in S
      BY <3>1 DEF ClosedIn
    <3>2. CASE c \in T
      BY <1>1, <3>2 DEF ClosedIn
    <3> QED BY <3>1, <3>2
  <2>2. T \cup S \in SUBSET C
    BY <1>1
  <2>3. y \in T \cup S
    BY <1>1, <2>1, <2>2 DEF Reaches
  <2> QED
    BY <2>3
<1>2. ASSUME Reaches(G, B, x, y), NEW T \in SUBSET C, x \in T, ClosedIn(G, C, T)
      PROVE  y \in T
  <2>1. ClosedIn(G, B, T \cap B) /\ T \cap B \in SUBSET B
    BY <1>2 DEF ClosedIn
  <2> QED
    BY <1>2, <2>1 DEF Reaches
<1> QED
  BY <1>1, <1>2 DEF Reaches

\* A sound order stays sound when more commands are decided.
LEMMA GrowSound ==
    ASSUME NEW G \in [Cmd -> SUBSET Cmd], NEW H \in [Cmd -> SUBSET Cmd],
           NEW D \in SUBSET Cmd, NEW E \in SUBSET Cmd, D \subseteq E,
           \A d \in D : G[d] = H[d],
           NEW t \in Seq(Cmd), OrderSound(D, G, t)
    PROVE  OrderSound(E, H, t)
<1> DEFINE S == Range(t)
<1>1. S \in SUBSET Cmd /\ S \subseteq D /\ ClosedIn(G, Cmd, S) /\ ClosedIn(H, Cmd, S)
  BY DEF OrderSound, ClosedIn
<1>2. \A d \in S : G[d] = H[d]
  BY <1>1
<1>3. ASSUME NEW i \in DOMAIN t, NEW j \in DOMAIN t, i < j, Reaches(H, Cmd, t[i], t[j])
      PROVE  Reaches(H, Cmd, t[j], t[i]) /\ t[i] < t[j]
  <2>1. t[i] \in S /\ t[j] \in S
    BY DEF Range
  <2>2. Reaches(G, Cmd, t[i], t[j])
    BY <1>1, <1>2, <1>3, <2>1, ReachesSurvives
  <2>3. Reaches(G, Cmd, t[j], t[i]) /\ t[i] < t[j]
    BY <1>3, <2>2 DEF OrderSound
  <2> QED
    BY <1>1, <1>2, <2>1, <2>3, ReachesSurvives
<1> QED
  BY <1>1, <1>3 DEF OrderSound

\* Appending a batch that is closed up to what was executed keeps an order
\* sound: no path leads from what was executed into the batch.
LEMMA AppendSound ==
    ASSUME NEW G \in [Cmd -> SUBSET Cmd], NEW D \in SUBSET Cmd,
           NEW t \in Seq(Cmd), OrderSound(D, G, t),
           NEW B \in SUBSET (D \ Range(t)),
           \A c \in B : G[c] \subseteq B \cup Range(t),
           NEW s \in ExecutionOrders(G, B)
    PROVE  t \o s \in Seq(Cmd) /\ OrderSound(D, G, t \o s)
<1> DEFINE u == t \o s
           m == Len(t)
           n == Len(s)
<1>1. /\ s \in Seq(Cmd) /\ Range(s) = B /\ IsInjective(s)
      /\ DOMAIN s = 1 .. n /\ n = Cardinality(B) /\ n \in Nat
  <2>1. IsFiniteSet(B) /\ B \in SUBSET Cmd /\ Cardinality(B) \in Nat
    BY CmdAssumption, FS_Subset, FS_CardinalityType
  <2>2. s \in [1 .. Cardinality(B) -> B] /\ IsInjective(s)
        /\ \A c \in B : \E i \in 1 .. Cardinality(B) : s[i] = c
    BY DEF ExecutionOrders, Bijection, Injection, Surjection
  <2>3. s \in Seq(B) /\ n = Cardinality(B)
    BY <2>1, <2>2, IsASeq
  <2>4. Range(s) = B
    BY <2>2 DEF Range
  <2> QED
    BY <2>1, <2>2, <2>3, <2>4, SeqMonotonic
<1>2. m \in Nat /\ DOMAIN t = 1 .. m
  BY LenProperties
<1>3. /\ u \in Seq(Cmd)
      /\ DOMAIN u = 1 .. m + n
      /\ \A i \in 1 .. m : i \in DOMAIN t /\ u[i] = t[i]
      /\ \A i \in 1 .. m + n : i > m => i - m \in DOMAIN s /\ u[i] = s[i - m]
      /\ Range(u) = Range(t) \cup Range(s)
  <2>1. /\ u \in Seq(Cmd) /\ Len(u) = m + n
        /\ \A i \in 1 .. m + n : u[i] = IF i <= m THEN t[i] ELSE s[i - m]
    BY <1>1, ConcatProperties
  <2> HIDE DEF u
  <2>2. DOMAIN u = 1 .. m + n
    BY <2>1, LenProperties
  <2>3. \A i \in 1 .. m : i \in 1 .. m + n /\ i \in DOMAIN t /\ u[i] = t[i]
    BY <1>1, <1>2, <2>1
  <2>4. \A i \in 1 .. m + n : i > m => i - m \in DOMAIN s /\ u[i] = s[i - m]
    BY <1>1, <1>2, <2>1
  <2>5. \A i \in 1 .. n : i + m \in 1 .. m + n /\ u[i + m] = s[i]
    BY <1>1, <1>2, <2>1
  <2>6. ASSUME NEW c \in Range(u) PROVE c \in Range(t) \cup Range(s)
    <3>1. PICK i \in 1 .. m + n : c = u[i]
      BY <2>2, <2>6 DEF Range
    <3>2. i \in 1 .. m \/ i > m
      BY <1>1, <1>2
    <3> QED
      BY <2>3, <2>4, <3>1, <3>2 DEF Range
  <2>7. Range(t) \subseteq Range(u) /\ Range(s) \subseteq Range(u)
    BY <1>1, <1>2, <2>2, <2>3, <2>5 DEF Range
  <2> QED
    BY <2>1, <2>2, <2>3, <2>4, <2>6, <2>7
<1> HIDE DEF u
<1>4. /\ Range(t) \subseteq D /\ IsInjective(t) /\ ClosedIn(G, Cmd, Range(t))
      /\ \A i, j \in DOMAIN t :
            i < j /\ Reaches(G, Cmd, t[i], t[j])
                => Reaches(G, Cmd, t[j], t[i]) /\ t[i] < t[j]
  BY DEF OrderSound
<1>5. Range(t) \in SUBSET Cmd /\ Range(t) \cap B = {} /\ B \in SUBSET Cmd
  BY <1>4
<1>6. \A i \in 1 .. m : u[i] \in Range(t)
  BY <1>3 DEF Range
<1>7. \A i \in 1 .. m + n : i > m => u[i] \in B
  BY <1>1, <1>3 DEF Range
<1>8. Range(u) \subseteq D
  BY <1>1, <1>3, <1>4
<1>9. IsInjective(u)
  <2> SUFFICES ASSUME NEW i \in 1 .. m + n, NEW j \in 1 .. m + n, u[i] = u[j]
               PROVE  i = j
    BY <1>3 DEF IsInjective
  <2>1. CASE i <= m /\ j <= m
    <3>1. i \in DOMAIN t /\ j \in DOMAIN t /\ t[i] = t[j]
      BY <1>2, <1>3, <2>1
    <3> QED BY <3>1, <1>4 DEF IsInjective
  <2>2. CASE i > m /\ j > m
    <3>1. i - m \in DOMAIN s /\ j - m \in DOMAIN s /\ s[i - m] = s[j - m]
      BY <1>3, <2>2
    <3>2. i - m = j - m
      BY <3>1, <1>1 DEF IsInjective
    <3> QED BY <3>2, <1>2, <1>1
  <2>3. CASE i <= m /\ j > m
    BY <1>2, <1>5, <1>6, <1>7, <2>3
  <2>4. CASE i > m /\ j <= m
    BY <1>2, <1>5, <1>6, <1>7, <2>4
  <2> QED
    BY <1>1, <1>2, <2>1, <2>2, <2>3, <2>4
<1>10. ClosedIn(G, Cmd, Range(u))
  <2> SUFFICES ASSUME NEW c \in Range(u) PROVE G[c] \cap Cmd \subseteq Range(u)
    BY DEF ClosedIn
  <2>1. CASE c \in Range(t)
    BY <2>1, <1>3, <1>4 DEF ClosedIn
  <2>2. CASE c \in B
    BY <2>2, <1>1, <1>3
  <2> QED
    BY <1>1, <1>3, <2>1, <2>2
<1>11. ASSUME NEW i \in 1 .. m + n, NEW j \in 1 .. m + n, i < j,
              Reaches(G, Cmd, u[i], u[j])
       PROVE  Reaches(G, Cmd, u[j], u[i]) /\ u[i] < u[j]
  <2>1. CASE j <= m
    <3>1. i \in DOMAIN t /\ j \in DOMAIN t /\ u[i] = t[i] /\ u[j] = t[j]
      BY <1>2, <1>3, <1>11, <2>1
    <3> QED BY <3>1, <1>4, <1>11
  <2>2. CASE i <= m /\ j > m
    <3>1. u[i] \in Range(t) /\ u[j] \in B
      BY <1>2, <1>6, <1>7, <2>2
    <3>2. u[j] \in Range(t)
      BY <3>1, <1>4, <1>5, <1>11, ReachesStaysIn
    <3> QED BY <3>1, <3>2, <1>5
  <2>3. CASE i > m
    <3> DEFINE a == i - m
               b == j - m
    <3>1. /\ a \in DOMAIN s /\ b \in DOMAIN s /\ u[i] = s[a] /\ u[j] = s[b] /\ a < b
          /\ u[i] \in B /\ u[j] \in B
      BY <1>1, <1>2, <1>3, <1>7, <1>11, <2>3
    <3> HIDE DEF a, b
    <3>2. Reaches(G, B, s[a], s[b])
      BY <3>1, <1>4, <1>5, <1>11, ReachesInBatch
    <3>3. Reaches(G, B, s[b], s[a]) /\ s[a] < s[b]
      BY <3>1, <3>2, <1>1 DEF ExecutionOrders
    <3>4. Reaches(G, Cmd, s[b], s[a])
      BY <3>1, <3>3, <1>4, <1>5, ReachesInBatch
    <3> QED BY <3>1, <3>3, <3>4
  <2> QED
    BY <1>1, <1>2, <2>1, <2>2, <2>3
<1> QED
  BY <1>3, <1>8, <1>9, <1>10, <1>11 DEF OrderSound, u

-----------------------------------------------------------------------------

\* A batch keeps p's order sound, and leaves the others as they are.
LEMMA ExecuteKeeps ==
    ASSUME TypeOK, decided' \in SUBSET Cmd, decidedDeps' \in [Cmd -> SUBSET Cmd],
           decided \subseteq decided', \A d \in decided : decidedDeps[d] = decidedDeps'[d],
           OrderInv, NEW p \in Replica, NEW B, Execute(p, B)
    PROVE  order' \in [Replica -> Seq(Cmd)] /\ OrderInv'
<1>1. \A q \in Replica : OrderSound(decided', decidedDeps', order[q])
  BY GrowSound DEF TypeOK, OrderInv
<1>2. PICK s \in ExecutionOrders(decidedDeps', B) :
          order' = [order EXCEPT ![p] = @ \o s]
  BY DEF Execute
<1>3. order[p] \o s \in Seq(Cmd) /\ OrderSound(decided', decidedDeps', order[p] \o s)
  BY <1>1, <1>2, AppendSound DEF TypeOK, Execute
<1> QED
  BY <1>1, <1>2, <1>3 DEF TypeOK, OrderInv

\* Nothing is executed in the initial state.
LEMMA InvInit == Init => TypeOK /\ OrderInv
<1> SUFFICES ASSUME Init PROVE TypeOK /\ OrderInv
  OBVIOUS
<1>1. TypeOK
  BY DEF Init, TypeOK
<1>2. OrderSound({}, decidedDeps, <<>>)
  BY DEF OrderSound, Range, IsInjective, ClosedIn
<1> QED
  BY <1>1, <1>2 DEF Init, OrderInv

\* Decisions and executions keep the invariant.
LEMMA InvStep == TypeOK /\ OrderInv /\ [Next]_vars => TypeOK' /\ OrderInv'
<1> SUFFICES ASSUME TypeOK, OrderInv, [Next]_vars PROVE TypeOK' /\ OrderInv'
  OBVIOUS
<1>1. ASSUME NEW p \in Replica, NEW c \in Cmd, NEW D \in SUBSET (Cmd \ {c}), Decide(p, c, D)
      PROVE  TypeOK' /\ OrderInv'
  <2>1. decided' \in SUBSET Cmd /\ decidedDeps' \in [Cmd -> SUBSET Cmd]
    BY <1>1 DEF Decide, TypeOK
  <2>2. decided \subseteq decided' /\ \A d \in decided : decidedDeps[d] = decidedDeps'[d]
    BY <1>1 DEF Decide, TypeOK
  <2>3. PICK B : Execute(p, B)
    BY <1>1 DEF Decide
  <2> QED
    BY <2>1, <2>2, <2>3, ExecuteKeeps DEF TypeOK
<1>2. ASSUME NEW p \in Replica, Learn(p)
      PROVE  TypeOK' /\ OrderInv'
  <2>1. decided' = decided /\ decidedDeps' = decidedDeps
    BY <1>2 DEF Learn
  <2>2. PICK B : Execute(p, B)
    BY <1>2 DEF Learn
  <2> QED
    BY <2>1, <2>2, ExecuteKeeps DEF TypeOK
<1>3. CASE UNCHANGED vars
  BY <1>3 DEF vars, TypeOK, OrderInv
<1> QED
  BY <1>1, <1>2, <1>3 DEF Next

\* What a replica has executed is decided, closed under dependencies, free of
\* repetitions and ordered by reachability, in every reachable state.
THEOREM OrderInvariant == Spec => [](TypeOK /\ OrderInv)
BY InvInit, InvStep, PTL DEF Spec

-----------------------------------------------------------------------------

\* In one replica, of two related commands the one that runs first is either
\* not a dependent of the other, or its cycle mate with the smaller id.
LEMMA PrecedesSound ==
    ASSUME TypeOK, OrderInv, NEW p \in Replica, NEW a \in Cmd, NEW b \in Cmd,
           Precedes(order[p], a, b), Reaches(decidedDeps, Cmd, a, b)
    PROVE  Reaches(decidedDeps, Cmd, b, a) /\ a < b
BY DEF OrderInv, OrderSound, Precedes

\* Replicas never disagree on the order of two related commands.
THEOREM SameOrderHolds == Spec => []SameOrder
<1>1. TypeOK /\ OrderInv => SameOrder
  <2> SUFFICES ASSUME TypeOK, OrderInv, NEW p \in Replica, NEW q \in Replica,
                      NEW a \in Cmd, NEW b \in Cmd, Related(a, b),
                      Precedes(order[p], a, b), Precedes(order[q], b, a)
               PROVE  FALSE
    BY DEF SameOrder
  <2>1. a \in Nat /\ b \in Nat
    BY CmdAssumption
  <2>2. Reaches(decidedDeps, Cmd, a, b) /\ Reaches(decidedDeps, Cmd, b, a)
    BY PrecedesSound DEF Related
  <2>3. a < b /\ b < a
    BY <2>2, PrecedesSound
  <2> QED
    BY <2>1, <2>3
<1> QED
  BY <1>1, OrderInvariant, PTL

\* Dependencies are executed first, cycles aside.
THEOREM DependencyFirstHolds == Spec => []DependencyFirst
<1>1. TypeOK /\ OrderInv => DependencyFirst
  <2> SUFFICES ASSUME TypeOK, OrderInv, NEW p \in Replica,
                      NEW i \in DOMAIN order[p], NEW d \in decidedDeps[order[p][i]]
               PROVE  \E j \in DOMAIN order[p] :
                         /\ order[p][j] = d
                         /\ j < i \/ Reaches(decidedDeps, Cmd, d, order[p][i])
    BY DEF DependencyFirst
  <2> DEFINE s == order[p]
  <2>1. s \in Seq(Cmd) /\ s[i] \in Cmd /\ d \in Cmd /\ s[i] \in Range(s)
    BY DEF TypeOK, Range
  <2>2. d \in Range(s)
    BY <2>1 DEF OrderInv, OrderSound, ClosedIn
  <2>3. PICK j \in DOMAIN s : s[j] = d
    BY <2>2 DEF Range
  <2>4. Reaches(decidedDeps, Cmd, s[i], d)
    BY <2>1 DEF Reaches, ClosedIn
  <2>5. DOMAIN s \subseteq Nat
    BY <2>1
  <2>6. CASE j < i
    BY <2>3, <2>6
  <2>7. CASE i = j
    BY <2>3, <2>4, <2>7
  <2>8. CASE i < j
    BY <2>3, <2>4, <2>8 DEF OrderInv, OrderSound
  <2> QED
    BY <2>5, <2>6, <2>7, <2>8
<1> QED
  BY <1>1, OrderInvariant, PTL

-----------------------------------------------------------------------------
\* A set of numbers has a least one.
LEMMA LeastNumber ==
    ASSUME NEW T \in SUBSET Nat, T # {}
    PROVE  \E x \in T : \A y \in T : x <= y
<1>1. IsWellFoundedOn(OpToRel(<, Nat), Nat)
  BY NatLessThanWellFounded
<1>2. PICK x \in T : \A y \in T : <<y, x>> \notin OpToRel(<, Nat)
  BY <1>1, WFMin
<1>3. \A y \in T : ~(y < x)
  BY <1>2 DEF OpToRel
<1> QED
  BY <1>3

\* Induction up to n.
LEMMA UpTo ==
    ASSUME NEW n \in Nat, NEW S, 0 \in S, \A k \in 1 .. n : k - 1 \in S => k \in S
    PROVE  \A k \in 0 .. n : k \in S
<1> DEFINE Bad == {k \in Nat : k <= n /\ k \notin S}
<1> SUFFICES ASSUME Bad # {} PROVE FALSE
  OBVIOUS
<1>1. PICK k \in Bad : \A j \in Bad : k <= j
  BY LeastNumber
<1>2. k \in 1 .. n /\ k - 1 \in Nat /\ k - 1 <= n /\ ~(k <= k - 1)
  BY <1>1
<1>3. k - 1 \notin Bad
  BY <1>1, <1>2
<1> QED
  BY <1>1, <1>2, <1>3

-----------------------------------------------------------------------------
\* Loops.

\* The function that defines a loop exists.
LEMMA RepeatSteps ==
    ASSUME NEW n \in Nat, NEW f, NEW s
    PROVE  \E g : /\ g[0] = s /\ Repeat(f, n, s) = g[n]
                  /\ \A k \in 1 .. n : g[k] = f[k][g[k - 1]]
<1> DEFINE Step(L, k) == IF k = 0 THEN s ELSE f[k][L[k - 1]]
           F(m, L) == [k \in 0 .. m |-> Step(L, k)]
           Has == {m \in Nat : \E L : L = F(m, L)}
<1>a. \A L, M, k : (k # 0 => L[k - 1] = M[k - 1]) => Step(L, k) = Step(M, k)
  OBVIOUS
<1>b. \A L : Step(L, 0) = s /\ \A k : k # 0 => Step(L, k) = f[k][L[k - 1]]
  OBVIOUS
<1>c. \A L : Repeat(f, n, s) = (CHOOSE M : M = F(n, M))[n]
  BY DEF Repeat
<1> HIDE DEF Step
<1>1. 0 \in Has
  <2> DEFINE L == [k \in 0 .. 0 |-> s]
  <2>0. \A k \in 0 .. 0 : k = 0
    OBVIOUS
  <2>1. \A k \in 0 .. 0 : s = Step(L, k)
    BY <1>b, <2>0, Zenon
  <2>2. L = F(0, L)
    BY <2>1
  <2> HIDE DEF L
  <2> QED
    BY <2>2
<1>2. ASSUME NEW m \in 1 .. n, m - 1 \in Has PROVE m \in Has
  <2>1. PICK L : L = F(m - 1, L)
    BY <1>2
  <2> DEFINE M == [k \in 0 .. m |-> IF k = m THEN Step(L, m) ELSE L[k]]
  <2>2. ASSUME NEW k \in 0 .. m PROVE M[k] = Step(M, k)
    <3>1. k # 0 => M[k - 1] = L[k - 1]
      OBVIOUS
    <3>2. Step(M, k) = Step(L, k)
      BY <1>a, <3>1
    <3>3. CASE k = m
      BY <3>2, <3>3
    <3>4. CASE k # m
      <4>1. k \in 0 .. m - 1 /\ M[k] = L[k]
        BY <3>4
      <4>2. L[k] = Step(L, k)
        BY <2>1, <4>1
      <4> QED
        BY <3>2, <4>1, <4>2
    <3> QED
      BY <3>3, <3>4
  <2>3. M = F(m, M)
    BY <2>2
  <2> HIDE DEF M
  <2>4. m \in Nat /\ \E K : K = F(m, K)
    BY <2>3
  <2> QED
    BY <2>4
<1> HIDE DEF Has
<1>3. \A k \in 0 .. n : k \in Has
  BY <1>1, <1>2, UpTo
<1>4. \E L : L = F(n, L)
  BY <1>3 DEF Has
<1> DEFINE g == CHOOSE L : L = F(n, L)
<1>5. g = F(n, g) /\ Repeat(f, n, s) = g[n]
  BY <1>c, <1>4
<1> HIDE DEF g
<1>6. \A k \in 0 .. n : g[k] = Step(g, k)
  BY <1>5
<1>7. g[0] = s
  <2>1. g[0] = Step(g, 0)
    BY <1>6
  <2> QED
    BY <1>b, <2>1
<1>8. ASSUME NEW k \in 1 .. n PROVE g[k] = f[k][g[k - 1]]
  <2>1. k \in 0 .. n /\ k # 0
    OBVIOUS
  <2>2. g[k] = Step(g, k)
    BY <1>6, <2>1
  <2> QED
    BY <1>b, <2>1, <2>2
<1>9. /\ g[0] = s /\ Repeat(f, n, s) = g[n]
      /\ \A k \in 1 .. n : g[k] = f[k][g[k - 1]]
  BY <1>5, <1>7, <1>8
<1> QED
  BY <1>9

\* What a loop keeps; Good has pairs of a number of steps and a value.
LEMMA RepeatKeeps ==
    ASSUME NEW n \in Nat, NEW f, NEW s, NEW Good, <<0, s>> \in Good,
           \A k \in 1 .. n : \A t : <<k - 1, t>> \in Good => <<k, f[k][t]>> \in Good
    PROVE  <<n, Repeat(f, n, s)>> \in Good
<1>1. PICK g : /\ g[0] = s /\ Repeat(f, n, s) = g[n]
               /\ \A k \in 1 .. n : g[k] = f[k][g[k - 1]]
  BY RepeatSteps
<1> DEFINE S == {k \in Nat : <<k, g[k]>> \in Good}
<1>2. 0 \in S
  BY <1>1
<1>3. ASSUME NEW k \in 1 .. n, k - 1 \in S PROVE k \in S
  <2>1. <<k - 1, g[k - 1]>> \in Good
    BY <1>3
  <2>2. <<k, f[k][g[k - 1]]>> \in Good /\ g[k] = f[k][g[k - 1]]
    BY <1>1, <2>1
  <2>3. k \in Nat /\ <<k, g[k]>> \in Good
    BY <2>2
  <2> QED
    BY <2>3, Zenon
<1> HIDE DEF S
<1>4. \A k \in 0 .. n : k \in S
  BY <1>2, <1>3, UpTo
<1>5. n \in S
  <2>1. n \in 0 .. n
    OBVIOUS
  <2> QED
    BY <1>4, <2>1
<1> QED
  BY <1>1, <1>5 DEF S

\* Finitely many numbers have an ascending order.
LEMMA AscendingOrder ==
    ASSUME NEW S \in SUBSET Nat, IsFiniteSet(S)
    PROVE  /\ SortedById(S) \in [1 .. Cardinality(S) -> S]
           /\ \A i, j \in 1 .. Cardinality(S) : i < j => SortedById(S)[i] < SortedById(S)[j]
<1> DEFINE Sorts(s, T) == /\ s \in [1 .. Cardinality(T) -> T]
                          /\ \A i, j \in 1 .. Cardinality(T) : i < j => s[i] < s[j]
           Has == {k \in Nat : \A T \in SUBSET S : Cardinality(T) = k => \E s : Sorts(s, T)}
<1>1. \A T \in SUBSET S : IsFiniteSet(T) /\ Cardinality(T) \in Nat
  BY FS_Subset, FS_CardinalityType
<1>2. 0 \in Has
  <2> SUFFICES ASSUME NEW T \in SUBSET S, Cardinality(T) = 0 PROVE \E s : Sorts(s, T)
    OBVIOUS
  <2>1. T = {}
    BY <1>1, FS_EmptySet
  <2> DEFINE s == [i \in 1 .. 0 |-> 0]
  <2>2. Sorts(s, T)
    BY <2>1
  <2> QED
    BY <2>2
<1>3. ASSUME NEW k \in 1 .. Cardinality(S), k - 1 \in Has PROVE k \in Has
  <2>0. k \in Nat
    BY <1>1
  <2> SUFFICES ASSUME NEW T \in SUBSET S, Cardinality(T) = k PROVE \E s : Sorts(s, T)
    BY <2>0
  <2>1. T # {}
    BY <1>1, FS_EmptySet
  <2>2. PICK m \in T : \A x \in T : x <= m
    <3> DEFINE U == {b \in Nat : \A x \in T : x <= b}
    <3>1. \A R \in SUBSET S : R # {} => \E b \in R : \A x \in R : x <= b
      <4> DEFINE P == {c \in Nat : \A R \in SUBSET S : Cardinality(R) = c /\ R # {} =>
                                         \E b \in R : \A x \in R : x <= b}
      <4>1. 0 \in P
        BY <1>1, FS_EmptySet
      <4>2. ASSUME NEW c \in 1 .. Cardinality(S), c - 1 \in P PROVE c \in P
        <5> SUFFICES ASSUME NEW R \in SUBSET S, Cardinality(R) = c, R # {}
                     PROVE  \E b \in R : \A x \in R : x <= b
          BY <1>1
        <5>1. PICK y \in R : TRUE
          OBVIOUS
        <5>2. Cardinality(R \ {y}) = c - 1
          BY <1>1, <5>1, FS_RemoveElement
        <5>3. CASE R \ {y} = {}
          BY <5>1, <5>3
        <5>4. CASE R \ {y} # {}
          <6>1. PICK b \in R \ {y} : \A x \in R \ {y} : x <= b
            BY <4>2, <5>2, <5>4
          <6> QED
            BY <5>1, <6>1
        <5> QED
          BY <5>3, <5>4
      <4> HIDE DEF P
      <4>3. \A c \in 0 .. Cardinality(S) : c \in P
        BY <1>1, <4>1, <4>2, UpTo
      <4>4. \A R \in SUBSET S : Cardinality(R) <= Cardinality(S)
        BY FS_Subset
      <4>5. \A R \in SUBSET S : Cardinality(R) \in 0 .. Cardinality(S)
        BY <1>1, <4>4
      <4> QED
        BY <4>3, <4>5 DEF P
    <3> QED
      BY <2>1, <3>1
  <2>3. Cardinality(T \ {m}) = k - 1 /\ T \ {m} \in SUBSET S
    BY <1>1, FS_RemoveElement
  <2>4. PICK r : Sorts(r, T \ {m})
    BY <1>3, <2>3
  <2> DEFINE s == [i \in 1 .. k |-> IF i = k THEN m ELSE r[i]]
  <2>5. /\ r \in [1 .. k - 1 -> T \ {m}]
        /\ \A i, j \in 1 .. k - 1 : i < j => r[i] < r[j]
    BY <2>3, <2>4
  <2>a. \A x \in T \ {m} : x < m
    BY <2>2
  <2>b. s \in [1 .. k -> T] /\ s[k] = m /\ \A i \in 1 .. k : i # k => s[i] = r[i]
    <3>1. \A i \in 1 .. k : i # k => i \in 1 .. k - 1
      BY <2>0
    <3> QED
      BY <2>0, <2>2, <2>5, <3>1
  <2> HIDE DEF s
  <2>6. \A i \in 1 .. k : i # k => i \in 1 .. k - 1 /\ s[i] = r[i] /\ s[i] < m
    <3>1. \A i \in 1 .. k : i # k => i \in 1 .. k - 1
      BY <2>0
    <3> QED
      BY <2>5, <2>a, <2>b, <3>1
  <2>7. s[k] = m /\ s \in [1 .. k -> T]
    BY <2>b
  <2>8. \A i, j \in 1 .. k : i < j => s[i] < s[j]
    <3> SUFFICES ASSUME NEW i \in 1 .. k, NEW j \in 1 .. k, i < j PROVE s[i] < s[j]
      OBVIOUS
    <3>1. i # k
      BY <2>0
    <3>2. CASE j = k
      BY <2>6, <2>7, <3>1, <3>2
    <3>3. CASE j # k
      BY <2>5, <2>6, <3>1, <3>3
    <3> QED
      BY <3>2, <3>3
  <2>9. Sorts(s, T)
    BY <2>7, <2>8
  <2> QED
    BY <2>9
<1>4. \E s : Sorts(s, S)
  <2> HIDE DEF Has
  <2>1. \A k \in 0 .. Cardinality(S) : k \in Has
    BY <1>1, <1>2, <1>3, UpTo
  <2>2. Cardinality(S) \in Has
    BY <1>1, <2>1
  <2> QED
    BY <2>2 DEF Has
<1> QED
  BY <1>4 DEF SortedById

\* A finite set of commands, sorted by id: each once, smaller ids first.
LEMMA SortedOrder ==
    ASSUME NEW S \in SUBSET Nat, IsFiniteSet(S)
    PROVE  LET s == SortedById(S) IN
           /\ s \in Seq(S) /\ Len(s) = Cardinality(S) /\ DOMAIN s = 1 .. Cardinality(S)
           /\ Range(s) = S /\ IsInjective(s)
           /\ \A i, j \in DOMAIN s : i < j => s[i] < s[j]
<1> DEFINE s == SortedById(S)
           n == Cardinality(S)
<1>1. n \in Nat
  BY FS_CardinalityType
<1>2. s \in [1 .. n -> S] /\ \A i, j \in 1 .. n : i < j => s[i] < s[j]
  BY AscendingOrder
<1> HIDE DEF s, n
<1>3. \A i, j \in 1 .. n : s[i] = s[j] => i = j
  <2>1. \A i \in 1 .. n : s[i] \in Nat
    BY <1>2
  <2>2. \A i, j \in 1 .. n : i < j => s[i] # s[j]
    <3> SUFFICES ASSUME NEW i \in 1 .. n, NEW j \in 1 .. n, i < j PROVE s[i] # s[j]
      OBVIOUS
    <3>1. s[i] < s[j]
      BY <1>2
    <3> QED
      BY <2>1, <3>1
  <2> QED
    BY <1>1, <2>2
<1>4. s \in Seq(S) /\ Len(s) = n /\ DOMAIN s = 1 .. n
  BY <1>1, <1>2, IsASeq
<1>5. Range(s) = S
  <2>1. s \in Injection(1 .. n, S)
    BY <1>2, <1>3 DEF Injection, IsInjective
  <2>2. IsFiniteSet(1 .. n) /\ Cardinality(1 .. n) = n
    BY <1>1, FS_Interval
  <2>3. s \in Surjection(1 .. n, S)
    BY <2>1, <2>2, FS_Injection DEF n
  <2> QED
    BY <1>4, <2>3 DEF Surjection, Range
<1>6. IsInjective(s)
  BY <1>3, <1>4 DEF IsInjective
<1> QED
  BY <1>2, <1>4, <1>5, <1>6 DEF s, n

-----------------------------------------------------------------------------
\* Paths.

\* The path of no edges.
LEMMA ReachesSelf ==
    ASSUME NEW G, NEW N, NEW a
    PROVE  Reaches(G, N, a, a)
BY DEF Reaches

\* A path and one more edge.
LEMMA ReachesEdge ==
    ASSUME NEW G, NEW N, NEW a, NEW b, NEW c \in N, Reaches(G, N, a, b), c \in G[b]
    PROVE  Reaches(G, N, a, c)
BY DEF Reaches, ClosedIn

\* A path after a path.
LEMMA ReachesFurther ==
    ASSUME NEW G, NEW N, NEW a, NEW b, NEW c, Reaches(G, N, a, b), Reaches(G, N, b, c)
    PROVE  Reaches(G, N, a, c)
BY DEF Reaches

-----------------------------------------------------------------------------
(***************************************************************************)
(* Tarjan's algorithm.  A state of the search is sound with P, the         *)
(* commands whose call of strongconnect has not returned, when             *)
(*   - indexes are given out in ascending order and ascend on the stack;   *)
(*   - the commands visited are those on the stack and those in a          *)
(*     component, and the dependencies of those not in P are visited;      *)
(*   - components are strongly connected, and dependencies lead to the     *)
(*     same or an earlier one;                                             *)
(*   - from every command on the stack a path leads to one in P below it,  *)
(*     and from every one in P paths lead to those above it.               *)
(***************************************************************************)
Visited(N, s) == {c \in N : s.index[c] # 0}

OnStack(s) == Range(s.stack)

Members(sccs) == UNION {Range(sccs[k]) : k \in DOMAIN sccs}

InSccs(s) == Members(s.sccs)

NumbersSound(N, s) ==
    /\ \A c \in N : s.index[c] < s.counter
    /\ \A i, j \in DOMAIN s.stack : i < j => s.index[s.stack[i]] < s.index[s.stack[j]]

PartsSound(G, N, s, P) ==
    /\ OnStack(s) \cap InSccs(s) = {}
    /\ Visited(N, s) = OnStack(s) \cup InSccs(s)
    /\ \A c \in Visited(N, s) \ P : G[c] \cap N \subseteq Visited(N, s)

SccsSound(G, N, sccs) ==
    /\ \A k, l \in DOMAIN sccs : k # l => Range(sccs[k]) \cap Range(sccs[l]) = {}
    /\ \A k \in DOMAIN sccs : \A a, b \in Range(sccs[k]) : Reaches(G, N, a, b)
    /\ \A k \in DOMAIN sccs : \A a \in Range(sccs[k]) : \A b \in G[a] \cap N :
          \E l \in DOMAIN sccs : l <= k /\ b \in Range(sccs[l])

PathsSound(G, N, s, P) ==
    /\ P \subseteq OnStack(s)
    /\ \A x \in OnStack(s) : \E g \in P : s.index[g] <= s.index[x] /\ Reaches(G, N, x, g)
    /\ \A g \in P : \A x \in OnStack(s) : s.index[g] <= s.index[x] => Reaches(G, N, g, x)

Sound(G, N, s, P) ==
    /\ s \in Visits(N)
    /\ NumbersSound(N, s)
    /\ PartsSound(G, N, s, P)
    /\ SccsSound(G, N, s.sccs)
    /\ PathsSound(G, N, s, P)

\* What a call may have done between s and r.
Extends(N, s, r) ==
    /\ s.counter <= r.counter
    /\ \A c \in N : s.index[c] # 0 => r.index[c] = s.index[c] /\ r.low_link[c] = s.low_link[c]
    /\ \A c \in N : s.index[c] = 0 /\ r.index[c] # 0 => r.index[c] >= s.counter
    /\ OnStack(s) \subseteq OnStack(r)
    /\ InSccs(s) \subseteq InSccs(r)

\* strongconnect(v) may be called in s.
MayConnect(G, N, s, P, v) ==
    /\ Sound(G, N, s, P)
    /\ s.index[v] = 0
    /\ \A g \in P : Reaches(G, N, g, v)

\* low is the least index in s that a dependency of the new part of the
\* stack of t has, or none is less than that of v.
LowSound(G, N, s, t, v, low, rest) ==
    /\ low <= t.index[v]
    /\ low # t.index[v] => \E y \in OnStack(s) : low = s.index[y] /\ Reaches(G, N, v, y)
    /\ \A x \in OnStack(t) \ rest : x \notin OnStack(s) =>
          \A y \in G[x] : y \in OnStack(s) => low <= s.index[y]

\* r is the result of strongconnect(v) in s.
Connected(G, N, s, P, v, r) ==
    /\ Sound(G, N, r, P)
    /\ Extends(N, s, r)
    /\ r.index[v] >= s.counter
    /\ LowSound(G, N, s, r, v, r.low_link[v], {})

-----------------------------------------------------------------------------

\* The parts of a state of the search.
LEMMA VisitType ==
    ASSUME NEW N, NEW s \in Visits(N)
    PROVE  /\ s.index \in [N -> Nat] /\ s.low_link \in [N -> Nat]
           /\ s.stack \in Seq(N) /\ s.counter \in Nat /\ s.sccs \in Seq(Seq(N))
           /\ OnStack(s) \subseteq N /\ InSccs(s) \subseteq N
           /\ DOMAIN s.stack = 1 .. Len(s.stack) /\ Len(s.stack) \in Nat
           /\ DOMAIN s.sccs = 1 .. Len(s.sccs) /\ Len(s.sccs) \in Nat
<1>1. /\ s.index \in [N -> Nat] /\ s.low_link \in [N -> Nat]
      /\ s.stack \in Seq(N) /\ s.counter \in Nat /\ s.sccs \in Seq(Seq(N))
  BY DEF Visits
<1>2. OnStack(s) \subseteq N
  BY <1>1 DEF OnStack, Range
<1>3. \A k \in DOMAIN s.sccs : s.sccs[k] \in Seq(N)
  BY <1>1
<1>4. InSccs(s) \subseteq N
  BY <1>3 DEF InSccs, Members, Range
<1> QED
  BY <1>1, <1>2, <1>4

\* Ranges of the sequences that are built.
LEMMA AppendRange ==
    ASSUME NEW C, NEW q \in Seq(C), NEW e \in C
    PROVE  /\ Append(q, e) \in Seq(C) /\ Range(Append(q, e)) = Range(q) \cup {e}
           /\ DOMAIN Append(q, e) = 1 .. Len(q) + 1
           /\ \A i \in 1 .. Len(q) : Append(q, e)[i] = q[i]
           /\ Append(q, e)[Len(q) + 1] = e
<1>1. Append(q, e) \in Seq(C) /\ DOMAIN Append(q, e) = 1 .. Len(q) + 1
  OBVIOUS
<1>2. \A i \in 1 .. Len(q) : Append(q, e)[i] = q[i]
  OBVIOUS
<1>3. Append(q, e)[Len(q) + 1] = e
  OBVIOUS
<1>4. DOMAIN q = 1 .. Len(q) /\ Len(q) \in Nat
  OBVIOUS
<1>5. \A i \in DOMAIN Append(q, e) : i \in 1 .. Len(q) \/ i = Len(q) + 1
  BY <1>1, <1>4
<1>6. Range(Append(q, e)) \subseteq Range(q) \cup {e}
  BY <1>2, <1>3, <1>4, <1>5 DEF Range
<1>7. Range(q) \subseteq Range(Append(q, e))
  BY <1>1, <1>2, <1>4 DEF Range
<1>8. e \in Range(Append(q, e))
  BY <1>1, <1>3, <1>4 DEF Range
<1> QED
  BY <1>1, <1>2, <1>3, <1>6, <1>7, <1>8

\* What a call of strongconnect changes first.
LEMMA OpenFields ==
    ASSUME NEW N, NEW s \in Visits(N), NEW v \in N
    PROVE  /\ Open(s, v) \in Visits(N)
           /\ Open(s, v).index = [s.index EXCEPT ![v] = s.counter]
           /\ Open(s, v).low_link = [s.low_link EXCEPT ![v] = s.counter]
           /\ Open(s, v).stack = Append(s.stack, v)
           /\ Open(s, v).counter = s.counter + 1
           /\ Open(s, v).sccs = s.sccs
<1> DEFINE i == [s.index EXCEPT ![v] = s.counter]
           l == [s.low_link EXCEPT ![v] = s.counter]
           q == Append(s.stack, v)
           r == [index |-> i, low_link |-> l, stack |-> q, counter |-> s.counter + 1,
                 sccs |-> s.sccs]
<1>1. Open(s, v) = r
  BY DEF Open
<1>2. i \in [N -> Nat] /\ l \in [N -> Nat] /\ q \in Seq(N) /\ s.counter + 1 \in Nat
      /\ s.sccs \in Seq(Seq(N))
  BY VisitType, AppendRange
<1> HIDE DEF i, l, q
<1>3. r \in Visits(N)
  BY <1>2 DEF Visits
<1> QED
  BY <1>1, <1>3 DEF i, l, q

\* Lowering low_link[v] changes nothing else.
LEMMA LowerFields ==
    ASSUME NEW N, NEW s \in Visits(N), NEW v \in N, NEW n \in Nat
    PROVE  /\ Lower(s, v, n) \in Visits(N)
           /\ Lower(s, v, n).index = s.index
           /\ Lower(s, v, n).low_link = [s.low_link EXCEPT ![v] = Smaller(s.low_link[v], n)]
           /\ Lower(s, v, n).stack = s.stack
           /\ Lower(s, v, n).counter = s.counter
           /\ Lower(s, v, n).sccs = s.sccs
BY DEF Lower, Visits, Smaller

\* Nor does it matter to the soundness of the search.
LEMMA LowerSound ==
    ASSUME NEW G, NEW N, NEW s, NEW P, NEW v \in N, NEW n \in Nat, Sound(G, N, s, P)
    PROVE  Sound(G, N, Lower(s, v, n), P)
<1> DEFINE t == Lower(s, v, n)
<1>1. s \in Visits(N)
  BY DEF Sound
<1>2. /\ t \in Visits(N) /\ t.index = s.index /\ t.stack = s.stack
      /\ t.counter = s.counter /\ t.sccs = s.sccs
  <2>1. /\ Lower(s, v, n) \in Visits(N)
        /\ Lower(s, v, n).index = s.index
        /\ Lower(s, v, n).low_link = [s.low_link EXCEPT ![v] = Smaller(s.low_link[v], n)]
        /\ Lower(s, v, n).stack = s.stack
        /\ Lower(s, v, n).counter = s.counter
        /\ Lower(s, v, n).sccs = s.sccs
    BY <1>1, LowerFields
  <2> QED
    BY <2>1
<1> HIDE DEF t
<1>3. NumbersSound(N, t)
  BY <1>2 DEF Sound, NumbersSound
<1>4. OnStack(t) = OnStack(s) /\ InSccs(t) = InSccs(s) /\ Visited(N, t) = Visited(N, s)
  BY <1>2 DEF OnStack, InSccs, Visited
<1>5. PartsSound(G, N, t, P)
  BY <1>4 DEF Sound, PartsSound
<1>6. PathsSound(G, N, t, P)
  BY <1>2, <1>4 DEF Sound, PathsSound
<1>7. Sound(G, N, t, P)
  BY <1>2, <1>3, <1>5, <1>6 DEF Sound
<1> QED
  BY <1>7 DEF t

(***************************************************************************)
(* In the call of strongconnect(v) from s, after the dependencies in D.    *)
(***************************************************************************)
Visiting(G, N, s, P, v, D, t) ==
    /\ Sound(G, N, t, P \cup {v})
    /\ Extends(N, s, t)
    /\ t.index[v] = s.counter
    /\ LowSound(G, N, s, t, v, t.low_link[v], {v})
    /\ \A d \in D : t.index[d] # 0 /\ (d \in OnStack(s) => t.low_link[v] <= s.index[d])

\* When strongconnect(v) begins, v is in progress and none of its
\* dependencies looked at.
LEMMA OpenVisiting ==
    ASSUME NEW G, NEW N, NEW s, NEW P, NEW v \in N, MayConnect(G, N, s, P, v)
    PROVE  Visiting(G, N, s, P, v, {}, Open(s, v))
<1> DEFINE t == Open(s, v)
<1>1. s \in Visits(N) /\ s.index[v] = 0 /\ \A g \in P : Reaches(G, N, g, v)
  BY DEF MayConnect, Sound
<1>2. /\ s.index \in [N -> Nat] /\ s.low_link \in [N -> Nat]
      /\ s.stack \in Seq(N) /\ s.counter \in Nat
      /\ OnStack(s) \subseteq N /\ DOMAIN s.stack = 1 .. Len(s.stack) /\ Len(s.stack) \in Nat
  BY <1>1, VisitType
<1>3. \A c \in N : s.index[c] < s.counter
  BY DEF MayConnect, Sound, NumbersSound
<1>4. s.counter # 0
  BY <1>1, <1>2, <1>3
<1>5. /\ t \in Visits(N)
      /\ t.index = [s.index EXCEPT ![v] = s.counter]
      /\ t.low_link = [s.low_link EXCEPT ![v] = s.counter]
      /\ t.stack = Append(s.stack, v)
      /\ t.counter = s.counter + 1
      /\ t.sccs = s.sccs
  BY <1>1, OpenFields
<1> HIDE DEF t
<1>6. /\ t.index[v] = s.counter /\ t.low_link[v] = s.counter
      /\ \A c \in N : c # v => t.index[c] = s.index[c] /\ t.low_link[c] = s.low_link[c]
  BY <1>2, <1>5
<1>7. /\ Range(Append(s.stack, v)) = Range(s.stack) \cup {v}
      /\ DOMAIN Append(s.stack, v) = 1 .. Len(s.stack) + 1
      /\ \A i \in 1 .. Len(s.stack) : Append(s.stack, v)[i] = s.stack[i]
      /\ Append(s.stack, v)[Len(s.stack) + 1] = v
  BY <1>2, AppendRange
<1>8. /\ OnStack(t) = OnStack(s) \cup {v}
      /\ DOMAIN t.stack = 1 .. Len(s.stack) + 1
      /\ \A i \in 1 .. Len(s.stack) : t.stack[i] = s.stack[i]
      /\ t.stack[Len(s.stack) + 1] = v
  BY <1>5, <1>7 DEF OnStack
<1>9. v \notin OnStack(s) /\ InSccs(t) = InSccs(s)
  BY <1>1, <1>5 DEF MayConnect, Sound, PartsSound, Visited, InSccs
<1>10. v \notin InSccs(s)
  BY <1>1 DEF MayConnect, Sound, PartsSound, Visited
<1>11. Visited(N, t) = Visited(N, s) \cup {v}
  BY <1>4, <1>6 DEF Visited
<1>12. NumbersSound(N, t)
  <2>1. \A c \in N : t.index[c] < t.counter
    BY <1>2, <1>3, <1>5, <1>6
  <2>2. ASSUME NEW i \in DOMAIN t.stack, NEW j \in DOMAIN t.stack, i < j
        PROVE  t.index[t.stack[i]] < t.index[t.stack[j]]
    <3>1. i \in 1 .. Len(s.stack) /\ j \in 1 .. Len(s.stack) + 1
      BY <1>2, <1>8, <2>2
    <3>2. s.stack[i] \in N /\ s.stack[i] # v /\ t.stack[i] = s.stack[i]
      BY <1>2, <1>8, <1>9, <3>1 DEF OnStack, Range
    <3>3. CASE j = Len(s.stack) + 1
      BY <1>2, <1>3, <1>6, <1>8, <3>2, <3>3
    <3>4. CASE j # Len(s.stack) + 1
      <4>1. j \in 1 .. Len(s.stack)
        BY <1>2, <3>1, <3>4
      <4>2. s.stack[j] \in N /\ s.stack[j] # v /\ t.stack[j] = s.stack[j]
        BY <1>2, <1>8, <1>9, <4>1 DEF OnStack, Range
      <4>3. s.index[s.stack[i]] < s.index[s.stack[j]]
        BY <1>2, <2>2, <3>1, <4>1 DEF MayConnect, Sound, NumbersSound
      <4> QED
        BY <1>6, <3>2, <4>2, <4>3
    <3> QED
      BY <3>3, <3>4
  <2> QED
    BY <2>1, <2>2 DEF NumbersSound
<1>13. PartsSound(G, N, t, P \cup {v})
  BY <1>8, <1>9, <1>10, <1>11 DEF MayConnect, Sound, PartsSound
<1>14. SccsSound(G, N, t.sccs)
  BY <1>5 DEF MayConnect, Sound
<1>15. PathsSound(G, N, t, P \cup {v})
  <2>1. P \subseteq OnStack(s)
    BY DEF MayConnect, Sound, PathsSound
  <2>2. Reaches(G, N, v, v)
    BY ReachesSelf
  <2>3. ASSUME NEW x \in OnStack(t)
        PROVE  \E g \in P \cup {v} : t.index[g] <= t.index[x] /\ Reaches(G, N, x, g)
    <3>1. CASE x = v
      BY <1>2, <1>6, <2>2, <3>1
    <3>2. CASE x # v
      <4>1. x \in OnStack(s)
        BY <1>8, <3>2
      <4>2. PICK g \in P : s.index[g] <= s.index[x] /\ Reaches(G, N, x, g)
        BY <4>1 DEF MayConnect, Sound, PathsSound
      <4>3. g # v /\ g \in N /\ x \in N
        BY <1>2, <1>9, <2>1, <4>1
      <4> QED
        BY <1>6, <3>2, <4>2, <4>3
    <3> QED
      BY <3>1, <3>2
  <2>4. ASSUME NEW g \in P \cup {v}, NEW x \in OnStack(t), t.index[g] <= t.index[x]
        PROVE  Reaches(G, N, g, x)
    <3>1. CASE x = v
      BY <1>1, <2>2, <3>1
    <3>2. CASE x # v
      <4>1. x \in OnStack(s) /\ x \in N /\ t.index[x] = s.index[x]
        BY <1>2, <1>6, <1>8, <3>2
      <4>2. g # v
        BY <1>2, <1>3, <1>6, <2>4, <4>1
      <4>3. g \in P /\ g \in N /\ t.index[g] = s.index[g]
        BY <1>2, <1>6, <2>1, <4>2
      <4> QED
        BY <2>4, <4>1, <4>3 DEF MayConnect, Sound, PathsSound
    <3> QED
      BY <3>1, <3>2
  <2>5. P \cup {v} \subseteq OnStack(t)
    BY <1>8, <2>1
  <2> QED
    BY <2>3, <2>4, <2>5 DEF PathsSound
<1>16. Sound(G, N, t, P \cup {v})
  BY <1>5, <1>12, <1>13, <1>14, <1>15 DEF Sound
<1>17. Extends(N, s, t)
  <2>1. \A c \in N : s.index[c] # 0 => t.index[c] = s.index[c] /\ t.low_link[c] = s.low_link[c]
    BY <1>1, <1>6
  <2>2. \A c \in N : s.index[c] = 0 /\ t.index[c] # 0 => t.index[c] >= s.counter
    BY <1>2, <1>6
  <2>3. s.counter <= t.counter
    BY <1>2, <1>5
  <2> QED
    BY <1>8, <1>9, <2>1, <2>2, <2>3 DEF Extends
<1>18. LowSound(G, N, s, t, v, t.low_link[v], {v})
  <2>1. \A x \in OnStack(t) \ {v} : x \in OnStack(s)
    BY <1>8
  <2>2. t.low_link[v] <= t.index[v] /\ t.low_link[v] = t.index[v]
    BY <1>2, <1>6
  <2> QED
    BY <2>1, <2>2 DEF LowSound
<1>19. Visiting(G, N, s, P, v, {}, t)
  BY <1>6, <1>16, <1>17, <1>18 DEF Visiting
<1> QED
  BY <1>19 DEF t

\* Lowering low_link[v] to m keeps the call in order when m is a fit value.
LEMMA LowerVisiting ==
    ASSUME NEW G, NEW N, NEW s, NEW P, NEW v \in N, NEW D, NEW t, NEW n \in Nat, NEW w,
           s \in Visits(N), s.index[v] = 0,
           Sound(G, N, t, P \cup {v}), Extends(N, s, t), t.index[v] = s.counter,
           LowSound(G, N, s, t, v, Smaller(t.low_link[v], n), {v}),
           \A d \in D \cup {w} : /\ t.index[d] # 0
                                 /\ d \in OnStack(s) =>
                                        Smaller(t.low_link[v], n) <= s.index[d]
    PROVE  Visiting(G, N, s, P, v, D \cup {w}, Lower(t, v, n))
<1> DEFINE r == Lower(t, v, n)
           m == Smaller(t.low_link[v], n)
<1>1. t \in Visits(N)
  BY DEF Sound
<1>2. /\ r \in Visits(N)
      /\ r.index = t.index
      /\ r.low_link = [t.low_link EXCEPT ![v] = m]
      /\ r.stack = t.stack
      /\ r.counter = t.counter
      /\ r.sccs = t.sccs
  <2>1. /\ Lower(t, v, n) \in Visits(N)
        /\ Lower(t, v, n).index = t.index
        /\ Lower(t, v, n).low_link = [t.low_link EXCEPT ![v] = Smaller(t.low_link[v], n)]
        /\ Lower(t, v, n).stack = t.stack
        /\ Lower(t, v, n).counter = t.counter
        /\ Lower(t, v, n).sccs = t.sccs
    BY <1>1, LowerFields
  <2> QED
    BY <2>1
<1>3. Sound(G, N, r, P \cup {v})
  BY LowerSound
<1>4. LowSound(G, N, s, t, v, m, {v}) /\ \A d \in D \cup {w} :
          t.index[d] # 0 /\ (d \in OnStack(s) => m <= s.index[d])
  OBVIOUS
<1> HIDE DEF r, m
<1>5. t.low_link \in [N -> Nat]
  BY <1>1, VisitType
<1>6. r.low_link[v] = m /\ \A c \in N : c # v => r.low_link[c] = t.low_link[c]
  BY <1>2, <1>5
<1>7. OnStack(r) = OnStack(t) /\ InSccs(r) = InSccs(t)
  BY <1>2 DEF OnStack, InSccs
<1>8. Extends(N, s, r)
  <2>1. \A c \in N : s.index[c] # 0 => c # v
    OBVIOUS
  <2> QED
    BY <1>2, <1>6, <1>7, <2>1 DEF Extends
<1>9. LowSound(G, N, s, r, v, r.low_link[v], {v})
  BY <1>2, <1>4, <1>6, <1>7 DEF LowSound
<1>10. \A d \in D \cup {w} : r.index[d] # 0 /\ (d \in OnStack(s) => r.low_link[v] <= s.index[d])
  BY <1>2, <1>4, <1>6
<1>11. Visiting(G, N, s, P, v, D \cup {w}, r)
  BY <1>2, <1>3, <1>8, <1>9, <1>10 DEF Visiting
<1> QED
  BY <1>11 DEF r

\* One extension after another.
LEMMA ExtendsFurther ==
    ASSUME NEW N, NEW s \in Visits(N), NEW t \in Visits(N), NEW r \in Visits(N),
           Extends(N, s, t), Extends(N, t, r)
    PROVE  Extends(N, s, r)
<1>1. s.counter \in Nat /\ t.counter \in Nat /\ r.counter \in Nat
  BY VisitType
<1>2. /\ s.index \in [N -> Nat] /\ t.index \in [N -> Nat] /\ r.index \in [N -> Nat]
  BY VisitType
<1>3. s.counter <= r.counter
  BY <1>1 DEF Extends
<1>4. \A c \in N : s.index[c] # 0 => r.index[c] = s.index[c] /\ r.low_link[c] = s.low_link[c]
  BY DEF Extends
<1>5. ASSUME NEW c \in N, s.index[c] = 0, r.index[c] # 0
      PROVE  r.index[c] >= s.counter
  <2>1. CASE t.index[c] = 0
    <3>1. r.index[c] >= t.counter /\ t.counter >= s.counter
      BY <1>1, <1>5, <2>1 DEF Extends
    <3> QED
      BY <1>1, <1>2, <3>1
  <2>2. CASE t.index[c] # 0
    BY <1>5, <2>2 DEF Extends
  <2> QED
    BY <2>1, <2>2
<1>6. OnStack(s) \subseteq OnStack(r) /\ InSccs(s) \subseteq InSccs(r)
  BY DEF Extends
<1> QED
  BY <1>3, <1>4, <1>5, <1>6 DEF Extends

\* One dependency w of v.
LEMMA VisitDepVisiting ==
    ASSUME NEW G, NEW N, NEW s, NEW P, NEW v \in N, NEW D \in SUBSET N, NEW t, NEW connect,
           NEW w \in G[v], w \in N,
           MayConnect(G, N, s, P, v), Visiting(G, N, s, P, v, D, t),
           MayConnect(G, N, t, P \cup {v}, w) =>
               Connected(G, N, t, P \cup {v}, w, connect[w][t])
    PROVE  Visiting(G, N, s, P, v, D \cup {w}, VisitDep(connect, t, v, w))
<1>1. s \in Visits(N) /\ s.index[v] = 0 /\ \A g \in P : Reaches(G, N, g, v)
  BY DEF MayConnect, Sound
<1>2. t \in Visits(N) /\ Sound(G, N, t, P \cup {v}) /\ Extends(N, s, t)
  BY DEF Visiting, Sound
<1>3. /\ s.index \in [N -> Nat] /\ s.low_link \in [N -> Nat] /\ s.counter \in Nat
      /\ OnStack(s) \subseteq N
  BY <1>1, VisitType
<1>4. /\ t.index \in [N -> Nat] /\ t.low_link \in [N -> Nat] /\ t.counter \in Nat
      /\ OnStack(t) \subseteq N
  BY <1>2, VisitType
<1>5. \A c \in OnStack(s) : s.index[c] # 0 /\ s.index[c] < s.counter /\ c # v
  BY <1>1, <1>3 DEF MayConnect, Sound, PartsSound, NumbersSound, Visited
<1>6. \A c \in OnStack(s) : t.index[c] = s.index[c] /\ c \in OnStack(t)
  BY <1>2, <1>3, <1>5 DEF Extends
<1>7. t.index[v] = s.counter /\ LowSound(G, N, s, t, v, t.low_link[v], {v})
  BY DEF Visiting
<1>8. \A d \in D : t.index[d] # 0 /\ (d \in OnStack(s) => t.low_link[v] <= s.index[d])
  BY DEF Visiting
<1>9. Reaches(G, N, v, w)
  BY ReachesSelf, ReachesEdge
<1>10. v \in OnStack(t)
  BY <1>2 DEF Sound, PathsSound
<1>11. CASE t.index[w] # 0 /\ w \notin OnStack(t)
  <2>1. VisitDep(connect, t, v, w) = t
    BY <1>11 DEF VisitDep, MergeVisited, OnStack
  <2>2. w \notin OnStack(s)
    BY <1>6, <1>11
  <2>3. \A d \in D \cup {w} : t.index[d] # 0 /\ (d \in OnStack(s) => t.low_link[v] <= s.index[d])
    BY <1>8, <1>11, <2>2
  <2> QED
    BY <1>2, <1>7, <2>1, <2>3 DEF Visiting
<1>12. CASE t.index[w] # 0 /\ w \in OnStack(t)
  <2> DEFINE n == t.index[w]
             m == Smaller(t.low_link[v], n)
  <2>1. VisitDep(connect, t, v, w) = Lower(t, v, n)
    BY <1>12 DEF VisitDep, MergeVisited, OnStack
  <2>2. n \in Nat /\ t.low_link[v] \in Nat
    BY <1>4
  <2>3. m \in Nat /\ m <= t.low_link[v] /\ m <= n /\ (m = t.low_link[v] \/ m = n)
    BY <2>2 DEF Smaller
  <2>4. n < s.counter => w \in OnStack(s)
    <3> SUFFICES ASSUME n < s.counter, w \notin OnStack(s) PROVE FALSE
      OBVIOUS
    <3>1. CASE s.index[w] = 0
      <4>1. t.index[w] >= s.counter
        BY <1>2, <1>12, <3>1 DEF Extends
      <4> QED
        BY <1>3, <1>4, <4>1
    <3>2. CASE s.index[w] # 0
      <4>1. w \in InSccs(s)
        BY <3>2 DEF MayConnect, Sound, PartsSound, Visited
      <4>2. w \in InSccs(t)
        BY <1>2, <4>1 DEF Extends
      <4> QED
        BY <1>2, <1>12, <4>2 DEF Sound, PartsSound
    <3> QED
      BY <3>1, <3>2
  <2> HIDE DEF m
  <2>5. LowSound(G, N, s, t, v, m, {v})
    <3>1. m <= t.index[v]
      BY <1>4, <1>7, <2>2, <2>3 DEF LowSound
    <3>2. ASSUME m # t.index[v]
          PROVE  \E y \in OnStack(s) : m = s.index[y] /\ Reaches(G, N, v, y)
      <4>1. CASE m = t.low_link[v]
        BY <1>7, <3>2, <4>1 DEF LowSound
      <4>2. CASE m = n
        <5>1. n < s.counter
          BY <1>3, <1>7, <2>2, <3>1, <3>2, <4>2
        <5>2. w \in OnStack(s) /\ n = s.index[w]
          BY <1>6, <2>4, <5>1
        <5> QED
          BY <1>9, <4>2, <5>2
      <4> QED
        BY <2>3, <4>1, <4>2
    <3>3. ASSUME NEW x \in OnStack(t) \ {v}, x \notin OnStack(s), NEW y \in G[x], y \in OnStack(s)
          PROVE  m <= s.index[y]
      <4>1. t.low_link[v] <= s.index[y] /\ s.index[y] \in Nat
        BY <1>3, <1>7, <3>3 DEF LowSound
      <4> QED
        BY <2>2, <2>3, <4>1
    <3> QED
      BY <3>1, <3>2, <3>3 DEF LowSound
  <2>6. ASSUME NEW d \in D \cup {w}
        PROVE  t.index[d] # 0 /\ (d \in OnStack(s) => m <= s.index[d])
    <3>1. CASE d = w
      BY <1>6, <1>12, <2>3, <3>1
    <3>2. CASE d \in D
      <4>1. t.index[d] # 0 /\ (d \in OnStack(s) => t.low_link[v] <= s.index[d])
        BY <1>8, <3>2
      <4>2. d \in OnStack(s) => s.index[d] \in Nat
        BY <1>3
      <4> QED
        BY <2>2, <2>3, <4>1, <4>2
    <3> QED
      BY <3>1, <3>2
  <2>7. LowSound(G, N, s, t, v, Smaller(t.low_link[v], n), {v})
    BY <2>5 DEF m
  <2>8. \A d \in D \cup {w} : /\ t.index[d] # 0
                              /\ d \in OnStack(s) => Smaller(t.low_link[v], n) <= s.index[d]
    BY <2>6 DEF m
  <2> HIDE DEF n
  <2>9. Visiting(G, N, s, P, v, D \cup {w}, Lower(t, v, n))
    BY <1>1, <1>2, <1>7, <2>2, <2>7, <2>8, LowerVisiting
  <2> QED
    BY <2>1, <2>9
<1>13. CASE t.index[w] = 0
  <2> DEFINE r == connect[w][t]
             n == r.low_link[w]
             m == Smaller(r.low_link[v], n)
  <2>1. VisitDep(connect, t, v, w) = Lower(r, v, n)
    BY <1>13 DEF VisitDep
  <2>2. MayConnect(G, N, t, P \cup {v}, w)
    <3>1. \A g \in P \cup {v} : Reaches(G, N, g, w)
      BY <1>1, ReachesEdge, ReachesSelf
    <3> QED
      BY <1>2, <1>13, <3>1 DEF MayConnect
  <2>3. Connected(G, N, t, P \cup {v}, w, r)
    BY <2>2
  <2> HIDE DEF r
  <2>4. r \in Visits(N) /\ Sound(G, N, r, P \cup {v}) /\ Extends(N, t, r)
    BY <2>3 DEF Connected, Sound
  <2>5. r.index \in [N -> Nat] /\ r.low_link \in [N -> Nat] /\ OnStack(r) \subseteq N
    BY <2>4, VisitType
  <2>6. Extends(N, s, r)
    BY <1>1, <1>2, <2>4, ExtendsFurther
  <2>7. t.index[v] # 0
    BY <1>2, <1>10 DEF Sound, PartsSound, Visited
  <2>8. r.index[v] = s.counter /\ r.low_link[v] = t.low_link[v]
    BY <1>7, <2>4, <2>7 DEF Extends
  <2>9. n \in Nat /\ r.low_link[v] \in Nat
    BY <2>5
  <2>10. m \in Nat /\ m <= r.low_link[v] /\ m <= n /\ (m = r.low_link[v] \/ m = n)
    BY <2>9 DEF Smaller
  <2>11. r.index[w] >= t.counter /\ LowSound(G, N, t, r, w, n, {})
    BY <2>3 DEF Connected
  <2>12. s.counter < t.counter
    BY <1>2, <1>7 DEF Sound, NumbersSound
  <2> HIDE DEF m, n
  <2>13. LowSound(G, N, s, r, v, m, {v})
    <3>1. m <= r.index[v]
      BY <1>3, <1>4, <1>7, <2>8, <2>9, <2>10 DEF LowSound
    <3>2. ASSUME m # r.index[v]
          PROVE  \E y \in OnStack(s) : m = s.index[y] /\ Reaches(G, N, v, y)
      <4>1. CASE m = r.low_link[v]
        <5>1. t.low_link[v] # t.index[v]
          BY <1>7, <2>8, <3>2, <4>1
        <5> QED
          BY <1>7, <2>8, <4>1, <5>1 DEF LowSound
      <4>2. CASE m = n
        <5>1. n < s.counter
          BY <1>3, <2>8, <2>9, <3>1, <3>2, <4>2
        <5>2. n # r.index[w]
          BY <1>3, <1>4, <2>5, <2>9, <2>11, <2>12, <5>1
        <5>3. PICK y \in OnStack(t) : n = t.index[y] /\ Reaches(G, N, w, y)
          BY <2>11, <5>2 DEF LowSound
        <5>4. y \in OnStack(s)
          <6> SUFFICES ASSUME y \notin OnStack(s) PROVE FALSE
            OBVIOUS
          <6>0. y \in N /\ t.index[y] # 0
            BY <1>2, <1>4 DEF Sound, PartsSound, Visited
          <6>1. CASE s.index[y] = 0
            <7>1. t.index[y] >= s.counter
              BY <1>2, <6>0, <6>1 DEF Extends
            <7> QED
              BY <1>3, <1>4, <2>9, <5>1, <5>3, <7>1
          <6>2. CASE s.index[y] # 0
            <7>1. y \in InSccs(s)
              BY <6>0, <6>2 DEF MayConnect, Sound, PartsSound, Visited
            <7>2. y \in InSccs(t)
              BY <1>2, <7>1 DEF Extends
            <7> QED
              BY <1>2, <7>2 DEF Sound, PartsSound
          <6> QED
            BY <6>1, <6>2
        <5>5. n = s.index[y]
          BY <1>6, <5>3, <5>4
        <5>6. Reaches(G, N, v, y)
          BY <1>9, <5>3, ReachesFurther
        <5> QED
          BY <4>2, <5>4, <5>5, <5>6
      <4> QED
        BY <2>10, <4>1, <4>2
    <3>3. ASSUME NEW x \in OnStack(r) \ {v}, x \notin OnStack(s), NEW y \in G[x], y \in OnStack(s)
          PROVE  m <= s.index[y]
      <4>0. s.index[y] \in Nat
        BY <1>3, <3>3
      <4>1. CASE x \in OnStack(t)
        <5>1. t.low_link[v] <= s.index[y]
          BY <1>7, <3>3, <4>1 DEF LowSound
        <5> QED
          BY <2>8, <2>9, <2>10, <4>0, <5>1
      <4>2. CASE x \notin OnStack(t)
        <5>1. y \in OnStack(t) /\ t.index[y] = s.index[y]
          BY <1>6, <3>3
        <5>2. n <= t.index[y]
          BY <2>11, <3>3, <4>2, <5>1 DEF LowSound
        <5> QED
          BY <2>9, <2>10, <4>0, <5>1, <5>2
      <4> QED
        BY <4>1, <4>2
    <3> QED
      BY <3>1, <3>2, <3>3 DEF LowSound
  <2>14. ASSUME NEW d \in D \cup {w}
         PROVE  r.index[d] # 0 /\ (d \in OnStack(s) => m <= s.index[d])
    <3>1. CASE d = w
      <4>1. r.index[w] # 0
        BY <1>3, <1>4, <2>5, <2>11, <2>12
      <4>2. w \notin OnStack(s)
        BY <1>2, <1>6, <1>13 DEF Sound, PartsSound, Visited
      <4> QED
        BY <3>1, <4>1, <4>2
    <3>2. CASE d \in D
      <4>1. t.index[d] # 0 /\ (d \in OnStack(s) => t.low_link[v] <= s.index[d])
        BY <1>8, <3>2
      <4>2. d \in OnStack(s) => s.index[d] \in Nat
        BY <1>3
      <4>3. r.index[d] # 0
        BY <2>4, <4>1 DEF Extends
      <4> QED
        BY <2>8, <2>9, <2>10, <4>1, <4>2, <4>3
    <3> QED
      BY <3>1, <3>2
  <2>15. LowSound(G, N, s, r, v, Smaller(r.low_link[v], n), {v})
    BY <2>13 DEF m
  <2>16. \A d \in D \cup {w} : /\ r.index[d] # 0
                               /\ d \in OnStack(s) => Smaller(r.low_link[v], n) <= s.index[d]
    BY <2>14 DEF m
  <2>17. Visiting(G, N, s, P, v, D \cup {w}, Lower(r, v, n))
    BY <1>1, <2>4, <2>6, <2>8, <2>9, <2>15, <2>16, LowerVisiting
  <2> QED
    BY <2>1, <2>17
<1> QED
  BY <1>11, <1>12, <1>13

\* A sequence is cut in two, and the second part reversed.
LEMMA CutRanges ==
    ASSUME NEW C, NEW q \in Seq(C), NEW i \in 1 .. Len(q)
    PROVE  /\ SubSeq(q, 1, i - 1) \in Seq(C)
           /\ DOMAIN SubSeq(q, 1, i - 1) = 1 .. i - 1
           /\ \A j \in 1 .. i - 1 : SubSeq(q, 1, i - 1)[j] = q[j]
           /\ Reverse(SubSeq(q, i, Len(q))) \in Seq(C)
           /\ Range(Reverse(SubSeq(q, i, Len(q)))) = {q[j] : j \in i .. Len(q)}
<1> DEFINE n == Len(q)
           a == SubSeq(q, 1, i - 1)
           b == SubSeq(q, i, n)
           c == Reverse(b)
           m == n - i + 1
<1>1. n \in Nat /\ i \in Int /\ i - 1 \in Int /\ 1 \in Int /\ 1 <= i /\ i <= n
      /\ \A j \in 1 .. n : q[j] \in C
  OBVIOUS
<1>2. a \in Seq(C) /\ Len(a) = i - 1 /\ \A j \in 1 .. i - 1 : a[j] = q[j]
  <2>1. \A j \in 1 .. i - 1 : q[j] \in C
    BY <1>1
  <2>2. /\ SubSeq(q, 1, i - 1) \in Seq(C)
        /\ Len(SubSeq(q, 1, i - 1)) = IF 1 <= i - 1 THEN (i - 1) - 1 + 1 ELSE 0
        /\ \A j \in 1 .. (i - 1) - 1 + 1 : SubSeq(q, 1, i - 1)[j] = q[1 + j - 1]
    BY <1>1, <2>1, SubSeqProperties
  <2> HIDE DEF n
  <2> QED
    BY <1>1, <2>2
<1>3. b \in Seq(C) /\ Len(b) = m /\ \A j \in 1 .. m : b[j] = q[i + j - 1]
  <2>1. \A j \in i .. n : q[j] \in C
    BY <1>1
  <2>2. /\ SubSeq(q, i, n) \in Seq(C)
        /\ Len(SubSeq(q, i, n)) = IF i <= n THEN n - i + 1 ELSE 0
        /\ \A j \in 1 .. n - i + 1 : SubSeq(q, i, n)[j] = q[i + j - 1]
    BY <1>1, <2>1, SubSeqProperties
  <2> QED
    BY <1>1, <2>2
<1>4. c = [j \in 1 .. Len(b) |-> b[(Len(b) - j) + 1]]
  BY DEF Reverse
<1> HIDE DEF n, a, b, c
<1>5. m \in Nat /\ m >= 1
  BY <1>1
<1>6. \A j \in 1 .. m : (m - j) + 1 \in 1 .. m
  BY <1>5
<1>7. DOMAIN c = 1 .. m /\ \A j \in 1 .. m : c[j] = b[(m - j) + 1]
  BY <1>3, <1>4
<1>8. \A j \in 1 .. m : c[j] = q[n - j + 1] /\ n - j + 1 \in i .. n
  <2> SUFFICES ASSUME NEW j \in 1 .. m PROVE c[j] = q[n - j + 1] /\ n - j + 1 \in i .. n
    OBVIOUS
  <2>1. c[j] = q[i + ((m - j) + 1) - 1]
    BY <1>3, <1>6, <1>7
  <2>2. i + ((m - j) + 1) - 1 = n - j + 1 /\ n - j + 1 \in i .. n
    BY <1>1
  <2> QED
    BY <2>1, <2>2
<1>9. c \in Seq(C)
  <2>1. \A j \in 1 .. m : c[j] \in C
    BY <1>1, <1>8
  <2>2. c \in [1 .. m -> C]
    BY <1>4, <1>3, <2>1, <1>7
  <2> QED
    BY <1>5, <2>2, IsASeq
<1>10. Range(c) = {q[j] : j \in i .. n}
  <2>1. ASSUME NEW x \in Range(c) PROVE x \in {q[j] : j \in i .. n}
    BY <1>7, <1>8, <2>1 DEF Range
  <2>2. ASSUME NEW j \in i .. n PROVE q[j] \in Range(c)
    <3> DEFINE k == n - j + 1
    <3>1. k \in 1 .. m /\ n - k + 1 = j
      BY <1>1
    <3>2. c[k] = q[j]
      BY <1>8, <3>1
    <3> QED
      BY <1>7, <3>1, <3>2 DEF Range
  <2> QED
    BY <2>1, <2>2
<1>11. DOMAIN a = 1 .. i - 1
  BY <1>1, <1>2
<1> QED
  BY <1>2, <1>9, <1>10, <1>11 DEF a, b, c, n

\* What is left when the component of v has been popped.
LEMMA CloseFields ==
    ASSUME NEW N, NEW s \in Visits(N), NumbersSound(N, s), NEW v \in OnStack(s)
    PROVE  LET r == CloseScc(s, v) IN
           /\ r \in Visits(N) /\ NumbersSound(N, r)
           /\ r.index = s.index /\ r.low_link = s.low_link /\ r.counter = s.counter
           /\ OnStack(r) = {x \in OnStack(s) : s.index[x] < s.index[v]}
           /\ \E scc \in Seq(N) :
                 /\ r.sccs = Append(s.sccs, scc)
                 /\ Range(scc) = {x \in OnStack(s) : s.index[v] <= s.index[x]}
<1> DEFINE r == CloseScc(s, v)
           i == CHOOSE j \in DOMAIN s.stack : s.stack[j] = v
           n == Len(s.stack)
           a == SubSeq(s.stack, 1, i - 1)
           scc == Reverse(SubSeq(s.stack, i, n))
<1>1. /\ s.index \in [N -> Nat] /\ s.low_link \in [N -> Nat] /\ s.counter \in Nat
      /\ s.stack \in Seq(N) /\ s.sccs \in Seq(Seq(N))
      /\ DOMAIN s.stack = 1 .. n /\ n \in Nat
  BY VisitType
<1>2. i \in 1 .. n /\ s.stack[i] = v
  BY <1>1 DEF OnStack, Range
<1>3. r = [s EXCEPT !.stack = a, !.sccs = Append(@, scc)]
  BY DEF CloseScc
<1> HIDE DEF i, r
<1>4. /\ a \in Seq(N) /\ DOMAIN a = 1 .. i - 1 /\ \A j \in 1 .. i - 1 : a[j] = s.stack[j]
      /\ scc \in Seq(N) /\ Range(scc) = {s.stack[j] : j \in i .. n}
  BY <1>1, <1>2, CutRanges
<1>5. Append(s.sccs, scc) \in Seq(Seq(N))
  BY <1>1, <1>4, AppendRange
<1> HIDE DEF a, scc
<1>6. /\ r.index = s.index /\ r.low_link = s.low_link /\ r.counter = s.counter
      /\ r.stack = a /\ r.sccs = Append(s.sccs, scc)
  BY <1>3 DEF Visits
<1>7. r \in Visits(N)
  BY <1>3, <1>4, <1>5 DEF Visits
<1>8. \A j, k \in 1 .. n : j < k => s.index[s.stack[j]] < s.index[s.stack[k]]
  BY <1>1 DEF NumbersSound
<1>9. \A j \in 1 .. n : s.stack[j] \in N /\ s.index[s.stack[j]] \in Nat
  BY <1>1
<1> HIDE DEF n
<1>10. \A j \in 1 .. n : s.index[s.stack[j]] < s.index[v] <=> j < i
  <2> SUFFICES ASSUME NEW j \in 1 .. n
               PROVE  s.index[s.stack[j]] < s.index[v] <=> j < i
    OBVIOUS
  <2>1. CASE j < i
    BY <1>2, <1>8, <2>1
  <2>2. CASE j = i
    BY <1>2, <1>9, <2>2
  <2>3. CASE i < j
    <3>1. s.index[v] < s.index[s.stack[j]]
      BY <1>2, <1>8, <2>3
    <3> QED
      BY <1>2, <1>9, <2>3, <3>1
  <2> QED
    BY <1>1, <1>2, <2>1, <2>2, <2>3
<1>11. \A x \in OnStack(s) : \E j \in 1 .. n : x = s.stack[j]
  BY <1>1 DEF OnStack, Range
<1>12. \A j \in 1 .. n : s.stack[j] \in OnStack(s)
  BY <1>1 DEF OnStack, Range
<1>13. OnStack(r) = {x \in OnStack(s) : s.index[x] < s.index[v]}
  <2>1. ASSUME NEW x \in OnStack(r) PROVE x \in OnStack(s) /\ s.index[x] < s.index[v]
    <3>1. PICK j \in 1 .. i - 1 : x = s.stack[j]
      BY <1>4, <1>6 DEF OnStack, Range
    <3>2. j \in 1 .. n /\ j < i
      BY <1>1, <1>2, <3>1
    <3> QED
      BY <1>10, <1>12, <3>1, <3>2
  <2>2. ASSUME NEW x \in OnStack(s), s.index[x] < s.index[v] PROVE x \in OnStack(r)
    <3>1. PICK j \in 1 .. n : x = s.stack[j]
      BY <1>11
    <3>2. j \in 1 .. i - 1
      BY <1>2, <1>10, <2>2, <3>1
    <3> QED
      BY <1>4, <1>6, <3>1, <3>2 DEF OnStack, Range
  <2> QED
    BY <2>1, <2>2
<1>14. Range(scc) = {x \in OnStack(s) : s.index[v] <= s.index[x]}
  <2>1. ASSUME NEW x \in Range(scc) PROVE x \in OnStack(s) /\ s.index[v] <= s.index[x]
    <3>1. PICK j \in i .. n : x = s.stack[j]
      BY <1>4
    <3>2. j \in 1 .. n /\ ~(j < i)
      BY <1>1, <1>2, <3>1
    <3> QED
      BY <1>2, <1>9, <1>10, <1>12, <3>1, <3>2
  <2>2. ASSUME NEW x \in OnStack(s), s.index[v] <= s.index[x] PROVE x \in Range(scc)
    <3>1. PICK j \in 1 .. n : x = s.stack[j]
      BY <1>11
    <3>2. ~(j < i)
      BY <1>2, <1>9, <1>10, <2>2, <3>1
    <3>3. j \in i .. n
      BY <1>1, <1>2, <3>2
    <3> QED
      BY <1>4, <3>1, <3>3
  <2> QED
    BY <2>1, <2>2
<1>15. NumbersSound(N, r)
  <2>1. \A j \in 1 .. i - 1 : j \in 1 .. n /\ r.stack[j] = s.stack[j]
    BY <1>1, <1>2, <1>4, <1>6
  <2>2. DOMAIN r.stack = 1 .. i - 1
    BY <1>4, <1>6
  <2>3. \A j, k \in DOMAIN r.stack : j < k => r.index[r.stack[j]] < r.index[r.stack[k]]
    BY <1>6, <1>8, <2>1, <2>2
  <2> QED
    BY <1>6, <2>3 DEF NumbersSound
<1>16. /\ r \in Visits(N) /\ NumbersSound(N, r)
       /\ r.index = s.index /\ r.low_link = s.low_link /\ r.counter = s.counter
       /\ OnStack(r) = {x \in OnStack(s) : s.index[x] < s.index[v]}
       /\ \E C \in Seq(N) : /\ r.sccs = Append(s.sccs, C)
                            /\ Range(C) = {x \in OnStack(s) : s.index[v] <= s.index[x]}
  BY <1>4, <1>6, <1>7, <1>13, <1>14, <1>15
<1> QED
  BY <1>16 DEF r

\* One more component, at the end.
LEMMA AppendScc ==
    ASSUME NEW G, NEW N, NEW sccs \in Seq(Seq(N)), NEW scc \in Seq(N), SccsSound(G, N, sccs),
           \A k \in DOMAIN sccs : Range(sccs[k]) \cap Range(scc) = {},
           \A a, b \in Range(scc) : Reaches(G, N, a, b),
           \A a \in Range(scc) : \A b \in G[a] \cap N :
               b \in Range(scc) \/ \E k \in DOMAIN sccs : b \in Range(sccs[k])
    PROVE  /\ SccsSound(G, N, Append(sccs, scc))
           /\ Members(Append(sccs, scc)) = Members(sccs) \cup Range(scc)
<1> DEFINE u == Append(sccs, scc)
           n == Len(sccs)
<1>1. DOMAIN sccs = 1 .. n /\ n \in Nat
  OBVIOUS
<1>2. DOMAIN u = 1 .. n + 1 /\ u[n + 1] = scc /\ \A k \in 1 .. n : u[k] = sccs[k]
  BY AppendRange
<1> HIDE DEF u, n
<1>3. \A k \in DOMAIN u : k \in DOMAIN sccs \/ k = n + 1
  BY <1>1, <1>2
<1>4. \A k \in DOMAIN sccs : k \in DOMAIN u /\ u[k] = sccs[k] /\ k <= n /\ k # n + 1
  BY <1>1, <1>2
<1>5. n + 1 \in DOMAIN u
  BY <1>1, <1>2
<1>6. \A k, l \in DOMAIN u : k # l => Range(u[k]) \cap Range(u[l]) = {}
  <2> SUFFICES ASSUME NEW k \in DOMAIN u, NEW l \in DOMAIN u, k # l
               PROVE  Range(u[k]) \cap Range(u[l]) = {}
    OBVIOUS
  <2>1. CASE k \in DOMAIN sccs /\ l \in DOMAIN sccs
    BY <1>4, <2>1 DEF SccsSound
  <2>2. CASE k = n + 1 /\ l \in DOMAIN sccs
    BY <1>2, <1>4, <2>2
  <2>3. CASE k \in DOMAIN sccs /\ l = n + 1
    BY <1>2, <1>4, <2>3
  <2> QED
    BY <1>3, <2>1, <2>2, <2>3
<1>7. \A k \in DOMAIN u : \A a, b \in Range(u[k]) : Reaches(G, N, a, b)
  BY <1>2, <1>3, <1>4 DEF SccsSound
<1>8. ASSUME NEW k \in DOMAIN u, NEW a \in Range(u[k]), NEW b \in G[a] \cap N
      PROVE  \E l \in DOMAIN u : l <= k /\ b \in Range(u[l])
  <2>1. CASE k \in DOMAIN sccs
    <3>1. PICK l \in DOMAIN sccs : l <= k /\ b \in Range(sccs[l])
      BY <1>4, <1>8, <2>1 DEF SccsSound
    <3> QED
      BY <1>4, <3>1
  <2>2. CASE k = n + 1
    <3>0. a \in Range(scc)
      BY <1>2, <2>2
    <3>1. CASE b \in Range(scc)
      BY <1>1, <1>2, <1>5, <2>2, <3>1
    <3>2. CASE \E l \in DOMAIN sccs : b \in Range(sccs[l])
      <4>1. PICK l \in DOMAIN sccs : b \in Range(sccs[l])
        BY <3>2
      <4>2. l \in DOMAIN u /\ l <= k /\ b \in Range(u[l])
        BY <1>1, <1>4, <2>2, <4>1
      <4> QED
        BY <4>2
    <3> QED
      BY <1>8, <3>0, <3>1, <3>2
  <2> QED
    BY <1>3, <2>1, <2>2
<1>9. SccsSound(G, N, u)
  BY <1>6, <1>7, <1>8 DEF SccsSound
<1>10. Members(u) = Members(sccs) \cup Range(scc)
  <2>1. ASSUME NEW x
        PROVE  (\E k \in DOMAIN u : x \in Range(u[k]))
                 <=> (\E k \in DOMAIN sccs : x \in Range(sccs[k])) \/ x \in Range(scc)
    BY <1>2, <1>3, <1>4, <1>5
  <2>2. \A x : x \in Members(u) <=> \E k \in DOMAIN u : x \in Range(u[k])
    BY DEF Members
  <2>3. \A x : x \in Members(sccs) <=> \E k \in DOMAIN sccs : x \in Range(sccs[k])
    BY DEF Members
  <2> QED
    BY <2>1, <2>2, <2>3
<1> QED
  BY <1>9, <1>10 DEF u

\* The call of strongconnect(v) ends.
LEMMA VisitingConnected ==
    ASSUME NEW G, NEW N, NEW s, NEW P, NEW v \in N, NEW t,
           MayConnect(G, N, s, P, v), Visiting(G, N, s, P, v, G[v] \cap N, t)
    PROVE  Connected(G, N, s, P, v,
                     IF t.low_link[v] = t.index[v] THEN CloseScc(t, v) ELSE t)
<1>1. s \in Visits(N) /\ s.index[v] = 0 /\ \A g \in P : Reaches(G, N, g, v)
  BY DEF MayConnect, Sound
<1>2. t \in Visits(N) /\ Sound(G, N, t, P \cup {v}) /\ Extends(N, s, t)
  BY DEF Visiting, Sound
<1>3. /\ s.index \in [N -> Nat] /\ s.low_link \in [N -> Nat] /\ s.counter \in Nat
      /\ OnStack(s) \subseteq N
  BY <1>1, VisitType
<1>4. /\ t.index \in [N -> Nat] /\ t.low_link \in [N -> Nat] /\ t.counter \in Nat
      /\ OnStack(t) \subseteq N /\ InSccs(t) \subseteq N /\ t.sccs \in Seq(Seq(N))
  BY <1>2, VisitType
<1>5. \A c \in OnStack(s) : s.index[c] # 0 /\ s.index[c] < s.counter /\ c # v
  BY <1>1, <1>3 DEF MayConnect, Sound, PartsSound, NumbersSound, Visited
<1>6. \A c \in OnStack(s) : t.index[c] = s.index[c] /\ c \in OnStack(t)
  BY <1>2, <1>3, <1>5 DEF Extends
<1>7. t.index[v] = s.counter /\ LowSound(G, N, s, t, v, t.low_link[v], {v})
  BY DEF Visiting
<1>8. \A d \in G[v] \cap N : t.index[d] # 0 /\ (d \in OnStack(s) => t.low_link[v] <= s.index[d])
  BY DEF Visiting
<1>9. v \in OnStack(t)
  BY <1>2 DEF Sound, PathsSound
<1>10. \A x \in OnStack(t) : x \notin OnStack(s) => t.index[x] >= s.counter
  <2> SUFFICES ASSUME NEW x \in OnStack(t), x \notin OnStack(s) PROVE t.index[x] >= s.counter
    OBVIOUS
  <2>1. x \in N /\ t.index[x] # 0 /\ x \notin InSccs(t)
    BY <1>2, <1>4 DEF Sound, PartsSound, Visited
  <2>2. x \notin InSccs(s)
    BY <1>2, <2>1 DEF Extends
  <2>3. s.index[x] = 0
    BY <2>1, <2>2 DEF MayConnect, Sound, PartsSound, Visited
  <2> QED
    BY <1>2, <2>1, <2>3 DEF Extends
<1>11. P \subseteq OnStack(s) /\ P \subseteq OnStack(t) /\ v \notin P
  BY <1>5, <1>6 DEF MayConnect, Sound, PathsSound
<1>12. ASSUME NEW x \in OnStack(t)
       PROVE  \E g \in P \cup {v} : t.index[g] <= t.index[x] /\ Reaches(G, N, x, g)
  BY <1>2 DEF Sound, PathsSound
<1>13. ASSUME NEW g \in P \cup {v}, NEW x \in OnStack(t), t.index[g] <= t.index[x]
       PROVE  Reaches(G, N, g, x)
  BY <1>2, <1>13 DEF Sound, PathsSound
<1>14. \A c \in Visited(N, t) \ P : G[c] \cap N \subseteq Visited(N, t)
  <2>1. G[v] \cap N \subseteq Visited(N, t)
    BY <1>8 DEF Visited
  <2>2. \A c \in Visited(N, t) \ (P \cup {v}) : G[c] \cap N \subseteq Visited(N, t)
    BY <1>2 DEF Sound, PartsSound
  <2> QED
    BY <2>1, <2>2
<1>15. \A x \in OnStack(t) : x \notin OnStack(s) =>
          \A y \in G[x] : y \in OnStack(s) => t.low_link[v] <= s.index[y]
  <2> SUFFICES ASSUME NEW x \in OnStack(t), x \notin OnStack(s), NEW y \in G[x], y \in OnStack(s)
               PROVE  t.low_link[v] <= s.index[y]
    OBVIOUS
  <2>1. CASE x = v
    BY <1>3, <1>8, <2>1
  <2>2. CASE x # v
    BY <1>7, <2>2 DEF LowSound
  <2> QED
    BY <2>1, <2>2
<1>16. CASE t.low_link[v] # t.index[v]
  <2>1. PICK y \in OnStack(s) : t.low_link[v] = s.index[y] /\ Reaches(G, N, v, y)
    BY <1>7, <1>16 DEF LowSound
  <2>2. y \in OnStack(t) /\ t.index[y] = s.index[y] /\ t.index[y] < t.index[v]
    BY <1>5, <1>6, <1>7, <2>1
  <2>3. PICK g \in P \cup {v} : t.index[g] <= t.index[y] /\ Reaches(G, N, y, g)
    BY <1>12, <2>2
  <2>4. g \in P
    <3>1. g # v
      BY <1>3, <1>4, <1>7, <2>2, <2>3
    <3> QED
      BY <3>1
  <2>5. g \in N /\ y \in N /\ t.index[g] \in Nat /\ t.index[y] \in Nat /\ t.index[v] \in Nat
    BY <1>4, <1>11, <2>2, <2>4
  <2>6. ASSUME NEW x \in OnStack(t)
        PROVE  \E h \in P : t.index[h] <= t.index[x] /\ Reaches(G, N, x, h)
    <3>1. PICK h \in P \cup {v} : t.index[h] <= t.index[x] /\ Reaches(G, N, x, h)
      BY <1>12
    <3>2. CASE h \in P
      BY <3>1, <3>2
    <3>3. CASE h = v
      <4>1. t.index[g] <= t.index[x]
        BY <1>4, <2>2, <2>3, <2>5, <3>1, <3>3
      <4>2. Reaches(G, N, x, g)
        BY <2>1, <2>3, <3>1, <3>3, ReachesFurther
      <4> QED
        BY <2>4, <4>1, <4>2
    <3> QED
      BY <3>2, <3>3
  <2>7. PathsSound(G, N, t, P)
    BY <1>11, <1>13, <2>6 DEF PathsSound
  <2>8. PartsSound(G, N, t, P)
    BY <1>2, <1>14 DEF Sound, PartsSound
  <2>9. Sound(G, N, t, P)
    BY <1>2, <2>7, <2>8 DEF Sound
  <2>10. LowSound(G, N, s, t, v, t.low_link[v], {})
    BY <1>7, <1>15 DEF LowSound
  <2>11. t.index[v] >= s.counter
    BY <1>3, <1>7
  <2>12. Connected(G, N, s, P, v, t)
    BY <1>2, <2>9, <2>10, <2>11 DEF Connected
  <2> QED
    BY <1>16, <2>12
<1>17. CASE t.low_link[v] = t.index[v]
  <2> DEFINE r == CloseScc(t, v)
  <2>1. NumbersSound(N, t)
    BY <1>2 DEF Sound
  <2>2. /\ r \in Visits(N) /\ NumbersSound(N, r)
        /\ r.index = t.index /\ r.low_link = t.low_link /\ r.counter = t.counter
        /\ OnStack(r) = {x \in OnStack(t) : t.index[x] < t.index[v]}
        /\ \E C \in Seq(N) :
              /\ r.sccs = Append(t.sccs, C)
              /\ Range(C) = {x \in OnStack(t) : t.index[v] <= t.index[x]}
    BY <1>2, <1>9, <2>1, CloseFields
  <2> HIDE DEF r
  <2>3. PICK C \in Seq(N) : /\ r.sccs = Append(t.sccs, C)
                            /\ Range(C) = {x \in OnStack(t) : t.index[v] <= t.index[x]}
    BY <2>2
  <2>4. OnStack(r) = OnStack(s)
    <3>1. \A x \in OnStack(s) : x \in OnStack(t) /\ t.index[x] < t.index[v]
      BY <1>5, <1>6, <1>7
    <3>2. \A x \in OnStack(t) : t.index[x] < t.index[v] => x \in OnStack(s)
      BY <1>3, <1>4, <1>7, <1>10
    <3> QED
      BY <2>2, <3>1, <3>2
  <2>5. /\ OnStack(t) = OnStack(r) \cup Range(C) /\ OnStack(r) \cap Range(C) = {}
    BY <1>4, <2>2, <2>3
  <2>6. \A x \in Range(C) : Reaches(G, N, v, x) /\ Reaches(G, N, x, v)
    <3> SUFFICES ASSUME NEW x \in Range(C) PROVE Reaches(G, N, v, x) /\ Reaches(G, N, x, v)
      OBVIOUS
    <3>1. x \in OnStack(t) /\ t.index[v] <= t.index[x]
      BY <2>3
    <3>2. PICK g \in P \cup {v} : t.index[g] <= t.index[x] /\ Reaches(G, N, x, g)
      BY <1>12, <3>1
    <3>3. Reaches(G, N, g, v)
      BY <1>1, ReachesSelf
    <3> QED
      BY <1>13, <3>1, <3>2, <3>3, ReachesFurther
  <2>7. \A a, b \in Range(C) : Reaches(G, N, a, b)
    BY <2>6, ReachesFurther
  <2>8. \A k \in DOMAIN t.sccs : Range(t.sccs[k]) \cap Range(C) = {}
    <3>1. \A k \in DOMAIN t.sccs : Range(t.sccs[k]) \subseteq InSccs(t)
      BY DEF InSccs, Members
    <3>2. InSccs(t) \cap Range(C) = {}
      BY <1>2, <2>5 DEF Sound, PartsSound
    <3> QED
      BY <3>1, <3>2
  <2>9. ASSUME NEW a \in Range(C), NEW b \in G[a] \cap N
        PROVE  b \in Range(C) \/ \E k \in DOMAIN t.sccs : b \in Range(t.sccs[k])
    <3>1. a \in OnStack(t) /\ a \notin OnStack(s) /\ a \notin P
      BY <1>11, <2>4, <2>5
    <3>2. a \in Visited(N, t)
      BY <1>2, <3>1 DEF Sound, PartsSound
    <3>3. b \in Visited(N, t)
      BY <1>14, <2>9, <3>1, <3>2
    <3>4. b \in OnStack(t) \/ b \in InSccs(t)
      BY <1>2, <3>3 DEF Sound, PartsSound
    <3>5. b \notin OnStack(s)
      <4> SUFFICES ASSUME b \in OnStack(s) PROVE FALSE
        OBVIOUS
      <4>1. t.low_link[v] <= s.index[b] /\ s.index[b] < s.counter
        BY <1>5, <1>15, <2>9, <3>1
      <4>2. s.index[b] \in Nat /\ t.low_link[v] = s.counter
        BY <1>3, <1>7, <1>17
      <4> QED
        BY <1>3, <4>1, <4>2
    <3>6. CASE b \in OnStack(t)
      BY <2>4, <2>5, <3>5, <3>6
    <3>7. CASE b \in InSccs(t)
      BY <3>7 DEF InSccs, Members
    <3> QED
      BY <3>4, <3>6, <3>7
  <2>10. SccsSound(G, N, t.sccs)
    BY <1>2 DEF Sound
  <2>11. /\ SccsSound(G, N, Append(t.sccs, C))
         /\ Members(Append(t.sccs, C)) = Members(t.sccs) \cup Range(C)
    <3> DEFINE q == t.sccs
    <3>1. q \in Seq(Seq(N)) /\ SccsSound(G, N, q)
      BY <1>4, <2>10
    <3>2. \A k \in DOMAIN q : Range(q[k]) \cap Range(C) = {}
      BY <2>8
    <3>3. \A a \in Range(C) : \A b \in G[a] \cap N :
              b \in Range(C) \/ \E k \in DOMAIN q : b \in Range(q[k])
      BY <2>9
    <3> HIDE DEF q
    <3>4. SccsSound(G, N, Append(q, C)) /\ Members(Append(q, C)) = Members(q) \cup Range(C)
      BY <2>7, <3>1, <3>2, <3>3, AppendScc
    <3> QED
      BY <3>4 DEF q
  <2>12. SccsSound(G, N, r.sccs) /\ InSccs(r) = InSccs(t) \cup Range(C)
    BY <2>3, <2>11 DEF InSccs
  <2>13. Visited(N, r) = Visited(N, t)
    BY <2>2 DEF Visited
  <2>14. PartsSound(G, N, r, P)
    <3>1. OnStack(t) \cap InSccs(t) = {} /\ Visited(N, t) = OnStack(t) \cup InSccs(t)
      BY <1>2 DEF Sound, PartsSound
    <3>2. OnStack(r) \cap InSccs(r) = {} /\ Visited(N, r) = OnStack(r) \cup InSccs(r)
      BY <2>5, <2>12, <2>13, <3>1
    <3> QED
      BY <1>14, <2>13, <3>2 DEF PartsSound
  <2>15. PathsSound(G, N, r, P)
    <3>1. P \subseteq OnStack(r)
      BY <1>11, <2>4
    <3>2. ASSUME NEW x \in OnStack(r)
          PROVE  \E g \in P : r.index[g] <= r.index[x] /\ Reaches(G, N, x, g)
      <4>1. x \in OnStack(t) /\ t.index[x] < t.index[v]
        BY <2>2
      <4>2. PICK g \in P \cup {v} : t.index[g] <= t.index[x] /\ Reaches(G, N, x, g)
        BY <1>12, <4>1
      <4>3. t.index[x] \in Nat /\ t.index[v] \in Nat
        BY <1>4, <4>1
      <4>4. g # v
        BY <4>1, <4>2, <4>3
      <4> QED
        BY <2>2, <4>2, <4>4
    <3>3. ASSUME NEW g \in P, NEW x \in OnStack(r), r.index[g] <= r.index[x]
          PROVE  Reaches(G, N, g, x)
      BY <1>13, <2>2, <2>5, <3>3
    <3> QED
      BY <3>1, <3>2, <3>3 DEF PathsSound
  <2>16. Sound(G, N, r, P)
    BY <2>2, <2>12, <2>14, <2>15 DEF Sound
  <2>17. Extends(N, s, r)
    BY <1>2, <2>2, <2>4, <2>12 DEF Extends
  <2>18. LowSound(G, N, s, r, v, r.low_link[v], {})
    <3>1. r.low_link[v] = r.index[v] /\ r.low_link[v] \in Nat
      BY <1>4, <1>17, <2>2
    <3> QED
      BY <2>4, <3>1 DEF LowSound
  <2>19. r.index[v] >= s.counter
    BY <1>3, <1>7, <2>2
  <2>20. Connected(G, N, s, P, v, r)
    BY <2>16, <2>17, <2>18, <2>19 DEF Connected
  <2> QED
    BY <1>17, <2>20 DEF r
<1> QED
  BY <1>16, <1>17

\* strongconnect(v) is right when the calls that it makes are.
LEMMA ConnectFromConnected ==
    ASSUME NEW G, NEW N \in SUBSET Nat, IsFiniteSet(N), NEW s, NEW P, NEW v \in N, NEW connect,
           MayConnect(G, N, s, P, v),
           \A t \in Visits(N) : \A w \in N :
               t.index[v] # 0 /\ Extends(N, s, t) /\ MayConnect(G, N, t, P \cup {v}, w)
                   => Connected(G, N, t, P \cup {v}, w, connect[w][t])
    PROVE  Connected(G, N, s, P, v, ConnectFrom(G, N, connect, v, s))
<1> DEFINE D == G[v] \cap N
           deps == SortedById(D)
           f == [k \in DOMAIN deps |->
                    [t \in Visits(N) |-> VisitDep(connect, t, v, deps[k])]]
           n == Len(deps)
           visited == Repeat(f, n, Open(s, v))
           Upto(k) == {deps[j] : j \in 1 .. k}
           Good == {x \in Nat \X Visits(N) : Visiting(G, N, s, P, v, Upto(x[1]), x[2])}
<1>1. D \in SUBSET Nat /\ IsFiniteSet(D)
  BY FS_Subset
<1>2. DOMAIN deps = 1 .. n /\ n \in Nat /\ Range(deps) = D
  <2> HIDE DEF D
  <2>1. /\ SortedById(D) \in Seq(D) /\ Len(SortedById(D)) = Cardinality(D)
        /\ DOMAIN SortedById(D) = 1 .. Cardinality(D) /\ Range(SortedById(D)) = D
    BY <1>1, SortedOrder
  <2>2. Cardinality(D) \in Nat
    BY <1>1, FS_CardinalityType
  <2> QED
    BY <2>1, <2>2
<1>3. \A k \in 1 .. n : deps[k] \in D
  BY <1>2 DEF Range
<1>4. ConnectFrom(G, N, connect, v, s)
        = IF visited.low_link[v] = visited.index[v] THEN CloseScc(visited, v) ELSE visited
  BY DEF ConnectFrom
<1> HIDE DEF deps, n
<1>5. \A k \in 1 .. n : \A t \in Visits(N) : f[k][t] = VisitDep(connect, t, v, deps[k])
  BY <1>2
<1> HIDE DEF f
<1>6. <<0, Open(s, v)>> \in Good
  <2>1. Open(s, v) \in Visits(N)
    BY OpenFields DEF MayConnect, Sound
  <2>2. Upto(0) = {}
    OBVIOUS
  <2>3. Visiting(G, N, s, P, v, Upto(0), Open(s, v))
    BY <2>2, OpenVisiting
  <2> HIDE DEF Upto
  <2> QED
    BY <2>1, <2>3
<1>7. ASSUME NEW k \in 1 .. n, NEW t, <<k - 1, t>> \in Good
      PROVE  <<k, f[k][t]>> \in Good
  <2> DEFINE w == deps[k]
             r == VisitDep(connect, t, v, w)
  <2>1. k - 1 \in Nat /\ k \in Nat
    BY <1>2
  <2>2. t \in Visits(N) /\ Visiting(G, N, s, P, v, Upto(k - 1), t)
    BY <1>7
  <2>3. w \in D
    BY <1>3
  <2>4. Upto(k - 1) \in SUBSET N
    BY <1>2, <1>3
  <2>5. Upto(k) = Upto(k - 1) \cup {w}
    BY <1>2
  <2> HIDE DEF Upto
  <2>6. t.index[v] # 0 /\ Extends(N, s, t)
    <3>1. v \in OnStack(t)
      BY <2>2 DEF Visiting, Sound, PathsSound
    <3> QED
      BY <2>2, <3>1 DEF Visiting, Sound, PartsSound, Visited
  <2>7. MayConnect(G, N, t, P \cup {v}, w) =>
            Connected(G, N, t, P \cup {v}, w, connect[w][t])
    BY <2>2, <2>3, <2>6
  <2> HIDE DEF w
  <2>8. Visiting(G, N, s, P, v, Upto(k - 1) \cup {w}, r)
    BY <2>2, <2>3, <2>4, <2>7, VisitDepVisiting
  <2>9. r \in Visits(N)
    BY <2>8 DEF Visiting, Sound
  <2>10. f[k][t] = r
    BY <1>5, <2>2 DEF w
  <2> HIDE DEF r
  <2>11. Visiting(G, N, s, P, v, Upto(k), r)
    BY <2>5, <2>8
  <2> QED
    BY <2>1, <2>9, <2>10, <2>11
<1> HIDE DEF Good
<1>8. \A k \in 1 .. n : \A t : <<k - 1, t>> \in Good => <<k, f[k][t]>> \in Good
  BY <1>7
<1>9. <<n, visited>> \in Good
  BY <1>2, <1>6, <1>8, RepeatKeeps
<1> HIDE DEF visited
<1>10. Visiting(G, N, s, P, v, Upto(n), visited)
  BY <1>9 DEF Good
<1>11. Upto(n) = D
  BY <1>2 DEF Range
<1>12. Visiting(G, N, s, P, v, D, visited)
  BY <1>10, <1>11
<1> QED
  BY <1>4, <1>12, VisitingConnected

\* The function that strongconnect is defined by exists.
LEMMA ConnectSteps ==
    ASSUME NEW G, NEW N, Cardinality(N) \in Nat
    PROVE  \E g : /\ StrongConnect(G, N) = g[Cardinality(N)]
                  /\ \A d \in 1 .. Cardinality(N) : \A v \in N : \A s \in Visits(N) :
                        g[d][v][s] = ConnectFrom(G, N, g[d - 1], v, s)
<1> DEFINE n == Cardinality(N)
           Step(L, d) == [v \in N |-> [s \in Visits(N) |->
                             IF d = 0 THEN s ELSE ConnectFrom(G, N, L[d - 1], v, s)]]
           F(m, L) == [d \in 0 .. m |-> Step(L, d)]
           Has == {m \in Nat : \E L : L = F(m, L)}
<1>a. ASSUME NEW L, NEW M, NEW d, d # 0 => L[d - 1] = M[d - 1]
      PROVE  Step(L, d) = Step(M, d)
  <2>1. CASE d = 0
    BY <2>1
  <2>2. CASE d # 0
    BY <1>a, <2>2
  <2> QED
    BY <2>1, <2>2
<1>b. ASSUME NEW L, NEW d, d # 0, NEW v \in N, NEW s \in Visits(N)
      PROVE  Step(L, d)[v][s] = ConnectFrom(G, N, L[d - 1], v, s)
  BY <1>b
<1>c. StrongConnect(G, N) = (CHOOSE M : M = F(n, M))[n]
  BY DEF StrongConnect
<1> HIDE DEF Step
<1>1. 0 \in Has
  <2> DEFINE B == Step(<<>>, 0)
             L == [d \in 0 .. 0 |-> B]
  <2>0. \A d \in 0 .. 0 : d = 0
    OBVIOUS
  <2>1. \A d \in 0 .. 0 : B = Step(L, d)
    BY <1>a, <2>0
  <2> HIDE DEF B
  <2>2. L = F(0, L)
    BY <2>1
  <2> HIDE DEF L
  <2> QED
    BY <2>2
<1>2. ASSUME NEW m \in 1 .. n, m - 1 \in Has PROVE m \in Has
  <2>1. PICK L : L = F(m - 1, L)
    BY <1>2
  <2> DEFINE M == [d \in 0 .. m |-> IF d = m THEN Step(L, m) ELSE L[d]]
  <2>2. ASSUME NEW d \in 0 .. m PROVE M[d] = Step(M, d)
    <3>1. d # 0 => M[d - 1] = L[d - 1]
      OBVIOUS
    <3>2. Step(M, d) = Step(L, d)
      BY <1>a, <3>1
    <3>3. CASE d = m
      BY <3>2, <3>3
    <3>4. CASE d # m
      <4>1. d \in 0 .. m - 1 /\ M[d] = L[d]
        BY <3>4
      <4>2. L[d] = Step(L, d)
        BY <2>1, <4>1
      <4> QED
        BY <3>2, <4>1, <4>2
    <3> QED
      BY <3>3, <3>4
  <2>3. M = F(m, M)
    BY <2>2
  <2> HIDE DEF M
  <2>4. m \in Nat /\ \E K : K = F(m, K)
    BY <2>3
  <2> QED
    BY <2>4
<1> HIDE DEF Has
<1>3. \A d \in 0 .. n : d \in Has
  BY <1>1, <1>2, UpTo
<1>4. \E L : L = F(n, L)
  BY <1>3 DEF Has
<1> DEFINE g == CHOOSE L : L = F(n, L)
<1>5. g = F(n, g) /\ StrongConnect(G, N) = g[n]
  BY <1>c, <1>4
<1> HIDE DEF g
<1>6. \A d \in 0 .. n : g[d] = Step(g, d)
  BY <1>5
<1>7. ASSUME NEW d \in 1 .. n, NEW v \in N, NEW s \in Visits(N)
      PROVE  g[d][v][s] = ConnectFrom(G, N, g[d - 1], v, s)
  <2>1. d \in 0 .. n /\ d # 0
    OBVIOUS
  <2>2. g[d] = Step(g, d)
    BY <1>6, <2>1
  <2> QED
    BY <1>b, <2>1, <2>2
<1>8. /\ StrongConnect(G, N) = g[n]
      /\ \A d \in 1 .. n : \A v \in N : \A s \in Visits(N) :
             g[d][v][s] = ConnectFrom(G, N, g[d - 1], v, s)
  BY <1>5, <1>7
<1> QED
  BY <1>8

\* Calls are nested no deeper than there are commands that are not visited.
LEMMA StrongConnectConnected ==
    ASSUME NEW G, NEW N \in SUBSET Nat, IsFiniteSet(N),
           NEW s, NEW P, NEW v \in N, MayConnect(G, N, s, P, v)
    PROVE  Connected(G, N, s, P, v, StrongConnect(G, N)[v][s])
<1> DEFINE n == Cardinality(N)
           White(t) == {c \in N : t.index[c] = 0}
<1>1. n \in Nat
  BY FS_CardinalityType
<1>2. PICK g : /\ StrongConnect(G, N) = g[n]
               /\ \A d \in 1 .. n : \A w \in N : \A t \in Visits(N) :
                      g[d][w][t] = ConnectFrom(G, N, g[d - 1], w, t)
  BY <1>1, ConnectSteps
<1> DEFINE Right(d) == \A w \in N : \A t \in Visits(N) : \A Q \in SUBSET N :
                           MayConnect(G, N, t, Q, w) /\ Cardinality(White(t)) <= d =>
                               Connected(G, N, t, Q, w, g[d][w][t])
           S == {d \in Nat : Right(d)}
<1>3. \A t : IsFiniteSet(White(t)) /\ Cardinality(White(t)) \in Nat
             /\ Cardinality(White(t)) <= n
  <2> SUFFICES ASSUME NEW t PROVE IsFiniteSet(White(t)) /\ Cardinality(White(t)) \in Nat
                                  /\ Cardinality(White(t)) <= n
    OBVIOUS
  <2>1. White(t) \subseteq N
    OBVIOUS
  <2> HIDE DEF White
  <2> QED
    BY <2>1, FS_Subset, FS_CardinalityType
<1> HIDE DEF n
<1>4. Right(0)
  <2> SUFFICES ASSUME NEW w \in N, NEW t, t.index[w] = 0, Cardinality(White(t)) <= 0
               PROVE  FALSE
    BY DEF MayConnect
  <2>1. w \in White(t)
    OBVIOUS
  <2> HIDE DEF White
  <2>2. White(t) = {}
    BY <1>3, FS_EmptySet
  <2> QED
    BY <2>1, <2>2
<1>5. ASSUME NEW d \in 1 .. n, Right(d - 1) PROVE Right(d)
  <2> SUFFICES ASSUME NEW w \in N, NEW t \in Visits(N), NEW Q \in SUBSET N,
                      MayConnect(G, N, t, Q, w), Cardinality(White(t)) <= d
               PROVE  Connected(G, N, t, Q, w, g[d][w][t])
    OBVIOUS
  <2>1. g[d][w][t] = ConnectFrom(G, N, g[d - 1], w, t)
    BY <1>2
  <2>2. ASSUME NEW u \in Visits(N), NEW x \in N,
               u.index[w] # 0, Extends(N, t, u), MayConnect(G, N, u, Q \cup {w}, x)
        PROVE  Connected(G, N, u, Q \cup {w}, x, g[d - 1][x][u])
    <3>1. White(u) \subseteq White(t) \ {w}
      BY <2>2 DEF Extends
    <3>2. w \in White(t)
      BY DEF MayConnect
    <3> HIDE DEF White
    <3>3. /\ IsFiniteSet(White(t) \ {w})
          /\ Cardinality(White(t) \ {w}) = Cardinality(White(t)) - 1
      BY <1>3, <3>2, FS_RemoveElement
    <3>4. Cardinality(White(u)) <= Cardinality(White(t) \ {w})
      BY <3>1, <3>3, FS_Subset
    <3>5. Cardinality(White(u)) <= d - 1
      BY <1>1, <1>3, <3>3, <3>4
    <3>6. Q \cup {w} \in SUBSET N
      OBVIOUS
    <3> QED
      BY <1>5, <2>2, <3>5, <3>6
  <2> HIDE DEF White
  <2>3. Connected(G, N, t, Q, w, ConnectFrom(G, N, g[d - 1], w, t))
    BY <2>2, ConnectFromConnected
  <2> QED
    BY <2>1, <2>3
<1> HIDE DEF Right
<1>6. \A d \in 0 .. n : d \in S
  <2>1. 0 \in S
    BY <1>4
  <2>2. \A d \in 1 .. n : d - 1 \in S => d \in S
    BY <1>1, <1>5
  <2> HIDE DEF S
  <2> QED
    BY <1>1, <2>1, <2>2, UpTo
<1>7. Right(n)
  BY <1>1, <1>6
<1>8. s \in Visits(N) /\ P \in SUBSET N
  <2>1. s \in Visits(N) /\ P \subseteq OnStack(s)
    BY DEF MayConnect, Sound, PathsSound
  <2> QED
    BY <2>1, VisitType
<1>9. Connected(G, N, s, P, v, g[n][v][s])
  BY <1>3, <1>7, <1>8 DEF Right
<1> QED
  BY <1>2, <1>9

\* The search begins in a sound state.
LEMMA NoVisitSound ==
    ASSUME NEW G, NEW N
    PROVE  Sound(G, N, NoVisit(N), {})
<1> DEFINE s == NoVisit(N)
<1>1. /\ s.index = [c \in N |-> 0] /\ s.low_link = [c \in N |-> 0]
      /\ s.stack = <<>> /\ s.counter = 1 /\ s.sccs = <<>>
  BY DEF NoVisit
<1>2. s \in Visits(N)
  BY DEF NoVisit, Visits
<1> HIDE DEF s
<1>3. OnStack(s) = {} /\ InSccs(s) = {} /\ Visited(N, s) = {}
  BY <1>1 DEF OnStack, InSccs, Members, Visited, Range
<1>4. NumbersSound(N, s)
  BY <1>1 DEF NumbersSound
<1>5. SccsSound(G, N, s.sccs)
  BY <1>1 DEF SccsSound
<1>6. Sound(G, N, s, {})
  BY <1>2, <1>3, <1>4, <1>5 DEF Sound, PartsSound, PathsSound
<1> QED
  BY <1>6 DEF s

(***************************************************************************)
(* Tarjan's algorithm: every command is in one component, the components   *)
(* are strongly connected, and no dependency leads to a later one.         *)
(***************************************************************************)
THEOREM TarjanCorrect ==
    ASSUME NEW G, NEW N \in SUBSET Nat, IsFiniteSet(N)
    PROVE  /\ TarjanSccs(G, N) \in Seq(Seq(N))
           /\ Members(TarjanSccs(G, N)) = N
           /\ SccsSound(G, N, TarjanSccs(G, N))
<1> DEFINE list == SortedById(N)
           n == Len(list)
           connect == StrongConnect(G, N)
           f == [k \in DOMAIN list |-> [s \in Visits(N) |->
                    IF s.index[list[k]] = 0 THEN connect[list[k]][s] ELSE s]]
           r == Repeat(f, n, NoVisit(N))
           Good == {x \in Nat \X Visits(N) : /\ Sound(G, N, x[2], {})
                                             /\ \A j \in 1 .. x[1] : x[2].index[list[j]] # 0}
<1>1. DOMAIN list = 1 .. n /\ n \in Nat /\ Range(list) = N
  <2>1. Cardinality(N) \in Nat
    BY FS_CardinalityType
  <2> QED
    BY <2>1, SortedOrder
<1>2. \A k \in 1 .. n : list[k] \in N
  BY <1>1 DEF Range
<1>3. TarjanSccs(G, N) = r.sccs
  BY DEF TarjanSccs
<1> HIDE DEF list, n, connect
<1>4. \A k \in 1 .. n : \A s \in Visits(N) :
          f[k][s] = IF s.index[list[k]] = 0 THEN connect[list[k]][s] ELSE s
  BY <1>1
<1> HIDE DEF f
<1>5. <<0, NoVisit(N)>> \in Good
  <2>1. Sound(G, N, NoVisit(N), {}) /\ NoVisit(N) \in Visits(N)
    BY NoVisitSound DEF Sound
  <2> QED
    BY <2>1
<1>6. ASSUME NEW k \in 1 .. n, NEW s, <<k - 1, s>> \in Good
      PROVE  <<k, f[k][s]>> \in Good
  <2> DEFINE v == list[k]
             t == f[k][s]
  <2>1. k \in Nat /\ k - 1 \in Nat /\ \A j \in 1 .. k : j # k => j \in 1 .. k - 1
    BY <1>1
  <2>2. s \in Visits(N) /\ Sound(G, N, s, {}) /\ \A j \in 1 .. k - 1 : s.index[list[j]] # 0
    BY <1>6
  <2>3. v \in N /\ \A j \in 1 .. k : list[j] \in N
    BY <1>1, <1>2
  <2>4. CASE s.index[v] = 0
    <3>1. MayConnect(G, N, s, {}, v)
      BY <2>2, <2>4 DEF MayConnect
    <3>2. t = connect[v][s]
      BY <1>4, <2>2, <2>4
    <3> HIDE DEF v, t
    <3>3. Connected(G, N, s, {}, v, t)
      BY <2>3, <3>1, <3>2, StrongConnectConnected DEF connect
    <3>4. Sound(G, N, t, {}) /\ t \in Visits(N) /\ Extends(N, s, t) /\ t.index[v] >= s.counter
      BY <3>3 DEF Connected, Sound
    <3>5. s.counter # 0 /\ s.counter \in Nat /\ t.index[v] \in Nat
      <4>1. s.index[v] < s.counter
        BY <2>2, <2>3 DEF Sound, NumbersSound
      <4> QED
        BY <2>2, <2>3, <2>4, <3>4, <4>1, VisitType
    <3>6. \A j \in 1 .. k : t.index[list[j]] # 0
      <4> SUFFICES ASSUME NEW j \in 1 .. k PROVE t.index[list[j]] # 0
        OBVIOUS
      <4>1. CASE j = k
        BY <3>4, <3>5, <4>1 DEF v
      <4>2. CASE j # k
        BY <2>1, <2>2, <2>3, <3>4, <4>2 DEF Extends
      <4> QED
        BY <4>1, <4>2
    <3>7. <<k, t>> \in Good
      BY <2>1, <3>4, <3>6
    <3> QED
      BY <3>7 DEF t
  <2>5. CASE s.index[v] # 0
    <3>1. t = s
      BY <1>4, <2>2, <2>5
    <3>2. \A j \in 1 .. k : s.index[list[j]] # 0
      BY <2>1, <2>2, <2>5
    <3> HIDE DEF t
    <3>3. <<k, t>> \in Good
      BY <2>1, <2>2, <3>1, <3>2
    <3> QED
      BY <3>3 DEF t
  <2> QED
    BY <2>4, <2>5
<1> HIDE DEF Good
<1>7. \A k \in 1 .. n : \A s : <<k - 1, s>> \in Good => <<k, f[k][s]>> \in Good
  BY <1>6
<1>8. <<n, r>> \in Good
  BY <1>1, <1>5, <1>7, RepeatKeeps
<1> HIDE DEF r
<1>9. r \in Visits(N) /\ Sound(G, N, r, {}) /\ \A j \in 1 .. n : r.index[list[j]] # 0
  BY <1>8 DEF Good
<1>10. Visited(N, r) = N
  BY <1>1, <1>9 DEF Visited, Range
<1>11. OnStack(r) = {}
  BY <1>9 DEF Sound, PathsSound
<1>12. Members(r.sccs) = N /\ SccsSound(G, N, r.sccs) /\ r.sccs \in Seq(Seq(N))
  <2>1. r.sccs \in Seq(Seq(N))
    BY <1>9, VisitType
  <2> QED
    BY <1>9, <1>10, <1>11, <2>1 DEF Sound, PartsSound, InSccs
<1> QED
  BY <1>3, <1>12

-----------------------------------------------------------------------------
\* The walks of the graph.

\* A walk finds the least set that holds S and the dependencies in T of its
\* members.
LEMMA WalkCloses ==
    ASSUME NEW G \in [Cmd -> SUBSET Cmd], NEW S \in SUBSET Cmd, NEW T \in SUBSET Cmd
    PROVE  /\ Walk(G, S, T) \in SUBSET Cmd
           /\ S \subseteq Walk(G, S, T)
           /\ Walk(G, S, T) \subseteq S \cup T
           /\ ClosedIn(G, T, Walk(G, S, T))
           /\ \A X \in SUBSET Cmd : S \subseteq X /\ ClosedIn(G, T, X) => Walk(G, S, T) \subseteq X
<1> DEFINE n == Cardinality(Cmd)
           Grown(R) == R \cup ((UNION {G[c] : c \in R}) \cap T)
           f == [k \in 1 .. n |-> [R \in SUBSET Cmd |-> Grown(R)]]
           W == Repeat(f, n, S)
           Ends(R) == \A c \in R : G[c] \cap T \subseteq R
           Good == {x \in Nat \X SUBSET Cmd :
                       /\ S \subseteq x[2] /\ x[2] \subseteq S \cup T
                       /\ Ends(x[2]) \/ x[1] <= Cardinality(x[2])
                       /\ \A X \in SUBSET Cmd : S \subseteq X /\ Ends(X) => x[2] \subseteq X}
<1>1. n \in Nat /\ \A R \in SUBSET Cmd : IsFiniteSet(R) /\ Cardinality(R) \in Nat
  BY CmdAssumption, FS_Subset, FS_CardinalityType
<1>2. Walk(G, S, T) = W
  BY DEF Walk
<1>3. \A k \in 1 .. n : \A R \in SUBSET Cmd : f[k][R] = Grown(R)
  OBVIOUS
<1>4. \A R \in SUBSET Cmd : \A x :
          x \in Grown(R) <=> x \in R \/ (x \in T /\ \E c \in R : x \in G[c])
  OBVIOUS
<1> HIDE DEF f, n, Grown
<1>5. <<0, S>> \in Good
  BY <1>1
<1>6. ASSUME NEW k \in 1 .. n, NEW R, <<k - 1, R>> \in Good
      PROVE  <<k, f[k][R]>> \in Good
  <2>1. /\ k \in Nat /\ R \in SUBSET Cmd /\ S \subseteq R /\ R \subseteq S \cup T
        /\ Ends(R) \/ k - 1 <= Cardinality(R)
        /\ \A X \in SUBSET Cmd : S \subseteq X /\ Ends(X) => R \subseteq X
    BY <1>1, <1>6
  <2> DEFINE Q == f[k][R]
  <2>2. Q = Grown(R)
    BY <1>3, <2>1
  <2> HIDE DEF Q
  <2>3. Q \in SUBSET Cmd /\ S \subseteq Q /\ Q \subseteq S \cup T /\ R \subseteq Q
    BY <1>4, <2>1, <2>2
  <2>4. \A X \in SUBSET Cmd : S \subseteq X /\ Ends(X) => Q \subseteq X
    <3> SUFFICES ASSUME NEW X \in SUBSET Cmd, S \subseteq X, Ends(X), NEW x \in Q
                 PROVE  x \in X
      OBVIOUS
    <3>1. R \subseteq X
      BY <2>1
    <3> QED
      BY <1>4, <2>1, <2>2, <3>1
  <2>5. Ends(Q) \/ k <= Cardinality(Q)
    <3>1. CASE Ends(R)
      <4>1. \A x : x \in Q => x \in R
        <5> SUFFICES ASSUME NEW x \in Q, x \notin R PROVE FALSE
          OBVIOUS
        <5>1. PICK c \in R : x \in G[c] /\ x \in T
          BY <1>4, <2>1, <2>2
        <5> QED
          BY <3>1, <5>1
      <4>2. Q = R
        BY <2>3, <4>1
      <4> QED
        BY <3>1, <4>2
    <3>2. CASE ~Ends(R)
      <4>1. PICK x \in T : x \notin R /\ \E c \in R : x \in G[c]
        BY <2>1, <3>2
      <4>2. x \in Q
        BY <1>4, <2>1, <2>2, <4>1
      <4>3. Cardinality(R \cup {x}) = Cardinality(R) + 1
        BY <1>1, <2>1, <4>1, FS_AddElement
      <4>4. R \cup {x} \subseteq Q
        BY <2>3, <4>2
      <4>5. Cardinality(R \cup {x}) <= Cardinality(Q)
        BY <1>1, <2>3, <4>4, FS_Subset
      <4>6. k <= Cardinality(Q)
        BY <1>1, <2>1, <2>3, <3>2, <4>3, <4>5
      <4> QED
        BY <4>6
    <3> QED
      BY <3>1, <3>2
  <2> HIDE DEF Ends
  <2>6. <<k, Q>> \in Good
    BY <2>1, <2>3, <2>4, <2>5
  <2> QED
    BY <2>6 DEF Q
<1> HIDE DEF Good
<1>7. \A k \in 1 .. n : \A R : <<k - 1, R>> \in Good => <<k, f[k][R]>> \in Good
  BY <1>6
<1>8. <<n, W>> \in Good
  BY <1>1, <1>5, <1>7, RepeatKeeps
<1> HIDE DEF W, Ends
<1>9. /\ W \in SUBSET Cmd /\ S \subseteq W /\ W \subseteq S \cup T
      /\ Ends(W) \/ n <= Cardinality(W)
      /\ \A X \in SUBSET Cmd : S \subseteq X /\ Ends(X) => W \subseteq X
  BY <1>8 DEF Good
<1>10. Ends(W)
  <2>1. CASE n <= Cardinality(W)
    <3>1. Cardinality(W) <= n /\ (Cardinality(W) = n => W = Cmd)
      BY <1>9, CmdAssumption, FS_Subset DEF n
    <3>2. W = Cmd
      BY <1>1, <1>9, <2>1, <3>1
    <3> QED
      BY <3>2 DEF Ends
  <2> QED
    BY <1>9, <2>1
<1> QED
  BY <1>2, <1>9, <1>10 DEF Ends, ClosedIn

\* The elements of a concatenation.
LEMMA ConcatElements ==
    ASSUME NEW C, NEW t \in Seq(C), NEW s \in Seq(C)
    PROVE  /\ t \o s \in Seq(C)
           /\ DOMAIN (t \o s) = 1 .. Len(t) + Len(s)
           /\ \A i \in 1 .. Len(t) : i \in DOMAIN t /\ (t \o s)[i] = t[i]
           /\ \A i \in 1 .. Len(t) + Len(s) : i > Len(t) =>
                  i - Len(t) \in DOMAIN s /\ (t \o s)[i] = s[i - Len(t)]
           /\ Range(t \o s) = Range(t) \cup Range(s)
<1>1. /\ t \o s \in Seq(C) /\ Len(t \o s) = Len(t) + Len(s)
      /\ \A i \in 1 .. Len(t) + Len(s) :
            (t \o s)[i] = IF i <= Len(t) THEN t[i] ELSE s[i - Len(t)]
  BY ConcatProperties
<1>2. Len(t) \in Nat /\ Len(s) \in Nat /\ DOMAIN t = 1 .. Len(t) /\ DOMAIN s = 1 .. Len(s)
  BY LenProperties
<1>3. DOMAIN (t \o s) = 1 .. Len(t) + Len(s)
  BY <1>1, LenProperties
<1>4. \A i \in 1 .. Len(t) : i \in DOMAIN t /\ (t \o s)[i] = t[i]
  BY <1>1, <1>2
<1>5. \A i \in 1 .. Len(t) + Len(s) : i > Len(t) =>
          i - Len(t) \in DOMAIN s /\ (t \o s)[i] = s[i - Len(t)]
  BY <1>1, <1>2
<1>6. ASSUME NEW e \in Range(t \o s) PROVE e \in Range(t) \cup Range(s)
  BY <1>2, <1>3, <1>4, <1>5 DEF Range
<1>7. ASSUME NEW e \in Range(t) PROVE e \in Range(t \o s)
  <2>1. PICK i \in 1 .. Len(t) : e = t[i]
    BY <1>2 DEF Range
  <2>2. i \in DOMAIN (t \o s) /\ (t \o s)[i] = e
    BY <2>1, <1>2, <1>3, <1>4
  <2> QED BY <2>2 DEF Range
<1>8. ASSUME NEW e \in Range(s) PROVE e \in Range(t \o s)
  <2>1. PICK i \in 1 .. Len(s) : e = s[i]
    BY <1>2 DEF Range
  <2>2. i + Len(t) \in 1 .. Len(t) + Len(s) /\ i + Len(t) > Len(t) /\ i + Len(t) - Len(t) = i
    BY <2>1, <1>2
  <2>3. i + Len(t) \in DOMAIN (t \o s) /\ (t \o s)[i + Len(t)] = e
    BY <2>1, <2>2, <1>3, <1>5
  <2> QED BY <2>3 DEF Range
<1> QED
  BY <1>1, <1>3, <1>4, <1>5, <1>6, <1>7, <1>8

-----------------------------------------------------------------------------
\* The components are executed one after the other, each in the order of
\* its ids.

Orderly(G, N, s) ==
    \A i, j \in DOMAIN s : i < j /\ Reaches(G, N, s[i], s[j])
                               => Reaches(G, N, s[j], s[i]) /\ s[i] < s[j]

Ascending(q) == IsInjective(q) /\ \A i, j \in DOMAIN q : i < j => q[i] < q[j]

Connex(G, N, q) == \A a, b \in Range(q) : Reaches(G, N, a, b)

\* One more component q after the closed set of what s has.
LEMMA ConcatOrderly ==
    ASSUME NEW G, NEW N \in SUBSET Nat, NEW s \in Seq(N), NEW q \in Seq(N), NEW u, u = s \o q,
           IsInjective(s), Ascending(q), Range(s) \cap Range(q) = {},
           Orderly(G, N, s), ClosedIn(G, N, Range(s)), Connex(G, N, q)
    PROVE  u \in Seq(N) /\ IsInjective(u) /\ Orderly(G, N, u)
<1> DEFINE m == Len(s)
           n == Len(q)
<1>1. /\ u \in Seq(N) /\ DOMAIN u = 1 .. m + n
      /\ \A i \in 1 .. m : i \in DOMAIN s /\ u[i] = s[i]
      /\ \A i \in 1 .. m + n : i > m => i - m \in DOMAIN q /\ u[i] = q[i - m]
      /\ Range(u) = Range(s) \cup Range(q)
  BY ConcatElements
<1>2. m \in Nat /\ n \in Nat /\ DOMAIN s = 1 .. m /\ DOMAIN q = 1 .. n
  BY LenProperties
<1> HIDE DEF m, n
<1>3. \A i \in DOMAIN u : i \in Int /\ (i <= m \/ i > m)
  BY <1>1, <1>2
<1>4. \A i \in DOMAIN u : i <= m => i \in DOMAIN s /\ u[i] = s[i] /\ u[i] \in Range(s)
  BY <1>1, <1>2 DEF Range
<1>5. \A i \in DOMAIN u : i > m => /\ i - m \in DOMAIN q /\ i - m \in Int
                                   /\ u[i] = q[i - m] /\ u[i] \in Range(q)
  BY <1>1, <1>2 DEF Range
<1>6. IsInjective(u)
  <2> SUFFICES ASSUME NEW i \in DOMAIN u, NEW j \in DOMAIN u, u[i] = u[j] PROVE i = j
    BY DEF IsInjective
  <2>1. CASE i <= m /\ j <= m
    BY <1>4, <2>1 DEF IsInjective
  <2>2. CASE i > m /\ j > m
    <3>1. i - m = j - m
      BY <1>5, <2>2 DEF IsInjective, Ascending
    <3> QED
      BY <1>2, <1>3, <3>1
  <2>3. CASE (i <= m /\ j > m) \/ (i > m /\ j <= m)
    BY <1>4, <1>5, <2>3
  <2> QED
    BY <1>3, <2>1, <2>2, <2>3
<1>7. Orderly(G, N, u)
  <2> SUFFICES ASSUME NEW i \in DOMAIN u, NEW j \in DOMAIN u, i < j, Reaches(G, N, u[i], u[j])
               PROVE  Reaches(G, N, u[j], u[i]) /\ u[i] < u[j]
    BY DEF Orderly
  <2>1. CASE j <= m
    <3>1. i <= m
      BY <1>2, <1>3, <2>1
    <3> QED
      BY <1>4, <2>1, <3>1 DEF Orderly
  <2>2. CASE i > m /\ j > m
    <3>1. i - m < j - m
      BY <1>2, <1>3
    <3> QED
      BY <1>5, <2>2, <3>1 DEF Ascending, Connex
  <2>3. CASE i <= m /\ j > m
    <3>1. u[i] \in Range(s) /\ u[j] \in Range(q) /\ Range(s) \in SUBSET N
      BY <1>4, <1>5, <2>3 DEF Range
    <3>2. u[j] \in Range(s)
      BY <3>1, ReachesStaysIn
    <3> QED
      BY <3>1, <3>2
  <2> QED
    BY <1>3, <2>1, <2>2, <2>3
<1> QED
  BY <1>1, <1>6, <1>7

\* The components in order make one of the orders that are allowed.
LEMMA SccsInOrder ==
    ASSUME NEW G, NEW N \in SUBSET Cmd, NEW sccs \in Seq(Seq(N)),
           Members(sccs) = N, SccsSound(G, N, sccs), NEW t \in Seq(Cmd)
    PROVE  \E s \in ExecutionOrders(G, N) : ExecuteAll(sccs, t) = t \o s
<1> DEFINE f == [k \in DOMAIN sccs |-> [s \in Seq(Cmd) |-> s \o InOrder(sccs[k])]]
           n == Len(sccs)
           Upto(k) == UNION {Range(sccs[l]) : l \in 1 .. k}
           Fits(k, s) == s \in Seq(N) /\ Range(s) = Upto(k) /\ IsInjective(s) /\ Orderly(G, N, s)
           Good == {x \in Nat \X Seq(Cmd) : \E s : x[2] = t \o s /\ Fits(x[1], s)}
<1>1. N \in SUBSET Nat /\ IsFiniteSet(N) /\ Cardinality(N) \in Nat /\ Seq(N) \subseteq Seq(Cmd)
  BY CmdAssumption, FS_Subset, FS_CardinalityType, SeqMonotonic
<1>2. DOMAIN sccs = 1 .. n /\ n \in Nat /\ \A k \in 1 .. n : sccs[k] \in Seq(N)
  OBVIOUS
<1>3. \A k \in 1 .. n : \A s \in Seq(Cmd) : f[k][s] = s \o InOrder(sccs[k])
  BY <1>2
<1>4. \A k : \A x : x \in Upto(k) <=> \E l \in 1 .. k : x \in Range(sccs[l])
  OBVIOUS
<1> HIDE DEF f, n, Upto
<1>5. <<0, t>> \in Good
  <2>1. Upto(0) = {}
    BY <1>4
  <2>2. Fits(0, <<>>)
    BY <2>1 DEF Range, IsInjective, Orderly
  <2>3. t = t \o <<>>
    OBVIOUS
  <2> HIDE DEF Fits
  <2> QED
    BY <2>2, <2>3
<1>6. ASSUME NEW k \in 1 .. n, NEW u, <<k - 1, u>> \in Good
      PROVE  <<k, f[k][u]>> \in Good
  <2>1. PICK s : u = t \o s /\ Fits(k - 1, s)
    BY <1>6
  <2>2. u \in Seq(Cmd) /\ k \in Nat
    BY <1>2, <1>6
  <2> DEFINE q == InOrder(sccs[k])
             C == Range(sccs[k])
  <2>3. C \in SUBSET N
    BY <1>2 DEF Range
  <2>4. /\ q \in Seq(N) /\ Range(q) = C /\ IsInjective(q)
        /\ \A i, j \in DOMAIN q : i < j => q[i] < q[j]
    <3> HIDE DEF C
    <3>1. C \in SUBSET Nat /\ IsFiniteSet(C)
      BY <1>1, <2>3, FS_Subset
    <3>2. q = SortedById(C)
      BY DEF InOrder, C
    <3>3. /\ SortedById(C) \in Seq(C) /\ Range(SortedById(C)) = C /\ IsInjective(SortedById(C))
          /\ \A i, j \in DOMAIN SortedById(C) : i < j => SortedById(C)[i] < SortedById(C)[j]
      BY <3>1, SortedOrder
    <3> HIDE DEF q
    <3> QED
      BY <2>3, <3>2, <3>3, SeqMonotonic
  <2>5. s \in Seq(N) /\ Range(s) = Upto(k - 1) /\ IsInjective(s) /\ Orderly(G, N, s)
    BY <2>1
  <2> HIDE DEF q
  <2>6. Range(s) \cap Range(q) = {}
    <3>1. \A l \in 1 .. k - 1 : l \in DOMAIN sccs /\ k \in DOMAIN sccs /\ l # k
      BY <1>2
    <3>2. \A l \in 1 .. k - 1 : Range(sccs[l]) \cap C = {}
      BY <3>1 DEF SccsSound
    <3> HIDE DEF C
    <3> QED
      BY <1>4, <2>4, <2>5, <3>2
  <2>7. ClosedIn(G, N, Range(s))
    <3> SUFFICES ASSUME NEW a \in Range(s), NEW b \in G[a] \cap N PROVE b \in Range(s)
      BY DEF ClosedIn
    <3>1. PICK l \in 1 .. k - 1 : a \in Range(sccs[l])
      BY <1>4, <2>5
    <3>2. l \in DOMAIN sccs
      BY <1>2
    <3>3. PICK h \in DOMAIN sccs : h <= l /\ b \in Range(sccs[h])
      BY <3>1, <3>2 DEF SccsSound
    <3>4. h \in 1 .. k - 1
      BY <1>2, <3>1, <3>3
    <3> QED
      BY <1>4, <2>5, <3>3, <3>4
  <2>8. Connex(G, N, q)
    BY <1>2, <2>4 DEF SccsSound, Connex
  <2> DEFINE z == s \o q
  <2>9. z \in Seq(N) /\ IsInjective(z) /\ Orderly(G, N, z)
    <3>1. q \in Seq(N) /\ Ascending(q)
      BY <2>4 DEF Ascending
    <3>2. z = s \o q
      OBVIOUS
    <3> HIDE DEF C, z
    <3> QED
      BY <1>1, <2>5, <2>6, <2>7, <2>8, <3>1, <3>2, ConcatOrderly
  <2>a. Range(z) = Range(s) \cup Range(q)
    <3> HIDE DEF C
    <3> QED
      BY <2>4, <2>5, ConcatElements
  <2>10. Upto(k) = Upto(k - 1) \cup C
    <3>1. \A l : l \in 1 .. k <=> l \in 1 .. k - 1 \/ l = k
      BY <1>2
    <3>2. \A x : x \in Upto(k) <=> x \in Upto(k - 1) \/ x \in C
      BY <1>4, <3>1
    <3> QED
      BY <3>2
  <2>11. Fits(k, z)
    BY <2>4, <2>5, <2>9, <2>a, <2>10
  <2>12. f[k][u] = u \o q
    BY <1>3, <2>2 DEF q
  <2>13. s \in Seq(Cmd) /\ q \in Seq(Cmd)
    BY <1>1, <2>4, <2>5
  <2>14. u \o q = t \o (s \o q) /\ u \o q \in Seq(Cmd)
    BY <2>1, <2>13
  <2> HIDE DEF Fits
  <2> QED
    BY <2>2, <2>11, <2>12, <2>14
<1> DEFINE W == Repeat(f, n, t)
<1>w. ExecuteAll(sccs, t) = W
  BY DEF ExecuteAll, f, n
<1> HIDE DEF Good
<1>7. \A k \in 1 .. n : \A u : <<k - 1, u>> \in Good => <<k, f[k][u]>> \in Good
  BY <1>6
<1>8. <<n, W>> \in Good
  BY <1>2, <1>5, <1>7, RepeatKeeps
<1> HIDE DEF W
<1>9. PICK s : W = t \o s /\ Fits(n, s)
  BY <1>8 DEF Good
<1>10. s \in Seq(N) /\ Range(s) = N /\ IsInjective(s) /\ Orderly(G, N, s)
  <2>1. Upto(n) = Members(sccs)
    BY <1>2, <1>4 DEF Members
  <2> QED
    BY <1>9, <2>1
<1>11. s \in ExecutionOrders(G, N)
  <2> DEFINE m == Len(s)
  <2>1. m \in Nat /\ DOMAIN s = 1 .. m /\ s \in [1 .. m -> N]
    BY <1>10
  <2> HIDE DEF m
  <2>2. IsFiniteSet(1 .. m) /\ Cardinality(1 .. m) = m
    BY <2>1, FS_Interval
  <2>3. s \in Injection(1 .. m, N) /\ s \in Surjection(1 .. m, N)
    BY <1>10, <2>1 DEF Injection, Surjection, Range
  <2>4. Cardinality(N) = m
    BY <2>2, <2>3, FS_Surjection
  <2>5. s \in Bijection(1 .. Cardinality(N), N)
    BY <2>3, <2>4 DEF Bijection
  <2> QED
    BY <1>10, <2>1, <2>4, <2>5 DEF ExecutionOrders, Orderly
<1> QED
  BY <1>9, <1>11, <1>w

-----------------------------------------------------------------------------
(***************************************************************************)
(* A pass of promote_stable over the newly stable commands, after those in *)
(* "listed", by a replica that had executed t: what it has executed since  *)
(* is newly stable, and continues t as OrderSound asks.                    *)
(***************************************************************************)
RunSound(G, D, known, t, listed, run) ==
    /\ run \in Runs
    /\ run.entries = (known \ Range(t)) \ listed
    /\ listed \subseteq run.executed
    /\ run.executed \subseteq NewlyStable(G, known, Range(t))
    /\ Range(run.order) = run.executed
    /\ OrderSound(D, G, t \o run.order)

\* The commands that a ready command reaches are ready or done.
LEMMA ReadyClosed ==
    ASSUME NEW G \in [Cmd -> SUBSET Cmd], NEW known \in SUBSET Cmd, NEW root \in known,
           IsDepsClosureCommitted(G, known, root)
    PROVE  \E X \in SUBSET known : /\ root \in X
                                   /\ \A c \in X : G[c] \subseteq X
                                   /\ \A c \in X : IsDepsClosureCommitted(G, known, c)
<1> DEFINE W == Walk(G, G[root], Cmd)
           X == {root} \cup W
<1>1. G[root] \in SUBSET Cmd /\ Cmd \in SUBSET Cmd
  OBVIOUS
<1>2. W \in SUBSET Cmd /\ G[root] \subseteq W /\ ClosedIn(G, Cmd, W)
  BY <1>1, WalkCloses
<1>3. W \subseteq known
  BY DEF IsDepsClosureCommitted
<1> HIDE DEF W
<1>4. X \in SUBSET known /\ root \in X /\ \A c \in X : G[c] \subseteq X
  BY <1>2, <1>3 DEF ClosedIn
<1>5. ASSUME NEW c \in X PROVE IsDepsClosureCommitted(G, known, c)
  <2>1. G[c] \in SUBSET Cmd /\ G[c] \subseteq X /\ X \in SUBSET Cmd
    BY <1>4
  <2>2. \A Y \in SUBSET Cmd :
            G[c] \subseteq Y /\ ClosedIn(G, Cmd, Y) => Walk(G, G[c], Cmd) \subseteq Y
    BY <1>1, <2>1, WalkCloses
  <2> HIDE DEF X
  <2>3. Walk(G, G[c], Cmd) \subseteq X
    BY <1>4, <2>1, <2>2 DEF ClosedIn
  <2> QED
    BY <1>4, <2>3 DEF IsDepsClosureCommitted
<1> HIDE DEF X
<1> QED
  BY <1>4, <1>5

\* try_execute, and the removal of the entry.
LEMMA PromoteOneSound ==
    ASSUME NEW G \in [Cmd -> SUBSET Cmd], NEW D \in SUBSET Cmd, NEW known \in SUBSET D,
           NEW t \in Seq(Cmd), NEW listed, NEW run, RunSound(G, D, known, t, listed, run),
           NEW root \in NewlyStable(G, known, Range(t))
    PROVE  RunSound(G, D, known, t, listed \cup {root}, PromoteOne(G, run, root))
<1> DEFINE next == PromoteOne(G, run, root)
           done == Range(t)
           u == t \o run.order
<1>1. /\ run \in Runs /\ run.entries \in SUBSET Cmd /\ run.executed \in SUBSET Cmd
      /\ run.order \in Seq(Cmd)
  BY DEF RunSound, Runs
<1>2. /\ run.entries = (known \ done) \ listed
      /\ listed \subseteq run.executed
      /\ run.executed \subseteq NewlyStable(G, known, done)
      /\ Range(run.order) = run.executed
      /\ OrderSound(D, G, u)
  BY DEF RunSound
<1>3. u \in Seq(Cmd) /\ Range(u) = done \cup run.executed
  BY <1>1, <1>2, ConcatElements
<1>4. root \in known /\ root \notin done /\ IsDepsClosureCommitted(G, known, root)
  BY DEF NewlyStable
<1> HIDE DEF done, u
<1>5. CASE root \in run.executed
  <2>1. next = [run EXCEPT !.entries = @ \ {root}]
    BY <1>5 DEF PromoteOne, TryExecute
  <2>2. /\ next \in Runs /\ next.entries = run.entries \ {root}
        /\ next.executed = run.executed /\ next.order = run.order
    BY <1>1, <2>1 DEF Runs
  <2> HIDE DEF next
  <2>3. RunSound(G, D, known, t, listed \cup {root}, next)
    BY <1>2, <1>5, <2>2 DEF RunSound, done, u
  <2> QED
    BY <2>3 DEF next
<1>6. CASE root \notin run.executed
  <2> DEFINE B == PendingClosure(G, run, root)
             sccs == TarjanSccs(G, B)
             T == run.entries \ run.executed
             long == ExecuteAll(sccs, run.order)
  <2>1. next = [run EXCEPT !.executed = @ \cup B, !.order = long, !.entries = @ \ {root}]
    BY <1>1, <1>6 DEF PromoteOne, TryExecute, Runs
  <2>2. B = Walk(G, {root}, T)
    BY DEF PendingClosure
  <2>3. {root} \in SUBSET Cmd /\ T \in SUBSET Cmd
    BY <1>1, <1>4
  <2> HIDE DEF B
  <2>4. /\ B \in SUBSET Cmd /\ {root} \subseteq B /\ B \subseteq {root} \cup T
        /\ ClosedIn(G, T, B)
        /\ \A Y \in SUBSET Cmd : {root} \subseteq Y /\ ClosedIn(G, T, Y) => B \subseteq Y
    <3> HIDE DEF T
    <3> QED
      BY <2>2, <2>3, WalkCloses
  <2>5. PICK X \in SUBSET known : /\ root \in X
                                  /\ \A c \in X : G[c] \subseteq X
                                  /\ \A c \in X : IsDepsClosureCommitted(G, known, c)
    BY <1>4, ReadyClosed
  <2>6. B \subseteq X
    BY <2>4, <2>5 DEF ClosedIn
  <2>7. B \subseteq NewlyStable(G, known, done)
    BY <1>2, <1>4, <2>4, <2>5, <2>6 DEF NewlyStable
  <2>8. B \in SUBSET (D \ Range(u))
    BY <1>2, <1>3, <1>4, <1>6, <2>4, <2>7 DEF NewlyStable
  <2>9. \A c \in B : G[c] \subseteq B \cup Range(u)
    <3> SUFFICES ASSUME NEW c \in B, NEW d \in G[c] PROVE d \in B \cup Range(u)
      OBVIOUS
    <3>1. d \in known
      BY <2>5, <2>6
    <3>2. CASE d \in T
      BY <2>4, <3>2 DEF ClosedIn
    <3>3. CASE d \notin T
      BY <1>2, <1>3, <3>1, <3>3
    <3> QED
      BY <3>2, <3>3
  <2>10. PICK s \in ExecutionOrders(G, B) : long = run.order \o s
    <3>1. B \in SUBSET Nat /\ IsFiniteSet(B)
      BY <2>4, CmdAssumption, FS_Subset
    <3>2. sccs \in Seq(Seq(B)) /\ Members(sccs) = B /\ SccsSound(G, B, sccs)
      BY <3>1, TarjanCorrect
    <3> DEFINE o == run.order
    <3>3. o \in Seq(Cmd) /\ B \in SUBSET Cmd
      BY <1>1, <2>4
    <3> HIDE DEF sccs, o
    <3>4. \A N \in SUBSET Cmd : \A q \in Seq(Seq(N)) : \A z \in Seq(Cmd) :
              Members(q) = N /\ SccsSound(G, N, q) =>
                  \E s \in ExecutionOrders(G, N) : ExecuteAll(q, z) = z \o s
      BY SccsInOrder, Zenon
    <3>5. \E s \in ExecutionOrders(G, B) : ExecuteAll(sccs, o) = o \o s
      BY <3>2, <3>3, <3>4, Zenon
    <3> QED
      BY <3>5 DEF o
  <2> HIDE DEF T, sccs, long, next
  <2>11. u \o s \in Seq(Cmd) /\ OrderSound(D, G, u \o s)
    BY <1>2, <1>3, <2>8, <2>9, AppendSound
  <2>12. s \in Seq(Cmd) /\ Range(s) = B
    <3>1. IsFiniteSet(B) /\ Cardinality(B) \in Nat
      BY <2>4, CmdAssumption, FS_Subset, FS_CardinalityType
    <3>2. s \in [1 .. Cardinality(B) -> B] /\ \A c \in B : \E i \in 1 .. Cardinality(B) : s[i] = c
      BY DEF ExecutionOrders, Bijection, Injection, Surjection
    <3>3. s \in Seq(B)
      BY <3>1, <3>2, IsASeq
    <3>4. Range(s) = B
      BY <3>2 DEF Range
    <3> QED
      BY <2>4, <3>3, <3>4, SeqMonotonic
  <2>13. u \o s = t \o (run.order \o s) /\ run.order \o s \in Seq(Cmd)
    <3> DEFINE o == run.order
    <3>1. o \in Seq(Cmd) /\ u = t \o o
      BY <1>1 DEF u
    <3> HIDE DEF o
    <3>2. u \o s = t \o (o \o s) /\ o \o s \in Seq(Cmd)
      BY <2>12, <3>1
    <3> QED
      BY <3>2 DEF o
  <2>14. Range(run.order \o s) = run.executed \cup B
    BY <1>1, <1>2, <2>12, ConcatElements
  <2>15. /\ next \in Runs /\ next.entries = run.entries \ {root}
         /\ next.executed = run.executed \cup B /\ next.order = run.order \o s
    BY <1>1, <2>1, <2>4, <2>10, <2>13 DEF Runs
  <2>16. RunSound(G, D, known, t, listed \cup {root}, next)
    <3>1. next.entries = (known \ done) \ (listed \cup {root})
      BY <1>2, <2>15
    <3>2. listed \cup {root} \subseteq next.executed
      BY <1>2, <2>4, <2>15
    <3>3. next.executed \subseteq NewlyStable(G, known, done)
      BY <1>2, <2>7, <2>15
    <3>4. Range(next.order) = next.executed
      BY <2>14, <2>15
    <3>5. OrderSound(D, G, t \o next.order)
      BY <2>11, <2>13, <2>15
    <3> QED
      BY <2>15, <3>1, <3>2, <3>3, <3>4, <3>5 DEF RunSound, done
  <2> QED
    BY <2>16 DEF next
<1> QED
  BY <1>5, <1>6

(***************************************************************************)
(* promote_stable executes the commands that are ready, all of them and no *)
(* others, as one batch in an order that ExecutionOrders allows, in        *)
(* whatever order the hash set has them.                                   *)
(***************************************************************************)
THEOREM PassExecutesReady ==
    ASSUME NEW G \in [Cmd -> SUBSET Cmd], NEW D \in SUBSET Cmd, NEW known \in SUBSET D,
           NEW t \in Seq(Cmd), OrderSound(D, G, t),
           NEW s \in PassOrders(G, known, Range(t))
    PROVE  LET B == NewlyStable(G, known, Range(t)) IN
           /\ \A c \in B : G[c] \subseteq B \cup Range(t)
           /\ s \in ExecutionOrders(G, B)
<1> DEFINE B == NewlyStable(G, known, Range(t))
           start == [entries |-> known \ Range(t), executed |-> {}, order |-> <<>>]
<1>1. PICK list \in SetToSeqs(B) :
          s = Repeat([k \in DOMAIN list |-> [run \in Runs |-> PromoteOne(G, run, list[k])]],
                     Len(list), start).order
  BY DEF PassOrders, NewlyStable
<1> DEFINE n == Len(list)
           f == [k \in DOMAIN list |-> [run \in Runs |-> PromoteOne(G, run, list[k])]]
           W == Repeat(f, n, start)
           Upto(k) == {list[j] : j \in 1 .. k}
           Good == {x \in Nat \X Runs : RunSound(G, D, known, t, Upto(x[1]), x[2])}
<1>2. B \in SUBSET Cmd /\ IsFiniteSet(B) /\ Cardinality(B) \in Nat
  <2>1. B \in SUBSET Cmd
    BY DEF NewlyStable
  <2> QED
    BY <2>1, CmdAssumption, FS_Subset, FS_CardinalityType
<1>3. list \in Injection(1 .. Cardinality(B), B)
  BY DEF SetToSeqs, Injection, IsInjective
<1>4. list \in Surjection(1 .. Cardinality(B), B)
  <2> DEFINE m == Cardinality(B)
  <2> HIDE DEF m
  <2>1. IsFiniteSet(1 .. m) /\ Cardinality(1 .. m) = m
    BY <1>2, FS_Interval DEF m
  <2> QED
    BY <1>2, <1>3, <2>1, FS_Injection DEF m
<1>5. DOMAIN list = 1 .. n /\ n \in Nat /\ n = Cardinality(B) /\ \A k \in 1 .. n : list[k] \in B
  <2>1. list \in [1 .. Cardinality(B) -> B]
    BY <1>3 DEF Injection
  <2>2. list \in Seq(B)
    BY <1>2, <2>1, IsASeq
  <2> QED
    BY <1>2, <2>1, <2>2
<1>6. \A k \in 1 .. n : \A run \in Runs : f[k][run] = PromoteOne(G, run, list[k])
  BY <1>5
<1>7. s = W.order
  BY <1>1
<1> HIDE DEF f, n, B
<1>8. <<0, start>> \in Good
  <2>1. start \in Runs
    BY DEF Runs
  <2>2. Upto(0) = {}
    OBVIOUS
  <2>3. t \o <<>> = t /\ Range(<<>>) = {}
    BY DEF Range
  <2> HIDE DEF Upto
  <2>4. RunSound(G, D, known, t, Upto(0), start)
    BY <2>1, <2>2, <2>3 DEF RunSound
  <2> QED
    BY <2>1, <2>4
<1>9. ASSUME NEW k \in 1 .. n, NEW run, <<k - 1, run>> \in Good
      PROVE  <<k, f[k][run]>> \in Good
  <2> DEFINE c == list[k]
  <2>1. run \in Runs /\ RunSound(G, D, known, t, Upto(k - 1), run)
    BY <1>9
  <2>2. c \in NewlyStable(G, known, Range(t)) /\ k \in Nat
    BY <1>5 DEF B
  <2>3. Upto(k) = Upto(k - 1) \cup {c}
    BY <1>5
  <2> HIDE DEF Upto, c
  <2>4. RunSound(G, D, known, t, Upto(k - 1) \cup {c}, PromoteOne(G, run, c))
    BY <2>1, <2>2, PromoteOneSound
  <2>5. f[k][run] = PromoteOne(G, run, c)
    BY <1>6, <2>1 DEF c
  <2>6. RunSound(G, D, known, t, Upto(k), f[k][run]) /\ f[k][run] \in Runs
    BY <2>3, <2>4, <2>5 DEF RunSound
  <2> QED
    BY <2>2, <2>6
<1> HIDE DEF Good, start
<1>10. \A k \in 1 .. n : \A run : <<k - 1, run>> \in Good => <<k, f[k][run]>> \in Good
  BY <1>9
<1>11. <<n, W>> \in Good
  BY <1>5, <1>8, <1>10, RepeatKeeps
<1> HIDE DEF W
<1>12. W \in Runs /\ RunSound(G, D, known, t, Upto(n), W)
  BY <1>11 DEF Good
<1>13. Upto(n) = B
  BY <1>4, <1>5 DEF Surjection
<1> HIDE DEF Upto
<1>14. /\ s \in Seq(Cmd) /\ Range(s) = B /\ OrderSound(D, G, t \o s)
  <2>1. s \in Seq(Cmd)
    BY <1>7, <1>12 DEF Runs
  <2>2. W.executed = B
    BY <1>12, <1>13 DEF RunSound, B
  <2> QED
    BY <1>7, <1>12, <2>1, <2>2 DEF RunSound
<1> DEFINE u == t \o s
           m == Len(t)
           l == Len(s)
<1>15. /\ u \in Seq(Cmd) /\ DOMAIN u = 1 .. m + l
       /\ \A i \in 1 .. m + l : i > m => i - m \in DOMAIN s /\ u[i] = s[i - m]
       /\ Range(u) = Range(t) \cup B
  BY <1>14, ConcatElements
<1>16. m \in Nat /\ l \in Nat /\ DOMAIN s = 1 .. l
  BY <1>14, LenProperties
<1> HIDE DEF u, m, l
<1>17. /\ IsInjective(u) /\ ClosedIn(G, Cmd, Range(u))
       /\ \A i, j \in DOMAIN u :
              i < j /\ Reaches(G, Cmd, u[i], u[j]) => Reaches(G, Cmd, u[j], u[i]) /\ u[i] < u[j]
  BY <1>14 DEF OrderSound, u
<1>18. \A c \in B : G[c] \subseteq B \cup Range(t)
  BY <1>2, <1>15, <1>17 DEF ClosedIn
<1>19. \A i \in 1 .. l : m + i \in DOMAIN u /\ u[m + i] = s[i]
  <2> SUFFICES ASSUME NEW i \in 1 .. l PROVE m + i \in DOMAIN u /\ u[m + i] = s[i]
    OBVIOUS
  <2>1. m + i \in 1 .. m + l /\ m + i > m /\ (m + i) - m = i
    BY <1>16
  <2> QED
    BY <1>15, <2>1
<1>20. IsInjective(s)
  <2> SUFFICES ASSUME NEW i \in 1 .. l, NEW j \in 1 .. l, s[i] = s[j] PROVE i = j
    BY <1>16 DEF IsInjective
  <2>1. m + i = m + j
    BY <1>17, <1>19 DEF IsInjective
  <2> QED
    BY <1>16, <2>1
<1>21. s \in [1 .. l -> B] /\ \A c \in B : \E i \in 1 .. l : s[i] = c
  BY <1>14, <1>16 DEF Range
<1>22. l = Cardinality(B)
  <2>1. IsFiniteSet(1 .. l) /\ Cardinality(1 .. l) = l
    BY <1>16, FS_Interval
  <2>2. s \in Surjection(1 .. l, B) /\ s \in Injection(1 .. l, B)
    BY <1>20, <1>21 DEF Surjection, Injection
  <2> QED
    BY <2>1, <2>2, FS_Surjection
<1>23. \A x, y \in B : Reaches(G, Cmd, x, y) <=> Reaches(G, B, x, y)
  <2>1. ClosedIn(G, Cmd, Range(t)) /\ Range(t) \in SUBSET Cmd
    BY DEF OrderSound, Range
  <2>2. Range(t) \cap B = {}
    BY DEF B, NewlyStable
  <2> QED
    BY <1>2, <1>18, <2>1, <2>2, ReachesInBatch
<1>24. \A i, j \in 1 .. l :
           i < j /\ Reaches(G, B, s[i], s[j]) => Reaches(G, B, s[j], s[i]) /\ s[i] < s[j]
  <2> SUFFICES ASSUME NEW i \in 1 .. l, NEW j \in 1 .. l, i < j, Reaches(G, B, s[i], s[j])
               PROVE  Reaches(G, B, s[j], s[i]) /\ s[i] < s[j]
    OBVIOUS
  <2>1. s[i] \in B /\ s[j] \in B
    BY <1>21
  <2>2. m + i < m + j
    BY <1>16
  <2>3. Reaches(G, Cmd, s[i], s[j])
    BY <1>23, <2>1
  <2>4. Reaches(G, Cmd, s[j], s[i]) /\ s[i] < s[j]
    BY <1>17, <1>19, <2>2, <2>3
  <2> QED
    BY <1>23, <2>1, <2>4
<1>25. s \in ExecutionOrders(G, B)
  <2>1. s \in Bijection(1 .. Cardinality(B), B)
    BY <1>20, <1>21, <1>22 DEF Bijection, Surjection, Injection
  <2> QED
    BY <1>22, <1>24, <2>1 DEF ExecutionOrders
<1> QED
  BY <1>18, <1>25 DEF B

-----------------------------------------------------------------------------
(***************************************************************************)
(* The loop implements DependencyOrder.  The invariant is that of          *)
(* DependencyOrder with the type of "learned": a pass needs to know that   *)
(* what was executed before is closed and in a sound order.                *)
(***************************************************************************)

\* A call of commit learns the command and executes the newly stable ones.
LEMMA CommitExecutes ==
    ASSUME LoopTypeOK, OrderInv, decided' \in SUBSET Cmd, decidedDeps' \in [Cmd -> SUBSET Cmd],
           decided \subseteq decided', \A d \in decided : decidedDeps[d] = decidedDeps'[d],
           NEW p \in Replica, NEW c \in decided', Commit(p, c)
    PROVE  /\ learned' \in [Replica -> SUBSET decided']
           /\ learned'[p] = learned[p] \cup {c}
           /\ \A q \in Replica : q # p => learned'[q] = learned[q]
           /\ LET B == NewlyStable(decidedDeps', learned'[p], Range(order[p])) IN
              /\ Execute(p, B) /\ B \in SUBSET decided'
              /\ Range(order'[p]) = Range(order[p]) \cup B
              /\ \A q \in Replica : q # p => order'[q] = order[q]
<1> DEFINE t == order[p]
           G == decidedDeps'
           B == NewlyStable(G, learned'[p], Range(t))
<1>1. /\ order \in [Replica -> Seq(Cmd)] /\ learned \in [Replica -> SUBSET decided]
      /\ learned' = [learned EXCEPT ![p] = @ \cup {c}]
  BY DEF LoopTypeOK, TypeOK, Commit
<1>2. /\ learned' \in [Replica -> SUBSET decided']
      /\ learned'[p] = learned[p] \cup {c}
      /\ \A q \in Replica : q # p => learned'[q] = learned[q]
  BY <1>1
<1>3. PICK s \in PassOrders(G, learned'[p], Range(t)) :
          order' = [order EXCEPT ![p] = @ \o s]
  BY DEF Commit
<1>4. OrderSound(decided', G, t) /\ t \in Seq(Cmd)
  BY <1>1, GrowSound DEF LoopTypeOK, TypeOK, OrderInv
<1>5. learned'[p] \in SUBSET decided'
  BY <1>2
<1>6. (\A d \in B : G[d] \subseteq B \cup Range(t)) /\ s \in ExecutionOrders(G, B)
  <2> DEFINE known == learned'[p]
  <2>1. known \in SUBSET decided' /\ s \in PassOrders(G, known, Range(t))
    BY <1>5
  <2> HIDE DEF known, t, G
  <2>2. LET C == NewlyStable(G, known, Range(t)) IN
        (\A d \in C : G[d] \subseteq C \cup Range(t)) /\ s \in ExecutionOrders(G, C)
    <3>1. G \in [Cmd -> SUBSET Cmd] /\ decided' \in SUBSET Cmd
      BY DEF G
    <3> QED
      BY <1>4, <2>1, <3>1, PassExecutesReady
  <2> QED
    BY <2>2 DEF known
<1>7. B \subseteq decided' \ Range(t)
  BY <1>5 DEF NewlyStable
<1>8. s \in Seq(Cmd) /\ Range(s) = B
  <2> HIDE DEF B, G
  <2>1. B \in SUBSET Cmd
    BY <1>7
  <2>2. IsFiniteSet(B) /\ Cardinality(B) \in Nat
    BY <2>1, CmdAssumption, FS_Subset, FS_CardinalityType
  <2>3. s \in [1 .. Cardinality(B) -> B] /\ \A d \in B : \E i \in 1 .. Cardinality(B) : s[i] = d
    BY <1>6 DEF ExecutionOrders, Bijection, Injection, Surjection
  <2>4. s \in Seq(B)
    BY <2>2, <2>3, IsASeq
  <2>5. Range(s) = B
    BY <2>3 DEF Range
  <2> QED
    BY <2>1, <2>4, <2>5, SeqMonotonic
<1>9. order'[p] = t \o s /\ \A q \in Replica : q # p => order'[q] = order[q]
  BY <1>1, <1>3
<1>10. Range(t \o s) = Range(t) \cup B
  BY <1>4, <1>8, ConcatElements
<1>11. Execute(p, B)
  BY <1>3, <1>6, <1>7 DEF Execute
<1> QED
  BY <1>2, <1>7, <1>9, <1>10, <1>11

\* A step of the loop is a step of DependencyOrder and keeps the invariant.
LEMMA LoopStep ==
    ASSUME LoopTypeOK, OrderInv, [LoopNext]_loopVars
    PROVE  [Next]_vars /\ LoopTypeOK' /\ OrderInv'
<1>0. TypeOK
  BY DEF LoopTypeOK
<1>1. ASSUME NEW p \in Replica, NEW c \in Cmd, NEW D \in SUBSET (Cmd \ {c}),
             DecideAndCommit(p, c, D)
      PROVE  Next /\ learned' \in [Replica -> SUBSET decided']
  <2>1. /\ decided' = decided \cup {c} /\ decidedDeps' = [decidedDeps EXCEPT ![c] = D]
        /\ c \notin decided /\ Commit(p, c)
    BY <1>1 DEF DecideAndCommit
  <2>2. /\ decided' \in SUBSET Cmd /\ decidedDeps' \in [Cmd -> SUBSET Cmd]
        /\ decided \subseteq decided' /\ c \in decided'
        /\ \A d \in decided : decidedDeps[d] = decidedDeps'[d]
    BY <1>0, <2>1 DEF TypeOK
  <2>3. /\ learned' \in [Replica -> SUBSET decided']
        /\ \E B \in SUBSET decided' : Execute(p, B)
    BY <2>1, <2>2, CommitExecutes
  <2>4. Decide(p, c, D)
    BY <2>1, <2>3 DEF Decide
  <2> QED
    BY <2>3, <2>4 DEF Next
<1>2. ASSUME NEW p \in Replica, NEW c \in Cmd, HandleCommit(p, c)
      PROVE  Next /\ learned' \in [Replica -> SUBSET decided']
  <2>1. decided' = decided /\ decidedDeps' = decidedDeps /\ c \in decided' /\ Commit(p, c)
    BY <1>2 DEF HandleCommit
  <2>2. /\ decided' \in SUBSET Cmd /\ decidedDeps' \in [Cmd -> SUBSET Cmd]
        /\ decided \subseteq decided'
        /\ \A d \in decided : decidedDeps[d] = decidedDeps'[d]
    BY <1>0, <2>1 DEF TypeOK
  <2>3. /\ learned' \in [Replica -> SUBSET decided']
        /\ \E B \in SUBSET decided' : Execute(p, B)
    BY <2>1, <2>2, CommitExecutes
  <2>4. Learn(p)
    BY <2>1, <2>3 DEF Learn
  <2> QED
    BY <2>3, <2>4 DEF Next
<1>3. CASE UNCHANGED loopVars
  <2>1. UNCHANGED vars /\ UNCHANGED learned
    BY <1>3 DEF loopVars
  <2>2. learned' \in [Replica -> SUBSET decided']
    BY <2>1 DEF LoopTypeOK, vars
  <2> QED
    BY <1>0, <2>1, <2>2, InvStep DEF LoopTypeOK
<1>4. CASE LoopNext
  <2>1. Next /\ learned' \in [Replica -> SUBSET decided']
    BY <1>1, <1>2, <1>4 DEF LoopNext
  <2>2. TypeOK' /\ OrderInv'
    BY <1>0, <2>1, InvStep
  <2> QED
    BY <2>1, <2>2 DEF LoopTypeOK
<1> QED
  BY <1>3, <1>4

\* The initial states of the two specifications agree.
LEMMA LoopStart == LoopInit => Init /\ LoopInv
<1> SUFFICES ASSUME LoopInit PROVE Init /\ LoopInv
  OBVIOUS
<1>1. Init /\ learned = [p \in Replica |-> {}]
  BY DEF LoopInit
<1>2. TypeOK /\ OrderInv
  BY <1>1, InvInit
<1> QED
  BY <1>1, <1>2 DEF LoopInv, LoopTypeOK

\* The replicas have learned decided commands only, and what they have
\* executed is decided, closed and in a sound order.
THEOREM LoopInvariant == LoopSpec => []LoopInv
<1>1. LoopInit => LoopInv
  BY LoopStart
<1>2. LoopInv /\ [LoopNext]_loopVars => LoopInv'
  BY LoopStep DEF LoopInv
<1> QED
  BY <1>1, <1>2, PTL DEF LoopSpec

\* The graph walks, Tarjan's algorithm and the loop of promote_stable
\* implement DependencyOrder, for any commands and replicas.
THEOREM LoopImplementsOrder == LoopSpec => ImplementsOrder
<1>1. LoopInit => Init
  BY LoopStart
<1>2. LoopInv /\ [LoopNext]_loopVars => [Next]_vars
  BY LoopStep DEF LoopInv
<1> QED
  BY <1>1, <1>2, LoopInvariant, PTL DEF LoopSpec, ImplementsOrder, Spec

\* The orders that the loop computes agree, and respect dependencies.
THEOREM LoopOrders == LoopSpec => [](SameOrder /\ DependencyFirst)
BY LoopImplementsOrder, SameOrderHolds, DependencyFirstHolds, PTL DEF ImplementsOrder

-----------------------------------------------------------------------------
\* Whether c is ready depends only on the dependencies of known commands.
LEMMA ReadyAgrees ==
    ASSUME NEW G \in [Cmd -> SUBSET Cmd], NEW H \in [Cmd -> SUBSET Cmd],
           NEW known \in SUBSET Cmd, \A d \in known : G[d] = H[d],
           NEW c \in known, IsDepsClosureCommitted(H, known, c)
    PROVE  IsDepsClosureCommitted(G, known, c)
<1> DEFINE W == Walk(H, H[c], Cmd)
<1>1. G[c] \in SUBSET Cmd /\ H[c] \in SUBSET Cmd /\ G[c] = H[c] /\ Cmd \in SUBSET Cmd
  OBVIOUS
<1>2. W \in SUBSET Cmd /\ H[c] \subseteq W /\ ClosedIn(H, Cmd, W)
  BY <1>1, WalkCloses
<1>3. W \subseteq known
  BY DEF IsDepsClosureCommitted
<1> HIDE DEF W
<1>4. ClosedIn(G, Cmd, W)
  BY <1>2, <1>3 DEF ClosedIn
<1>5. Walk(G, G[c], Cmd) \subseteq W
  BY <1>1, <1>2, <1>4, WalkCloses
<1> QED
  BY <1>3, <1>5 DEF IsDepsClosureCommitted

\* No step leaves a ready command behind, at its replica or at another.
LEMMA NothingWaitsStep ==
    ASSUME LoopTypeOK, OrderInv, NothingWaits, [LoopNext]_loopVars
    PROVE  NothingWaits'
<1>0. /\ decided \in SUBSET Cmd /\ decidedDeps \in [Cmd -> SUBSET Cmd]
      /\ learned \in [Replica -> SUBSET decided]
  BY DEF LoopTypeOK, TypeOK
<1>1. ASSUME NEW p \in Replica, NEW c \in decided', Commit(p, c),
             decided' \in SUBSET Cmd, decidedDeps' \in [Cmd -> SUBSET Cmd],
             decided \subseteq decided', \A d \in decided : decidedDeps[d] = decidedDeps'[d]
      PROVE  NothingWaits'
  <2> DEFINE B == NewlyStable(decidedDeps', learned'[p], Range(order[p]))
  <2>1. /\ \A q \in Replica : q # p => learned'[q] = learned[q]
        /\ Range(order'[p]) = Range(order[p]) \cup B
        /\ \A q \in Replica : q # p => order'[q] = order[q]
    BY <1>1, CommitExecutes
  <2>2. ASSUME NEW q \in Replica, NEW x \in learned'[q],
               IsDepsClosureCommitted(decidedDeps', learned'[q], x)
        PROVE  x \in Range(order'[q])
    <3>1. CASE q = p
      <4>1. x \in Range(order[p]) \/ x \in B
        BY <2>2, <3>1 DEF NewlyStable
      <4> QED
        BY <2>1, <3>1, <4>1
    <3>2. CASE q # p
      <4>1. learned'[q] = learned[q] /\ order'[q] = order[q]
        BY <2>1, <3>2
      <4>2. learned[q] \in SUBSET Cmd /\ \A d \in learned[q] : decidedDeps[d] = decidedDeps'[d]
        BY <1>0, <1>1
      <4>3. x \in learned[q] /\ IsDepsClosureCommitted(decidedDeps', learned[q], x)
        BY <2>2, <4>1
      <4>4. IsDepsClosureCommitted(decidedDeps, learned[q], x)
        <5> DEFINE G == decidedDeps
                   H == decidedDeps'
                   known == learned[q]
        <5>1. /\ G \in [Cmd -> SUBSET Cmd] /\ H \in [Cmd -> SUBSET Cmd] /\ known \in SUBSET Cmd
              /\ \A d \in known : G[d] = H[d]
          BY <1>0, <1>1, <4>2
        <5>2. x \in known /\ IsDepsClosureCommitted(H, known, x)
          BY <4>3
        <5> HIDE DEF G, H, known
        <5>3. IsDepsClosureCommitted(G, known, x)
          BY <5>1, <5>2, ReadyAgrees
        <5> QED
          BY <5>3 DEF G, known
      <4>5. x \in Range(order[q])
        BY <4>3, <4>4 DEF NothingWaits
      <4> QED
        BY <4>1, <4>5
    <3> QED
      BY <3>1, <3>2
  <2> QED
    BY <2>2 DEF NothingWaits
<1>2. ASSUME NEW p \in Replica, NEW c \in Cmd, NEW D \in SUBSET (Cmd \ {c}),
             DecideAndCommit(p, c, D)
      PROVE  NothingWaits'
  <2>1. /\ decided' = decided \cup {c} /\ decidedDeps' = [decidedDeps EXCEPT ![c] = D]
        /\ c \notin decided /\ Commit(p, c)
    BY <1>2 DEF DecideAndCommit
  <2>2. /\ decided' \in SUBSET Cmd /\ decidedDeps' \in [Cmd -> SUBSET Cmd]
        /\ decided \subseteq decided' /\ c \in decided'
        /\ \A d \in decided : decidedDeps[d] = decidedDeps'[d]
    BY <1>0, <2>1
  <2> QED
    BY <1>1, <2>1, <2>2
<1>3. ASSUME NEW p \in Replica, NEW c \in Cmd, HandleCommit(p, c)
      PROVE  NothingWaits'
  <2>1. decided' = decided /\ decidedDeps' = decidedDeps /\ c \in decided' /\ Commit(p, c)
    BY <1>3 DEF HandleCommit
  <2> QED
    BY <1>0, <1>1, <2>1
<1>4. CASE UNCHANGED loopVars
  BY <1>4 DEF loopVars, vars, NothingWaits
<1> QED
  BY <1>2, <1>3, <1>4 DEF LoopNext

\* A learned command whose dependencies are all learned is executed.
THEOREM NothingWaitsHolds == LoopSpec => []NothingWaits
<1>1. LoopInit => NothingWaits
  BY DEF LoopInit, NothingWaits
<1>2. LoopInv /\ NothingWaits /\ [LoopNext]_loopVars => NothingWaits'
  BY NothingWaitsStep DEF LoopInv
<1> QED
  BY <1>1, <1>2, LoopInvariant, PTL DEF LoopSpec
=============================================================================
