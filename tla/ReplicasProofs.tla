--------------------------- MODULE ReplicasProofs ---------------------------
(***************************************************************************)
(* Proofs about Replicas, for every set of commands, keys and replicas:    *)
(* the logs stay exact (LogsExact is inductive together with TypeOK), and  *)
(* the logs implement DependencyOrder.  What makes a pass of               *)
(* promote_stable a batch of DependencyOrder is CommitExecutes, in         *)
(* CmdLogProofs.                                                           *)
(***************************************************************************)
EXTENDS Replicas, CmdLogProofs

\* The abstract specification has its own copy of the execution orders.
LEMMA OrdersShared == \A G, B : Abstract!ExecutionOrders(G, B) = ExecutionOrders(G, B)
<1>1. \A G, B, x, y : Abstract!Reaches(G, B, x, y) <=> Reaches(G, B, x, y)
  BY DEF Reaches, ClosedIn, Abstract!Reaches, Abstract!ClosedIn
<1>2. \A S, T : Abstract!Bijection(S, T) = Bijection(S, T)
  BY DEF Bijection, Injection, Surjection, IsInjective, Abstract!Bijection,
         Abstract!Injection, Abstract!Surjection, Abstract!IsInjective
<1>3. \A B : Abstract!Cardinality(B) = Cardinality(B)
  BY DEF Cardinality, Abstract!Cardinality, IsFiniteSet, Abstract!IsFiniteSet
<1> QED
  BY <1>1, <1>2, <1>3 DEF ExecutionOrders, Abstract!ExecutionOrders

\* Learning the decision on c: the logs stay exact, and the abstract
\* specification sees the execution of one batch.
LEMMA LearnKeeps ==
    ASSUME TypeOK, LogsExact, NEW p \in Replica, NEW c \in Cmd, NEW D \in SUBSET Cmd,
           decided' \in SUBSET Cmd, decidedDeps' \in [Cmd -> SUBSET Cmd],
           decided \subseteq decided', c \in decided', decidedDeps'[c] = D,
           \A d \in decided : decidedDeps'[d] = decidedDeps[d],
           Learn(p, c, D)
    PROVE  /\ TypeOK' /\ LogsExact'
           /\ \E B \in SUBSET decided' : Abstract!Execute(p, B)
<1> DEFINE l == log[p]
           E == DepsAfter(l, c, D)
<1>1. l \in Log /\ IndexExact(l) /\ l.pending_commit \cup l.stable \subseteq decided
      /\ \A d \in l.pending_commit : l.entries[d].deps = decidedDeps[d]
  BY DEF TypeOK, LogsExact
<1>2. PICK r \in CommitOutcomes(l, c, D) : log' = [log EXCEPT ![p] = r]
  BY DEF Learn
<1>3. r \in Log /\ IndexExact(r) /\ CommitsBatch(l, c, D, r)
  BY <1>1, CommitExecutes
<1>4. /\ log' \in [Replica -> Log] /\ log'[p] = r
      /\ \A q \in Replica \ {p} : log'[q] = log[q]
  BY <1>2, <1>3 DEF TypeOK
<1>5. TypeOK'
  BY <1>4 DEF TypeOK
<1>6. \A d \in l.pending_commit \cup {c} : E[d] = decidedDeps'[d]
  <2>1. \A d \in Cmd : E[d] = IF d = c THEN D ELSE l.entries[d].deps
    BY DEF DepsAfter, DepsOf
  <2>2. l.pending_commit \subseteq Cmd
    BY <1>1 DEF TypeOK
  <2> QED
    BY <1>1, <2>1, <2>2
<1>7. /\ r.pending_commit \subseteq (l.pending_commit \cup {c}) \ l.stable
      /\ \A d \in r.pending_commit : r.entries[d].deps = E[d]
  BY <1>3 DEF CommitsBatch
<1>8. PICK B \in SUBSET ((l.pending_commit \cup {c}) \ l.stable) :
          /\ r.stable = l.stable \cup B
          /\ \A b \in B : E[b] \subseteq B \cup l.stable
          /\ \E s \in ExecutionOrders(E, B) : r.executed = l.executed \o s
  BY <1>3 DEF CommitsBatch
<1> HIDE DEF E
<1>9. PICK s \in ExecutionOrders(E, B) : r.executed = l.executed \o s
  BY <1>8
<1>10. LogsExact'
  <2> SUFFICES ASSUME NEW q \in Replica
               PROVE  /\ IndexExact(log'[q])
                      /\ log'[q].pending_commit \cup log'[q].stable \subseteq decided'
                      /\ \A d \in log'[q].pending_commit :
                            log'[q].entries[d].deps = decidedDeps'[d]
    BY DEF LogsExact, IndexExact, CommittedIds
  <2>1. CASE q = p
    <3>1. r.pending_commit \cup r.stable \subseteq decided'
      BY <1>1, <1>7, <1>8
    <3>2. \A d \in r.pending_commit : r.entries[d].deps = decidedDeps'[d]
      BY <1>7, <1>6
    <3> QED
      BY <1>3, <1>4, <2>1, <3>1, <3>2
  <2>2. CASE q # p
    <3>1. log'[q] = log[q]
      BY <1>4, <2>2
    <3> QED
      BY <3>1 DEF LogsExact
  <2> QED
    BY <2>1, <2>2
<1>11. Range(order[p]) = l.stable /\ order[p] = l.executed
  BY <1>1 DEF order, IndexExact
<1>12. order' = [order EXCEPT ![p] = @ \o s]
  BY <1>4, <1>9 DEF order
<1>13. s \in ExecutionOrders(decidedDeps', B)
  BY <1>6, <1>9, <1>8, ExecutionOrdersAgree
<1>14. Abstract!Execute(p, B)
  <2>1. Abstract!Range(order[p]) = l.stable
    BY <1>11 DEF Range, Abstract!Range
  <2>2. B \subseteq decided' \ l.stable
    BY <1>1, <1>8
  <2>3. \A b \in B : decidedDeps'[b] \subseteq B \cup l.stable
    BY <1>6, <1>8
  <2> QED
    BY <1>12, <1>13, <2>1, <2>2, <2>3, OrdersShared DEF Abstract!Execute
<1> QED
  BY <1>1, <1>5, <1>8, <1>10, <1>14

-----------------------------------------------------------------------------

LEMMA LogsInit == Init => TypeOK /\ LogsExact
<1> SUFFICES ASSUME Init PROVE TypeOK /\ LogsExact
  OBVIOUS
<1>1. NoEntry \in Entry
  BY DEF NoEntry, Entry
<1>2. EmptyLog \in Log
  BY <1>1 DEF EmptyLog, Log
<1>3. IndexExact(EmptyLog)
  BY DEF IndexExact, EmptyLog, NoEntry, CommittedIds, Range
<1>4. EmptyLog.pending_commit = {} /\ EmptyLog.stable = {}
  BY DEF EmptyLog
<1> QED
  BY <1>2, <1>3, <1>4 DEF Init, TypeOK, LogsExact

\* A step of the replicas keeps the logs exact and is a step of the abstract
\* specification, or none.
LEMMA LogsStep ==
    TypeOK /\ LogsExact /\ [Next]_vars
        => TypeOK' /\ LogsExact' /\ [Abstract!Next]_Abstract!vars
<1> SUFFICES ASSUME TypeOK, LogsExact, [Next]_vars
             PROVE  TypeOK' /\ LogsExact' /\ [Abstract!Next]_Abstract!vars
  OBVIOUS
<1>1. ASSUME NEW p \in Replica, NEW r \in Log, UNCHANGED <<decided, decidedDeps>>,
             log' = [log EXCEPT ![p] = r], IndexExact(r),
             r.stable = log[p].stable, r.executed = log[p].executed,
             r.pending_commit = log[p].pending_commit,
             \A d \in Cmd : r.entries[d].deps = log[p].entries[d].deps
      PROVE  TypeOK' /\ LogsExact' /\ UNCHANGED Abstract!vars
  <2>1. /\ log' \in [Replica -> Log] /\ log'[p] = r
        /\ \A q \in Replica \ {p} : log'[q] = log[q]
    BY <1>1 DEF TypeOK
  <2>2. TypeOK'
    BY <1>1, <2>1 DEF TypeOK
  <2>3. LogsExact'
    <3> SUFFICES ASSUME NEW q \in Replica
                 PROVE  /\ IndexExact(log'[q])
                        /\ log'[q].pending_commit \cup log'[q].stable \subseteq decided'
                        /\ \A d \in log'[q].pending_commit :
                              log'[q].entries[d].deps = decidedDeps'[d]
      BY DEF LogsExact, IndexExact, CommittedIds
    <3>1. CASE q = p
      BY <1>1, <2>1, <3>1 DEF LogsExact, TypeOK, Log
    <3>2. CASE q # p
      BY <1>1, <2>1, <3>2 DEF LogsExact
    <3> QED
      BY <3>1, <3>2
  <2>4. order' = order
    BY <1>1, <2>1 DEF order
  <2> QED
    BY <1>1, <2>2, <2>3, <2>4 DEF Abstract!vars
<1>2. ASSUME NEW p \in Replica, NEW c \in Cmd, Create(p, c)
      PROVE  TypeOK' /\ LogsExact' /\ UNCHANGED Abstract!vars
  <2>1. log[p] \in Log /\ IndexExact(log[p]) /\ c \notin log[p].stable
    BY <1>2 DEF Create, TypeOK, LogsExact
  <2> QED
    BY <1>1, <1>2, <2>1, CreationKeeps DEF Create
<1>3. ASSUME NEW p \in Replica, NEW c \in Cmd, Receive(p, c)
      PROVE  TypeOK' /\ LogsExact' /\ UNCHANGED Abstract!vars
  <2>1. log[p] \in Log /\ IndexExact(log[p])
    BY DEF TypeOK, LogsExact
  <2> QED
    BY <1>1, <1>3, <2>1, SubmitKeeps DEF Receive
<1>4. ASSUME NEW p \in Replica, NEW c \in Cmd, NEW D \in SUBSET (Cmd \ {c}), Decide(p, c, D)
      PROVE  TypeOK' /\ LogsExact' /\ Abstract!Decide(p, c, D)
  <2>1. /\ decided' = decided \cup {c} /\ decidedDeps' = [decidedDeps EXCEPT ![c] = D]
        /\ c \notin decided /\ Learn(p, c, D)
    BY <1>4 DEF Decide
  <2>2. /\ decided' \in SUBSET Cmd /\ decidedDeps' \in [Cmd -> SUBSET Cmd]
        /\ decidedDeps'[c] = D /\ \A d \in decided : decidedDeps'[d] = decidedDeps[d]
    BY <2>1 DEF TypeOK
  <2>3. TypeOK' /\ LogsExact' /\ \E B \in SUBSET decided' : Abstract!Execute(p, B)
    BY <2>1, <2>2, LearnKeeps
  <2> QED
    BY <2>1, <2>3 DEF Abstract!Decide
<1>5. ASSUME NEW p \in Replica, NEW c \in Cmd, Commit(p, c)
      PROVE  TypeOK' /\ LogsExact' /\ Abstract!Learn(p)
  <2>1. c \in decided /\ Learn(p, c, decidedDeps[c]) /\ UNCHANGED <<decided, decidedDeps>>
    BY <1>5 DEF Commit
  <2>2. TypeOK' /\ LogsExact' /\ \E B \in SUBSET decided' : Abstract!Execute(p, B)
    BY <2>1, LearnKeeps DEF TypeOK
  <2> QED
    BY <2>1, <2>2 DEF Abstract!Learn
<1>6. CASE UNCHANGED vars
  BY <1>6 DEF vars, TypeOK, LogsExact, IndexExact, CommittedIds, order, Abstract!vars
<1>7. CASE Next
  <2>1. ASSUME NEW p \in Replica, NEW c \in Cmd, NEW D \in SUBSET (Cmd \ {c}),
               Abstract!Decide(p, c, D)
        PROVE  Abstract!Next
    BY <2>1 DEF Abstract!Next
  <2>2. ASSUME NEW p \in Replica, Abstract!Learn(p)
        PROVE  Abstract!Next
    BY <2>2 DEF Abstract!Next
  <2> QED
    BY <1>2, <1>3, <1>4, <1>5, <1>7, <2>1, <2>2 DEF Next
<1> QED
  BY <1>6, <1>7

\* In every reachable state, whatever the order in which a replica creates
\* commands and learns bodies and decisions, its indexes agree with its entries
\* and hold nothing but what was decided.
THEOREM LogsInvariant == Spec => [](TypeOK /\ LogsExact)
BY LogsInit, LogsStep, PTL DEF Spec

\* The entries and indexes of every log keep their types: in particular no
\* call of CmdLog leaves an entry in phase Stable or Executed behind.
THEOREM TypeCorrect == Spec => []TypeOK
BY LogsInvariant, PTL

\* The logs implement the abstract specification.
THEOREM LogsImplementOrder == Spec => ImplementsDependencyOrder
<1>1. Init => Abstract!Init
  <2>1. EmptyLog.executed = << >>
    BY DEF EmptyLog
  <2> QED
    BY <2>1 DEF Init, Abstract!Init, order
<1>2. TypeOK /\ LogsExact /\ [Next]_vars => [Abstract!Next]_Abstract!vars
  BY LogsStep
<1> QED
  BY <1>1, <1>2, LogsInvariant, PTL DEF Spec, ImplementsDependencyOrder, Abstract!Spec

-----------------------------------------------------------------------------

\* No replica holds a command that promote_stable would pick now.
NoneReady == \A p \in Replica : NewlyStable(log[p]) = {}

LEMMA NoneReadyStep ==
    TypeOK /\ LogsExact /\ NoneReady /\ [Next]_vars => NoneReady'
<1> SUFFICES ASSUME TypeOK, LogsExact, NoneReady, [Next]_vars PROVE NoneReady'
  OBVIOUS
<1>1. ASSUME NEW p \in Replica, NEW r, log' = [log EXCEPT ![p] = r], NewlyStable(r) = {}
      PROVE  NoneReady'
  <2>1. \A q \in Replica : log'[q] = IF q = p THEN r ELSE log[q]
    BY <1>1 DEF TypeOK
  <2>2. \A q \in Replica : NewlyStable(log'[q]) = {}
    BY <1>1, <2>1 DEF NoneReady
  <2> QED
    BY <2>2 DEF NoneReady, NewlyStable, IsDepsClosureCommitted, CommittedIds
<1>2. ASSUME NEW p \in Replica
      PROVE  log[p] \in Log /\ IndexExact(log[p]) /\ NewlyStable(log[p]) = {}
             /\ log[p].stable \subseteq decided
  BY <1>2 DEF TypeOK, LogsExact, NoneReady
<1>3. ASSUME NEW p \in Replica, NEW c \in Cmd, Create(p, c) PROVE NoneReady'
  <2> DEFINE r == RecordCreation(log[p], c)
  <2>1. c \notin log[p].stable /\ log' = [log EXCEPT ![p] = r]
    BY <1>2, <1>3 DEF Create
  <2>2. /\ r \in Log /\ IndexExact(r)
        /\ r.stable = log[p].stable /\ r.pending_commit = log[p].pending_commit
        /\ \A d \in Cmd : r.entries[d].deps = log[p].entries[d].deps
    BY <1>2, <2>1, CreationKeeps
  <2> HIDE DEF r
  <2>3. NewlyStable(r) = {}
    BY <1>2, <2>2, ReadySame
  <2> QED
    BY <1>1, <2>1, <2>3
<1>4. ASSUME NEW p \in Replica, NEW c \in Cmd, Receive(p, c) PROVE NoneReady'
  <2> DEFINE r == Submit(log[p], c)
  <2>1. log' = [log EXCEPT ![p] = r]
    BY <1>4 DEF Receive
  <2>2. /\ r \in Log /\ IndexExact(r)
        /\ r.stable = log[p].stable /\ r.pending_commit = log[p].pending_commit
        /\ \A d \in Cmd : r.entries[d].deps = log[p].entries[d].deps
    BY <1>2, SubmitKeeps
  <2> HIDE DEF r
  <2>3. NewlyStable(r) = {}
    BY <1>2, <2>2, ReadySame
  <2> QED
    BY <1>1, <2>1, <2>3
<1>5. ASSUME NEW p \in Replica, NEW c \in Cmd, NEW D \in SUBSET Cmd, Learn(p, c, D)
      PROVE  NoneReady'
  <2>1. PICK r \in CommitOutcomes(log[p], c, D) : log' = [log EXCEPT ![p] = r]
    BY <1>5 DEF Learn
  <2>2. NewlyStable(r) = {}
    BY <1>2, CommitLeavesNoneReady
  <2> QED
    BY <1>1, <2>1, <2>2
<1>6. ASSUME NEW p \in Replica, NEW c \in Cmd, NEW D \in SUBSET (Cmd \ {c}), Decide(p, c, D)
      PROVE  NoneReady'
  BY <1>5, <1>6 DEF Decide
<1>7. ASSUME NEW p \in Replica, NEW c \in Cmd, Commit(p, c) PROVE NoneReady'
  BY <1>5, <1>7 DEF Commit, TypeOK
<1>8. CASE UNCHANGED vars
  BY <1>8 DEF vars, NoneReady, NewlyStable, IsDepsClosureCommitted, CommittedIds
<1> QED
  BY <1>3, <1>4, <1>6, <1>7, <1>8 DEF Next

\* No wake-up is lost: commit looks at all pending commits, not only at those
\* that wait for the command just committed, and one look is enough.
THEOREM NoneStrandedHolds == Spec => []NoneStranded
<1>1. Init => NoneReady
  <2>1. EmptyLog.pending_commit = {}
    BY DEF EmptyLog
  <2> QED
    BY <2>1 DEF Init, NoneReady, NewlyStable
<1>2. TypeOK /\ LogsExact /\ NoneReady => NoneStranded
  <2> SUFFICES ASSUME TypeOK, LogsExact, NoneReady, NEW p \in Replica,
                      NEW S \in SUBSET (log[p].pending_commit \cup log[p].stable),
                      ClosedIn(decidedDeps, Cmd, S),
                      NEW c \in S, c \notin log[p].stable
               PROVE  FALSE
    BY DEF NoneStranded
  <2> DEFINE l == log[p]
             W == S \cap l.pending_commit
  <2>1. /\ l \in Log /\ l.pending_commit = CommittedIds(l) /\ NewlyStable(l) = {}
        /\ \A d \in l.pending_commit : l.entries[d].deps = decidedDeps[d]
    BY DEF TypeOK, LogsExact, IndexExact, NoneReady
  <2>2. \A d \in W : l.entries[d].deps \subseteq W \cup l.stable
    <3> SUFFICES ASSUME NEW d \in W, NEW x \in l.entries[d].deps
                 PROVE  x \in W \cup l.stable
      OBVIOUS
    <3>1. x \in decidedDeps[d] /\ d \in Cmd
      BY <2>1 DEF Log
    <3>2. x \in S
      BY <3>1 DEF ClosedIn, TypeOK
    <3> QED
      BY <3>2
  <2>3. c \in W /\ W \in SUBSET CommittedIds(l)
    BY <2>1
  <2> HIDE DEF l, W
  <2>4. IsDepsClosureCommitted(l, l.entries[c].deps)
    BY <2>2, <2>3 DEF IsDepsClosureCommitted
  <2>5. c \in NewlyStable(l)
    BY <2>1, <2>3, <2>4 DEF NewlyStable
  <2> QED
    BY <2>1, <2>5
<1> QED
  BY <1>1, <1>2, NoneReadyStep, LogsInvariant, PTL DEF Spec
=============================================================================
