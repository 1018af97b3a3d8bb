----------------------- MODULE ConflictTrackerProofs -----------------------
(***************************************************************************)
(* The conflict tracker follows the logs of the replicas, whatever the     *)
(* protocol and the network (TrackerExactHolds).  Where Wintermute waits   *)
(* for everybody's answer it counts every command on a cycle and is empty  *)
(* in the end (CyclesCountedHolds, TrackerDrainedHolds).                   *)
(***************************************************************************)
EXTENDS ConflictTracker, BLSMRProofs

-----------------------------------------------------------------------------
\* What a run of executions leaves in the tracker.

\* A set of numbers has a least one.
LEMMA LeastNumber ==
    ASSUME NEW T \in SUBSET Nat, T # {}
    PROVE  \E x \in T : \A y \in T : x <= y
<1>1. IsWellFoundedOn(OpToRel(<, Nat), Nat)
  BY NatLessThanWellFounded
<1>2. PICK x \in T : \A y \in T : <<y, x>> \notin OpToRel(<, Nat)
  BY <1>1, WFMin
<1>3. \A y \in T : ~(y < x)
  BY <1>2 DEF OpToRel
<1> QED
  BY <1>3

\* The tracker after each of the executions.
LEMMA RecordedInSteps ==
    ASSUME NEW t, NEW p, NEW s, NEW done \in Nat, Len(s) \in Nat, done <= Len(s), NEW bodies
    PROVE  \E T :
              /\ T[done] = t
              /\ \A i \in done + 1 .. Len(s) :
                    T[i] = IF s[i] \in bodies THEN RecordExecution(T[i - 1], p, s[i]) ELSE T[i - 1]
              /\ Recorded(t, p, s, done, bodies) = T[Len(s)]
<1> DEFINE Step(L, i) == IF i = done THEN t
                         ELSE IF s[i] \in bodies THEN RecordExecution(L[i - 1], p, s[i])
                         ELSE L[i - 1]
           F(m, L) == [i \in done .. m |-> Step(L, i)]
           Missing == {m \in Nat : m >= done /\ ~\E L : L = F(m, L)}
<1>1. Missing = {}
  <2> SUFFICES ASSUME Missing # {} PROVE FALSE
    OBVIOUS
  <2>1. PICK m \in Missing : \A k \in Missing : m <= k
    BY LeastNumber
  <2>2. CASE m = done
    <3> DEFINE L == [i \in done .. done |-> t]
    <3>1. L = F(done, L)
      OBVIOUS
    <3> QED
      BY <2>1, <2>2, <3>1
  <2>3. CASE m # done
    <3>1. m - 1 \in Nat /\ m - 1 >= done /\ m - 1 \notin Missing
      BY <2>1, <2>3
    <3>2. PICK L : L = F(m - 1, L)
      BY <3>1
    <3> DEFINE M == [i \in done .. m |-> IF i = m THEN Step(L, m) ELSE L[i]]
    <3>3. M = F(m, M)
      <4>1. ASSUME NEW i \in done .. m PROVE M[i] = Step(M, i)
        <5>1. CASE i = m
          BY <2>1, <2>3, <5>1
        <5>2. CASE i # m
          <6>1. i \in done .. m - 1 /\ M[i] = L[i] /\ L[i] = Step(L, i)
            BY <2>1, <3>2, <5>2
          <6>2. i # done => M[i - 1] = L[i - 1]
            BY <2>1, <6>1
          <6> QED
            BY <6>1, <6>2
        <5> QED
          BY <5>1, <5>2
      <4> QED
        BY <4>1
    <3> QED
      BY <2>1, <3>3
  <2> QED
    BY <2>2, <2>3
<1>2. PICK T : T = F(Len(s), T)
  BY <1>1
<1> DEFINE D == CHOOSE L : L = F(Len(s), L)
<1>3. D = F(Len(s), D)
  BY <1>2
<1>4. Recorded(t, p, s, done, bodies) = D[Len(s)]
  BY DEF Recorded
<1> HIDE DEF D
<1>5. \A i \in done .. Len(s) : D[i] = Step(D, i)
  BY <1>3
<1>6. D[done] = t /\ \A i \in done + 1 .. Len(s) : D[i] = Step(D, i) /\ i # done
  BY <1>5
<1> QED
  BY <1>4, <1>6

\* The tracker t for the replicas A[c] that have executed c and the commands
\* S that have arrived.
Exact(t, A, S) ==
    /\ t \in Tracker
    /\ t.commands = {c \in S : A[c] # Replica}
    /\ \A c \in Cmd : t.executors[c] = IF c \in t.commands THEN A[c] ELSE {}
    /\ t.executed_commands = Cardinality({c \in Cmd : A[c] # {}})

\* It has counted only what is executed, and every command of Y that is.
Counted(t, A, Y) ==
    /\ \A c \in Y : A[c] # {} => c \in t.conflicting
    /\ \A c \in t.conflicting : A[c] # {}
    /\ t.conflicting_commands = Cardinality(t.conflicting)

LEMMA Recording ==
    ASSUME NEW S \in SUBSET Cmd, NEW Y \in SUBSET Cmd, NEW A \in [Cmd -> SUBSET Replica],
           NEW t, Exact(t, A, S), Counted(t, A, Y),
           NEW p \in Replica, NEW c \in S, p \notin A[c],
           c \in Y /\ A[c] = {} => Conflicting(t, c)
    PROVE  LET r == RecordExecution(t, p, c)
               B == [A EXCEPT ![c] = @ \cup {p}]
           IN  Exact(r, B, S) /\ Counted(r, B, Y)
<1> DEFINE r == RecordExecution(t, p, c)
           B == [A EXCEPT ![c] = @ \cup {p}]
           E == t.executors[c] \cup {p}
           u == Count(t, c)
           more == IF A[c] = {} THEN 1 ELSE 0
           conflict == IF A[c] = {} /\ Conflicting(t, c) THEN 1 ELSE 0
           K == t.conflicting \cup (IF A[c] = {} /\ Conflicting(t, c) THEN {c} ELSE {})
<1>1. c \in Cmd /\ c \in t.commands /\ t.executors[c] = A[c] /\ E = A[c] \cup {p}
  BY DEF Exact
<1>2. B \in [Cmd -> SUBSET Replica] /\ B[c] = E /\ \A d \in Cmd \ {c} : B[d] = A[d]
  BY <1>1
<1>3. /\ u \in Tracker /\ u.commands = t.commands /\ u.executors = t.executors
      /\ u.executed_commands = t.executed_commands + more
      /\ u.conflicting_commands = t.conflicting_commands + conflict /\ u.conflicting = K
  <2>1. t \in Tracker
    BY DEF Exact
  <2>2. CASE A[c] # {}
    BY <1>1, <2>1, <2>2 DEF Count, Tracker
  <2>3. CASE A[c] = {}
    <3>1. /\ t.executed_commands + more \in Nat /\ t.conflicting_commands + conflict \in Nat
          /\ K \in SUBSET Cmd
      BY <1>1, <2>1 DEF Tracker
    <3>2. u = [t EXCEPT !.executed_commands = @ + 1,
                        !.conflicting_commands = @ + (IF Conflicting(t, c) THEN 1 ELSE 0),
                        !.conflicting = @ \cup (IF Conflicting(t, c) THEN {c} ELSE {})]
      BY <1>1, <2>3 DEF Count
    <3>3. u = [commands             |-> t.commands,
               executors            |-> t.executors,
               conflicting_commands |-> t.conflicting_commands + conflict,
               conflicting          |-> K,
               executed_commands    |-> t.executed_commands + more]
      BY <2>1, <2>3, <3>2 DEF Tracker
    <3> HIDE DEF more, conflict, u, K
    <3> QED
      BY <2>1, <3>1, <3>3 DEF Tracker
  <2> QED
    BY <2>2, <2>3
<1>4. Done(E) <=> E = Replica
  BY <1>1, ProtocolAssumption, FS_Subset DEF Done
<1>a. E \in SUBSET Replica
  BY <1>1, <1>2
<1> HIDE DEF u, E, B, more, conflict, K
<1>5. /\ r \in Tracker
      /\ r.commands = IF E = Replica THEN t.commands \ {c} ELSE t.commands
      /\ \A d \in Cmd : r.executors[d] = IF d # c THEN t.executors[d]
                                         ELSE IF E = Replica THEN {} ELSE E
      /\ r.executed_commands = u.executed_commands
      /\ r.conflicting_commands = u.conflicting_commands /\ r.conflicting = u.conflicting
  <2> DEFINE C == IF E = Replica THEN t.commands \ {c} ELSE t.commands \cup {c}
             X == IF E = Replica THEN {} ELSE E
  <2> DEFINE Z == [u.executors EXCEPT ![c] = X]
  <2>1. r = [u EXCEPT !.commands = C, !.executors = Z]
    BY <1>3, <1>4 DEF RecordExecution, E, u, Tracker
  <2>2. C \in SUBSET Cmd /\ Z \in [Cmd -> SUBSET Replica]
    BY <1>1, <1>3, <1>a DEF Tracker
  <2>3. \A d \in Cmd : Z[d] = IF d # c THEN t.executors[d] ELSE X
    BY <1>1, <1>3 DEF Tracker
  <2>4. C = IF E = Replica THEN t.commands \ {c} ELSE t.commands
    BY <1>1
  <2> HIDE DEF r, C, Z
  <2>5. r = [commands             |-> C,
             executors            |-> Z,
             conflicting_commands |-> u.conflicting_commands,
             conflicting          |-> u.conflicting,
             executed_commands    |-> u.executed_commands]
    BY <1>3, <2>1 DEF Tracker
  <2>6. r \in Tracker /\ r.commands = C /\ r.executors = Z
    BY <1>3, <2>2, <2>5 DEF Tracker
  <2> QED
    BY <2>3, <2>4, <2>5, <2>6
<1>6. \A X \in SUBSET Cmd : IsFiniteSet(X) /\ Cardinality(X) \in Nat
  BY CmdAssumption, FS_Subset, FS_CardinalityType
<1>7. \A X \in SUBSET Cmd :
         /\ c \in X => Cardinality({d \in X : B[d] # {}}) =
                          Cardinality({d \in X : A[d] # {}}) + more
         /\ c \notin X => {d \in X : B[d] # {}} = {d \in X : A[d] # {}}
  <2> SUFFICES ASSUME NEW X \in SUBSET Cmd
               PROVE  /\ c \in X => Cardinality({d \in X : B[d] # {}}) =
                                       Cardinality({d \in X : A[d] # {}}) + more
                      /\ c \notin X => {d \in X : B[d] # {}} = {d \in X : A[d] # {}}
    OBVIOUS
  <2> DEFINE V == {d \in X : A[d] # {}}
             W == {d \in X : B[d] # {}}
  <2>1. c \in X => W = V \cup {c}
    <3>1. B[c] # {}
      BY <1>1, <1>2 DEF E
    <3> QED
      BY <1>2, <3>1
  <2>2. c \notin X => W = V
    BY <1>2
  <2>3. IsFiniteSet(V) /\ Cardinality(V) \in Nat
    BY <1>6
  <2>4. c \in X => (c \in V <=> A[c] # {})
    OBVIOUS
  <2> HIDE DEF V, W
  <2>5. c \in X => Cardinality(W) = Cardinality(V) + more
    BY <2>1, <2>3, <2>4, FS_AddElement DEF more
  <2> QED
    BY <2>2, <2>5 DEF V, W
<1>8. Exact(r, B, S)
  <2>1. r.commands = {d \in S : B[d] # Replica}
    BY <1>1, <1>2, <1>5 DEF Exact
  <2>2. \A d \in Cmd : r.executors[d] = IF d \in r.commands THEN B[d] ELSE {}
    BY <1>1, <1>2, <1>5 DEF Exact
  <2>3. r.executed_commands = Cardinality({d \in Cmd : B[d] # {}})
    BY <1>1, <1>3, <1>5, <1>7 DEF Exact
  <2> QED
    BY <1>5, <2>1, <2>2, <2>3 DEF Exact
<1>9. Counted(r, B, Y)
  <2>1. /\ r.conflicting = K /\ r.conflicting_commands = t.conflicting_commands + conflict
        /\ t.conflicting \in SUBSET Cmd
        /\ \A d \in Y : A[d] # {} => d \in t.conflicting
        /\ \A d \in t.conflicting : A[d] # {}
        /\ t.conflicting_commands = Cardinality(t.conflicting)
    BY <1>3, <1>5 DEF Counted, Exact, Tracker
  <2>2. IsFiniteSet(t.conflicting) /\ Cardinality(t.conflicting) \in Nat
    BY <1>6, <2>1
  <2>3. CASE A[c] = {} /\ Conflicting(t, c)
    <3>1. K = t.conflicting \cup {c} /\ conflict = 1 /\ c \notin t.conflicting
      BY <2>1, <2>3 DEF K, conflict
    <3>2. Cardinality(K) = Cardinality(t.conflicting) + 1
      BY <2>2, <3>1, FS_AddElement
    <3>3. r.conflicting_commands = Cardinality(r.conflicting)
      BY <2>1, <3>1, <3>2 DEF Counted
    <3>4. B[c] # {} /\ \A d \in Cmd \ {c} : B[d] = A[d]
      BY <1>1, <1>2 DEF E
    <3> QED
      BY <2>1, <3>1, <3>3, <3>4 DEF Counted
  <2>4. CASE ~(A[c] = {} /\ Conflicting(t, c))
    <3>1. K = t.conflicting /\ conflict = 0
      BY <2>4 DEF K, conflict
    <3>2. r.conflicting_commands = Cardinality(r.conflicting)
      BY <2>1, <2>2, <3>1
    <3>3. B[c] # {} /\ \A d \in Cmd \ {c} : B[d] = A[d]
      BY <1>1, <1>2 DEF E
    <3>4. c \in Y => c \in t.conflicting
      BY <2>1, <2>4
    <3> QED
      BY <2>1, <3>1, <3>2, <3>3, <3>4 DEF Counted
  <2> QED
    BY <2>3, <2>4
<1> QED
  BY <1>8, <1>9 DEF B

\* The replicas that have executed each command, after the first i elements
\* of the log s of p.
Executors(A, p, s, done, bodies, i) ==
    [c \in Cmd |-> IF c \in bodies /\ \E j \in done + 1 .. i : s[j] = c THEN A[c] \cup {p} ELSE A[c]]

\* try_execute keeps the tracker exact, and has counted the commands of Y if
\* each of them that it is the first to execute meets another on its key.
LEMMA RecordedExact ==
    ASSUME NEW S \in SUBSET Cmd, NEW Y \in SUBSET Cmd, NEW A \in [Cmd -> SUBSET Replica],
           NEW t, Exact(t, A, S), Counted(t, A, Y), NEW p \in Replica,
           NEW s, NEW done \in Nat, Len(s) \in Nat, done <= Len(s), NEW bodies,
           \A i \in done + 1 .. Len(s) : s[i] \in bodies => s[i] \in S /\ p \notin A[s[i]],
           \A i, j \in done + 1 .. Len(s) : s[i] = s[j] => i = j,
           \A i \in done + 1 .. Len(s) :
              s[i] \in bodies /\ s[i] \in Y /\ A[s[i]] = {} =>
                 \E d \in S \ {s[i]} : KeyOf[d] = KeyOf[s[i]] /\ A[d] \cup {p} # Replica
    PROVE  LET r == Recorded(t, p, s, done, bodies)
               B == Executors(A, p, s, done, bodies, Len(s))
           IN  Exact(r, B, S) /\ Counted(r, B, Y)
<1> DEFINE B(i) == Executors(A, p, s, done, bodies, i)
<1>1. PICK T :
         /\ T[done] = t
         /\ \A i \in done + 1 .. Len(s) :
               T[i] = IF s[i] \in bodies THEN RecordExecution(T[i - 1], p, s[i]) ELSE T[i - 1]
         /\ Recorded(t, p, s, done, bodies) = T[Len(s)]
  BY RecordedInSteps
<1> DEFINE Good(i) == Exact(T[i], B(i), S) /\ Counted(T[i], B(i), Y)
           Bad == {i \in Nat : i >= done /\ i <= Len(s) /\ ~Good(i)}
<1>2. Bad = {}
  <2> SUFFICES ASSUME Bad # {} PROVE FALSE
    OBVIOUS
  <2>1. PICK m \in Bad : \A k \in Bad : m <= k
    BY LeastNumber
  <2>2. CASE m = done
    <3>1. B(done) = A
      <4>1. B(done) = [c \in Cmd |-> A[c]]
        BY DEF Executors
      <4> QED
        BY <4>1
    <3> QED
      BY <1>1, <2>1, <2>2, <3>1
  <2>3. CASE m # done
    <3>1. m \in done + 1 .. Len(s) /\ m - 1 \in Nat /\ Good(m - 1)
      BY <2>1, <2>3
    <3> DEFINE G == B(m - 1)
    <3>2. G \in [Cmd -> SUBSET Replica]
      BY DEF Executors
    <3>3. \A c \in Cmd : G[c] = A[c] \/ G[c] = A[c] \cup {p}
      BY DEF Executors
    <3>4. CASE s[m] \notin bodies
      <4>1. \A c \in Cmd : c \in bodies => ((\E j \in done + 1 .. m : s[j] = c) <=>
                                            \E j \in done + 1 .. m - 1 : s[j] = c)
        <5> SUFFICES ASSUME NEW c \in bodies, NEW j \in done + 1 .. m, s[j] = c
                     PROVE  j \in done + 1 .. m - 1
          BY <3>1
        <5> QED
          BY <3>1, <3>4
      <4>2. B(m) = G
        BY <4>1 DEF Executors
      <4> QED
        BY <1>1, <2>1, <3>1, <3>4, <4>2
    <3>5. CASE s[m] \in bodies
      <4> DEFINE c == s[m]
      <4>1. c \in S /\ c \in Cmd /\ p \notin A[c]
        BY <3>1, <3>5
      <4>2. \A j \in done + 1 .. m - 1 : s[j] # c
        BY <3>1
      <4>3. G[c] = A[c]
        BY <4>1, <4>2 DEF Executors
      <4>4. B(m) = [G EXCEPT ![c] = @ \cup {p}]
        <5>1. \A d \in Cmd : B(m)[d] = IF d = c THEN G[d] \cup {p} ELSE G[d]
          <6> SUFFICES ASSUME NEW d \in Cmd
                       PROVE  B(m)[d] = IF d = c THEN G[d] \cup {p} ELSE G[d]
            OBVIOUS
          <6>1. CASE d = c
            BY <3>1, <3>5, <4>3, <6>1 DEF Executors
          <6>2. CASE d # c
            <7>1. (\E j \in done + 1 .. m : s[j] = d) <=> \E j \in done + 1 .. m - 1 : s[j] = d
              BY <3>1, <6>2
            <7> QED
              BY <6>2, <7>1 DEF Executors
          <6> QED
            BY <6>1, <6>2
        <5>2. B(m) = [d \in Cmd |-> B(m)[d]]
          BY DEF Executors
        <5>3. G = [d \in Cmd |-> G[d]]
          BY DEF Executors
        <5> HIDE DEF G, B
        <5> QED
          BY <4>1, <5>1, <5>2, <5>3
      <4>5. c \in Y /\ G[c] = {} => Conflicting(T[m - 1], c)
        <5> SUFFICES ASSUME c \in Y, G[c] = {} PROVE Conflicting(T[m - 1], c)
          OBVIOUS
        <5>1. PICK d \in S \ {c} : KeyOf[d] = KeyOf[c] /\ A[d] \cup {p} # Replica
          BY <3>1, <3>5, <4>3
        <5>2. G[d] # Replica
          BY <3>3, <5>1
        <5>3. d \in T[m - 1].commands
          BY <3>1, <5>1, <5>2 DEF Exact
        <5> QED
          BY <5>1, <5>3 DEF Conflicting
      <4>6. T[m] = RecordExecution(T[m - 1], p, c)
        BY <1>1, <3>1, <3>5
      <4>7. p \notin G[c] /\ Exact(T[m - 1], G, S) /\ Counted(T[m - 1], G, Y)
        BY <3>1, <4>1, <4>3
      <4> DEFINE t1 == T[m - 1]
      <4> HIDE DEF G, c, t1
      <4>8. LET r == RecordExecution(t1, p, c)
                H == [G EXCEPT ![c] = @ \cup {p}]
            IN  Exact(r, H, S) /\ Counted(r, H, Y)
        <5>1. /\ Exact(t1, G, S) /\ Counted(t1, G, Y) /\ c \in S /\ p \notin G[c]
              /\ c \in Y /\ G[c] = {} => Conflicting(t1, c)
          BY <4>1, <4>5, <4>7 DEF t1
        <5> QED
          BY <3>2, <5>1, Recording
      <4> QED
        BY <2>1, <4>4, <4>6, <4>8 DEF t1
    <3> QED
      BY <3>4, <3>5
  <2> QED
    BY <2>2, <2>3
<1>3. Good(Len(s))
  BY <1>2
<1> QED
  BY <1>1, <1>3

-----------------------------------------------------------------------------
\* What the steps of the protocol report.

\* A call of commit executes commands that were not executed before, each
\* once, and of these are the bodies it applies.
LEMMA CommitAppends ==
    ASSUME NEW l \in Log, IndexExact(l), NEW c \in Cmd, NEW D \in SUBSET Cmd,
           NEW r \in CommitOutcomes(l, c, D)
    PROVE  LET old == Len(l.executed)
               s == r.executed
           IN  /\ old \in Nat /\ Len(s) \in Nat /\ old <= Len(s)
               /\ \A i \in old + 1 .. Len(s) : s[i] \in Cmd \ l.stable
               /\ \A i, j \in old + 1 .. Len(s) : s[i] = s[j] => i = j
               /\ l.applied \subseteq r.applied
               /\ \A d \in Cmd : d \in r.applied <=>
                     d \in l.applied \/ (d \in r.applied /\ \E i \in old + 1 .. Len(s) : s[i] = d)
<1> DEFINE old == Len(l.executed)
           s == r.executed
<1>1. r \in Log /\ IndexExact(r) /\ CommitsBatch(l, c, D, r)
  BY CommitExecutes
<1>2. l.executed \in Seq(Cmd) /\ r.executed \in Seq(Cmd) /\ old \in Nat /\ Len(s) \in Nat
  BY <1>1, LenProperties DEF Log
<1>3. PICK B \in SUBSET ((l.pending_commit \cup {c}) \ l.stable) :
         /\ r.stable = l.stable \cup B
         /\ \E e \in ExecutionOrders(DepsAfter(l, c, D), B) : r.executed = l.executed \o e
  BY <1>1 DEF CommitsBatch
<1>4. PICK e \in ExecutionOrders(DepsAfter(l, c, D), B) : s = l.executed \o e
  BY <1>3
<1>5. B \in SUBSET Cmd /\ IsFiniteSet(B) /\ B \cap l.stable = {}
  <2>1. B \in SUBSET Cmd
    BY <1>3 DEF Log
  <2> QED
    BY <1>3, <2>1, CmdAssumption, FS_Subset
<1>6. e \in Seq(B) /\ Range(e) = B /\ IsInjective(e) /\ DOMAIN e = 1 .. Len(e) /\ Len(e) \in Nat
  BY <1>5, ExecutionOrderIsSeq
<1>7. e \in Seq(Cmd)
  BY <1>5, <1>6
<1>8. /\ Len(s) = old + Len(e)
      /\ \A i \in old + 1 .. Len(s) : i - old \in DOMAIN e /\ s[i] = e[i - old]
  <2>1. /\ DOMAIN s = 1 .. old + Len(e)
        /\ \A i \in 1 .. old + Len(e) : i > old => i - old \in DOMAIN e /\ s[i] = e[i - old]
    BY <1>2, <1>4, <1>7, ConcatElements
  <2>2. Len(s) = old + Len(e)
    BY <1>2, <1>4, <1>7, ConcatProperties
  <2> QED
    BY <1>2, <1>6, <2>1, <2>2
<1>9. \A i \in old + 1 .. Len(s) : s[i] \in B
  BY <1>6, <1>8
<1>10. \A i, j \in old + 1 .. Len(s) : s[i] = s[j] => i = j
  <2> SUFFICES ASSUME NEW i \in old + 1 .. Len(s), NEW j \in old + 1 .. Len(s), s[i] = s[j]
               PROVE  i = j
    OBVIOUS
  <2>1. i - old = j - old
    BY <1>6, <1>8 DEF IsInjective
  <2> QED
    BY <1>2, <2>1
<1>11. \A d \in B : \E i \in old + 1 .. Len(s) : s[i] = d
  <2> SUFFICES ASSUME NEW d \in B PROVE \E i \in old + 1 .. Len(s) : s[i] = d
    OBVIOUS
  <2>1. PICK k \in 1 .. Len(e) : e[k] = d
    BY <1>6 DEF Range
  <2>2. k + old \in old + 1 .. Len(s) /\ (k + old) - old = k
    BY <1>2, <1>6, <1>8
  <2> QED
    BY <1>8, <2>1, <2>2
<1>12. \A d \in l.stable : d \in r.applied <=> d \in l.applied
  <2> SUFFICES ASSUME NEW d \in l.stable PROVE d \in r.applied <=> d \in l.applied
    OBVIOUS
  <2>1. d \in Cmd /\ d \in r.stable
    BY <1>3 DEF Log
  <2>2. ~l.entries[d].cmd /\ ~r.entries[d].cmd
    BY <1>1, <2>1 DEF IndexExact
  <2>3. HasBody(r, d) <=> HasBody(l, d)
    BY <2>1, CommitLearns
  <2> QED
    BY <2>2, <2>3 DEF HasBody
<1>13. l.applied \subseteq l.stable /\ r.applied \subseteq l.stable \cup B
  BY <1>1, <1>3 DEF IndexExact
<1> QED
  BY <1>2, <1>5, <1>8, <1>9, <1>10, <1>11, <1>12, <1>13

Applied == [c \in Cmd |-> AppliedAt(c)]

Commits(p) ==
    \E c \in Cmd, D \in SUBSET Cmd : \E l \in CommitOutcomes(log[p], c, D) :
        log' = [log EXCEPT ![p] = l]

\* Timers, and all messages but requests, report what their replica executes.
LEMMA ReporterCommits ==
    ASSUME Basics, NEW p,
           \/ \E c \in Cmd : OnForceTimer(c) /\ p = Owner[c]
           \/ \E m \in msgs : Receive(m) /\ m.type # "Req" /\ p = m.dst
    PROVE  p \in Replica /\ UNCHANGED submitted /\ (UNCHANGED log \/ Commits(p))
<1>1. ASSUME NEW c \in Cmd, NEW D \in SUBSET Cmd, NEW kept, Decide(c, D, kept)
      PROVE  Commits(Owner[c])
  BY <1>1 DEF Decide, Commits
<1>2. ASSUME NEW c \in Cmd, NEW R \in SUBSET Res, NEW kept, QuorumReady(c, R, kept)
      PROVE  UNCHANGED log \/ Commits(Owner[c])
  <2>1. UnionDeps(R) \in SUBSET Cmd
    BY DEF UnionDeps, Res
  <2> QED
    BY <1>1, <1>2, <2>1 DEF QuorumReady
<1>3. ASSUME NEW c \in Cmd, OnForceTimer(c)
      PROVE  Owner[c] \in Replica /\ UNCHANGED submitted /\ (UNCHANGED log \/ Commits(Owner[c]))
  <2>1. announce_quorums[c] \in SUBSET Res
    BY DEF Basics, TypeOK
  <2> QED
    BY <1>2, <1>3, <2>1, ProtocolAssumption DEF OnForceTimer
<1>4. ASSUME NEW m \in msgs, Receive(m), m.type # "Req"
      PROVE  m.dst \in Replica /\ UNCHANGED submitted /\ (UNCHANGED log \/ Commits(m.dst))
  <2>1. m \in Message /\ m.cmd \in Cmd /\ m.dst \in Replica /\ m.deps \in SUBSET Cmd
    BY DEF Basics, TypeOK, Message
  <2>2. m.type \in {"Res", "Response"} => m.dst = Owner[m.cmd]
    BY DEF Basics, Truthful, TruthOf
  <2>3. CASE HandleRes(m)
    <3> DEFINE R == announce_quorums[m.cmd] \cup {[pid |-> m.src, conflicts |-> m.deps]}
    <3>1. R \in SUBSET Res
      BY <2>1 DEF Basics, TypeOK, Res, Message
    <3>2. UNCHANGED log \/ QuorumReady(m.cmd, R, msgs \ {m})
      BY <2>3 DEF HandleRes
    <3> HIDE DEF R
    <3> QED
      BY <1>2, <2>1, <2>2, <2>3, <3>1, <3>2 DEF HandleRes
  <2>4. CASE HandleCommit(m)
    BY <2>1, <2>4 DEF HandleCommit, Commits
  <2>5. CASE HandleRequest(m)
    BY <2>1, <2>5 DEF HandleRequest
  <2>6. CASE HandleResponse(m)
    <3>1. UNCHANGED log \/ Decide(m.cmd, instances[m.cmd].deps, msgs \ {m})
      BY <2>6 DEF HandleResponse
    <3>2. instances[m.cmd].deps \in SUBSET Cmd
      BY <2>1 DEF Basics, TypeOK, Instance
    <3> QED
      BY <1>1, <2>1, <2>2, <2>6, <3>1, <3>2 DEF HandleResponse
  <2>7. ~HandleReq(m)
    BY <1>4 DEF HandleReq
  <2> QED
    BY <1>4, <2>3, <2>4, <2>5, <2>6, <2>7 DEF Receive
<1> QED
  BY <1>3, <1>4

\* Whoever executes a command of Y first meets a tracked one on its key.
MeetsRival(Y) ==
    \A p \in Replica : (\A q \in Replica \ {p} : log'[q] = log[q]) =>
        \A c \in log'[p].applied : c \in Y /\ AppliedAt(c) = {} =>
            \E d \in submitted' \ {c} : KeyOf[d] = KeyOf[c] /\ AppliedAt(d) \cup {p} # Replica

LEMMA ReportsKeep ==
    ASSUME Basics, NEW Y \in SUBSET Cmd,
           Exact(tracker, Applied, submitted), Counted(tracker, Applied, Y), MeetsRival(Y),
           NEW p \in Replica, UNCHANGED submitted, UNCHANGED log \/ Commits(p), RecordExecutions(p)
    PROVE  Exact(tracker', Applied', submitted) /\ Counted(tracker', Applied', Y)
<1> DEFINE l == log[p]
           s == log'[p].executed
           old == Len(l.executed)
           bodies == log'[p].applied
<1>1. l \in Log /\ IndexExact(l) /\ submitted \in SUBSET Cmd
  BY DEF Basics, TypeOK, LogsSound
<1>2. /\ old \in Nat /\ Len(s) \in Nat /\ old <= Len(s)
      /\ \A i \in old + 1 .. Len(s) : s[i] \in Cmd \ l.stable
      /\ \A i, j \in old + 1 .. Len(s) : s[i] = s[j] => i = j
      /\ \A d \in Cmd : d \in bodies <=>
            d \in l.applied \/ (d \in bodies /\ \E i \in old + 1 .. Len(s) : s[i] = d)
      /\ \A q \in Replica \ {p} : log'[q] = log[q]
      /\ \A d \in bodies \cap Cmd : HasBody(l, d)
  <2>1. CASE UNCHANGED log
    <3>1. l.executed \in Seq(Cmd) /\ s = l.executed /\ bodies = l.applied
      BY <1>1, <2>1 DEF Log
    <3>2. old \in Nat /\ Len(s) = old
      BY <3>1, LenProperties
    <3> QED
      BY <2>1, <3>1, <3>2 DEF HasBody
  <2>2. CASE Commits(p)
    <3>1. PICK c \in Cmd, D \in SUBSET Cmd : \E r \in CommitOutcomes(l, c, D) :
                 log' = [log EXCEPT ![p] = r]
      BY <2>2 DEF Commits
    <3>2. PICK r \in CommitOutcomes(l, c, D) : log' = [log EXCEPT ![p] = r]
      BY <3>1
    <3>3. log'[p] = r /\ \A q \in Replica \ {p} : log'[q] = log[q]
      BY <3>2 DEF Basics, TypeOK
    <3>4. \A d \in Cmd : HasBody(r, d) <=> HasBody(l, d)
      BY <1>1, CommitLearns
    <3>5. \A d \in bodies \cap Cmd : HasBody(l, d)
      BY <3>3, <3>4 DEF HasBody
    <3>6. LET e == r.executed IN
          /\ old \in Nat /\ Len(e) \in Nat /\ old <= Len(e)
          /\ \A i \in old + 1 .. Len(e) : e[i] \in Cmd \ l.stable
          /\ \A i, j \in old + 1 .. Len(e) : e[i] = e[j] => i = j
          /\ \A d \in Cmd : d \in r.applied <=>
                d \in l.applied \/ (d \in r.applied /\ \E i \in old + 1 .. Len(e) : e[i] = d)
      BY <1>1, CommitAppends
    <3> QED
      BY <3>3, <3>5, <3>6
  <2> QED
    BY <2>1, <2>2
<1>3. \A c \in Cmd : Applied[c] = AppliedAt(c) /\ Applied'[c] = AppliedAt(c)'
  BY DEF Applied
<1>4. Applied \in [Cmd -> SUBSET Replica]
  BY DEF Applied, AppliedAt
<1>5. \A i \in old + 1 .. Len(s) : s[i] \in bodies => s[i] \in submitted /\ p \notin Applied[s[i]]
  <2> SUFFICES ASSUME NEW i \in old + 1 .. Len(s), s[i] \in bodies
               PROVE  s[i] \in submitted /\ p \notin Applied[s[i]]
    OBVIOUS
  <2>1. s[i] \in Cmd \ l.stable /\ HasBody(l, s[i])
    BY <1>2
  <2>2. s[i] \in submitted
    BY <2>1 DEF HasBody, Visible, Basics, Truthful
  <2>3. s[i] \notin l.applied
    BY <1>1, <2>1 DEF IndexExact
  <2> QED
    BY <1>3, <2>1, <2>2, <2>3 DEF AppliedAt
<1>6. \A i \in old + 1 .. Len(s) : s[i] \in bodies /\ s[i] \in Y /\ Applied[s[i]] = {} =>
         \E d \in submitted \ {s[i]} : KeyOf[d] = KeyOf[s[i]] /\ Applied[d] \cup {p} # Replica
  <2> SUFFICES ASSUME NEW i \in old + 1 .. Len(s),
                      s[i] \in bodies, s[i] \in Y, Applied[s[i]] = {}
               PROVE  \E d \in submitted \ {s[i]} :
                         KeyOf[d] = KeyOf[s[i]] /\ Applied[d] \cup {p} # Replica
    OBVIOUS
  <2>1. AppliedAt(s[i]) = {}
    BY <1>3
  <2>2. PICK d \in submitted \ {s[i]} : KeyOf[d] = KeyOf[s[i]] /\ AppliedAt(d) \cup {p} # Replica
    BY <1>2, <2>1 DEF MeetsRival
  <2> QED
    BY <1>1, <1>3, <2>2
<1>7. Applied' = Executors(Applied, p, s, old, bodies, Len(s))
  <2> SUFFICES ASSUME NEW c \in Cmd
               PROVE  AppliedAt(c)' = IF c \in bodies /\ \E j \in old + 1 .. Len(s) : s[j] = c
                                      THEN AppliedAt(c) \cup {p} ELSE AppliedAt(c)
    BY <1>3 DEF Applied, Executors
  <2>1. AppliedAt(c)' \ {p} = AppliedAt(c) \ {p}
    BY <1>2 DEF AppliedAt
  <2>2. p \in AppliedAt(c)' <=> c \in bodies
    BY DEF AppliedAt
  <2>3. p \in AppliedAt(c) <=> c \in l.applied
    BY DEF AppliedAt
  <2>4. c \in bodies <=> c \in l.applied \/ (c \in bodies /\ \E j \in old + 1 .. Len(s) : s[j] = c)
    BY <1>2
  <2> DEFINE new == c \in bodies /\ \E j \in old + 1 .. Len(s) : s[j] = c
  <2> HIDE DEF new
  <2>5. new => AppliedAt(c)' = AppliedAt(c) \cup {p}
    BY <2>1, <2>2 DEF new
  <2>6. ~new => AppliedAt(c)' = AppliedAt(c)
    <3>1. c \in bodies <=> c \in l.applied \/ new
      BY <2>4 DEF new
    <3>2. ~new => (p \in AppliedAt(c)' <=> p \in AppliedAt(c))
      BY <2>2, <2>3, <3>1
    <3>3. \A q : q # p => (q \in AppliedAt(c)' <=> q \in AppliedAt(c))
      BY <2>1
    <3> QED
      BY <3>2, <3>3
  <2> QED
    BY <2>5, <2>6 DEF new
<1>8. tracker' = Recorded(tracker, p, s, old, bodies)
  BY DEF RecordExecutions
<1> DEFINE A == Applied
<1>9. LET r == Recorded(tracker, p, s, old, bodies)
          B == Executors(A, p, s, old, bodies, Len(s))
      IN  Exact(r, B, submitted) /\ Counted(r, B, Y)
  <2>1. /\ Exact(tracker, A, submitted) /\ Counted(tracker, A, Y) /\ A \in [Cmd -> SUBSET Replica]
        /\ \A i \in old + 1 .. Len(s) : s[i] \in bodies => s[i] \in submitted /\ p \notin A[s[i]]
        /\ \A i \in old + 1 .. Len(s) : s[i] \in bodies /\ s[i] \in Y /\ A[s[i]] = {} =>
              \E d \in submitted \ {s[i]} : KeyOf[d] = KeyOf[s[i]] /\ A[d] \cup {p} # Replica
    BY <1>4, <1>5, <1>6
  <2> HIDE DEF A, s, old, bodies
  <2> QED
    BY <1>1, <1>2, <2>1, RecordedExact
<1> QED
  BY <1>7, <1>8, <1>9

\* The arrival of a command that somebody has still to execute.
LEMMA ArrivalKeeps ==
    ASSUME NEW S \in SUBSET Cmd, NEW Y \in SUBSET Cmd, NEW A \in [Cmd -> SUBSET Replica],
           NEW t, Exact(t, A, S), Counted(t, A, Y), NEW c \in Cmd,
           A[c] # Replica, c \in S \/ A[c] = {}
    PROVE  LET r == RecordArrival(t, c) IN Exact(r, A, S \cup {c}) /\ Counted(r, A, Y)
<1> DEFINE r == RecordArrival(t, c)
<1>1. t \in Tracker
  BY DEF Exact
<1>2. r = [commands             |-> t.commands \cup {c},
           executors            |-> t.executors,
           conflicting_commands |-> t.conflicting_commands,
           conflicting          |-> t.conflicting,
           executed_commands    |-> t.executed_commands]
  <2> DEFINE C == t.commands \cup {c}
  <2>1. r = [t EXCEPT !.commands = C]
    BY DEF RecordArrival
  <2> HIDE DEF C, r
  <2>2. r = [commands             |-> C,
             executors            |-> t.executors,
             conflicting_commands |-> t.conflicting_commands,
             conflicting          |-> t.conflicting,
             executed_commands    |-> t.executed_commands]
    BY <1>1, <2>1 DEF Tracker
  <2> QED
    BY <2>2 DEF C
<1>3. r \in Tracker
  BY <1>1, <1>2 DEF Tracker
<1>4. r.commands = {d \in S \cup {c} : A[d] # Replica}
  BY <1>2 DEF Exact
<1>5. \A d \in Cmd : r.executors[d] = IF d \in r.commands THEN A[d] ELSE {}
  BY <1>2 DEF Exact
<1> QED
  BY <1>2, <1>3, <1>4, <1>5 DEF Exact, Counted

LEMMA TrackerStep ==
    ASSUME Basics, NEW Y \in SUBSET Cmd,
           Exact(tracker, Applied, submitted), Counted(tracker, Applied, Y), MeetsRival(Y),
           [TrackedNext]_trackedVars
    PROVE  Exact(tracker', Applied', submitted') /\ Counted(tracker', Applied', Y)
<1> DEFINE A == Applied
<1>1. A \in [Cmd -> SUBSET Replica] /\ submitted \in SUBSET Cmd
  BY DEF Applied, AppliedAt, Basics, TypeOK
<1>2. ASSUME \A q \in Replica : log'[q].applied = log[q].applied PROVE Applied' = Applied
  BY <1>2 DEF Applied, AppliedAt
<1>3. ASSUME NEW c \in Cmd, TrackedAnnounce(c)
      PROVE  Exact(tracker', Applied', submitted') /\ Counted(tracker', Applied', Y)
  <2>1. /\ log' = [log EXCEPT ![Owner[c]] = RecordCreation(@, c)] /\ c \notin submitted
        /\ submitted' = submitted \cup {c} /\ tracker' = RecordArrival(tracker, c)
        /\ Owner[c] \in Replica
    BY <1>3, ProtocolAssumption DEF TrackedAnnounce, Announce
  <2>2. \A q \in Replica : log'[q].applied = log[q].applied
    BY <2>1 DEF RecordCreation, Basics, TypeOK, Log
  <2>3. A[c] = {} /\ A[c] # Replica
    BY <2>1 DEF Applied, AppliedAt, Basics, Truthful, Visible
  <2> HIDE DEF A
  <2>4. LET r == RecordArrival(tracker, c) IN Exact(r, A, submitted \cup {c}) /\ Counted(r, A, Y)
    BY <1>1, <2>3, ArrivalKeeps DEF A
  <2> QED
    BY <1>2, <2>1, <2>2, <2>4 DEF A
<1>4. ASSUME NEW m \in msgs, HandleReq(m), tracker' = RecordArrival(tracker, m.cmd)
      PROVE  Exact(tracker', Applied', submitted') /\ Counted(tracker', Applied', Y)
  <2>1. /\ m.cmd \in Cmd /\ m.dst \in Replica /\ m.cmd \in submitted /\ ~Visible(m.dst, m.cmd)
        /\ log' = [log EXCEPT ![m.dst] = Submit(@, m.cmd)] /\ submitted' = submitted
    BY <1>4 DEF HandleReq, Basics, TypeOK, Message, Truthful, TruthOf
  <2>2. \A q \in Replica : log'[q].applied = log[q].applied
    BY <2>1 DEF Submit, RecordCreation, Basics, TypeOK, Log
  <2>3. A[m.cmd] # Replica
    BY <2>1 DEF Applied, AppliedAt, Visible
  <2>4. submitted \cup {m.cmd} = submitted
    BY <2>1
  <2> DEFINE c == m.cmd
  <2> HIDE DEF A, c
  <2>5. LET r == RecordArrival(tracker, c) IN Exact(r, A, submitted \cup {c}) /\ Counted(r, A, Y)
    <3>1. c \in Cmd /\ c \in submitted /\ A[c] # Replica
      BY <2>1, <2>3 DEF c
    <3> QED
      BY <1>1, <3>1, ArrivalKeeps DEF A
  <2> QED
    BY <1>2, <1>4, <2>1, <2>2, <2>4, <2>5 DEF A, c
<1>5. ASSUME NEW p, RecordExecutions(p),
             \/ \E c \in Cmd : OnForceTimer(c) /\ p = Owner[c]
             \/ \E m \in msgs : Receive(m) /\ m.type # "Req" /\ p = m.dst
      PROVE  Exact(tracker', Applied', submitted') /\ Counted(tracker', Applied', Y)
  BY <1>5, ReporterCommits, ReportsKeep
<1>6. CASE UNCHANGED trackedVars
  BY <1>2, <1>6 DEF trackedVars, vars
<1>7. ASSUME NEW m \in msgs, TrackedReceive(m)
      PROVE  \/ HandleReq(m) /\ tracker' = RecordArrival(tracker, m.cmd)
             \/ Receive(m) /\ m.type # "Req" /\ RecordExecutions(m.dst)
  BY <1>7 DEF TrackedReceive, Receive, HandleRes, HandleCommit, HandleRequest, HandleResponse
<1> QED
  BY <1>3, <1>4, <1>5, <1>6, <1>7 DEF TrackedNext, TrackedForceTimer

-----------------------------------------------------------------------------
\* The theorems.

\* Beside the tracker the protocol does what it does without.
LEMMA TrackedIsSpec == TrackedSpec => Spec
<1>1. TrackedInit => Init
  BY DEF TrackedInit
<1>2. [TrackedNext]_trackedVars => [Next]_vars
  BY DEF TrackedNext, TrackedAnnounce, TrackedForceTimer, TrackedReceive, trackedVars, Next
<1> QED
  BY <1>1, <1>2, PTL DEF TrackedSpec, Spec

\* What the tracker holds in the beginning.
LEMMA TrackerInit ==
    ASSUME TrackedInit, NEW Y \in SUBSET Cmd
    PROVE  Exact(tracker, Applied, submitted) /\ Counted(tracker, Applied, Y)
<1>1. /\ tracker.commands = {} /\ tracker.executors = [c \in Cmd |-> {}]
      /\ tracker.conflicting_commands = 0 /\ tracker.executed_commands = 0
      /\ tracker.conflicting = {}
      /\ submitted = {} /\ tracker \in Tracker
  BY DEF TrackedInit, Init, NewTracker, Tracker
<1>2. \A c \in Cmd : Applied[c] = {}
  BY DEF TrackedInit, Init, Applied, AppliedAt, EmptyLog
<1>3. {c \in Cmd : Applied[c] # {}} = {} /\ \A c \in Y : Applied[c] = {}
  BY <1>2
<1>4. Cardinality({c \in Cmd : Applied[c] # {}}) = 0 /\ Cardinality(tracker.conflicting) = 0
  BY <1>1, <1>3, FS_EmptySet
<1>5. \A c \in Cmd : tracker.executors[c] = IF c \in tracker.commands THEN Applied[c] ELSE {}
  BY <1>1
<1>6. tracker.commands = {c \in submitted : Applied[c] # Replica}
  BY <1>1
<1> QED
  BY <1>1, <1>3, <1>4, <1>5, <1>6 DEF Exact, Counted

TrackerFollows == Exact(tracker, Applied, submitted) /\ Counted(tracker, Applied, {})

LEMMA TrackerInvariant == TrackedSpec => []TrackerFollows
<1>1. TrackedInit => TrackerFollows
  BY TrackerInit DEF TrackerFollows
<1>2. Basics /\ TrackerFollows /\ [TrackedNext]_trackedVars => TrackerFollows'
  <2>1. MeetsRival({})
    BY DEF MeetsRival
  <2> QED
    BY <2>1, TrackerStep DEF TrackerFollows
<1> QED
  BY <1>1, <1>2, TrackedIsSpec, BasicsInvariant, PTL DEF TrackedSpec

\* The tracker follows the logs, with any protocol, quorums, committees and
\* network: it keeps exactly the commands that have arrived and that some
\* replica has still to execute, with those that have, and counts each
\* executed command once.
THEOREM TrackerExactHolds == TrackedSpec => []TrackerExact
<1>1. Basics /\ TrackerFollows => TrackerExact
  <2> SUFFICES ASSUME Basics, TrackerFollows PROVE TrackerExact
    OBVIOUS
  <2>1. \A c \in Cmd : Applied[c] = AppliedAt(c)
    BY DEF Applied
  <2>2. /\ tracker \in Tracker /\ tracker.commands \in SUBSET Cmd
        /\ tracker.commands = {c \in submitted : Applied[c] # Replica}
        /\ \A c \in Cmd : tracker.executors[c] = IF c \in tracker.commands THEN Applied[c] ELSE {}
        /\ tracker.executed_commands = Cardinality({c \in Cmd : Applied[c] # {}})
        /\ tracker.conflicting_commands = Cardinality(tracker.conflicting)
        /\ tracker.conflicting \in SUBSET Cmd /\ \A c \in tracker.conflicting : Applied[c] # {}
    BY DEF TrackerFollows, Exact, Counted, Tracker
  <2>3. {c \in Cmd : Applied[c] # {}} = {c \in Cmd : AppliedAt(c) # {}}
    BY <2>1
  <2>4. submitted \in SUBSET Cmd
    BY DEF Basics, TypeOK
  <2>5. {c \in submitted : Applied[c] # Replica} = {c \in submitted : AppliedAt(c) # Replica}
    BY <2>1, <2>4
  <2>6. /\ \A c \in tracker.commands : tracker.executors[c] = AppliedAt(c)
        /\ \A c \in tracker.conflicting : AppliedAt(c) # {}
    BY <2>1, <2>2
  <2> QED
    BY <2>2, <2>3, <2>5, <2>6 DEF TrackerExact
<1> QED
  BY <1>1, TrackerInvariant, TrackedIsSpec, BasicsInvariant, PTL

Circular == {c \in Cmd : InCycle(c)}

CyclesFollow == Exact(tracker, Applied, submitted) /\ Counted(tracker, Applied, Circular)

\* What is reached from inside a closed set is in it.
LEMMA ReachesInside ==
    ASSUME NEW G, NEW S \in SUBSET Cmd, ClosedIn(G, Cmd, S), NEW x \in S, NEW y,
           Reaches(G, Cmd, x, y)
    PROVE  y \in S
BY DEF Reaches

\* Two graphs that agree on a closed set have the same paths from inside it.
LEMMA ReachesAlike ==
    ASSUME NEW G, NEW H, NEW S \in SUBSET Cmd, ClosedIn(H, Cmd, S), \A z \in S : G[z] = H[z],
           NEW x \in S, NEW y, Reaches(H, Cmd, x, y)
    PROVE  Reaches(G, Cmd, x, y)
<1> SUFFICES ASSUME NEW T \in SUBSET Cmd, x \in T, ClosedIn(G, Cmd, T) PROVE y \in T
  BY DEF Reaches
<1>1. T \cap S \in SUBSET Cmd /\ x \in T \cap S
  OBVIOUS
<1>2. ClosedIn(H, Cmd, T \cap S)
  BY DEF ClosedIn
<1> QED
  BY <1>1, <1>2 DEF Reaches

\* Where what is executed has its body, two commands of a cycle are first
\* executed together, and each is still tracked when the other is counted.
LEMMA CyclesStep ==
    ASSUME Cardinality(Replica) > 1, Basics, CyclesFollow, [TrackedNext]_trackedVars,
           Basics', DepsCreated', ExecutedHasBody'
    PROVE  CyclesFollow'
<1>1. Grows
  BY StepGrows DEF TrackedNext, TrackedAnnounce, TrackedForceTimer, TrackedReceive, trackedVars, Next
<1>2. Circular' \in SUBSET Cmd
  BY DEF Circular
<1> DEFINE G == decidedDeps
           H == decidedDeps'
<1>3. Counted(tracker, Applied, Circular')
  <2>1. ASSUME NEW c \in Circular', Applied[c] # {} PROVE c \in Circular
    <3>1. PICK p \in Replica : c \in log[p].applied
      BY <1>2, <2>1 DEF Applied, AppliedAt
    <3> DEFINE S == log[p].stable
    <3>2. c \in Cmd /\ c \in S /\ S \in SUBSET Cmd /\ S \subseteq decided
      BY <1>2, <3>1 DEF Basics, TypeOK, Log, LogsSound, IndexExact, Learned
    <3>3. \A z \in S : G[z] = H[z] /\ G[z] \subseteq S
      BY <1>1, <3>2 DEF Grows, Basics, LogsSound
    <3>4. PICK d \in Cmd \ {c} : Reaches(H, Cmd, c, d) /\ Reaches(H, Cmd, d, c)
      BY DEF Circular, InCycle, Reaches, ClosedIn
    <3> HIDE DEF S, G, H
    <3>5. ClosedIn(H, Cmd, S)
      BY <3>3 DEF ClosedIn
    <3>6. d \in S
      BY <3>2, <3>4, <3>5, ReachesInside
    <3>7. Reaches(G, Cmd, c, d)
      BY <3>2, <3>3, <3>4, <3>5, ReachesAlike
    <3>8. Reaches(G, Cmd, d, c)
      BY <3>2, <3>3, <3>4, <3>5, <3>6, ReachesAlike
    <3> QED
      BY <3>2, <3>7, <3>8 DEF Circular, InCycle, G
  <2> QED
    BY <2>1 DEF CyclesFollow, Counted
<1>4. MeetsRival(Circular')
  <2> SUFFICES ASSUME NEW p \in Replica, \A q \in Replica \ {p} : log'[q] = log[q],
                      NEW c \in log'[p].applied, c \in Circular', AppliedAt(c) = {}
               PROVE  \E d \in submitted' \ {c} :
                         KeyOf[d] = KeyOf[c] /\ AppliedAt(d) \cup {p} # Replica
    BY DEF MeetsRival
  <2>1. PICK d \in Cmd \ {c} : Reaches(H, Cmd, c, d) /\ Reaches(H, Cmd, d, c)
    BY DEF Circular, InCycle, Reaches, ClosedIn
  <2>2. d \in submitted' /\ KeyOf[d] = KeyOf[c]
    <3> DEFINE S == {x \in submitted' : KeyOf[x] = KeyOf[c]}
    <3>1. c \in Cmd /\ S \in SUBSET Cmd
      BY <1>2 DEF Basics, TypeOK
    <3>2. c \in submitted'
      BY <1>2 DEF Basics, LogsSound, IndexExact, Learned, Stages
    <3>3. \A x \in S : H[x] \subseteq S
      BY <3>1 DEF DepsCreated, Rivals
    <3>4. ClosedIn(H, Cmd, S) /\ c \in S
      BY <3>2, <3>3 DEF ClosedIn
    <3> HIDE DEF S, H
    <3>5. d \in S
      BY <2>1, <3>1, <3>4, ReachesInside
    <3> QED
      BY <3>5 DEF S
  <2>3. PICK q \in Replica : q # p
    <3>1. Cardinality({p}) = 1
      BY FS_Singleton
    <3>2. Replica = {p} => Cardinality(Replica) = Cardinality({p})
      OBVIOUS
    <3> QED
      BY <3>1, <3>2
  <2>4. ASSUME q \in AppliedAt(d) PROVE FALSE
    <3> DEFINE S == log'[q].stable
    <3>1. d \in log[q].stable
      BY <2>4 DEF AppliedAt, Basics, LogsSound, IndexExact
    <3>2. d \in S /\ S \in SUBSET Cmd
      BY <1>1, <3>1 DEF Grows, Basics, TypeOK, Log
    <3>3. ClosedIn(H, Cmd, S) /\ IndexExact(log'[q])
      BY DEF ClosedIn, Basics, LogsSound
    <3> HIDE DEF S, H
    <3>4. c \in S
      BY <2>1, <3>2, <3>3, ReachesInside
    <3>5. c \in log'[q].applied
      BY <3>3, <3>4 DEF IndexExact, ExecutedHasBody, S
    <3> QED
      BY <2>3, <3>5 DEF AppliedAt
  <2> QED
    BY <2>2, <2>1, <2>3, <2>4
<1> HIDE DEF G, H
<1> DEFINE Y == Circular'
<1>5. Exact(tracker', Applied', submitted') /\ Counted(tracker', Applied', Y)
  <2> HIDE DEF Y
  <2>1. Y \in SUBSET Cmd /\ MeetsRival(Y) /\ Counted(tracker, Applied, Y)
    BY <1>2, <1>3, <1>4 DEF Y
  <2> QED
    BY <2>1, TrackerStep DEF CyclesFollow
<1> QED
  BY <1>5 DEF CyclesFollow

\* The conflict rate counts every executed command on a cycle of
\* dependencies, however long, with two replicas or more and any protocol,
\* quorums, committees and network, as long as what is executed has its body.
THEOREM CyclesCountedWhereBodies ==
    ASSUME Cardinality(Replica) > 1
    PROVE  TrackedSpec /\ []ExecutedHasBody => []CyclesCounted
<1>1. TrackedInit => CyclesFollow
  <2>1. Circular \in SUBSET Cmd
    BY DEF Circular
  <2> DEFINE Y == Circular
  <2>2. ASSUME TrackedInit PROVE Exact(tracker, Applied, submitted) /\ Counted(tracker, Applied, Y)
    <3> HIDE DEF Y
    <3> QED
      BY <2>1, <2>2, TrackerInit DEF Y
  <2> QED
    BY <2>2 DEF CyclesFollow
<1>2. Basics /\ CyclesFollow /\ [TrackedNext]_trackedVars /\ Basics' /\ DepsCreated' /\ ExecutedHasBody'
         => CyclesFollow'
  BY CyclesStep
<1>3. Init => DepsCreated
  BY DepsInit
<1>4. Basics /\ DepsCreated /\ [Next]_vars => DepsCreated'
  BY DepsStep
<1>5. CyclesFollow => CyclesCounted
  BY DEF CyclesFollow, Counted, CyclesCounted, Circular, Applied
<1> QED
  BY <1>1, <1>2, <1>3, <1>4, <1>5, TrackedIsSpec, BasicsInvariant, PTL DEF TrackedSpec, Spec

\* Under the same condition the tracker is empty once everything is stable.
LEMMA TrackerDrainedWhereBodies ==
    TrackedSpec /\ []ExecutedHasBody /\ []Drained => []TrackerDrained
<1>1. Basics /\ TrackerExact /\ ExecutedHasBody /\ Drained => TrackerDrained
  <2> SUFFICES ASSUME Basics, TrackerExact, ExecutedHasBody, Drained, msgs = {}, timers = {},
                      NEW c \in submitted
               PROVE  AppliedAt(c) = Replica
    BY DEF TrackerDrained, TrackerExact
  <2>1. ASSUME NEW p \in Replica PROVE c \in log[p].applied
    <3>1. c \in log[p].stable /\ IndexExact(log[p])
      BY DEF Drained, Basics, LogsSound
    <3> QED
      BY <3>1 DEF IndexExact, ExecutedHasBody
  <2> QED
    BY <2>1 DEF AppliedAt
<1> QED
  BY <1>1, TrackerExactHolds, TrackedIsSpec, BasicsInvariant, PTL

\* Wintermute with a timeout longer than a round trip counts every executed
\* command on a cycle.
THEOREM CyclesCountedHolds ==
    ASSUME Protocol = "Wintermute", Timely, Cardinality(Replica) > 1
    PROVE  TrackedSpec => []CyclesCounted
BY CyclesCountedWhereBodies, TimelyExecutesBodies, TrackedIsSpec, PTL

\* ... and leaves no command in the tracker when everything is quiet.
THEOREM TrackerDrainedHolds ==
    ASSUME Protocol = "Wintermute", Timely
    PROVE  TrackedSpec => []TrackerDrained
BY TrackerDrainedWhereBodies, TimelyExecutesBodies, WintermuteDrains, TrackedIsSpec, PTL
=============================================================================
