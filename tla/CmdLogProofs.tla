---------------------------- MODULE CmdLogProofs ----------------------------
(***************************************************************************)
(* What the calls of CmdLog do to a log, for every set of commands and     *)
(* keys: they keep it exact, commit executes one batch closed under        *)
(* dependencies (CommitExecutes) and leaves no command behind that could   *)
(* have been executed (CommitLeavesNoneReady).                             *)
(***************************************************************************)
EXTENDS CmdLog, SequenceTheorems, FiniteSetTheorems, TLAPS

\* What an execution order is, as a sequence.
LEMMA ExecutionOrderIsSeq ==
    ASSUME NEW G, NEW B, IsFiniteSet(B), NEW s \in ExecutionOrders(G, B)
    PROVE  /\ s \in Seq(B) /\ Range(s) = B /\ IsInjective(s)
           /\ DOMAIN s = 1 .. Cardinality(B) /\ Len(s) = Cardinality(B)
           /\ Cardinality(B) \in Nat
<1>1. Cardinality(B) \in Nat
  BY FS_CardinalityType
<1>2. s \in [1 .. Cardinality(B) -> B] /\ IsInjective(s)
      /\ \A t \in B : \E i \in 1 .. Cardinality(B) : s[i] = t
  BY DEF ExecutionOrders, Bijection, Injection, Surjection
<1>3. s \in Seq(B) /\ Len(s) = Cardinality(B)
  BY <1>1, <1>2, IsASeq
<1>4. Range(s) = B
  BY <1>2 DEF Range
<1> QED
  BY <1>1, <1>2, <1>3, <1>4

\* The elements of a concatenation.
LEMMA ConcatElements ==
    ASSUME NEW C, NEW t \in Seq(C), NEW s \in Seq(C)
    PROVE  /\ t \o s \in Seq(C)
           /\ DOMAIN (t \o s) = 1 .. Len(t) + Len(s)
           /\ \A i \in 1 .. Len(t) : i \in DOMAIN t /\ (t \o s)[i] = t[i]
           /\ \A i \in 1 .. Len(t) + Len(s) : i > Len(t) =>
                  i - Len(t) \in DOMAIN s /\ (t \o s)[i] = s[i - Len(t)]
           /\ Range(t \o s) = Range(t) \cup Range(s)
<1>1. /\ t \o s \in Seq(C) /\ Len(t \o s) = Len(t) + Len(s)
      /\ \A i \in 1 .. Len(t) + Len(s) :
            (t \o s)[i] = IF i <= Len(t) THEN t[i] ELSE s[i - Len(t)]
  BY ConcatProperties
<1>2. Len(t) \in Nat /\ Len(s) \in Nat /\ DOMAIN t = 1 .. Len(t) /\ DOMAIN s = 1 .. Len(s)
  BY LenProperties
<1>3. DOMAIN (t \o s) = 1 .. Len(t) + Len(s)
  BY <1>1, LenProperties
<1>4. \A i \in 1 .. Len(t) : i \in DOMAIN t /\ (t \o s)[i] = t[i]
  BY <1>1, <1>2
<1>5. \A i \in 1 .. Len(t) + Len(s) : i > Len(t) =>
          i - Len(t) \in DOMAIN s /\ (t \o s)[i] = s[i - Len(t)]
  BY <1>1, <1>2
<1>6. ASSUME NEW e \in Range(t \o s) PROVE e \in Range(t) \cup Range(s)
  BY <1>2, <1>3, <1>4, <1>5 DEF Range
<1>7. ASSUME NEW e \in Range(t) PROVE e \in Range(t \o s)
  <2>1. PICK i \in 1 .. Len(t) : e = t[i]
    BY <1>2 DEF Range
  <2>2. i \in DOMAIN (t \o s) /\ (t \o s)[i] = e
    BY <2>1, <1>2, <1>3, <1>4
  <2> QED BY <2>2 DEF Range
<1>8. ASSUME NEW e \in Range(s) PROVE e \in Range(t \o s)
  <2>1. PICK i \in 1 .. Len(s) : e = s[i]
    BY <1>2 DEF Range
  <2>2. i + Len(t) \in 1 .. Len(t) + Len(s) /\ i + Len(t) > Len(t) /\ i + Len(t) - Len(t) = i
    BY <2>1, <1>2
  <2>3. i + Len(t) \in DOMAIN (t \o s) /\ (t \o s)[i + Len(t)] = e
    BY <2>1, <2>2, <1>3, <1>5
  <2> QED BY <2>3 DEF Range
<1> QED
  BY <1>1, <1>3, <1>4, <1>5, <1>6, <1>7, <1>8

\* The orders of a batch depend on the dependencies of its members only.
LEMMA ExecutionOrdersAgree ==
    ASSUME NEW G, NEW H, NEW B, \A b \in B : G[b] = H[b]
    PROVE  ExecutionOrders(G, B) = ExecutionOrders(H, B)
<1>1. \A x, y : Reaches(G, B, x, y) <=> Reaches(H, B, x, y)
  BY DEF Reaches, ClosedIn
<1> QED
  BY <1>1 DEF ExecutionOrders

-----------------------------------------------------------------------------
\* Creating an entry or storing a body keeps a log exact and executes nothing.
LEMMA CreationKeeps ==
    ASSUME NEW l \in Log, IndexExact(l), NEW c \in Cmd, c \notin l.stable
    PROVE  LET r == RecordCreation(l, c) IN
           /\ r \in Log /\ IndexExact(r)
           /\ r.stable = l.stable /\ r.executed = l.executed
           /\ r.pending_commit = l.pending_commit
           /\ r.entries[c].phase # "none"
           /\ r.by_key = l.by_key
           /\ \A d \in Cmd : r.entries[d].cmd = l.entries[d].cmd
           /\ \A d \in Cmd : r.entries[d].deps = l.entries[d].deps
<1> DEFINE r == RecordCreation(l, c)
           e == l.entries
           f == [e EXCEPT ![c] = [@ EXCEPT !.phase = "pending"]]
<1>1. CASE e[c].phase # "none"
  BY <1>1 DEF RecordCreation
<1>2. CASE e[c].phase = "none"
  <2>1. e \in [Cmd -> Entry]
    BY DEF Log
  <2>2. f \in [Cmd -> Entry]
    BY <2>1 DEF Entry
  <2>3. /\ f[c].phase = "pending"
        /\ \A d \in Cmd \ {c} : f[d] = e[d]
        /\ \A d \in Cmd : f[d].cmd = e[d].cmd /\ f[d].deps = e[d].deps
    BY <2>1 DEF Entry
  <2>4. r = [l EXCEPT !.entries = f]
    BY <1>2 DEF RecordCreation
  <2>5. /\ r.entries = f /\ r.by_key = l.by_key /\ r.pending_commit = l.pending_commit
        /\ r.stable = l.stable /\ r.executed = l.executed /\ r.applied = l.applied
    BY <2>4 DEF Log
  <2>6. r \in Log
    BY <2>2, <2>4 DEF Log
  <2>7. CommittedIds(r) = CommittedIds(l)
    BY <1>2, <2>3, <2>5 DEF CommittedIds
  <2>8. IndexExact(r)
    BY <2>3, <2>5, <2>7 DEF IndexExact
  <2> QED
    BY <2>3, <2>5, <2>6, <2>8
<1> QED
  BY <1>1, <1>2

LEMMA SubmitKeeps ==
    ASSUME NEW l \in Log, IndexExact(l), NEW c \in Cmd
    PROVE  LET r == Submit(l, c) IN
           /\ r \in Log /\ IndexExact(r)
           /\ r.stable = l.stable /\ r.executed = l.executed
           /\ r.pending_commit = l.pending_commit
           /\ \A d \in Cmd : r.entries[d].deps = l.entries[d].deps
<1> DEFINE r == Submit(l, c)
           m == RecordCreation(l, c)
           f == [m.entries EXCEPT ![c] = [@ EXCEPT !.cmd = TRUE]]
           g == [m.by_key EXCEPT ![KeyOf[c]] = @ \cup {c}]
<1>1. CASE c \in l.stable \/ l.entries[c].cmd
  BY <1>1 DEF Submit
<1>2. CASE ~(c \in l.stable \/ l.entries[c].cmd)
  <2>1. /\ m \in Log /\ IndexExact(m)
        /\ m.stable = l.stable /\ m.executed = l.executed
        /\ m.pending_commit = l.pending_commit
        /\ m.entries[c].phase # "none"
        /\ \A d \in Cmd : m.entries[d].deps = l.entries[d].deps
    BY <1>2, CreationKeeps
  <2> HIDE DEF m
  <2>2. m.entries \in [Cmd -> Entry] /\ m.by_key \in [Key -> SUBSET Cmd] /\ KeyOf[c] \in Key
    BY <2>1, KeyAssumption DEF Log
  <2>3. f \in [Cmd -> Entry] /\ g \in [Key -> SUBSET Cmd]
    BY <2>2 DEF Entry
  <2>4. /\ \A d \in Cmd \ {c} : f[d] = m.entries[d]
        /\ \A d \in Cmd : f[d].phase = m.entries[d].phase /\ f[d].deps = m.entries[d].deps
        /\ f[c].cmd = TRUE
    BY <2>2 DEF Entry
  <2>5. /\ g[KeyOf[c]] = m.by_key[KeyOf[c]] \cup {c}
        /\ \A k \in Key \ {KeyOf[c]} : g[k] = m.by_key[k]
    BY <2>2
  <2>6. r = [m EXCEPT !.entries = f, !.by_key = g]
    BY <1>2 DEF Submit, m
  <2>7. /\ r.entries = f /\ r.by_key = g /\ r.pending_commit = m.pending_commit
        /\ r.stable = m.stable /\ r.executed = m.executed /\ r.applied = m.applied
    BY <2>1, <2>6 DEF Log
  <2>8. r \in Log
    BY <2>1, <2>3, <2>6 DEF Log
  <2>9. CommittedIds(r) = CommittedIds(m)
    BY <2>4, <2>7 DEF CommittedIds
  <2>10. \A k \in Key : g[k] = {d \in Cmd : f[d].cmd /\ KeyOf[d] = k}
    <3> SUFFICES ASSUME NEW k \in Key
                 PROVE  g[k] = {d \in Cmd : f[d].cmd /\ KeyOf[d] = k}
      OBVIOUS
    <3>1. m.by_key[k] = {d \in Cmd : m.entries[d].cmd /\ KeyOf[d] = k}
      BY <2>1 DEF IndexExact
    <3>2. CASE k = KeyOf[c]
      BY <2>4, <2>5, <3>1, <3>2
    <3>3. CASE k # KeyOf[c]
      BY <2>4, <2>5, <3>1, <3>3
    <3> QED
      BY <3>2, <3>3
  <2> HIDE DEF r, f, g
  <2>11. IndexExact(r)
    <3>1. r.pending_commit = CommittedIds(r)
      BY <2>1, <2>7, <2>9 DEF IndexExact
    <3>2. \A d \in Cmd : f[d].phase = "none" => ~f[d].cmd
      BY <2>1, <2>4 DEF IndexExact
    <3>3. \A d \in r.stable : f[d].phase = "none"
      BY <2>1, <2>4, <2>7 DEF IndexExact, Log
    <3>4. Range(r.executed) = r.stable /\ r.applied \subseteq r.stable
      BY <2>1, <2>7 DEF IndexExact
    <3> QED
      BY <2>7, <2>10, <3>1, <3>2, <3>3, <3>4 DEF IndexExact
  <2>12. \A d \in Cmd : r.entries[d].deps = l.entries[d].deps
    BY <2>1, <2>4, <2>7
  <2> QED
    BY <2>1, <2>7, <2>8, <2>11, <2>12 DEF r
<1> QED
  BY <1>1, <1>2

-----------------------------------------------------------------------------

\* Storing a decision.
LEMMA MarkCommittedKeeps ==
    ASSUME NEW l \in Log, IndexExact(l), NEW c \in Cmd \ l.stable, NEW D \in SUBSET Cmd
    PROVE  LET m == MarkCommitted(l, c, D) IN
           /\ m \in Log /\ IndexExact(m)
           /\ m.pending_commit = l.pending_commit \cup {c}
           /\ m.stable = l.stable /\ m.executed = l.executed
           /\ DepsOf(m) = [DepsOf(l) EXCEPT ![c] = D]
<1> DEFINE m == MarkCommitted(l, c, D)
           e == [l.entries[c] EXCEPT !.phase = "commit", !.deps = D]
           f == [l.entries EXCEPT ![c] = e]
<1>1. l.entries \in [Cmd -> Entry]
  BY DEF Log
<1>2. f \in [Cmd -> Entry]
  <2>1. PICK x \in Entry : x = l.entries[c]
    BY <1>1
  <2>2. PICK y \in Entry : y = [x EXCEPT !.phase = "commit"]
    BY DEF Entry
  <2>3. e = [y EXCEPT !.deps = D]
    BY <2>1, <2>2, Zenon
  <2>4. e \in Entry
    BY <2>3 DEF Entry
  <2> QED
    BY <1>1, <2>4
<1>3. /\ f[c].phase = "commit" /\ f[c].deps = D
      /\ \A d \in Cmd \ {c} : f[d] = l.entries[d]
      /\ \A d \in Cmd : f[d].cmd = l.entries[d].cmd
  BY <1>1 DEF Entry
<1>4. m = [l EXCEPT !.entries = f, !.pending_commit = @ \cup {c}]
  BY DEF MarkCommitted
<1>5. /\ m.entries = f /\ m.by_key = l.by_key /\ m.pending_commit = l.pending_commit \cup {c}
      /\ m.stable = l.stable /\ m.executed = l.executed /\ m.applied = l.applied
  BY <1>4 DEF Log
<1>6. m \in Log
  <2>1. l.pending_commit \cup {c} \in SUBSET Cmd
    BY DEF Log
  <2> QED
    BY <1>2, <1>4, <2>1 DEF Log
<1> HIDE DEF m, f
<1>7. CommittedIds(m) = CommittedIds(l) \cup {c}
  BY <1>3, <1>5 DEF CommittedIds
<1>8. m.pending_commit = CommittedIds(m)
  BY <1>5, <1>7 DEF IndexExact
<1>9. \A d \in Cmd : f[d].phase = "none" => ~f[d].cmd
  BY <1>3 DEF IndexExact
<1>10. \A d \in l.stable : f[d].phase = "none"
  BY <1>3 DEF IndexExact, Log
<1>11. \A k \in Key : l.by_key[k] = {d \in Cmd : f[d].cmd /\ KeyOf[d] = k}
  BY <1>3 DEF IndexExact
<1>12. DepsOf(m) = [DepsOf(l) EXCEPT ![c] = D]
  BY <1>3, <1>5 DEF DepsOf
<1>13. IndexExact(m)
  BY <1>5, <1>8, <1>9, <1>10, <1>11 DEF IndexExact
<1> QED
  BY <1>5, <1>6, <1>12, <1>13 DEF m

\* A pass of promote_stable over a batch of committed commands.
LEMMA PromoteKeeps ==
    ASSUME NEW m \in Log, IndexExact(m),
           NEW s \in Seq(Cmd), Range(s) \subseteq m.pending_commit
    PROVE  LET r == Promote(m, s) IN
           /\ r \in Log /\ IndexExact(r)
           /\ r.stable = m.stable \cup Range(s) /\ r.executed = m.executed \o s
           /\ r.pending_commit = m.pending_commit \ Range(s)
           /\ \A d \in r.pending_commit : r.entries[d].deps = m.entries[d].deps
<1> DEFINE r == Promote(m, s)
           B == Range(s)
           f == [c \in Cmd |-> IF c \in B THEN NoEntry ELSE m.entries[c]]
           g == [k \in Key |->
                   {c \in m.by_key[k] : ~(c \in B /\ m.entries[c].cmd /\ KeyOf[c] = k)}]
<1>1. /\ m.entries \in [Cmd -> Entry] /\ m.by_key \in [Key -> SUBSET Cmd]
      /\ m.pending_commit \in SUBSET Cmd /\ m.stable \in SUBSET Cmd
      /\ m.executed \in Seq(Cmd) /\ m.applied \in SUBSET Cmd
  BY DEF Log
<1>2. /\ \A k \in Key : m.by_key[k] = {d \in Cmd : m.entries[d].cmd /\ KeyOf[d] = k}
      /\ m.pending_commit = CommittedIds(m)
      /\ \A d \in Cmd : m.entries[d].phase = "none" => ~m.entries[d].cmd
      /\ \A d \in m.stable : m.entries[d].phase = "none"
      /\ Range(m.executed) = m.stable /\ m.applied \subseteq m.stable
  BY DEF IndexExact
<1>3. /\ r.entries = f /\ r.by_key = g /\ r.pending_commit = m.pending_commit \ B
      /\ r.stable = m.stable \cup B /\ r.executed = m.executed \o s
      /\ r.applied = m.applied \cup {c \in B : m.entries[c].cmd}
  BY DEF Promote
<1>4. B \in SUBSET Cmd
  BY <1>1
<1>5. m.executed \o s \in Seq(Cmd) /\ Range(m.executed \o s) = m.stable \cup B
  BY <1>2, <1>1, ConcatElements
<1>6. NoEntry \in Entry /\ NoEntry.phase = "none" /\ NoEntry.cmd = FALSE
  BY DEF NoEntry, Entry
<1>7. r \in Log
  <2>1. f \in [Cmd -> Entry] /\ g \in [Key -> SUBSET Cmd]
    BY <1>1, <1>6
  <2>2. m.applied \cup {c \in B : m.entries[c].cmd} \in SUBSET Cmd
    BY <1>1, <1>4
  <2> QED
    BY <1>1, <1>4, <1>5, <2>1, <2>2 DEF Promote, Log
<1>8. /\ \A c \in B : f[c] = NoEntry
      /\ \A c \in Cmd \ B : f[c] = m.entries[c]
  BY <1>4
<1> HIDE DEF r, f, g, B
<1>9. IndexExact(r)
  <2>1. ASSUME NEW k \in Key
        PROVE  g[k] = {d \in Cmd : f[d].cmd /\ KeyOf[d] = k}
    <3>1. \A d \in Cmd : f[d].cmd <=> m.entries[d].cmd /\ d \notin B
      BY <1>6, <1>8
    <3>2. m.by_key[k] = {d \in Cmd : m.entries[d].cmd /\ KeyOf[d] = k}
      BY <1>2
    <3> QED
      BY <3>1, <3>2 DEF g
  <2>2. CommittedIds(r) = CommittedIds(m) \ B
    BY <1>3, <1>6, <1>8 DEF CommittedIds
  <2>3. \A d \in Cmd : f[d].phase = "none" => ~f[d].cmd
    BY <1>2, <1>6, <1>8
  <2>4. \A d \in r.stable : f[d].phase = "none"
    BY <1>2, <1>1, <1>3, <1>6, <1>8
  <2>5. Range(r.executed) = r.stable
    BY <1>3, <1>5
  <2>6. r.applied \subseteq r.stable
    BY <1>2, <1>3
  <2>7. r.pending_commit = CommittedIds(r)
    BY <1>2, <1>3, <2>2
  <2> QED
    BY <1>3, <2>1, <2>3, <2>4, <2>5, <2>6, <2>7 DEF IndexExact
<1>10. \A d \in r.pending_commit : r.entries[d].deps = m.entries[d].deps
  BY <1>1, <1>3, <1>8
<1> QED
  BY <1>3, <1>7, <1>9, <1>10 DEF r, B

-----------------------------------------------------------------------------

\* The dependencies of the committed commands once c is committed with D.
DepsAfter(l, c, D) == [DepsOf(l) EXCEPT ![c] = D]

\* The commands that promote_stable picks depend on each other and on stable
\* commands only: what shows that one is ready shows it for its dependencies.
LEMMA NewlyStableClosed ==
    ASSUME NEW m \in Log, m.pending_commit = CommittedIds(m)
    PROVE  /\ NewlyStable(m) \subseteq m.pending_commit
           /\ \A b \in NewlyStable(m) : m.entries[b].deps \subseteq NewlyStable(m) \cup m.stable
<1>1. NewlyStable(m) \subseteq m.pending_commit
  BY DEF NewlyStable
<1>2. ASSUME NEW b \in NewlyStable(m), NEW d \in m.entries[b].deps, d \notin m.stable
      PROVE  d \in NewlyStable(m)
  <2>1. PICK S \in SUBSET CommittedIds(m) :
            /\ m.entries[b].deps \subseteq S \cup m.stable
            /\ \A x \in S : m.entries[x].deps \subseteq S \cup m.stable
    BY DEF NewlyStable, IsDepsClosureCommitted
  <2>2. d \in S
    BY <1>2, <2>1
  <2>3. IsDepsClosureCommitted(m, m.entries[d].deps)
    BY <2>1, <2>2 DEF IsDepsClosureCommitted
  <2> QED
    BY <2>1, <2>2, <2>3 DEF NewlyStable
<1> QED
  BY <1>1, <1>2

\* What a call of commit makes of the log l: one batch B becomes stable.
CommitsBatch(l, c, D, r) ==
    /\ r.pending_commit \subseteq (l.pending_commit \cup {c}) \ l.stable
    /\ \A d \in r.pending_commit : r.entries[d].deps = DepsAfter(l, c, D)[d]
    /\ \E B \in SUBSET ((l.pending_commit \cup {c}) \ l.stable) :
          /\ r.stable = l.stable \cup B
          /\ \A b \in B : DepsAfter(l, c, D)[b] \subseteq B \cup l.stable
          /\ \E s \in ExecutionOrders(DepsAfter(l, c, D), B) :
                r.executed = l.executed \o s

\* A call of commit keeps the log exact and executes one batch: commands with
\* a decision, not executed before, closed under dependencies up to what was
\* executed, in one of the orders of the batch.
LEMMA CommitExecutes ==
    ASSUME NEW l \in Log, IndexExact(l), NEW c \in Cmd, NEW D \in SUBSET Cmd,
           NEW r \in CommitOutcomes(l, c, D)
    PROVE  r \in Log /\ IndexExact(r) /\ CommitsBatch(l, c, D, r)
<1>1. l.pending_commit \cap l.stable = {}
  BY DEF IndexExact, CommittedIds
<1>2. CASE c \in l.stable
  <2>1. r = l
    BY <1>2 DEF CommitOutcomes
  <2>2. \A d \in r.pending_commit : r.entries[d].deps = DepsAfter(l, c, D)[d]
    BY <1>1, <1>2, <2>1 DEF DepsAfter, DepsOf, Log
  <2>3. << >> \in ExecutionOrders(DepsAfter(l, c, D), {})
    <3>1. Cardinality({}) = 0
      BY FS_EmptySet
    <3>2. << >> \in Bijection(1 .. 0, {})
      BY DEF Bijection, Injection, Surjection, IsInjective
    <3> QED
      BY <3>1, <3>2 DEF ExecutionOrders
  <2>4. l.executed = l.executed \o << >>
    BY DEF Log
  <2> QED
    BY <1>1, <1>2, <2>1, <2>2, <2>3, <2>4 DEF CommitsBatch
<1>3. CASE c \notin l.stable
  <2> DEFINE m == MarkCommitted(l, c, D)
             B == NewlyStable(m)
  <2>1. /\ m \in Log /\ IndexExact(m)
        /\ m.pending_commit = l.pending_commit \cup {c}
        /\ m.stable = l.stable /\ m.executed = l.executed
        /\ DepsOf(m) = DepsAfter(l, c, D)
    BY <1>3, MarkCommittedKeeps DEF DepsAfter
  <2>2. PICK s \in ExecutionOrders(DepsOf(m), B) : r = Promote(m, s)
    BY <1>3 DEF CommitOutcomes
  <2> HIDE DEF m, B
  <2>3. /\ B \subseteq m.pending_commit
        /\ \A b \in B : m.entries[b].deps \subseteq B \cup m.stable
    BY <2>1, NewlyStableClosed DEF B, IndexExact
  <2>4. B \in SUBSET Cmd /\ IsFiniteSet(B)
    BY <2>1, <2>3, CmdAssumption, FS_Subset DEF Log
  <2>5. s \in Seq(Cmd) /\ Range(s) = B
    BY <2>2, <2>4, ExecutionOrderIsSeq, SeqMonotonic
  <2>7. /\ r \in Log /\ IndexExact(r)
        /\ r.stable = m.stable \cup B /\ r.executed = m.executed \o s
        /\ r.pending_commit = m.pending_commit \ B
        /\ \A d \in r.pending_commit : r.entries[d].deps = m.entries[d].deps
    <3>1. Range(s) \subseteq m.pending_commit
      BY <2>3, <2>5
    <3>2. /\ r \in Log /\ IndexExact(r)
          /\ r.stable = m.stable \cup Range(s) /\ r.executed = m.executed \o s
          /\ r.pending_commit = m.pending_commit \ Range(s)
          /\ \A d \in r.pending_commit : r.entries[d].deps = m.entries[d].deps
      BY <2>1, <2>2, <2>5, <3>1, PromoteKeeps, Zenon
    <3> QED
      BY <2>5, <3>2
  <2>8. \A d \in Cmd : m.entries[d].deps = DepsAfter(l, c, D)[d]
    BY <2>1 DEF DepsOf
  <2>9. B \subseteq (l.pending_commit \cup {c}) \ l.stable
    BY <1>1, <1>3, <2>1, <2>3
  <2>10. /\ r.pending_commit \subseteq (l.pending_commit \cup {c}) \ l.stable
         /\ \A d \in r.pending_commit : r.entries[d].deps = DepsAfter(l, c, D)[d]
    BY <1>1, <1>3, <2>1, <2>7, <2>8 DEF Log
  <2>11. \A b \in B : DepsAfter(l, c, D)[b] \subseteq B \cup l.stable
    BY <2>1, <2>3, <2>4, <2>8
  <2>12. s \in ExecutionOrders(DepsAfter(l, c, D), B)
    BY <2>1, <2>2
  <2> QED
    BY <2>1, <2>7, <2>9, <2>10, <2>11, <2>12 DEF CommitsBatch
<1> QED
  BY <1>2, <1>3

-----------------------------------------------------------------------------

\* What promote_stable picks depends on the decisions held and on nothing else.
LEMMA ReadySame ==
    ASSUME NEW l \in Log, NEW r \in Log, IndexExact(l), IndexExact(r),
           r.pending_commit = l.pending_commit, r.stable = l.stable,
           \A d \in Cmd : r.entries[d].deps = l.entries[d].deps
    PROVE  NewlyStable(r) = NewlyStable(l)
<1>1. CommittedIds(r) = CommittedIds(l) /\ CommittedIds(l) \subseteq Cmd
      /\ r.pending_commit = CommittedIds(l) /\ l.pending_commit = CommittedIds(l)
  BY DEF IndexExact, CommittedIds
<1>2. \A D : IsDepsClosureCommitted(r, D) <=> IsDepsClosureCommitted(l, D)
  BY <1>1 DEF IsDepsClosureCommitted
<1> QED
  BY <1>1, <1>2 DEF NewlyStable

\* One pass of promote_stable leaves nothing ready behind: a command that is
\* ready after the pass was ready before it.
LEMMA PassIsComplete ==
    ASSUME NEW m \in Log, IndexExact(m), NEW r \in Log, IndexExact(r),
           r.stable = m.stable \cup NewlyStable(m),
           r.pending_commit = m.pending_commit \ NewlyStable(m),
           \A d \in r.pending_commit : r.entries[d].deps = m.entries[d].deps
    PROVE  NewlyStable(r) = {}
<1> DEFINE B == NewlyStable(m)
<1>1. /\ m.pending_commit = CommittedIds(m) /\ r.pending_commit = CommittedIds(r)
      /\ B \subseteq m.pending_commit
      /\ \A b \in B : m.entries[b].deps \subseteq B \cup m.stable
  BY NewlyStableClosed DEF IndexExact
<1> SUFFICES ASSUME NEW c \in NewlyStable(r) PROVE FALSE
  OBVIOUS
<1>2. c \in r.pending_commit /\ c \in m.pending_commit /\ c \notin B
  BY DEF NewlyStable
<1>3. PICK S \in SUBSET CommittedIds(r) :
          /\ r.entries[c].deps \subseteq S \cup r.stable
          /\ \A d \in S : r.entries[d].deps \subseteq S \cup r.stable
  BY DEF NewlyStable, IsDepsClosureCommitted
<1> HIDE DEF B
<1>4. S \cup B \in SUBSET CommittedIds(m)
  BY <1>1 DEF B
<1>5. m.entries[c].deps \subseteq (S \cup B) \cup m.stable
  BY <1>2, <1>3 DEF B
<1>6. \A d \in S \cup B : m.entries[d].deps \subseteq (S \cup B) \cup m.stable
  BY <1>1, <1>3 DEF B
<1>7. IsDepsClosureCommitted(m, m.entries[c].deps)
  BY <1>4, <1>5, <1>6 DEF IsDepsClosureCommitted
<1> QED
  BY <1>2, <1>7 DEF NewlyStable, B

LEMMA CommitLeavesNoneReady ==
    ASSUME NEW l \in Log, IndexExact(l), NewlyStable(l) = {},
           NEW c \in Cmd, NEW D \in SUBSET Cmd, NEW r \in CommitOutcomes(l, c, D)
    PROVE  NewlyStable(r) = {}
<1>1. CASE c \in l.stable
  BY <1>1 DEF CommitOutcomes
<1>2. CASE c \notin l.stable
  <2> DEFINE m == MarkCommitted(l, c, D)
             B == NewlyStable(m)
  <2>1. m \in Log /\ IndexExact(m)
    BY <1>2, MarkCommittedKeeps
  <2>2. PICK s \in ExecutionOrders(DepsOf(m), B) : r = Promote(m, s)
    BY <1>2 DEF CommitOutcomes
  <2> HIDE DEF m
  <2>3. B \subseteq m.pending_commit /\ B \in SUBSET Cmd /\ IsFiniteSet(B)
    BY <2>1, CmdAssumption, FS_Subset DEF NewlyStable, Log
  <2>4. s \in Seq(Cmd) /\ Range(s) = B
    BY <2>2, <2>3, ExecutionOrderIsSeq, SeqMonotonic
  <2>5. /\ r \in Log /\ IndexExact(r)
        /\ r.stable = m.stable \cup B
        /\ r.pending_commit = m.pending_commit \ B
        /\ \A d \in r.pending_commit : r.entries[d].deps = m.entries[d].deps
    <3>1. Range(s) \subseteq m.pending_commit
      BY <2>3, <2>4
    <3>2. /\ r \in Log /\ IndexExact(r)
          /\ r.stable = m.stable \cup Range(s)
          /\ r.pending_commit = m.pending_commit \ Range(s)
          /\ \A d \in r.pending_commit : r.entries[d].deps = m.entries[d].deps
      BY <2>1, <2>2, <2>4, <3>1, PromoteKeeps, Zenon
    <3> QED
      BY <2>4, <3>2
  <2> QED
    BY <2>1, <2>5, PassIsComplete
<1> QED
  BY <1>1, <1>2

-----------------------------------------------------------------------------

\* The replica with the log l has the body of c, or had it when it executed c.
HasBody(l, c) == l.entries[c].cmd \/ c \in l.applied

\* Creating an entry brings no body, storing a body brings that one, unless
\* its command is stable.
LEMMA BodiesArrive ==
    ASSUME NEW l \in Log, IndexExact(l), NEW c \in Cmd
    PROVE  /\ c \notin l.stable =>
                 \A d \in Cmd : HasBody(RecordCreation(l, c), d) <=> HasBody(l, d)
           /\ \A d \in Cmd : HasBody(Submit(l, c), d) <=>
                                 HasBody(l, d) \/ (d = c /\ c \notin l.stable)
<1>1. c \notin l.stable => /\ RecordCreation(l, c) \in Log
                           /\ RecordCreation(l, c).applied = l.applied
                           /\ \A d \in Cmd : RecordCreation(l, c).entries[d].cmd = l.entries[d].cmd
  <2>1. c \notin l.stable => /\ RecordCreation(l, c) \in Log
                             /\ \A d \in Cmd : RecordCreation(l, c).entries[d].cmd = l.entries[d].cmd
    BY CreationKeeps
  <2>2. RecordCreation(l, c).applied = l.applied
    BY DEF RecordCreation, Log
  <2> QED
    BY <2>1, <2>2
<1>2. CASE c \in l.stable \/ l.entries[c].cmd
  BY <1>1, <1>2 DEF Submit, HasBody
<1>3. CASE ~(c \in l.stable \/ l.entries[c].cmd)
  <2> DEFINE m == RecordCreation(l, c)
             f == [m.entries EXCEPT ![c] = [@ EXCEPT !.cmd = TRUE]]
             g == [m.by_key EXCEPT ![KeyOf[c]] = @ \cup {c}]
  <2>1. m \in Log /\ m.applied = l.applied /\ \A d \in Cmd : m.entries[d].cmd = l.entries[d].cmd
    BY <1>1, <1>3
  <2>2. Submit(l, c) = [m EXCEPT !.entries = f, !.by_key = g]
    BY <1>3 DEF Submit
  <2> HIDE DEF m
  <2>3. /\ f[c].cmd = TRUE
        /\ \A d \in Cmd \ {c} : f[d] = m.entries[d]
    <3>1. m.entries \in [Cmd -> Entry]
      BY <2>1 DEF Log
    <3> QED
      BY <3>1 DEF Entry
  <2>4. Submit(l, c).entries = f /\ Submit(l, c).applied = m.applied
    BY <2>1, <2>2 DEF Log
  <2> QED
    BY <1>1, <1>3, <2>1, <2>3, <2>4 DEF HasBody, m
<1> QED
  BY <1>2, <1>3

\* What a replica knows after a call of commit: the decision on c and the
\* same bodies.  What it executes comes after what it had executed.
LEMMA CommitLearns ==
    ASSUME NEW l \in Log, IndexExact(l), NEW c \in Cmd, NEW D \in SUBSET Cmd,
           NEW r \in CommitOutcomes(l, c, D)
    PROVE  /\ r.pending_commit \cup r.stable = l.pending_commit \cup l.stable \cup {c}
           /\ l.stable \subseteq r.stable
           /\ \A d \in Cmd : HasBody(r, d) <=> HasBody(l, d)
           /\ \A a \in l.stable, b \in Cmd :
                 Precedes(r.executed, b, a) => Precedes(l.executed, b, a)
<1>1. CASE c \in l.stable
  BY <1>1 DEF CommitOutcomes
<1>2. CASE c \notin l.stable
  <2> DEFINE m == MarkCommitted(l, c, D)
  <2>1. /\ m \in Log /\ IndexExact(m)
        /\ m.pending_commit = l.pending_commit \cup {c}
        /\ m.stable = l.stable /\ m.executed = l.executed
    BY <1>2, MarkCommittedKeeps
  <2>2. \A d \in Cmd : m.entries[d].cmd = l.entries[d].cmd
    <3>1. l.entries \in [Cmd -> Entry]
      BY DEF Log
    <3>2. m.entries = [l.entries EXCEPT
                          ![c] = [l.entries[c] EXCEPT !.phase = "commit", !.deps = D]]
      BY DEF MarkCommitted, Log
    <3>3. m.entries[c] = [l.entries[c] EXCEPT !.phase = "commit", !.deps = D]
      BY <3>1, <3>2
    <3>4. m.entries[c].cmd = l.entries[c].cmd
      BY <3>1, <3>3 DEF Entry
    <3> QED
      BY <3>1, <3>2, <3>4
  <2>3. m.applied = l.applied
    BY DEF MarkCommitted, Log
  <2>4. PICK s \in ExecutionOrders(DepsOf(m), NewlyStable(m)) : r = Promote(m, s)
    BY <1>2 DEF CommitOutcomes
  <2> HIDE DEF m
  <2>5. NewlyStable(m) \subseteq m.pending_commit /\ NewlyStable(m) \in SUBSET Cmd
        /\ IsFiniteSet(NewlyStable(m)) /\ NewlyStable(m) \cap l.stable = {}
    BY <2>1, CmdAssumption, FS_Subset DEF NewlyStable, Log, IndexExact, CommittedIds
  <2>6. s \in Seq(Cmd) /\ Range(s) = NewlyStable(m)
    BY <2>4, <2>5, ExecutionOrderIsSeq, SeqMonotonic
  <2>7. /\ r.entries = [d \in Cmd |-> IF d \in Range(s) THEN NoEntry ELSE m.entries[d]]
        /\ r.applied = l.applied \cup {d \in Range(s) : m.entries[d].cmd}
        /\ r.pending_commit = m.pending_commit \ Range(s)
        /\ r.stable = l.stable \cup Range(s)
        /\ r.executed = l.executed \o s
    BY <2>1, <2>3, <2>4 DEF Promote
  <2>8. r.pending_commit \cup r.stable = l.pending_commit \cup l.stable \cup {c}
    BY <2>1, <2>5, <2>6, <2>7
  <2>9. \A d \in Cmd : HasBody(r, d) <=> HasBody(l, d)
    BY <2>2, <2>7 DEF HasBody, NoEntry
  <2>10. ASSUME NEW a \in l.stable, NEW b \in Cmd, Precedes(r.executed, b, a)
         PROVE  Precedes(l.executed, b, a)
    <3>1. l.executed \in Seq(Cmd) /\ Len(l.executed) \in Nat
          /\ DOMAIN l.executed = 1 .. Len(l.executed)
      BY DEF Log
    <3>2. /\ DOMAIN r.executed = 1 .. Len(l.executed) + Len(s)
          /\ \A i \in 1 .. Len(l.executed) : r.executed[i] = l.executed[i]
          /\ \A i \in 1 .. Len(l.executed) + Len(s) : i > Len(l.executed) =>
                r.executed[i] \in Range(s)
      BY <2>6, <2>7, <3>1, ConcatElements DEF Range
    <3>3. PICK i, j \in DOMAIN r.executed :
             i < j /\ r.executed[i] = b /\ r.executed[j] = a
      BY <2>10 DEF Precedes
    <3>4. a \notin Range(s)
      BY <2>5, <2>6
    <3>5. Len(s) \in Nat
      BY <2>6
    <3>6. j \in 1 .. Len(l.executed) /\ i \in 1 .. Len(l.executed)
      BY <3>1, <3>2, <3>3, <3>4, <3>5
    <3> QED
      BY <3>1, <3>2, <3>3, <3>6 DEF Precedes
  <2> QED
    BY <2>7, <2>8, <2>9, <2>10
<1> QED
  BY <1>1, <1>2
=============================================================================
