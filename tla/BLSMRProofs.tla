---------------------------- MODULE BLSMRProofs ----------------------------
(***************************************************************************)
(* The protocol for any replicas, commands, quorums and timeouts and any   *)
(* network.  Each command is announced, proposed and decided at most once  *)
(* (Basics), the logs are driven as Replicas says (Refinement), and what   *)
(* is under way ends (UnderWay, DrainedHolds).                             *)
(*                                                                         *)
(* Commands on one key are executed in the same order everywhere: enough   *)
(* replicas know a command whose announcement is over (KnownToEnough), two *)
(* announcements that conflict meet at a replica (PendingMeet,             *)
(* ConcludedMeet), so one command depends on the other or is executed      *)
(* everywhere before the other is known (ConflictsCovered).  When everybody*)
(* answers they meet everywhere (NamedOrFirst), and neither an overlap of  *)
(* quorums nor a causal network is needed.  The last section checks the    *)
(* hypotheses on the quorums for the systems the simulations configure.    *)
(***************************************************************************)
EXTENDS BLSMR, CmdLogProofs, FiniteSetTheorems

-----------------------------------------------------------------------------
\* The life of a command.

\* The announcement of c is over.
Concluded(c) == c \in decided \/ instances[c].open

\* A command is announced, then perhaps proposed, then decided, once.
Stages ==
    /\ \A c \in pending : c \in submitted /\ ~Concluded(c)
    /\ \A c \in Cmd : instances[c].open => c \in submitted /\ c \notin decided
    /\ decided \subseteq submitted
    /\ \A c \in Cmd \ pending : announce_quorums[c] = {}

\* No command is in conflict with itself.
NoneOnItself ==
    /\ \A c \in Cmd : c \notin decidedDeps[c] /\ c \notin instances[c].deps
    /\ \A c \in Cmd : \A r \in announce_quorums[c] : c \notin r.conflicts
    /\ \A m \in msgs : m.type = "Res" => m.cmd \notin m.deps

\* The logs are exact, hold decisions only and leave no command behind.
LogsSound ==
    \A p \in Replica :
        /\ IndexExact(log[p])
        /\ Learned(p) \subseteq decided
        /\ \A c \in log[p].pending_commit : log[p].entries[c].deps = decidedDeps[c]
        /\ \A c \in log[p].stable : decidedDeps[c] \subseteq log[p].stable
        /\ NewlyStable(log[p]) = {}

-----------------------------------------------------------------------------
\* The messages.

\* The replica that answers with m or is asked by it.
Answerer(m) == IF m.type = "Req" THEN m.dst ELSE m.src

\* What a replica will have learned when it gets m.
Known(m) == m.past \cup Learned(m.dst)

Asks(m, c) == m.type \in {"Req", "Res"} /\ m.cmd = c

\* Only what was created is talked about, and what a Commit says was decided.
TruthOf(m) ==
    /\ m.cmd \in submitted
    /\ m.past \subseteq decided
    /\ m.type = "Commit" => m.cmd \in decided /\ m.deps = decidedDeps[m.cmd]
    /\ m.type = "Req" => m.src = Owner[m.cmd] /\ ~Visible(m.dst, m.cmd)
    /\ m.type = "Request" => m.src = Owner[m.cmd]
    /\ m.type \in {"Res", "Response"} => m.dst = Owner[m.cmd]

Truthful ==
    /\ \A p \in Replica : \A c \in Cmd : Visible(p, c) => c \in submitted
    /\ \A m \in msgs : TruthOf(m)

\* A replica answers each announcement once.
AnswersOnce ==
    /\ \A c \in Cmd : \A m, n \in msgs :
          Asks(m, c) /\ Asks(n, c) /\ Answerer(m) = Answerer(n) => m = n
    /\ \A c \in Cmd : \A m \in msgs :
          Asks(m, c) => Answerer(m) \notin Responders(announce_quorums[c])
    /\ \A c \in Cmd : \A r, s \in announce_quorums[c] : r.pid = s.pid => r = s

-----------------------------------------------------------------------------
\* The logs and the network.

(***************************************************************************)
(* What a message that is sent says; a causal one names all its sender has *)
(* learned and its receiver has not.                                       *)
(***************************************************************************)
LEMMA SentMessages ==
    ASSUME log \in [Replica -> Log],
           NEW p \in Replica, NEW T \in SUBSET Replica, NEW c \in Cmd, NEW D \in SUBSET Cmd
    PROVE  /\ Sent("Req", p, T, c, D) \subseteq Message
           /\ Sent("Res", p, T, c, D) \subseteq Message
           /\ Sent("Commit", p, T, c, D) \subseteq Message
           /\ Sent("Request", p, T, c, D) \subseteq Message
           /\ Sent("Response", p, T, c, D) \subseteq Message
           /\ \A k : \A m \in Sent(k, p, T, c, D) :
                 m.past \subseteq Learned(p) /\ (Causal => Learned(p) \subseteq Known(m))
<1>1. \A q \in Replica : Learned(q) \subseteq Cmd
  BY DEF Learned, Log
<1>2. \A k : \A m \in Sent(k, p, T, c, D) :
         m.past \subseteq Learned(p) /\ (Causal => Learned(p) \subseteq Known(m))
  BY DEF Sent, Known
<1>3. /\ Sent("Req", p, T, c, D) \subseteq Message
      /\ Sent("Res", p, T, c, D) \subseteq Message
      /\ Sent("Commit", p, T, c, D) \subseteq Message
      /\ Sent("Request", p, T, c, D) \subseteq Message
      /\ Sent("Response", p, T, c, D) \subseteq Message
  BY <1>1 DEF Sent, Message
<1> QED
  BY <1>2, <1>3

(***************************************************************************)
(* A log stays sound when it creates an entry or stores a body.            *)
(***************************************************************************)
LEMMA BodyStep ==
    ASSUME log \in [Replica -> Log], LogsSound, NEW p \in Replica, NEW c \in Cmd,
           UNCHANGED <<decided, decidedDeps>>,
           \/ log' = [log EXCEPT ![p] = Submit(@, c)]
           \/ c \notin decided /\ log' = [log EXCEPT ![p] = RecordCreation(@, c)]
    PROVE  /\ log' \in [Replica -> Log] /\ LogsSound'
           /\ \A q \in Replica : /\ Learned(q)' = Learned(q)
                                 /\ log'[q].stable = log[q].stable
                                 /\ log'[q].executed = log[q].executed
           /\ \A q \in Replica, d \in Cmd :
                 /\ Visible(q, d) => Visible(q, d)'
                 /\ Visible(q, d)' => Visible(q, d) \/ (q = p /\ d = c)
           /\ log' = [log EXCEPT ![p] = Submit(@, c)] /\ c \notin log[p].stable =>
                 Visible(p, c)'
           /\ log' = [log EXCEPT ![p] = RecordCreation(@, c)] /\ c \notin decided =>
                 \A q \in Replica, d \in Cmd : Visible(q, d)' <=> Visible(q, d)
<1>1. log[p] \in Log /\ IndexExact(log[p]) /\ (c \notin decided => c \notin log[p].stable)
  BY DEF LogsSound, Learned
<1>2. PICK r : /\ log' = [log EXCEPT ![p] = r]
               /\ \/ r = Submit(log[p], c)
                  \/ c \notin decided /\ r = RecordCreation(log[p], c)
  OBVIOUS
<1>3. /\ r \in Log /\ IndexExact(r)
      /\ r.stable = log[p].stable /\ r.executed = log[p].executed
      /\ r.pending_commit = log[p].pending_commit
      /\ \A d \in Cmd : r.entries[d].deps = log[p].entries[d].deps
  <2>1. CASE r = Submit(log[p], c)
    BY <1>1, <2>1, SubmitKeeps
  <2>2. CASE c \notin decided /\ r = RecordCreation(log[p], c)
    BY <1>1, <2>2, CreationKeeps
  <2> QED
    BY <1>2, <2>1, <2>2
<1>4. /\ \A d \in Cmd : HasBody(log[p], d) => HasBody(r, d)
      /\ \A d \in Cmd : HasBody(r, d) => HasBody(log[p], d) \/ d = c
  <2>1. CASE r = Submit(log[p], c)
    BY <1>1, <2>1, BodiesArrive
  <2>2. CASE c \notin decided /\ r = RecordCreation(log[p], c)
    BY <1>1, <2>2, BodiesArrive
  <2> QED
    BY <1>2, <2>1, <2>2
<1>5. log'[p] = r /\ \A q \in Replica \ {p} : log'[q] = log[q]
  BY <1>2
<1>6. NewlyStable(r) = {}
  BY <1>1, <1>3, ReadySame DEF LogsSound
<1>7. log' \in [Replica -> Log]
  BY <1>2, <1>3
<1>8. \A q \in Replica : /\ Learned(q)' = Learned(q)
                         /\ log'[q].stable = log[q].stable
                         /\ log'[q].executed = log[q].executed
  BY <1>3, <1>5 DEF Learned
<1>9. \A q \in Replica, d \in Cmd :
         /\ Visible(q, d) => Visible(q, d)'
         /\ Visible(q, d)' => Visible(q, d) \/ (q = p /\ d = c)
  BY <1>4, <1>5 DEF Visible, HasBody
<1>10. log' = [log EXCEPT ![p] = Submit(@, c)] /\ c \notin log[p].stable => Visible(p, c)'
  <2>1. log' = [log EXCEPT ![p] = Submit(@, c)] => log'[p] = Submit(log[p], c)
    BY <1>1
  <2> QED
    BY <1>1, <2>1, BodiesArrive DEF Visible, HasBody
<1>11. log' = [log EXCEPT ![p] = RecordCreation(@, c)] /\ c \notin decided =>
          \A q \in Replica, d \in Cmd : Visible(q, d)' <=> Visible(q, d)
  <2>1. log' = [log EXCEPT ![p] = RecordCreation(@, c)] => log'[p] = RecordCreation(log[p], c)
    BY <1>1
  <2> QED
    BY <1>1, <1>5, <2>1, BodiesArrive DEF Visible, HasBody
<1>12. LogsSound'
  <2>1. SUFFICES ASSUME NEW q \in Replica
                 PROVE  /\ IndexExact(log'[q])
                        /\ Learned(q) \subseteq decided
                        /\ \A d \in log'[q].pending_commit :
                              log'[q].entries[d].deps = decidedDeps[d]
                        /\ \A d \in log[q].stable : decidedDeps[d] \subseteq log[q].stable
                        /\ NewlyStable(log'[q]) = {}
    BY <1>8 DEF LogsSound
  <2>2. CASE q = p
    <3>1. r.pending_commit \subseteq Cmd
      BY <1>3 DEF Log
    <3> QED
      BY <1>3, <1>5, <1>6, <2>2, <3>1 DEF LogsSound
  <2>3. CASE q # p
    BY <1>5, <2>3 DEF LogsSound
  <2> QED
    BY <2>2, <2>3
<1> QED
  BY <1>7, <1>8, <1>9, <1>10, <1>11, <1>12

(***************************************************************************)
(* A log stays sound when it learns a decision.                            *)
(***************************************************************************)
LEMMA LearnStep ==
    ASSUME log \in [Replica -> Log], LogsSound, NEW p \in Replica, NEW c \in Cmd,
           NEW D \in SUBSET Cmd, decided \subseteq decided', c \in decided',
           \A d \in decided : decidedDeps'[d] = decidedDeps[d], decidedDeps'[c] = D,
           NEW l \in CommitOutcomes(log[p], c, D), log' = [log EXCEPT ![p] = l]
    PROVE  /\ log' \in [Replica -> Log] /\ LogsSound'
           /\ \A q \in Replica :
                 /\ Learned(q)' = Learned(q) \cup (IF q = p THEN {c} ELSE {})
                 /\ log[q].stable \subseteq log'[q].stable
                 /\ \A a \in log[q].stable, b \in Cmd :
                       Precedes(log'[q].executed, b, a) => Precedes(log[q].executed, b, a)
           /\ \A q \in Replica, d \in Cmd : Visible(q, d)' <=> Visible(q, d)
<1>1. log[p] \in Log /\ IndexExact(log[p])
  BY DEF LogsSound
<1>2. /\ l \in Log /\ IndexExact(l) /\ CommitsBatch(log[p], c, D, l)
      /\ l.pending_commit \cup l.stable = Learned(p) \cup {c}
      /\ log[p].stable \subseteq l.stable
      /\ \A d \in Cmd : HasBody(l, d) <=> HasBody(log[p], d)
      /\ \A a \in log[p].stable, b \in Cmd :
            Precedes(l.executed, b, a) => Precedes(log[p].executed, b, a)
  BY <1>1, CommitExecutes, CommitLearns DEF Learned
<1>3. NewlyStable(l) = {}
  BY <1>1, CommitLeavesNoneReady DEF LogsSound
<1>4. log'[p] = l /\ \A q \in Replica \ {p} : log'[q] = log[q]
  OBVIOUS
<1>5. log' \in [Replica -> Log]
  BY <1>2
<1>6. \A q \in Replica :
         /\ Learned(q)' = Learned(q) \cup (IF q = p THEN {c} ELSE {})
         /\ log[q].stable \subseteq log'[q].stable
         /\ \A a \in log[q].stable, b \in Cmd :
               Precedes(log'[q].executed, b, a) => Precedes(log[q].executed, b, a)
  BY <1>2, <1>4 DEF Learned
<1>7. \A q \in Replica, d \in Cmd : Visible(q, d)' <=> Visible(q, d)
  BY <1>2, <1>4 DEF Visible, HasBody
<1>8. /\ Learned(p) \subseteq decided /\ Learned(p) \subseteq Cmd
      /\ \A d \in log[p].pending_commit \cup log[p].stable : decidedDeps'[d] = decidedDeps[d]
      /\ \A d \in log[p].pending_commit : log[p].entries[d].deps = decidedDeps[d]
      /\ \A d \in log[p].stable : decidedDeps[d] \subseteq log[p].stable
  BY <1>1 DEF LogsSound, Learned, Log
<1>9. \A d \in (log[p].pending_commit \cup {c}) : DepsAfter(log[p], c, D)[d] = decidedDeps'[d]
  BY <1>1, <1>8 DEF DepsAfter, DepsOf, Learned
<1>10. \A d \in l.pending_commit : l.entries[d].deps = decidedDeps'[d]
  BY <1>2, <1>9 DEF CommitsBatch
<1>11. \A d \in l.stable : decidedDeps'[d] \subseteq l.stable
  <2>1. PICK B \in SUBSET ((log[p].pending_commit \cup {c}) \ log[p].stable) :
           /\ l.stable = log[p].stable \cup B
           /\ \A b \in B : DepsAfter(log[p], c, D)[b] \subseteq B \cup log[p].stable
    BY <1>2 DEF CommitsBatch
  <2> QED
    BY <1>8, <1>9, <2>1
<1>12. LogsSound'
  <2>1. SUFFICES ASSUME NEW q \in Replica
                 PROVE  /\ IndexExact(log'[q])
                        /\ Learned(q)' \subseteq decided'
                        /\ \A d \in log'[q].pending_commit :
                              log'[q].entries[d].deps = decidedDeps'[d]
                        /\ \A d \in log'[q].stable : decidedDeps'[d] \subseteq log'[q].stable
                        /\ NewlyStable(log'[q]) = {}
    BY DEF LogsSound
  <2>2. Learned(q) \subseteq decided
    BY DEF LogsSound
  <2>3. CASE q = p
    BY <1>2, <1>3, <1>4, <1>6, <1>10, <1>11, <2>2, <2>3
  <2>4. CASE q # p
    <3>1. \A d \in log[q].pending_commit \cup log[q].stable : decidedDeps'[d] = decidedDeps[d]
      BY <2>2 DEF Learned
    <3> QED
      BY <1>4, <1>6, <2>2, <2>4, <3>1 DEF LogsSound
  <2> QED
    BY <2>3, <2>4
<1> QED
  BY <1>5, <1>6, <1>7, <1>12

-----------------------------------------------------------------------------
\* What every step keeps.

Basics == TypeOK /\ Stages /\ NoneOnItself /\ LogsSound /\ Truthful /\ AnswersOnce

LEMMA BasicsInit == Init => Basics
<1> SUFFICES ASSUME Init PROVE Basics
  OBVIOUS
<1>1. EmptyLog \in Log /\ IndexExact(EmptyLog)
  <2>1. NoEntry \in Entry
    BY DEF NoEntry, Entry
  <2> QED
    BY <2>1 DEF EmptyLog, Log, IndexExact, NoEntry, CommittedIds, Range
<1>2. /\ EmptyLog.pending_commit = {} /\ EmptyLog.stable = {} /\ EmptyLog.applied = {}
      /\ \A c \in Cmd : EmptyLog.entries[c].cmd = FALSE
  BY DEF EmptyLog, NoEntry
<1>3. NoInstance \in Instance /\ NoInstance.open = FALSE /\ NoInstance.deps = {}
  BY DEF NoInstance, Instance
<1>4. TypeOK
  BY <1>1, <1>3 DEF Init, TypeOK
<1>5. Stages /\ NoneOnItself /\ AnswersOnce
  BY <1>3 DEF Init, Stages, NoneOnItself, AnswersOnce, Responders
<1>6. LogsSound
  BY <1>1, <1>2 DEF Init, LogsSound, NewlyStable, Learned
<1>7. Truthful
  BY <1>2 DEF Init, Truthful, Visible
<1> QED
  BY <1>4, <1>5, <1>6, <1>7 DEF Basics

(***************************************************************************)
(* A step that asks nobody and answers nobody.                             *)
(***************************************************************************)
LEMMA AsksNobody ==
    ASSUME AnswersOnce,
           \A m \in msgs' : m \in msgs \/ m.type \notin {"Req", "Res"},
           \A c \in Cmd : announce_quorums'[c] \subseteq announce_quorums[c]
    PROVE  AnswersOnce'
<1>1. ASSUME NEW c \in Cmd, NEW m \in msgs', Asks(m, c) PROVE m \in msgs
  BY <1>1 DEF Asks
<1>2. \A c \in Cmd : Responders(announce_quorums'[c]) \subseteq Responders(announce_quorums[c])
  BY DEF Responders
<1> QED
  BY <1>1, <1>2 DEF AnswersOnce

(***************************************************************************)
(* What is true stays true while more is decided and no body arrives.      *)
(***************************************************************************)
LEMMA TruthStays ==
    ASSUME Truthful, submitted \subseteq submitted', decided \subseteq decided',
           \A d \in decided : decidedDeps'[d] = decidedDeps[d],
           msgs \subseteq Message,
           \A q \in Replica, d \in Cmd : Visible(q, d)' <=> Visible(q, d),
           NEW m \in msgs
    PROVE  TruthOf(m)'
<1>1. TruthOf(m) /\ m.dst \in Replica /\ m.cmd \in Cmd
  BY DEF Truthful, Message
<1> QED
  BY <1>1 DEF TruthOf

(***************************************************************************)
(* The decision on c: the announcement and the slow path of c are over.    *)
(***************************************************************************)
LEMMA DecideKeeps ==
    ASSUME Basics, NEW c \in submitted, c \notin decided,
           NEW D \in SUBSET Cmd, c \notin D, NEW kept \in SUBSET msgs,
           Decide(c, D, kept), CloseAnnouncement(c),
           NEW i \in Instance, ~i.open, c \notin i.deps,
           instances' = [instances EXCEPT ![c] = i],
           UNCHANGED submitted, timers' \in SUBSET Cmd,
           paths' \in [Cmd -> {"none", "fast", "slow"}]
    PROVE  Basics'
<1> DEFINE p == Owner[c]
           N == Sent("Commit", p, Replica \ {p}, c, D)
<1>1. c \in Cmd /\ p \in Replica /\ Replica \ {p} \in SUBSET Replica
  BY ProtocolAssumption DEF Basics, TypeOK
<1>2. /\ decided' = decided \cup {c} /\ decidedDeps' \in [Cmd -> SUBSET Cmd]
      /\ decidedDeps'[c] = D /\ \A d \in Cmd \ {c} : decidedDeps'[d] = decidedDeps[d]
      /\ \A d \in decided : decidedDeps'[d] = decidedDeps[d]
  BY <1>1 DEF Basics, TypeOK, Decide
<1>3. PICK l \in CommitOutcomes(log[p], c, D) : log' = [log EXCEPT ![p] = l]
  BY DEF Decide
<1>4. /\ log' \in [Replica -> Log] /\ LogsSound'
      /\ \A q \in Replica, d \in Cmd : Visible(q, d)' <=> Visible(q, d)
  BY <1>1, <1>2, <1>3, LearnStep DEF Basics, TypeOK
<1>5. /\ announce_quorums'[c] = {} /\ instances'[c] = i
      /\ \A d \in Cmd \ {c} : announce_quorums'[d] = announce_quorums[d]
                              /\ instances'[d] = instances[d]
      /\ pending' = pending \ {c}
  BY <1>1 DEF Basics, TypeOK, CloseAnnouncement
<1>6. \A m \in N : /\ m \in Message /\ m.type = "Commit" /\ m.cmd = c /\ m.deps = D
                   /\ m.past \subseteq Learned(p)
  <2>1. \A m \in N : m.type = "Commit" /\ m.cmd = c /\ m.deps = D
    BY DEF Sent
  <2> QED
    BY <1>1, <2>1, SentMessages DEF Basics, TypeOK
<1>7. msgs' = kept \cup N
  BY DEF Decide
<1> HIDE DEF N, p
<1>8. TypeOK'
  <2>3. submitted' \in SUBSET Cmd /\ decided' \in SUBSET Cmd /\ pending' \in SUBSET Cmd
    BY <1>1, <1>2, <1>5 DEF Basics, TypeOK
  <2>1. announce_quorums' \in [Cmd -> SUBSET Res] /\ instances' \in [Cmd -> Instance]
    BY DEF Basics, TypeOK, CloseAnnouncement
  <2>2. msgs' \in SUBSET Message
    BY <1>6, <1>7 DEF Basics, TypeOK
  <2> QED
    BY <1>2, <1>4, <2>3, <2>1, <2>2 DEF TypeOK
<1>9. Stages'
  BY <1>1, <1>2, <1>5 DEF Basics, TypeOK, Stages, Concluded
<1>10. NoneOnItself'
  BY <1>2, <1>5, <1>6, <1>7 DEF Basics, NoneOnItself
<1>11. Truthful'
  <2>1. \A m \in msgs : TruthOf(m)'
    BY <1>2, <1>4, TruthStays DEF Basics, TypeOK
  <2>2. \A m \in N : TruthOf(m)'
    BY <1>1, <1>2, <1>6 DEF Basics, LogsSound, TruthOf
  <2> QED
    BY <1>4, <1>7, <2>1, <2>2 DEF Basics, Truthful
<1>12. AnswersOnce'
  <2>1. \A m \in msgs' : m \in msgs \/ m.type \notin {"Req", "Res"}
    BY <1>6, <1>7
  <2>2. \A d \in Cmd : announce_quorums'[d] \subseteq announce_quorums[d]
    BY <1>5
  <2> QED
    BY <2>1, <2>2, AsksNobody DEF Basics
<1> QED
  BY <1>4, <1>8, <1>9, <1>10, <1>11, <1>12 DEF Basics

(***************************************************************************)
(* The logs stay sound when they stay as they are.                         *)
(***************************************************************************)
LEMMA LogsStay ==
    ASSUME LogsSound, UNCHANGED <<log, decided, decidedDeps>>
    PROVE  /\ LogsSound'
           /\ \A q \in Replica, d \in Cmd : Visible(q, d)' <=> Visible(q, d)
           /\ \A q \in Replica : Learned(q)' = Learned(q)
BY DEF LogsSound, Visible, Learned, IndexExact, CommittedIds, NewlyStable,
       IsDepsClosureCommitted

(***************************************************************************)
(* A step that only receives m, with or without recording something of the *)
(* slow path, and perhaps answers it.                                      *)
(***************************************************************************)
LEMMA ReceiptKeeps ==
    ASSUME Basics, NEW m, NEW N \in SUBSET Message, Deliver(m, N),
           \A n \in N : /\ n.type = "Response" /\ n.cmd \in submitted
                         /\ n.past \subseteq decided /\ n.dst = Owner[n.cmd],
           timers' \in SUBSET Cmd, instances' \in [Cmd -> Instance],
           \A c \in Cmd : instances'[c].open = instances[c].open
                          /\ instances'[c].deps = instances[c].deps,
           UNCHANGED <<submitted, log, announce_quorums, pending, decided, decidedDeps, paths>>
    PROVE  Basics'
<1>1. /\ LogsSound' /\ \A q \in Replica, d \in Cmd : Visible(q, d)' <=> Visible(q, d)
  BY LogsStay DEF Basics
<1>2. msgs' \subseteq msgs \cup N
  BY DEF Deliver
<1>3. TypeOK'
  BY <1>2 DEF Basics, TypeOK
<1>4. Stages'
  BY DEF Basics, TypeOK, Stages, Concluded
<1>5. NoneOnItself'
  BY <1>2 DEF Basics, NoneOnItself
<1>6. Truthful'
  <2>1. \A n \in msgs : TruthOf(n)'
    BY <1>1, TruthStays DEF Basics, TypeOK
  <2>2. \A n \in N : TruthOf(n)'
    BY DEF TruthOf
  <2> QED
    BY <1>1, <1>2, <2>1, <2>2 DEF Basics, Truthful
<1>7. AnswersOnce'
  <2>1. \A n \in msgs' : n \in msgs \/ n.type \notin {"Req", "Res"}
    BY <1>2
  <2> QED
    BY <2>1, AsksNobody DEF Basics
<1> QED
  BY <1>1, <1>3, <1>4, <1>5, <1>6, <1>7 DEF Basics

(***************************************************************************)
(* The proposal of c: the announcement is over, the slow path begins.      *)
(***************************************************************************)
LEMMA ProposeKeeps ==
    ASSUME Basics, NEW c \in pending, NEW D \in SUBSET Cmd, c \notin D,
           NEW kept \in SUBSET msgs, Propose(c, D, kept), CloseAnnouncement(c),
           UNCHANGED <<submitted, log, decided, decidedDeps>>, timers' \in SUBSET Cmd,
           paths' \in [Cmd -> {"none", "fast", "slow"}]
    PROVE  Basics'
<1> DEFINE p == Owner[c]
           N == Sent("Request", p, Committee[c], c, D)
           i == [open |-> TRUE, deps |-> D, responses |-> {}]
<1>1. c \in Cmd /\ p \in Replica /\ Committee[c] \in SUBSET Replica /\ i \in Instance
      /\ c \in submitted /\ c \notin decided
  BY ProtocolAssumption DEF Basics, TypeOK, Stages, Concluded, Instance, CommitteeOfSystem
<1>2. /\ LogsSound' /\ \A q \in Replica, d \in Cmd : Visible(q, d)' <=> Visible(q, d)
  BY LogsStay DEF Basics
<1>3. instances' = [instances EXCEPT ![c] = i] /\ i.open = TRUE /\ i.deps = D
  BY DEF Propose
<1>4. /\ announce_quorums'[c] = {} /\ instances'[c] = i
      /\ \A d \in Cmd \ {c} : announce_quorums'[d] = announce_quorums[d]
                              /\ instances'[d] = instances[d]
      /\ pending' = pending \ {c}
  BY <1>1, <1>3 DEF Basics, TypeOK, CloseAnnouncement
<1>5. \A m \in N : /\ m \in Message /\ m.type = "Request" /\ m.cmd = c
                   /\ m.src = Owner[c] /\ m.past \subseteq Learned(p)
  <2>1. \A m \in N : m.type = "Request" /\ m.cmd = c /\ m.src = p
    BY DEF Sent
  <2> QED
    BY <1>1, <2>1, SentMessages DEF Basics, TypeOK
<1>6. msgs' = kept \cup N
  BY DEF Propose
<1> HIDE DEF N, p, i
<1>7. TypeOK'
  <2>1. announce_quorums' \in [Cmd -> SUBSET Res] /\ instances' \in [Cmd -> Instance]
    BY <1>1, <1>3 DEF Basics, TypeOK, CloseAnnouncement
  <2>2. msgs' \in SUBSET Message
    BY <1>5, <1>6 DEF Basics, TypeOK
  <2> QED
    BY <1>4, <2>1, <2>2 DEF Basics, TypeOK
<1>8. Stages'
  BY <1>1, <1>3, <1>4 DEF Basics, TypeOK, Stages, Concluded
<1>9. NoneOnItself'
  BY <1>3, <1>4, <1>5, <1>6 DEF Basics, NoneOnItself
<1>10. Truthful'
  <2>1. \A m \in msgs : TruthOf(m)'
    BY <1>2, TruthStays DEF Basics, TypeOK
  <2>2. \A m \in N : TruthOf(m)'
    BY <1>1, <1>5 DEF Basics, LogsSound, TruthOf
  <2> QED
    BY <1>2, <1>6, <2>1, <2>2 DEF Basics, Truthful
<1>11. AnswersOnce'
  <2>1. \A m \in msgs' : m \in msgs \/ m.type \notin {"Req", "Res"}
    BY <1>5, <1>6
  <2>2. \A d \in Cmd : announce_quorums'[d] \subseteq announce_quorums[d]
    BY <1>4
  <2> QED
    BY <2>1, <2>2, AsksNobody DEF Basics
<1> QED
  BY <1>2, <1>7, <1>8, <1>9, <1>10, <1>11 DEF Basics

(***************************************************************************)
(* The announcement of c ends, on the fast or on the slow path.            *)
(***************************************************************************)
LEMMA QuorumReadyKeeps ==
    ASSUME Basics, NEW c \in pending, NEW R \in SUBSET Res, \A r \in R : c \notin r.conflicts,
           NEW kept \in SUBSET msgs, QuorumReady(c, R, kept),
           UNCHANGED submitted, timers' \in SUBSET Cmd
    PROVE  Basics'
<1>1. c \in Cmd /\ c \in submitted /\ c \notin decided /\ ~instances[c].open
  BY DEF Basics, TypeOK, Stages, Concluded
<1>2. UnionDeps(R) \in SUBSET Cmd /\ c \notin UnionDeps(R)
  BY DEF UnionDeps, Res
<1>3. /\ CloseAnnouncement(c)
      /\ paths' \in [Cmd -> {"none", "fast", "slow"}]
  BY <1>1 DEF QuorumReady, Basics, TypeOK
<1>4. CASE Decide(c, UnionDeps(R), kept) /\ UNCHANGED instances
  <2>1. instances' = [instances EXCEPT ![c] = instances[c]] /\ instances[c] \in Instance
        /\ c \notin instances[c].deps
    BY <1>1, <1>4 DEF Basics, TypeOK, NoneOnItself
  <2> QED
    BY <1>1, <1>2, <1>3, <1>4, <2>1, DecideKeeps
<1>5. CASE Propose(c, UnionDeps(R), kept) /\ UNCHANGED <<log, decided, decidedDeps>>
  BY <1>2, <1>3, <1>5, ProposeKeeps
<1> QED
  BY <1>4, <1>5 DEF QuorumReady

-----------------------------------------------------------------------------
\* The actions.

LEMMA AnnounceKeeps ==
    ASSUME Basics, NEW c \in Cmd, Announce(c)
    PROVE  Basics'
<1> DEFINE p == Owner[c]
<1>1. p \in Replica /\ c \notin submitted /\ submitted' = submitted \cup {c}
  BY ProtocolAssumption DEF Announce
<1>2. /\ c \notin decided /\ c \notin pending /\ ~instances[c].open /\ announce_quorums[c] = {}
      /\ \A q \in Replica : ~Visible(q, c)
      /\ \A m \in msgs : m.cmd # c
  BY <1>1 DEF Basics, Stages, Truthful, TruthOf
<1>3. PICK T \in AnnounceTargets : msgs' = msgs \cup Sent("Req", p, T, c, {})
  BY DEF Announce
<1> DEFINE N == Sent("Req", p, T, c, {})
<1>4. T \in SUBSET Replica
  BY ProtocolAssumption DEF AnnounceTargets
<1>5. /\ \A m \in N : /\ m \in Message /\ m.type = "Req" /\ m.cmd = c /\ m.src = p
                      /\ m.past \subseteq Learned(p)
      /\ \A m, n \in N : m.dst = n.dst => m = n
  <2>1. /\ \A m \in N : m.type = "Req" /\ m.cmd = c /\ m.src = p
        /\ \A m, n \in N : m.dst = n.dst => m = n
    BY DEF Sent
  <2>2. {} \in SUBSET Cmd
    OBVIOUS
  <2> QED
    BY <1>1, <1>4, <2>1, <2>2, SentMessages DEF Basics, TypeOK
<1>6. /\ log' \in [Replica -> Log] /\ LogsSound'
      /\ \A q \in Replica, d \in Cmd : Visible(q, d)' <=> Visible(q, d)
  BY <1>1, <1>2, BodyStep DEF Basics, TypeOK, Announce, records
<1>7. msgs' = msgs \cup N
  BY <1>3
<1> HIDE DEF N, p
<1>8. TypeOK'
  <2>1. msgs' \in SUBSET Message
    BY <1>5, <1>7 DEF Basics, TypeOK
  <2> QED
    BY <1>6, <2>1 DEF Basics, TypeOK, Announce, records
<1>9. Stages'
  BY <1>2 DEF Basics, Stages, Concluded, Announce, records
<1>10. NoneOnItself'
  BY <1>5, <1>7 DEF Basics, NoneOnItself, Announce, records
<1>11. Truthful'
  <2>1. \A m \in msgs : TruthOf(m)'
    BY <1>1, <1>6, TruthStays DEF Basics, TypeOK, Announce, records
  <2>2. ASSUME NEW m \in N PROVE TruthOf(m)'
    <3>1. m.type = "Req" /\ m.cmd = c /\ m.src = p /\ m.past \subseteq decided /\ m.dst \in Replica
      BY <1>1, <1>5 DEF Basics, LogsSound, Message
    <3> QED
      BY <1>1, <1>2, <1>6, <3>1 DEF TruthOf, Announce, records, p
  <2> QED
    BY <1>1, <1>6, <1>7, <2>1, <2>2 DEF Basics, Truthful
<1>12. AnswersOnce'
  <2>1. ASSUME NEW d \in Cmd, NEW m \in msgs', NEW n \in msgs', Asks(m, d), Asks(n, d),
               Answerer(m) = Answerer(n)
        PROVE  m = n
    BY <1>2, <1>5, <1>7, <2>1 DEF Basics, AnswersOnce, Asks, Answerer
  <2>2. ASSUME NEW d \in Cmd, NEW m \in msgs', Asks(m, d)
        PROVE  Answerer(m) \notin Responders(announce_quorums'[d])
    <3>1. announce_quorums' = announce_quorums /\ Responders(announce_quorums[c]) = {}
      BY <1>2 DEF Announce, Responders
    <3> QED
      BY <1>5, <1>7, <2>2, <3>1 DEF Basics, AnswersOnce, Asks
  <2> QED
    BY <2>1, <2>2 DEF Basics, AnswersOnce, Announce
<1> QED
  BY <1>6, <1>8, <1>9, <1>10, <1>11, <1>12 DEF Basics

LEMMA TimerKeeps ==
    ASSUME Basics, NEW c \in Cmd, OnForceTimer(c)
    PROVE  Basics'
<1>1. timers' \in SUBSET Cmd /\ submitted' = submitted
  BY DEF OnForceTimer, Basics, TypeOK
<1>2. CASE c \in pending /\ QuorumReady(c, announce_quorums[c], msgs)
  <2>1. /\ announce_quorums[c] \in SUBSET Res
        /\ \A r \in announce_quorums[c] : c \notin r.conflicts
    BY DEF Basics, TypeOK, NoneOnItself
  <2> QED
    BY <1>1, <1>2, <2>1, QuorumReadyKeeps
<1>3. CASE UNCHANGED <<log, msgs, owners, records>>
  <2>1. LogsSound' /\ \A q \in Replica, d \in Cmd : Visible(q, d)' <=> Visible(q, d)
    BY <1>3, LogsStay DEF Basics, records
  <2>2. \A m \in msgs : TruthOf(m)'
    BY <1>1, <1>3, <2>1, TruthStays DEF Basics, TypeOK, records
  <2>3. Truthful'
    BY <1>1, <1>3, <2>1, <2>2 DEF Basics, Truthful
  <2> QED
    BY <1>1, <1>3, <2>1, <2>3
       DEF Basics, TypeOK, Stages, Concluded, NoneOnItself, AnswersOnce, owners, records
<1> QED
  BY <1>2, <1>3 DEF OnForceTimer

LEMMA ReqKeeps ==
    ASSUME Basics, NEW m \in msgs, HandleReq(m)
    PROVE  Basics'
<1> DEFINE p == m.dst
           c == m.cmd
           D == Conflicts(log[p], c)
           N == Sent("Res", p, {m.src}, c, D)
<1>1. /\ m.type = "Req" /\ p \in Replica /\ c \in Cmd /\ m.src \in Replica /\ m \in Message
      /\ c \in submitted /\ m.src = Owner[c] /\ ~Visible(p, c)
  BY DEF HandleReq, Basics, TypeOK, Message, Truthful, TruthOf
<1>2. D \in SUBSET Cmd /\ c \notin D
  <2>1. log[p] \in Log /\ KeyOf[c] \in Key
    BY <1>1, KeyAssumption DEF Basics, TypeOK
  <2> QED
    BY <1>1, <2>1 DEF Conflicts, Visible, Log
<1>3. /\ \A n \in N : /\ n \in Message /\ n.type = "Res" /\ n.cmd = c /\ n.src = p
                      /\ n.dst = m.src /\ n.deps = D /\ n.past \subseteq Learned(p)
      /\ \A n, k \in N : n = k
  <2>1. /\ \A n \in N : n.type = "Res" /\ n.cmd = c /\ n.src = p /\ n.dst = m.src /\ n.deps = D
        /\ \A n, k \in N : n = k
    BY DEF Sent
  <2>2. {m.src} \in SUBSET Replica
    BY <1>1
  <2> QED
    BY <1>1, <1>2, <2>1, <2>2, SentMessages DEF Basics, TypeOK
<1>4. /\ log' \in [Replica -> Log] /\ LogsSound'
      /\ \A q \in Replica, d \in Cmd :
            /\ Visible(q, d) => Visible(q, d)'
            /\ Visible(q, d)' => Visible(q, d) \/ (q = p /\ d = c)
  BY <1>1, BodyStep DEF Basics, TypeOK, HandleReq, records
<1>5. msgs' = (msgs \ {m}) \cup N
  BY DEF HandleReq, Deliver
<1> HIDE DEF N, p, c, D
<1>6. TypeOK'
  <2>1. msgs' \in SUBSET Message
    BY <1>3, <1>5 DEF Basics, TypeOK
  <2> QED
    BY <1>4, <2>1 DEF Basics, TypeOK, HandleReq, owners, records
<1>7. Stages'
  BY DEF Basics, Stages, Concluded, HandleReq, owners, records
<1>8. NoneOnItself'
  BY <1>2, <1>3, <1>5 DEF Basics, NoneOnItself, HandleReq, owners, records
<1>9. Truthful'
  <2>1. ASSUME NEW n \in msgs \ {m} PROVE TruthOf(n)'
    <3>1. TruthOf(n) /\ n.dst \in Replica /\ n.cmd \in Cmd
      BY DEF Basics, TypeOK, Truthful, Message
    <3>2. n.type = "Req" => ~(n.dst = p /\ n.cmd = c)
      BY <1>1 DEF Basics, AnswersOnce, Asks, Answerer, p, c
    <3> QED
      BY <1>4, <3>1, <3>2 DEF TruthOf, HandleReq, records
  <2>2. ASSUME NEW n \in N PROVE TruthOf(n)'
    BY <1>1, <1>3 DEF Basics, LogsSound, TruthOf, HandleReq, records
  <2>3. \A q \in Replica, d \in Cmd : Visible(q, d)' => d \in submitted'
    BY <1>1, <1>4 DEF Basics, Truthful, HandleReq
  <2> QED
    BY <1>5, <2>1, <2>2, <2>3 DEF Truthful
<1>10. AnswersOnce'
  <2>1. Asks(m, c) /\ Answerer(m) = p
    BY <1>1 DEF Asks, Answerer, p, c
  <2>2. \A n \in N : Answerer(n) = p /\ \A d \in Cmd : Asks(n, d) => d = c
    BY <1>3 DEF Asks, Answerer
  <2>3. announce_quorums' = announce_quorums
    BY DEF HandleReq, owners
  <2>4. ASSUME NEW d \in Cmd, NEW n \in msgs', NEW k \in msgs', Asks(n, d), Asks(k, d),
               Answerer(n) = Answerer(k)
        PROVE  n = k
    BY <1>3, <1>5, <2>1, <2>2, <2>4 DEF Basics, AnswersOnce
  <2>5. ASSUME NEW d \in Cmd, NEW n \in msgs', Asks(n, d)
        PROVE  Answerer(n) \notin Responders(announce_quorums[d])
    BY <1>1, <1>5, <2>1, <2>2, <2>5 DEF Basics, AnswersOnce
  <2> QED
    BY <2>3, <2>4, <2>5 DEF Basics, AnswersOnce
<1> QED
  BY <1>4, <1>6, <1>7, <1>8, <1>9, <1>10 DEF Basics

LEMMA ResKeeps ==
    ASSUME Basics, NEW m \in msgs, HandleRes(m)
    PROVE  Basics'
<1> DEFINE c == m.cmd
           r == [pid |-> m.src, conflicts |-> m.deps]
           R == announce_quorums[c] \cup {r}
<1>1. m.type = "Res" /\ c \in Cmd /\ m \in Message /\ r \in Res /\ c \notin m.deps
  BY DEF HandleRes, Basics, TypeOK, Message, Res, NoneOnItself
<1>2. R \in SUBSET Res /\ \A s \in R : c \notin s.conflicts
  BY <1>1 DEF Basics, TypeOK, NoneOnItself
<1>3. UNCHANGED <<submitted, timers>>
  BY DEF HandleRes
<1>4. CASE Deliver(m, {}) /\ UNCHANGED <<log, owners, records>>
  <2>1. /\ instances' = instances /\ instances' \in [Cmd -> Instance]
        /\ timers' \in SUBSET Cmd
        /\ UNCHANGED <<log, announce_quorums, pending, decided, decidedDeps, paths>>
    BY <1>3, <1>4 DEF Basics, TypeOK, owners, records
  <2> QED
    BY <1>3, <1>4, <2>1, ReceiptKeeps
<1>5. CASE c \in pending /\ QuorumReady(c, R, msgs \ {m})
  <2>1. timers' \in SUBSET Cmd /\ msgs \ {m} \in SUBSET msgs
    BY <1>3 DEF Basics, TypeOK
  <2> HIDE DEF c, R
  <2> QED
    BY <1>2, <1>3, <1>5, <2>1, QuorumReadyKeeps
<1>6. CASE /\ c \in pending
           /\ announce_quorums' = [announce_quorums EXCEPT ![c] = R]
           /\ Deliver(m, {})
           /\ UNCHANGED <<log, pending, instances, records>>
  <2>1. /\ announce_quorums' \in [Cmd -> SUBSET Res] /\ announce_quorums'[c] = R
        /\ \A d \in Cmd \ {c} : announce_quorums'[d] = announce_quorums[d]
    BY <1>1, <1>2, <1>6 DEF Basics, TypeOK
  <2>2. LogsSound' /\ \A q \in Replica, d \in Cmd : Visible(q, d)' <=> Visible(q, d)
    BY <1>6, LogsStay DEF Basics, records
  <2>3. msgs' = msgs \ {m}
    BY <1>6 DEF Deliver
  <2> HIDE DEF c, R, r
  <2>4. TypeOK'
    BY <1>3, <1>6, <2>1, <2>3 DEF Basics, TypeOK, records
  <2>5. Stages'
    BY <1>3, <1>6, <2>1 DEF Basics, Stages, Concluded, records
  <2>6. NoneOnItself'
    BY <1>2, <1>6, <2>1, <2>3 DEF Basics, NoneOnItself, records
  <2>7. Truthful'
    <3>1. \A n \in msgs : TruthOf(n)'
      BY <1>3, <1>6, <2>2, TruthStays DEF Basics, TypeOK, records
    <3> QED
      BY <1>3, <2>2, <2>3, <3>1 DEF Basics, Truthful
  <2>8. AnswersOnce'
    <3>1. Asks(m, c) /\ Answerer(m) = r.pid
      BY <1>1 DEF Asks, Answerer, c, r
    <3>2. Responders(R) = Responders(announce_quorums[c]) \cup {r.pid}
      BY DEF Responders, R
    <3>3. \A n \in msgs \ {m} : Asks(n, c) => Answerer(n) # r.pid
      BY <1>1, <3>1 DEF Basics, AnswersOnce
    <3>4. ASSUME NEW d \in Cmd, NEW n \in msgs \ {m}, Asks(n, d)
          PROVE  Answerer(n) \notin Responders(announce_quorums'[d])
      BY <2>1, <3>2, <3>3, <3>4 DEF Basics, AnswersOnce
    <3>5. ASSUME NEW d \in Cmd, NEW s \in announce_quorums'[d],
                 NEW t \in announce_quorums'[d], s.pid = t.pid
          PROVE  s = t
      <4>1. \A x \in announce_quorums[c] : x.pid # r.pid
        BY <1>1, <3>1 DEF Basics, AnswersOnce, Responders
      <4> QED
        BY <2>1, <3>5, <4>1 DEF Basics, AnswersOnce, R
    <3> QED
      BY <2>3, <3>4, <3>5 DEF Basics, AnswersOnce
  <2> QED
    BY <2>2, <2>4, <2>5, <2>6, <2>7, <2>8 DEF Basics
<1> QED
  BY <1>4, <1>5, <1>6 DEF HandleRes

LEMMA CommitKeeps ==
    ASSUME Basics, NEW m \in msgs, HandleCommit(m)
    PROVE  Basics'
<1> DEFINE p == m.dst
           c == m.cmd
<1>1. /\ p \in Replica /\ c \in Cmd /\ c \in decided /\ m.deps = decidedDeps[c]
      /\ decidedDeps[c] \in SUBSET Cmd
      /\ UNCHANGED <<submitted, timers, owners, records>>
  BY DEF HandleCommit, Basics, TypeOK, Message, Truthful, TruthOf
<1>2. PICK l \in CommitOutcomes(log[p], c, decidedDeps[c]) : log' = [log EXCEPT ![p] = l]
  BY <1>1 DEF HandleCommit
<1>3. /\ decided' = decided /\ decidedDeps' = decidedDeps
      /\ pending' = pending /\ announce_quorums' = announce_quorums /\ instances' = instances
      /\ submitted' = submitted
  BY <1>1 DEF owners, records
<1>4. /\ log' \in [Replica -> Log] /\ LogsSound'
      /\ \A q \in Replica, d \in Cmd : Visible(q, d)' <=> Visible(q, d)
  BY <1>1, <1>2, <1>3, LearnStep DEF Basics, TypeOK
<1>5. msgs' = msgs \ {m}
  BY DEF HandleCommit, Deliver
<1>6. TypeOK'
  BY <1>1, <1>4, <1>5 DEF Basics, TypeOK, owners, records
<1>7. Stages' /\ NoneOnItself'
  BY <1>3, <1>5 DEF Basics, Stages, Concluded, NoneOnItself
<1>8. Truthful'
  <2>1. \A n \in msgs : TruthOf(n)'
    BY <1>3, <1>4, TruthStays DEF Basics, TypeOK
  <2> QED
    BY <1>3, <1>4, <1>5, <2>1 DEF Basics, Truthful
<1>9. AnswersOnce'
  BY <1>3, <1>5, AsksNobody DEF Basics
<1> QED
  BY <1>4, <1>6, <1>7, <1>8, <1>9 DEF Basics

LEMMA RequestKeeps ==
    ASSUME Basics, NEW m \in msgs, HandleRequest(m)
    PROVE  Basics'
<1> DEFINE N == Sent("Response", m.dst, {m.src}, m.cmd, m.deps)
<1>1. /\ m.src \in Replica /\ m.dst \in Replica /\ m.cmd \in Cmd /\ m.deps \in SUBSET Cmd
      /\ m.cmd \in submitted /\ {m.src} \in SUBSET Replica /\ m.src = Owner[m.cmd]
  BY DEF HandleRequest, Basics, TypeOK, Message, Truthful, TruthOf
<1>2. N \in SUBSET Message /\ \A n \in N : n.past \subseteq Learned(m.dst)
  BY <1>1, SentMessages DEF Basics, TypeOK
<1>3. \A n \in N : n.type = "Response" /\ n.cmd = m.cmd /\ n.dst = m.src
  BY DEF Sent
<1>4. \A n \in N : /\ n.type = "Response" /\ n.cmd \in submitted
                   /\ n.past \subseteq decided /\ n.dst = Owner[n.cmd]
  BY <1>1, <1>2, <1>3 DEF Basics, LogsSound
<1> HIDE DEF N
<1>5. Deliver(m, N) /\ UNCHANGED <<submitted, log, timers, owners, records>>
  BY DEF HandleRequest, N
<1> QED
  BY <1>2, <1>4, <1>5, ReceiptKeeps DEF Basics, TypeOK, owners, records

LEMMA ResponseKeeps ==
    ASSUME Basics, NEW m \in msgs, HandleResponse(m)
    PROVE  Basics'
<1> DEFINE c == m.cmd
           R == instances[c].responses \cup {m.src}
<1>1. /\ c \in Cmd /\ m.src \in Replica /\ instances[c] \in Instance
      /\ UNCHANGED <<submitted, timers, announce_quorums, pending>>
  BY DEF HandleResponse, Basics, TypeOK, Message
<1>2. CASE Deliver(m, {}) /\ UNCHANGED <<log, instances, records>>
  BY <1>1, <1>2, ReceiptKeeps DEF Basics, TypeOK, records
<1>3. CASE /\ instances' = [instances EXCEPT ![c].responses = R]
           /\ Deliver(m, {}) /\ UNCHANGED <<log, records>>
  <2>1. [instances[c] EXCEPT !.responses = R] \in Instance
    BY <1>1 DEF Instance
  <2>2. /\ instances' \in [Cmd -> Instance]
        /\ \A d \in Cmd : instances'[d].open = instances[d].open
                          /\ instances'[d].deps = instances[d].deps
    BY <1>1, <1>3, <2>1 DEF Basics, TypeOK, Instance
  <2>3. timers' \in SUBSET Cmd /\ UNCHANGED <<log, decided, decidedDeps, paths>>
    BY <1>1, <1>3 DEF Basics, TypeOK, records
  <2>4. {} \in SUBSET Message /\ Deliver(m, {})
    BY <1>3
  <2> QED
    BY <1>1, <2>2, <2>3, <2>4, ReceiptKeeps
<1>4. CASE /\ instances[c].open
           /\ instances' = [instances EXCEPT ![c] = NoInstance]
           /\ Decide(c, instances[c].deps, msgs \ {m})
           /\ UNCHANGED paths
  <2>1. /\ c \in submitted /\ c \notin decided /\ c \notin pending
        /\ announce_quorums[c] = {}
    BY <1>1, <1>4 DEF Basics, Stages, Concluded
  <2>2. CloseAnnouncement(c)
    BY <1>1, <2>1 DEF CloseAnnouncement, Basics, TypeOK
  <2>3. NoInstance \in Instance /\ ~NoInstance.open /\ c \notin NoInstance.deps
    BY DEF NoInstance, Instance
  <2>4. instances[c].deps \in SUBSET Cmd /\ c \notin instances[c].deps
    BY <1>1 DEF Instance, Basics, NoneOnItself
  <2>5. timers' \in SUBSET Cmd /\ paths' \in [Cmd -> {"none", "fast", "slow"}]
    BY <1>1, <1>4 DEF Basics, TypeOK
  <2>6. msgs \ {m} \in SUBSET msgs
    OBVIOUS
  <2> HIDE DEF c
  <2> QED
    BY <1>1, <1>4, <2>1, <2>2, <2>3, <2>4, <2>5, <2>6, DecideKeeps
<1> QED
  BY <1>2, <1>3, <1>4 DEF HandleResponse

LEMMA BasicsStep == Basics /\ [Next]_vars => Basics'
<1> SUFFICES ASSUME Basics, [Next]_vars PROVE Basics'
  OBVIOUS
<1>1. ASSUME NEW c \in Cmd, Announce(c) \/ OnForceTimer(c) PROVE Basics'
  BY <1>1, AnnounceKeeps, TimerKeeps
<1>2. ASSUME NEW m \in msgs, Receive(m) PROVE Basics'
  BY <1>2, ReqKeeps, ResKeeps, CommitKeeps, RequestKeeps, ResponseKeeps DEF Receive
<1>3. CASE UNCHANGED vars
  <2>1. LogsSound' /\ \A q \in Replica, d \in Cmd : Visible(q, d)' <=> Visible(q, d)
    BY <1>3, LogsStay DEF Basics, vars, records
  <2>2. Truthful'
    <3>1. \A m \in msgs : TruthOf(m)'
      BY <1>3, <2>1, TruthStays DEF Basics, TypeOK, vars, records
    <3> QED
      BY <1>3, <2>1, <3>1 DEF Basics, Truthful, vars
  <2> QED
    BY <1>3, <2>1, <2>2 DEF Basics, TypeOK, Stages, Concluded, NoneOnItself, AnswersOnce,
                            vars, owners, records
<1> QED
  BY <1>1, <1>2, <1>3 DEF Next

\* What holds in every reachable state, among others: a command is announced,
\* proposed and decided at most once, each replica answers an announcement at
\* most once, and what a Commit message says is what was decided.
THEOREM BasicsInvariant == Spec => []Basics
BY BasicsInit, BasicsStep, PTL DEF Spec

\* The state of the owners, the logs and the messages stay in their types.
THEOREM TypeCorrect == Spec => []TypeOK
BY BasicsInvariant, PTL DEF Basics

-----------------------------------------------------------------------------
\* The logs are driven as Replicas says.

\* Replicas has its own copy of CmdLog.
LEMMA LogsShared ==
    /\ Logs!EmptyLog = EmptyLog
    /\ \A l, c : Logs!RecordCreation(l, c) = RecordCreation(l, c)
    /\ \A l, c : Logs!Submit(l, c) = Submit(l, c)
    /\ \A l, c, D : Logs!CommitOutcomes(l, c, D) = CommitOutcomes(l, c, D)
<1>1. Logs!EmptyLog = EmptyLog
  BY DEF EmptyLog, Logs!EmptyLog, NoEntry, Logs!NoEntry
<1>2. \A l, c : Logs!RecordCreation(l, c) = RecordCreation(l, c)
  BY DEF RecordCreation, Logs!RecordCreation
<1>3. \A l, c : Logs!Submit(l, c) = Submit(l, c)
  BY DEF Submit, RecordCreation, Logs!Submit, Logs!RecordCreation
<1>4. \A l, c, D : Logs!MarkCommitted(l, c, D) = MarkCommitted(l, c, D)
  BY DEF MarkCommitted, Logs!MarkCommitted
<1>5. \A l : Logs!NewlyStable(l) = NewlyStable(l) /\ Logs!DepsOf(l) = DepsOf(l)
  BY DEF NewlyStable, IsDepsClosureCommitted, CommittedIds, DepsOf,
         Logs!NewlyStable, Logs!IsDepsClosureCommitted, Logs!CommittedIds, Logs!DepsOf
<1>6. \A l, s : Logs!Promote(l, s) = Promote(l, s)
  BY DEF Promote, NoEntry, Range, Logs!Promote, Logs!NoEntry, Logs!Range
<1>7. \A G, B : Logs!ExecutionOrders(G, B) = ExecutionOrders(G, B)
  <2>1. \A G, B, x, y : Logs!Reaches(G, B, x, y) <=> Reaches(G, B, x, y)
    BY DEF Reaches, ClosedIn, Logs!Reaches, Logs!ClosedIn
  <2>2. \A S, T : Logs!Bijection(S, T) = Bijection(S, T)
    BY DEF Bijection, Injection, Surjection, IsInjective, Logs!Bijection,
           Logs!Injection, Logs!Surjection, Logs!IsInjective
  <2>3. \A B : Logs!Cardinality(B) = Cardinality(B)
    BY DEF Cardinality, Logs!Cardinality, IsFiniteSet, Logs!IsFiniteSet
  <2> QED
    BY <2>1, <2>2, <2>3 DEF ExecutionOrders, Logs!ExecutionOrders
<1>8. \A l, c, D : Logs!CommitOutcomes(l, c, D) = CommitOutcomes(l, c, D)
  BY <1>4, <1>5, <1>6, <1>7 DEF CommitOutcomes, Logs!CommitOutcomes
<1> QED
  BY <1>1, <1>2, <1>3, <1>8

LEMMA DecideIsDecide ==
    ASSUME Basics, NEW c \in Cmd, c \notin decided, NEW D \in SUBSET Cmd, c \notin D,
           NEW kept, Decide(c, D, kept)
    PROVE  Logs!Next
<1>1. Owner[c] \in Replica /\ D \in SUBSET (Cmd \ {c})
  BY ProtocolAssumption
<1>2. Logs!Decide(Owner[c], c, D)
  BY LogsShared DEF Decide, Logs!Decide, Logs!Learn
<1> QED
  BY <1>1, <1>2 DEF Logs!Next

LEMMA QuorumReadyDecides ==
    ASSUME Basics, NEW c \in pending, NEW R \in SUBSET Res, \A r \in R : c \notin r.conflicts,
           NEW kept, QuorumReady(c, R, kept)
    PROVE  [Logs!Next]_Logs!vars
<1>1. c \in Cmd /\ c \notin decided /\ UnionDeps(R) \in SUBSET Cmd /\ c \notin UnionDeps(R)
  BY DEF Basics, TypeOK, Stages, Concluded, UnionDeps, Res
<1>2. CASE Decide(c, UnionDeps(R), kept)
  BY <1>1, <1>2, DecideIsDecide
<1>3. CASE UNCHANGED <<log, decided, decidedDeps>>
  BY <1>3 DEF Logs!vars
<1> QED
  BY <1>2, <1>3 DEF QuorumReady

LEMMA StepIsReplicasStep == Basics /\ [Next]_vars => [Logs!Next]_Logs!vars
<1> SUFFICES ASSUME Basics, [Next]_vars PROVE [Logs!Next]_Logs!vars
  OBVIOUS
<1>1. ASSUME NEW c \in Cmd, Announce(c) PROVE Logs!Next
  <2>1. Owner[c] \in Replica /\ c \notin decided
    BY <1>1, ProtocolAssumption DEF Announce, Basics, Stages
  <2>2. Logs!Create(Owner[c], c)
    BY <1>1, <2>1, LogsShared DEF Announce, records, Logs!Create
  <2> QED
    BY <2>1, <2>2 DEF Logs!Next
<1>2. ASSUME NEW c \in Cmd, OnForceTimer(c) PROVE [Logs!Next]_Logs!vars
  <2>1. CASE c \in pending /\ QuorumReady(c, announce_quorums[c], msgs)
    <3>1. /\ announce_quorums[c] \in SUBSET Res
          /\ \A r \in announce_quorums[c] : c \notin r.conflicts
      BY DEF Basics, TypeOK, NoneOnItself
    <3> QED
      BY <2>1, <3>1, QuorumReadyDecides
  <2>2. CASE UNCHANGED <<log, msgs, owners, records>>
    BY <2>2 DEF Logs!vars, records
  <2> QED
    BY <1>2, <2>1, <2>2 DEF OnForceTimer
<1>3. ASSUME NEW m \in msgs
      PROVE  m \in Message /\ m.dst \in Replica /\ m.cmd \in Cmd
  BY DEF Basics, TypeOK, Message
<1>4. ASSUME NEW m \in msgs, HandleReq(m) PROVE Logs!Next
  <2>1. Logs!Receive(m.dst, m.cmd)
    BY <1>4, LogsShared DEF HandleReq, records, Logs!Receive
  <2> QED
    BY <1>3, <2>1 DEF Logs!Next
<1>5. ASSUME NEW m \in msgs, HandleRes(m) PROVE [Logs!Next]_Logs!vars
  <2> DEFINE R == announce_quorums[m.cmd] \cup {[pid |-> m.src, conflicts |-> m.deps]}
  <2>1. R \in SUBSET Res /\ \A r \in R : m.cmd \notin r.conflicts
    BY <1>3, <1>5 DEF HandleRes, Basics, TypeOK, Message, Res, NoneOnItself
  <2>2. CASE m.cmd \in pending /\ QuorumReady(m.cmd, R, msgs \ {m})
    BY <2>1, <2>2, QuorumReadyDecides
  <2>3. CASE UNCHANGED <<log, records>>
    BY <2>3 DEF Logs!vars, records
  <2> QED
    BY <1>5, <2>2, <2>3 DEF HandleRes, owners
<1>6. ASSUME NEW m \in msgs, HandleCommit(m) PROVE Logs!Next
  <2>1. m.cmd \in decided /\ m.deps = decidedDeps[m.cmd]
    BY <1>6 DEF HandleCommit, Basics, Truthful, TruthOf
  <2>2. Logs!Commit(m.dst, m.cmd)
    BY <1>6, <2>1, LogsShared DEF HandleCommit, records, Logs!Commit, Logs!Learn
  <2> QED
    BY <1>3, <2>2 DEF Logs!Next
<1>7. ASSUME NEW m \in msgs, HandleRequest(m) PROVE UNCHANGED Logs!vars
  BY <1>7 DEF HandleRequest, Logs!vars, records
<1>8. ASSUME NEW m \in msgs, HandleResponse(m) PROVE [Logs!Next]_Logs!vars
  <2> DEFINE c == m.cmd
  <2>1. CASE UNCHANGED <<log, records>>
    BY <2>1 DEF Logs!vars, records
  <2>2. CASE instances[c].open /\ Decide(c, instances[c].deps, msgs \ {m})
    <3>1. /\ c \in Cmd /\ c \notin decided
          /\ instances[c].deps \in SUBSET Cmd /\ c \notin instances[c].deps
      BY <1>3, <2>2 DEF Basics, TypeOK, Stages, NoneOnItself, Instance
    <3> QED
      BY <2>2, <3>1, DecideIsDecide
  <2> QED
    BY <1>8, <2>1, <2>2 DEF HandleResponse
<1>9. CASE UNCHANGED vars
  BY <1>9 DEF vars, records, Logs!vars
<1> QED
  BY <1>1, <1>2, <1>4, <1>5, <1>6, <1>7, <1>8, <1>9 DEF Next, Receive

\* The protocol implements the specification of the replicas: whatever the
\* quorums, the timers and the network do, each command is decided once, never
\* on itself, and every log learns exactly what was decided.
THEOREM Refinement == Spec => ImplementsReplicas
<1>1. Init => Logs!Init
  BY LogsShared DEF Init, Logs!Init
<1> QED
  BY <1>1, StepIsReplicasStep, BasicsInvariant, PTL DEF Spec, ImplementsReplicas, Logs!Spec

-----------------------------------------------------------------------------
\* What is never lost.

Grows ==
    /\ submitted \subseteq submitted' /\ decided \subseteq decided'
    /\ \A d \in decided : decidedDeps'[d] = decidedDeps[d]
    /\ \A p \in Replica :
          /\ Learned(p) \subseteq Learned(p)' /\ log[p].stable \subseteq log'[p].stable
          /\ \A c \in Cmd : Visible(p, c) => Visible(p, c)'
          /\ \A a \in log[p].stable, b \in Cmd :
                Precedes(log'[p].executed, b, a) => Precedes(log[p].executed, b, a)

\* What the decision on c makes of the logs.
LEMMA DecideLearns ==
    ASSUME Basics, NEW c \in Cmd, c \notin decided, NEW D \in SUBSET Cmd, NEW kept,
           Decide(c, D, kept), UNCHANGED submitted
    PROVE  /\ Grows
           /\ decided' = decided \cup {c} /\ decidedDeps'[c] = D
           /\ \A q \in Replica : Learned(q)' = Learned(q) \cup (IF q = Owner[c] THEN {c} ELSE {})
<1>1. Owner[c] \in Replica
  BY ProtocolAssumption
<1>2. /\ decided' = decided \cup {c} /\ decidedDeps'[c] = D
      /\ \A d \in decided : decidedDeps'[d] = decidedDeps[d]
  BY DEF Basics, TypeOK, Decide
<1>3. PICK l \in CommitOutcomes(log[Owner[c]], c, D) : log' = [log EXCEPT ![Owner[c]] = l]
  BY DEF Decide
<1>4. \A q \in Replica :
         /\ Learned(q)' = Learned(q) \cup (IF q = Owner[c] THEN {c} ELSE {})
         /\ log[q].stable \subseteq log'[q].stable
         /\ \A a \in log[q].stable, b \in Cmd :
               Precedes(log'[q].executed, b, a) => Precedes(log[q].executed, b, a)
         /\ \A d \in Cmd : Visible(q, d)' <=> Visible(q, d)
  BY <1>1, <1>2, <1>3, LearnStep DEF Basics, TypeOK
<1> QED
  BY <1>2, <1>4 DEF Grows

\* ... and a Commit message.
LEMMA CommitLearnsOne ==
    ASSUME Basics, NEW m \in msgs, HandleCommit(m)
    PROVE  /\ Grows
           /\ \A q \in Replica : Learned(q)' = Learned(q) \cup (IF q = m.dst THEN {m.cmd} ELSE {})
<1>1. /\ m.dst \in Replica /\ m.cmd \in Cmd /\ m.cmd \in decided
      /\ m.deps = decidedDeps[m.cmd] /\ decidedDeps[m.cmd] \in SUBSET Cmd
      /\ UNCHANGED <<submitted, decided, decidedDeps>>
  BY DEF HandleCommit, records, Basics, TypeOK, Message, Truthful, TruthOf
<1>2. PICK l \in CommitOutcomes(log[m.dst], m.cmd, m.deps) : log' = [log EXCEPT ![m.dst] = l]
  BY DEF HandleCommit
<1>3. \A q \in Replica :
         /\ Learned(q)' = Learned(q) \cup (IF q = m.dst THEN {m.cmd} ELSE {})
         /\ log[q].stable \subseteq log'[q].stable
         /\ \A a \in log[q].stable, b \in Cmd :
               Precedes(log'[q].executed, b, a) => Precedes(log[q].executed, b, a)
         /\ \A d \in Cmd : Visible(q, d)' <=> Visible(q, d)
  BY <1>1, <1>2, LearnStep DEF Basics, TypeOK
<1> QED
  BY <1>1, <1>3 DEF Grows

LEMMA QuietGrows ==
    ASSUME Basics, UNCHANGED <<log, decided, decidedDeps>>, submitted \subseteq submitted'
    PROVE  /\ Grows
           /\ \A q \in Replica : Learned(q)' = Learned(q)
           /\ \A q \in Replica, d \in Cmd : Visible(q, d)' <=> Visible(q, d)
<1>1. /\ \A q \in Replica, d \in Cmd : Visible(q, d)' <=> Visible(q, d)
      /\ \A q \in Replica : Learned(q)' = Learned(q)
  BY LogsStay DEF Basics
<1> QED
  BY <1>1 DEF Grows

\* ... and the arrival of a body.
LEMMA BodyGrows ==
    ASSUME Basics, \/ \E c \in Cmd : Announce(c)
                   \/ \E m \in msgs : HandleReq(m)
    PROVE  Grows /\ \A q \in Replica : Learned(q)' = Learned(q)
<1>1. PICK p \in Replica, c \in Cmd :
         /\ \/ log' = [log EXCEPT ![p] = Submit(@, c)]
            \/ c \notin decided /\ log' = [log EXCEPT ![p] = RecordCreation(@, c)]
         /\ UNCHANGED <<decided, decidedDeps>> /\ submitted \subseteq submitted'
  <2>1. ASSUME NEW c \in Cmd, Announce(c)
        PROVE  /\ Owner[c] \in Replica
               /\ c \notin decided /\ log' = [log EXCEPT ![Owner[c]] = RecordCreation(@, c)]
               /\ UNCHANGED <<decided, decidedDeps>> /\ submitted \subseteq submitted'
    BY <2>1, ProtocolAssumption DEF Announce, records, Basics, Stages
  <2>2. ASSUME NEW m \in msgs, HandleReq(m)
        PROVE  /\ m.dst \in Replica /\ m.cmd \in Cmd
               /\ log' = [log EXCEPT ![m.dst] = Submit(@, m.cmd)]
               /\ UNCHANGED <<decided, decidedDeps>> /\ submitted \subseteq submitted'
    BY <2>2 DEF HandleReq, records, Basics, TypeOK, Message
  <2> QED
    BY <2>1, <2>2
<1>2. \A q \in Replica : /\ Learned(q)' = Learned(q)
                         /\ log'[q].stable = log[q].stable
                         /\ log'[q].executed = log[q].executed
                         /\ \A d \in Cmd : Visible(q, d) => Visible(q, d)'
  BY <1>1, BodyStep DEF Basics, TypeOK
<1> QED
  BY <1>1, <1>2 DEF Grows

\* Whoever has learned L has learned a with everything it depends on in G.
Settled(G, a, L) ==
    \E C \in SUBSET L : a \in C /\ \A d \in C : G[d] \subseteq C

\* What a replica has learned with all its dependencies is stable there.
LEMMA SettledIsStable ==
    ASSUME Basics, NEW p \in Replica, NEW a, Settled(decidedDeps, a, Learned(p))
    PROVE  a \in log[p].stable
<1> DEFINE l == log[p]
<1>1. PICK C \in SUBSET Learned(p) : a \in C /\ \A d \in C : decidedDeps[d] \subseteq C
  BY DEF Settled
<1> DEFINE W == C \cap l.pending_commit
<1>2. /\ l.pending_commit = CommittedIds(l) /\ NewlyStable(l) = {}
      /\ \A d \in l.pending_commit : l.entries[d].deps = decidedDeps[d]
      /\ C \subseteq W \cup l.stable
  BY <1>1 DEF Basics, LogsSound, IndexExact, Learned
<1>3. W \in SUBSET CommittedIds(l) /\ \A d \in W : l.entries[d].deps \subseteq W \cup l.stable
  BY <1>1, <1>2
<1>4. ASSUME a \in W PROVE FALSE
  <2>1. IsDepsClosureCommitted(l, l.entries[a].deps)
    BY <1>3, <1>4 DEF IsDepsClosureCommitted
  <2> QED
    BY <1>2, <1>4, <2>1 DEF NewlyStable
<1> QED
  BY <1>1, <1>2, <1>4

-----------------------------------------------------------------------------
\* What is under way.

Rivals(c) == {d \in submitted : KeyOf[d] = KeyOf[c]}

\* A command depends on created commands with its own key.
DepsCreated ==
    /\ \A c \in Cmd : decidedDeps[c] \subseteq Rivals(c) /\ instances[c].deps \subseteq Rivals(c)
    /\ \A c \in Cmd : \A r \in announce_quorums[c] : r.conflicts \subseteq Rivals(c)
    /\ \A m \in msgs : m.type = "Res" => m.deps \subseteq Rivals(m.cmd)

\* The announcement of c has not enough answers; a set of replicas that would
\* be enough has answered or is about to.
Waits(c) ==
    /\ ~AnnounceReady(announce_quorums[c])
    /\ \E T \in AnnounceTargets : \A p \in T :
          \/ p \in Responders(announce_quorums[c])
          \/ \E m \in msgs : Asks(m, c) /\ Answerer(m) = p

\* The member of the committee that is asked by m or answers with it.
Voter(m) == IF m.type = "Request" THEN m.dst ELSE m.src

Polls(m, c, D) == m.type \in {"Request", "Response"} /\ m.cmd = c /\ m.deps = D

\* The slow path of c lacks members of the committee, who are about to answer.
Votes(c) ==
    LET i == instances[c] IN
    IF i.open
    THEN /\ i.responses \subseteq Committee[c] /\ i.responses # Committee[c]
         /\ \A p \in Committee[c] :
               \/ p \in i.responses
               \/ \E m \in msgs : Polls(m, c, i.deps) /\ Voter(m) = p
    ELSE i = NoInstance

\* Every replica has learned that c is decided or is about to.
Tells(c) ==
    \A p \in Replica :
        \/ c \in Learned(p)
        \/ \E m \in msgs : m.type = "Commit" /\ m.cmd = c /\ m.dst = p

UnderWay ==
    /\ \A c \in submitted : c \in pending \/ Concluded(c)
    /\ \A c \in pending : Waits(c)
    /\ \A c \in Cmd : Votes(c)
    /\ \A c \in decided : Tells(c)

\* A quorum is told of an announcement, and nobody is not one; Wintermute
\* waits for everybody's answer.
QuorumsReached ==
    /\ Protocol # "Wintermute" =>
          /\ \A T \in AnnounceTargets : IsQuorum(T)
          /\ \A S, T \in SUBSET Replica : S \subseteq T /\ IsQuorum(S) => IsQuorum(T)
          /\ ~IsQuorum({})
    /\ \A c \in Cmd : Committee[c] # {}

LEMMA StillWaits ==
    ASSUME NEW c, Waits(c), announce_quorums'[c] = announce_quorums[c],
           \A m \in msgs : Asks(m, c) =>
              \E n \in msgs' : Asks(n, c) /\ Answerer(n) = Answerer(m)
    PROVE  Waits(c)'
BY DEF Waits, AnnounceReady, IsQuorum, Responders, AnnounceTargets

LEMMA StillVotes ==
    ASSUME NEW c, Votes(c), instances'[c] = instances[c],
           \A m \in msgs : \A D : Polls(m, c, D) =>
              \E n \in msgs' : Polls(n, c, D) /\ Voter(n) = Voter(m)
    PROVE  Votes(c)'
BY DEF Votes

LEMMA StillTells ==
    ASSUME NEW c, Tells(c), \A p \in Replica : Learned(p) \subseteq Learned(p)',
           \A m \in msgs : m.type = "Commit" /\ m.cmd = c =>
              m \in msgs' \/ c \in Learned(m.dst)'
    PROVE  Tells(c)'
BY DEF Tells

LEMMA DepsInit == Init => DepsCreated
<1> SUFFICES ASSUME Init PROVE DepsCreated
  OBVIOUS
<1>1. NoInstance.deps = {}
  BY DEF NoInstance
<1> QED
  BY <1>1 DEF Init, DepsCreated

LEMMA UnderWayInit == Init => UnderWay
<1> SUFFICES ASSUME Init PROVE UnderWay
  OBVIOUS
<1>1. NoInstance.open = FALSE
  BY DEF NoInstance
<1> QED
  BY <1>1 DEF Init, UnderWay, Votes

LEMMA DepsStep == Basics /\ DepsCreated /\ [Next]_vars => DepsCreated'
<1> SUFFICES ASSUME Basics, DepsCreated, [Next]_vars PROVE DepsCreated'
  OBVIOUS
<1>1. ASSUME NEW c \in Cmd, Announce(c) PROVE DepsCreated'
  <2>1. PICK T \in AnnounceTargets : msgs' = msgs \cup Sent("Req", Owner[c], T, c, {})
    BY <1>1 DEF Announce
  <2>2. \A m \in msgs' : m.type = "Res" => m \in msgs
    BY <2>1 DEF Sent
  <2> QED
    BY <1>1, <2>2 DEF Announce, records, DepsCreated, Rivals
<1>2. ASSUME NEW c \in submitted, NEW D \in SUBSET Rivals(c), NEW kept \in SUBSET msgs,
             Decide(c, D, kept), UNCHANGED submitted,
             \A d \in Cmd : instances'[d].deps \in {{}, instances[d].deps},
             \A d \in Cmd : announce_quorums'[d] \subseteq announce_quorums[d]
      PROVE  DepsCreated'
  <2>1. \A m \in msgs' : m.type = "Res" => m \in msgs
    BY <1>2 DEF Decide, Sent
  <2>2. \A d \in Cmd : decidedDeps'[d] = IF d = c THEN D ELSE decidedDeps[d]
    BY <1>2 DEF Decide, Basics, TypeOK
  <2> QED
    BY <1>2, <2>1, <2>2 DEF DepsCreated, Rivals
<1>3. ASSUME NEW c \in submitted, NEW R, UnionDeps(R) \subseteq Rivals(c),
             NEW kept \in SUBSET msgs, QuorumReady(c, R, kept), UNCHANGED submitted
      PROVE  DepsCreated'
  <2>1. \A d \in Cmd : announce_quorums'[d] \subseteq announce_quorums[d]
    BY <1>3 DEF QuorumReady, CloseAnnouncement, Basics, TypeOK
  <2>2. CASE Decide(c, UnionDeps(R), kept) /\ UNCHANGED instances
    BY <1>2, <1>3, <2>1, <2>2
  <2>3. CASE Propose(c, UnionDeps(R), kept) /\ UNCHANGED <<log, decided, decidedDeps>>
    <3>1. \A m \in msgs' : m.type = "Res" => m \in msgs
      BY <2>3 DEF Propose, Sent
    <3>2. \A d \in Cmd : instances'[d].deps = IF d = c THEN UnionDeps(R) ELSE instances[d].deps
      BY <2>3 DEF Propose, Basics, TypeOK
    <3> QED
      BY <1>3, <2>1, <2>3, <3>1, <3>2 DEF DepsCreated, Rivals
  <2> QED
    BY <1>3, <2>2, <2>3 DEF QuorumReady
<1>4. ASSUME NEW c \in Cmd, OnForceTimer(c) PROVE DepsCreated'
  <2>1. CASE c \in pending /\ QuorumReady(c, announce_quorums[c], msgs)
    <3>1. c \in submitted /\ UnionDeps(announce_quorums[c]) \subseteq Rivals(c)
      BY <2>1 DEF Basics, Stages, DepsCreated, Rivals, UnionDeps
    <3>2. msgs \in SUBSET msgs
      OBVIOUS
    <3> QED
      BY <1>3, <1>4, <2>1, <3>1, <3>2 DEF OnForceTimer
  <2>2. CASE UNCHANGED <<log, msgs, owners, records>>
    BY <1>4, <2>2 DEF OnForceTimer, owners, records, DepsCreated, Rivals
  <2> QED
    BY <1>4, <2>1, <2>2 DEF OnForceTimer
<1>5. ASSUME NEW m \in msgs, HandleReq(m) PROVE DepsCreated'
  <2> DEFINE D == Conflicts(log[m.dst], m.cmd)
  <2>1. m.dst \in Replica /\ log[m.dst] \in Log /\ IndexExact(log[m.dst])
        /\ m.cmd \in Cmd /\ KeyOf[m.cmd] \in Key
    BY KeyAssumption DEF Basics, TypeOK, Message, LogsSound
  <2>2. D \subseteq Rivals(m.cmd)
    BY <2>1 DEF Rivals, Conflicts, IndexExact, Basics, Truthful, Visible
  <2>3. \A n \in msgs' : n.type = "Res" => n \in msgs \/ (n.deps = D /\ n.cmd = m.cmd)
    BY <1>5 DEF HandleReq, Deliver, Sent
  <2> QED
    BY <1>5, <2>2, <2>3 DEF HandleReq, owners, records, DepsCreated, Rivals
<1>6. ASSUME NEW m \in msgs, HandleRes(m) PROVE DepsCreated'
  <2> DEFINE c == m.cmd
             R == announce_quorums[c] \cup {[pid |-> m.src, conflicts |-> m.deps]}
  <2>1. c \in Cmd /\ c \in submitted /\ \A r \in R : r.conflicts \subseteq Rivals(c)
    BY <1>6 DEF HandleRes, Basics, TypeOK, Message, Truthful, TruthOf, DepsCreated, Rivals
  <2>2. CASE QuorumReady(c, R, msgs \ {m})
    <3>1. UnionDeps(R) \subseteq Rivals(c) /\ msgs \ {m} \in SUBSET msgs
      BY <2>1 DEF UnionDeps
    <3> HIDE DEF R, c
    <3> QED
      BY <1>3, <1>6, <2>1, <2>2, <3>1 DEF HandleRes
  <2>3. CASE /\ announce_quorums' = announce_quorums
                \/ announce_quorums' = [announce_quorums EXCEPT ![c] = R]
             /\ Deliver(m, {})
             /\ UNCHANGED <<log, pending, instances, records>>
    <3>1. \A d \in Cmd : announce_quorums'[d] = announce_quorums[d]
                           \/ (d = c /\ announce_quorums'[d] = R)
      BY <2>1, <2>3 DEF Basics, TypeOK
    <3>2. msgs' \subseteq msgs
      BY <2>3 DEF Deliver
    <3> QED
      BY <1>6, <2>1, <2>3, <3>1, <3>2 DEF HandleRes, records, DepsCreated, Rivals
  <2> QED
    BY <1>6, <2>2, <2>3 DEF HandleRes, owners
<1>7. ASSUME NEW m \in msgs, HandleCommit(m) PROVE DepsCreated'
  BY <1>7 DEF HandleCommit, Deliver, owners, records, DepsCreated, Rivals
<1>8. ASSUME NEW m \in msgs, HandleRequest(m) PROVE DepsCreated'
  <2>1. \A n \in msgs' : n.type = "Res" => n \in msgs
    BY <1>8 DEF HandleRequest, Deliver, Sent
  <2> QED
    BY <1>8, <2>1 DEF HandleRequest, owners, records, DepsCreated, Rivals
<1>9. ASSUME NEW m \in msgs, HandleResponse(m) PROVE DepsCreated'
  <2> DEFINE c == m.cmd
  <2>1. c \in Cmd /\ c \in submitted /\ NoInstance.deps = {}
    BY DEF Basics, TypeOK, Message, Truthful, TruthOf, NoInstance
  <2>2. CASE /\ instances' = [instances EXCEPT ![c] = NoInstance]
             /\ Decide(c, instances[c].deps, msgs \ {m})
    <3>1. \A d \in Cmd : instances'[d].deps \in {{}, instances[d].deps}
      BY <2>1, <2>2 DEF Basics, TypeOK
    <3>2. instances[c].deps \in SUBSET Rivals(c) /\ msgs \ {m} \in SUBSET msgs
          /\ UNCHANGED <<submitted, announce_quorums>>
      BY <1>9, <2>1 DEF DepsCreated, Rivals, HandleResponse
    <3> HIDE DEF c
    <3> QED
      BY <1>2, <2>1, <2>2, <3>1, <3>2
  <2>3. CASE /\ \E S : instances' = [instances EXCEPT ![c].responses = S]
                \/ instances' = instances
             /\ Deliver(m, {}) /\ UNCHANGED <<log, records>>
    <3>1. \A d \in Cmd : instances'[d].deps = instances[d].deps
      BY <2>1, <2>3 DEF Basics, TypeOK, Instance
    <3>2. msgs' \subseteq msgs
      BY <2>3 DEF Deliver
    <3> QED
      BY <1>9, <2>3, <3>1, <3>2 DEF HandleResponse, records, DepsCreated, Rivals
  <2> QED
    BY <1>9, <2>2, <2>3 DEF HandleResponse
<1>10. CASE UNCHANGED vars
  BY <1>10 DEF vars, owners, records, DepsCreated, Rivals
<1> QED
  BY <1>1, <1>4, <1>5, <1>6, <1>7, <1>8, <1>9, <1>10 DEF Next, Receive

\* Whom p sends to, gets a message.
LEMMA SentTo ==
    ASSUME NEW k, NEW p, NEW T, NEW c, NEW D, NEW q \in T
    PROVE  \E m \in Sent(k, p, T, c, D) :
              m.type = k /\ m.src = p /\ m.dst = q /\ m.cmd = c /\ m.deps = D
<1> DEFINE m == [type |-> k, src |-> p, dst |-> q, cmd |-> c, deps |-> D,
                 past |-> IF Causal THEN Learned(p) \ Learned(q) ELSE {}]
<1>1. m \in Sent(k, p, T, c, D)
  BY DEF Sent
<1>2. m.type = k /\ m.src = p /\ m.dst = q /\ m.cmd = c /\ m.deps = D
  OBVIOUS
<1> QED
  BY <1>1, <1>2

\* What the decision on c leaves under way.
LEMMA DecideUnderWay ==
    ASSUME Basics, UnderWay, NEW c \in Cmd, c \notin decided, NEW D \in SUBSET Cmd,
           NEW kept \in SUBSET msgs, Decide(c, D, kept), UNCHANGED submitted,
           \A m \in msgs : m.type = "Commit" => m \in kept
    PROVE  \A d \in decided' : Tells(d)'
<1>1. /\ Grows /\ decided' = decided \cup {c}
      /\ \A q \in Replica : Learned(q)' = Learned(q) \cup (IF q = Owner[c] THEN {c} ELSE {})
  BY DecideLearns
<1>2. ASSUME NEW d \in decided PROVE Tells(d)'
  <2>1. \A p \in Replica : Learned(p) \subseteq Learned(p)'
    BY <1>1 DEF Grows
  <2>2. kept \subseteq msgs'
    BY DEF Decide
  <2> QED
    BY <2>1, <2>2, StillTells DEF UnderWay
<1>3. Tells(c)'
  <2>1. ASSUME NEW p \in Replica, p # Owner[c]
        PROVE  \E m \in msgs' : m.type = "Commit" /\ m.cmd = c /\ m.dst = p
    <3>1. PICK m \in Sent("Commit", Owner[c], Replica \ {Owner[c]}, c, D) :
             m.type = "Commit" /\ m.dst = p /\ m.cmd = c
      BY <2>1, SentTo
    <3> QED
      BY <3>1 DEF Decide
  <2> QED
    BY <1>1, <2>1 DEF Tells
<1> QED
  BY <1>1, <1>2, <1>3

\* ... and the end of the announcement of c.
LEMMA QuorumReadyUnderWay ==
    ASSUME Basics, UnderWay, QuorumsReached, NEW c \in pending, NEW R \in SUBSET Res,
           NEW kept \in SUBSET msgs, QuorumReady(c, R, kept), UNCHANGED submitted,
           \A m \in msgs : m \in kept \/ (m.type = "Res" /\ m.cmd = c)
    PROVE  UnderWay'
<1>1. /\ c \in Cmd /\ c \notin decided /\ ~instances[c].open /\ UnionDeps(R) \in SUBSET Cmd
      /\ pending' = pending \ {c} /\ pending \subseteq Cmd
      /\ \A d \in Cmd \ {c} : announce_quorums'[d] = announce_quorums[d]
      /\ kept \subseteq msgs'
  <2>1. c \in Cmd /\ c \notin decided /\ ~instances[c].open /\ pending \subseteq Cmd
    BY DEF Basics, TypeOK, Stages, Concluded
  <2>2. UnionDeps(R) \in SUBSET Cmd
    BY DEF UnionDeps, Res
  <2>3. /\ pending' = pending \ {c}
        /\ \A d \in Cmd \ {c} : announce_quorums'[d] = announce_quorums[d]
    BY DEF QuorumReady, CloseAnnouncement, Basics, TypeOK
  <2>4. kept \subseteq msgs'
    BY DEF QuorumReady, Decide, Propose
  <2> QED
    BY <2>1, <2>2, <2>3, <2>4
<1>2. ASSUME NEW d \in pending' PROVE Waits(d)'
  <2>1. \A m \in msgs : Asks(m, d) => m \in msgs'
    BY <1>1 DEF Asks
  <2> QED
    BY <1>1, <2>1, StillWaits DEF UnderWay
<1>3. \A m \in msgs : \A d, D : Polls(m, d, D) => m \in msgs'
  BY <1>1 DEF Polls
<1>4. CASE Decide(c, UnionDeps(R), kept) /\ UNCHANGED instances
  <2>1. \A d \in decided' : Tells(d)'
    BY <1>1, <1>4, DecideUnderWay
  <2>2. \A d \in Cmd : Votes(d)'
    BY <1>3, <1>4, StillVotes DEF UnderWay
  <2>3. \A d \in submitted' : d \in pending' \/ Concluded(d)'
    BY <1>1, <1>4 DEF UnderWay, Concluded, Decide
  <2> QED
    BY <1>2, <2>1, <2>2, <2>3 DEF UnderWay
<1>5. CASE Propose(c, UnionDeps(R), kept) /\ UNCHANGED <<log, decided, decidedDeps>>
  <2> DEFINE D == UnionDeps(R)
  <2>1. /\ instances'[c] = [open |-> TRUE, deps |-> D, responses |-> {}]
        /\ \A d \in Cmd \ {c} : instances'[d] = instances[d]
    BY <1>1, <1>5 DEF Propose, Basics, TypeOK
  <2>2. Votes(c)'
    <3>1. ASSUME NEW p \in Committee[c]
          PROVE  \E m \in msgs' : Polls(m, c, D) /\ Voter(m) = p
      <4>1. PICK m \in Sent("Request", Owner[c], Committee[c], c, D) :
               m.type = "Request" /\ m.dst = p /\ m.cmd = c /\ m.deps = D
        BY SentTo
      <4> QED
        BY <1>5, <4>1 DEF Propose, Polls, Voter
    <3> HIDE DEF D
    <3> QED
      BY <1>1, <2>1, <3>1 DEF Votes, QuorumsReached
  <2>3. \A d \in Cmd \ {c} : Votes(d)'
    BY <1>3, <2>1, StillVotes DEF UnderWay
  <2>4. ASSUME NEW d \in decided' PROVE Tells(d)'
    <3>1. \A p \in Replica : Learned(p)' = Learned(p)
      BY <1>5, LogsStay DEF Basics
    <3> QED
      BY <1>1, <1>5, <3>1, StillTells DEF UnderWay
  <2>5. \A d \in submitted' : d \in pending' \/ Concluded(d)'
    BY <1>1, <1>5, <2>1 DEF UnderWay, Concluded, Basics, TypeOK
  <2> QED
    BY <1>2, <2>2, <2>3, <2>4, <2>5 DEF UnderWay
<1> QED
  BY <1>4, <1>5 DEF QuorumReady

LEMMA AnnounceUnderWay ==
    ASSUME Basics, UnderWay, QuorumsReached, NEW c \in Cmd, Announce(c)
    PROVE  UnderWay'
<1>1. /\ c \notin pending /\ announce_quorums[c] = {} /\ c \notin submitted
      /\ submitted' = submitted \cup {c} /\ pending' = pending \cup {c}
      /\ UNCHANGED <<announce_quorums, instances, decided, decidedDeps>>
      /\ submitted \subseteq Cmd /\ pending \subseteq Cmd
  BY DEF Announce, Basics, TypeOK, Stages, records
<1>2. PICK T \in AnnounceTargets : msgs' = msgs \cup Sent("Req", Owner[c], T, c, {})
  BY DEF Announce
<1>3. \A q \in Replica : Learned(q)' = Learned(q)
  BY BodyGrows
<1>4. Waits(c)'
  <2>1. ~AnnounceReady({})
    <3>1. Cardinality({}) = 0 /\ Cardinality(Replica) # 0
      BY FS_EmptySet, ProtocolAssumption
    <3>2. Responders({}) = {}
      BY DEF Responders
    <3> QED
      BY <3>1, <3>2 DEF AnnounceReady, QuorumsReached
  <2>2. \A p \in T : \E m \in msgs' : Asks(m, c) /\ Answerer(m) = p
    <3>1. ASSUME NEW p \in T
          PROVE  \E m \in Sent("Req", Owner[c], T, c, {}) :
                    m.type = "Req" /\ m.dst = p /\ m.cmd = c
      BY SentTo
    <3> QED
      BY <1>2, <3>1 DEF Asks, Answerer
  <2>3. T \in AnnounceTargets'
    BY DEF AnnounceTargets
  <2> QED
    BY <1>1, <2>1, <2>2, <2>3 DEF Waits, AnnounceReady
<1>5. \A d \in pending : Waits(d)'
  BY <1>1, <1>2, StillWaits DEF UnderWay
<1>6. \A d \in Cmd : Votes(d)'
  BY <1>1, <1>2, StillVotes DEF UnderWay
<1>7. \A d \in decided : Tells(d)'
  BY <1>2, <1>3, StillTells DEF UnderWay
<1>8. \A d \in submitted' : d \in pending' \/ Concluded(d)'
  BY <1>1 DEF UnderWay, Concluded
<1> QED
  BY <1>1, <1>4, <1>5, <1>6, <1>7, <1>8 DEF UnderWay

LEMMA TimerUnderWay ==
    ASSUME Basics, UnderWay, QuorumsReached, NEW c \in Cmd, OnForceTimer(c)
    PROVE  UnderWay'
<1>1. CASE c \in pending /\ QuorumReady(c, announce_quorums[c], msgs)
  <2>1. announce_quorums[c] \in SUBSET Res /\ msgs \in SUBSET msgs
    BY DEF Basics, TypeOK
  <2> QED
    BY <1>1, <2>1, QuorumReadyUnderWay DEF OnForceTimer
<1>2. CASE UNCHANGED <<submitted, log, msgs, owners, records>>
  <2>1. \A q \in Replica : Learned(q)' = Learned(q)
    BY <1>2 DEF Learned
  <2>2. \A d \in pending : Waits(d)'
    BY <1>2, StillWaits DEF UnderWay, owners
  <2>3. \A d \in Cmd : Votes(d)'
    BY <1>2, StillVotes DEF UnderWay, owners
  <2>4. \A d \in decided : Tells(d)'
    BY <1>2, <2>1, StillTells DEF UnderWay
  <2> QED
    BY <1>2, <2>2, <2>3, <2>4 DEF UnderWay, Concluded, owners, records
<1> QED
  BY <1>1, <1>2 DEF OnForceTimer

\* A request or an answer is replaced by the answer to it, or is not awaited.
LEMMA ReceiptUnderWay ==
    ASSUME Basics, UnderWay, NEW m \in msgs, NEW M, Deliver(m, M),
           UNCHANGED <<submitted, pending, announce_quorums, instances, decided, decidedDeps>>,
           \A q \in Replica : Learned(q) \subseteq Learned(q)',
           \A c \in pending : Asks(m, c) => \E n \in M : Asks(n, c) /\ Answerer(n) = Answerer(m),
           \A c \in Cmd : \A D : instances[c].open /\ Polls(m, c, D) =>
              \E n \in M : Polls(n, c, D) /\ Voter(n) = Voter(m),
           \A c \in decided : m.type = "Commit" /\ m.cmd = c => c \in Learned(m.dst)'
    PROVE  UnderWay'
<1>1. msgs' = (msgs \ {m}) \cup M
  BY DEF Deliver
<1>2. \A d \in pending : Waits(d)'
  BY <1>1, StillWaits DEF UnderWay
<1>3. ASSUME NEW d \in Cmd PROVE Votes(d)'
  <2>1. CASE instances[d].open
    BY <1>1, <2>1, StillVotes DEF UnderWay
  <2>2. CASE ~instances[d].open
    BY <2>2 DEF UnderWay, Votes
  <2> QED
    BY <2>1, <2>2
<1>4. \A d \in decided : Tells(d)'
  BY <1>1, StillTells DEF UnderWay
<1> QED
  BY <1>2, <1>3, <1>4 DEF UnderWay, Concluded

LEMMA ReqUnderWay ==
    ASSUME Basics, UnderWay, NEW m \in msgs, HandleReq(m)
    PROVE  UnderWay'
<1> DEFINE D == Conflicts(log[m.dst], m.cmd)
           M == Sent("Res", m.dst, {m.src}, m.cmd, D)
<1>1. \A q \in Replica : Learned(q)' = Learned(q)
  BY BodyGrows
<1>2. PICK n \in M : n.type = "Res" /\ n.src = m.dst /\ n.cmd = m.cmd
  <2>1. m.src \in {m.src}
    OBVIOUS
  <2> QED
    BY <2>1, SentTo
<1>3. \A c \in pending : Asks(m, c) => Asks(n, c) /\ Answerer(n) = Answerer(m)
  BY <1>2 DEF HandleReq, Asks, Answerer
<1>4. /\ \A c, E : ~Polls(m, c, E)
      /\ m.type # "Commit"
      /\ UNCHANGED <<submitted, pending, announce_quorums, instances, decided, decidedDeps>>
      /\ Deliver(m, M)
  BY DEF HandleReq, Polls, owners, records
<1> HIDE DEF M
<1> QED
  BY <1>1, <1>2, <1>3, <1>4, ReceiptUnderWay

LEMMA ResUnderWay ==
    ASSUME Basics, UnderWay, QuorumsReached, NEW m \in msgs, HandleRes(m)
    PROVE  UnderWay'
<1> DEFINE c == m.cmd
           r == [pid |-> m.src, conflicts |-> m.deps]
           R == announce_quorums[c] \cup {r}
<1>1. /\ m.type = "Res" /\ c \in Cmd /\ R \in SUBSET Res /\ UNCHANGED submitted
      /\ msgs \ {m} \in SUBSET msgs
  BY DEF HandleRes, Basics, TypeOK, Message, Res
<1>2. \A d, D : ~Polls(m, d, D)
  BY <1>1 DEF Polls
<1>3. CASE c \notin pending /\ Deliver(m, {}) /\ UNCHANGED <<log, owners, records>>
  <2>1. \A d \in pending : ~Asks(m, d)
    BY <1>3 DEF Asks
  <2>2. \A q \in Replica : Learned(q)' = Learned(q)
    BY <1>3 DEF Learned
  <2>3. UNCHANGED <<submitted, pending, announce_quorums, instances, decided, decidedDeps>>
    BY <1>1, <1>3 DEF owners, records
  <2> QED
    BY <1>1, <1>2, <1>3, <2>1, <2>2, <2>3, ReceiptUnderWay
<1>4. CASE /\ c \in pending /\ ~AnnounceReady(R)
           /\ announce_quorums' = [announce_quorums EXCEPT ![c] = R]
           /\ Deliver(m, {})
           /\ UNCHANGED <<log, pending, instances, records>>
  <2>1. /\ announce_quorums'[c] = R /\ msgs' = msgs \ {m}
        /\ \A d \in Cmd \ {c} : announce_quorums'[d] = announce_quorums[d]
    BY <1>1, <1>4 DEF Basics, TypeOK, Deliver
  <2>2. Waits(c)'
    <3>1. PICK T \in AnnounceTargets : \A p \in T :
             \/ p \in Responders(announce_quorums[c])
             \/ \E n \in msgs : Asks(n, c) /\ Answerer(n) = p
      BY <1>4 DEF UnderWay, Waits
    <3>2. Responders(announce_quorums[c]) \subseteq Responders(R) /\ m.src \in Responders(R)
      <4>1. r \in R /\ r.pid = m.src /\ announce_quorums[c] \subseteq R
        OBVIOUS
      <4> HIDE DEF R, r
      <4> QED
        BY <4>1 DEF Responders
    <3>3. \A p \in T : \/ p \in Responders(R)
                       \/ \E n \in msgs' : Asks(n, c) /\ Answerer(n) = p
      BY <1>1, <2>1, <3>1, <3>2 DEF Asks, Answerer
    <3> HIDE DEF R, c
    <3> QED
      BY <1>4, <2>1, <3>1, <3>3 DEF Waits, AnnounceReady, AnnounceTargets
  <2>3. \A d \in pending \ {c} : Waits(d)'
    <3>1. \A d \in pending \ {c} : ~Asks(m, d) /\ d \in Cmd
      BY DEF Asks, Basics, TypeOK
    <3> QED
      BY <2>1, <3>1, StillWaits DEF UnderWay
  <2>4. \A d \in Cmd : Votes(d)'
    BY <1>2, <1>4, <2>1, StillVotes DEF UnderWay
  <2>5. \A d \in decided : Tells(d)'
    <3>1. \A q \in Replica : Learned(q)' = Learned(q)
      BY <1>4 DEF Learned
    <3> QED
      BY <1>1, <2>1, <3>1, StillTells DEF UnderWay
  <2> QED
    BY <1>1, <1>4, <2>2, <2>3, <2>4, <2>5 DEF UnderWay, Concluded, records
<1>5. CASE c \in pending /\ QuorumReady(c, R, msgs \ {m})
  <2>1. \A n \in msgs : n \in msgs \ {m} \/ (n.type = "Res" /\ n.cmd = c)
    BY <1>1
  <2> HIDE DEF R, c
  <2> QED
    BY <1>1, <1>5, <2>1, QuorumReadyUnderWay
<1> QED
  BY <1>3, <1>4, <1>5 DEF HandleRes

LEMMA CommitUnderWay ==
    ASSUME Basics, UnderWay, NEW m \in msgs, HandleCommit(m)
    PROVE  UnderWay'
<1>1. /\ Grows
      /\ \A q \in Replica : Learned(q)' = Learned(q) \cup (IF q = m.dst THEN {m.cmd} ELSE {})
  BY CommitLearnsOne
<1>2. /\ \A c, E : ~Polls(m, c, E) /\ ~Asks(m, c)
      /\ UNCHANGED <<submitted, pending, announce_quorums, instances, decided, decidedDeps>>
      /\ Deliver(m, {}) /\ m.dst \in Replica
  BY DEF HandleCommit, Polls, Asks, owners, records, Basics, TypeOK, Message
<1> QED
  BY <1>1, <1>2, ReceiptUnderWay

LEMMA RequestUnderWay ==
    ASSUME Basics, UnderWay, NEW m \in msgs, HandleRequest(m)
    PROVE  UnderWay'
<1> DEFINE M == Sent("Response", m.dst, {m.src}, m.cmd, m.deps)
<1>1. PICK n \in M : n.type = "Response" /\ n.src = m.dst /\ n.cmd = m.cmd /\ n.deps = m.deps
  <2>1. m.src \in {m.src}
    OBVIOUS
  <2> QED
    BY <2>1, SentTo
<1>2. \A c, E : Polls(m, c, E) => Polls(n, c, E) /\ Voter(n) = Voter(m)
  BY <1>1 DEF HandleRequest, Polls, Voter
<1>3. /\ \A c : ~Asks(m, c)
      /\ m.type # "Commit"
      /\ UNCHANGED <<submitted, log, pending, announce_quorums, instances, decided, decidedDeps>>
      /\ Deliver(m, M)
  BY DEF HandleRequest, Asks, owners, records
<1>4. \A q \in Replica : Learned(q)' = Learned(q)
  BY <1>3 DEF Learned
<1> HIDE DEF M
<1> QED
  BY <1>1, <1>2, <1>3, <1>4, ReceiptUnderWay

LEMMA ResponseUnderWay ==
    ASSUME Basics, UnderWay, NEW m \in msgs, HandleResponse(m)
    PROVE  UnderWay'
<1> DEFINE c == m.cmd
           i == instances[c]
           R == i.responses \cup {m.src}
<1>1. /\ m.type = "Response" /\ c \in Cmd
      /\ UNCHANGED <<submitted, pending, announce_quorums>>
      /\ msgs \ {m} \in SUBSET msgs
  BY DEF HandleResponse, Basics, TypeOK, Message
<1>2. \A d : ~Asks(m, d)
  BY <1>1 DEF Asks
<1>3. CASE /\ ~(i.open /\ i.deps = m.deps /\ m.src \in Committee[c])
           /\ Deliver(m, {}) /\ UNCHANGED <<log, instances, records>>
  <2>1. /\ msgs' = msgs \ {m}
        /\ \A q \in Replica : Learned(q)' = Learned(q)
    BY <1>3 DEF Learned, Deliver
  <2>2. Votes(c)'
    <3>1. CASE ~i.open
      BY <1>1, <1>3, <3>1 DEF UnderWay, Votes
    <3>2. CASE i.open
      <4>1. \A p \in Committee[c] : ~(Polls(m, c, i.deps) /\ Voter(m) = p)
        BY <1>1, <1>3, <3>2 DEF Polls, Voter
      <4> QED
        BY <1>1, <1>3, <2>1, <3>2, <4>1 DEF UnderWay, Votes
    <3> QED
      BY <3>1, <3>2
  <2>3. \A d \in Cmd \ {c} : Votes(d)'
    <3>1. \A d \in Cmd \ {c} : \A D : ~Polls(m, d, D)
      BY DEF Polls
    <3> QED
      BY <1>3, <2>1, <3>1, StillVotes DEF UnderWay
  <2>4. \A d \in pending : Waits(d)'
    BY <1>1, <1>2, <2>1, StillWaits DEF UnderWay
  <2>5. \A d \in decided : Tells(d)'
    BY <1>1, <2>1, StillTells DEF UnderWay
  <2> QED
    BY <1>1, <1>3, <2>2, <2>3, <2>4, <2>5 DEF UnderWay, Concluded, records
<1>4. CASE /\ i.open /\ m.src \in Committee[c] /\ R # Committee[c]
           /\ instances' = [instances EXCEPT ![c].responses = R]
           /\ Deliver(m, {}) /\ UNCHANGED <<log, records>>
  <2>1. /\ msgs' = msgs \ {m}
        /\ \A q \in Replica : Learned(q)' = Learned(q)
    BY <1>4 DEF Learned, Deliver
  <2>2. /\ instances'[c].open /\ instances'[c].deps = i.deps /\ instances'[c].responses = R
        /\ \A d \in Cmd \ {c} : instances'[d] = instances[d]
    BY <1>1, <1>4 DEF Basics, TypeOK, Instance
  <2>3. Votes(c)'
    <3>1. /\ i.responses \subseteq Committee[c]
          /\ \A p \in Committee[c] :
                \/ p \in i.responses
                \/ \E n \in msgs : Polls(n, c, i.deps) /\ Voter(n) = p
      BY <1>1, <1>4 DEF UnderWay, Votes
    <3>2. Voter(m) = m.src
      BY <1>1 DEF Voter
    <3>3. \A p \in Committee[c] :
             \/ p \in R
             \/ \E n \in msgs' : Polls(n, c, i.deps) /\ Voter(n) = p
      BY <2>1, <3>1, <3>2
    <3>4. R \subseteq Committee[c]
      BY <1>4, <3>1
    <3> HIDE DEF R, c
    <3> QED
      BY <1>4, <2>2, <3>3, <3>4 DEF Votes
  <2>4. \A d \in Cmd \ {c} : Votes(d)'
    <3>1. \A d \in Cmd \ {c} : \A D : ~Polls(m, d, D)
      BY DEF Polls
    <3> QED
      BY <2>1, <2>2, <3>1, StillVotes DEF UnderWay
  <2>5. \A d \in pending : Waits(d)'
    BY <1>1, <1>2, <2>1, StillWaits DEF UnderWay
  <2>6. \A d \in decided : Tells(d)'
    BY <1>1, <1>4, <2>1, StillTells DEF UnderWay, records
  <2>7. \A d \in Cmd : Concluded(d)' <=> Concluded(d)
    BY <1>4, <2>2 DEF Concluded, records
  <2> QED
    BY <1>1, <1>4, <2>3, <2>4, <2>5, <2>6, <2>7 DEF UnderWay, records, Basics, TypeOK
<1>5. CASE /\ i.open
           /\ instances' = [instances EXCEPT ![c] = NoInstance]
           /\ Decide(c, i.deps, msgs \ {m})
  <2>1. c \notin decided /\ i.deps \in SUBSET Cmd
    BY <1>1, <1>5 DEF Basics, TypeOK, Stages, Instance
  <2>2. \A d \in decided' : Tells(d)'
    BY <1>1, <1>5, <2>1, DecideUnderWay
  <2>3. /\ instances'[c] = NoInstance /\ NoInstance.open = FALSE
        /\ \A d \in Cmd \ {c} : instances'[d] = instances[d]
        /\ msgs \ {m} \subseteq msgs' /\ decided' = decided \cup {c}
    BY <1>1, <1>5 DEF Basics, TypeOK, NoInstance, Decide
  <2>4. \A d \in Cmd : Votes(d)'
    <3>1. \A d \in Cmd \ {c} : \A D : ~Polls(m, d, D)
      BY DEF Polls
    <3>2. Votes(c)'
      BY <2>3 DEF Votes
    <3> QED
      BY <2>3, <3>1, <3>2, StillVotes DEF UnderWay
  <2>5. \A d \in pending : Waits(d)'
    BY <1>1, <1>2, <2>3, StillWaits DEF UnderWay
  <2>6. \A d \in submitted : d \in pending \/ Concluded(d)'
    BY <1>1, <2>3 DEF UnderWay, Concluded, Basics, TypeOK
  <2> QED
    BY <1>1, <2>2, <2>4, <2>5, <2>6 DEF UnderWay
<1> QED
  BY <1>3, <1>4, <1>5 DEF HandleResponse

LEMMA UnderWayStep ==
    ASSUME QuorumsReached
    PROVE  Basics /\ UnderWay /\ [Next]_vars => UnderWay'
<1> SUFFICES ASSUME Basics, UnderWay, [Next]_vars PROVE UnderWay'
  OBVIOUS
<1>1. CASE UNCHANGED vars
  <2>1. UNCHANGED <<submitted, log, pending, announce_quorums, instances, msgs, decided>>
    BY <1>1 DEF vars, owners, records
  <2>2. \A d \in pending : Waits(d)'
    BY <2>1, StillWaits DEF UnderWay
  <2>3. \A d \in Cmd : Votes(d)'
    BY <2>1, StillVotes DEF UnderWay
  <2>4. \A d \in decided : Tells(d)'
    BY <2>1, StillTells DEF UnderWay, Learned
  <2> QED
    BY <2>1, <2>2, <2>3, <2>4 DEF UnderWay, Concluded
<1> QED
  BY <1>1, AnnounceUnderWay, TimerUnderWay, ReqUnderWay, ResUnderWay, CommitUnderWay,
     RequestUnderWay, ResponseUnderWay DEF Next, Receive

\* There are as many answers as replicas when all have answered.
LEMMA AsManyAnswers ==
    ASSUME NEW R \in SUBSET Res, \A r, s \in R : r.pid = s.pid => r = s,
           Responders(R) = Replica
    PROVE  Cardinality(R) = Cardinality(Replica)
<1> DEFINE f == [r \in R |-> r.pid]
<1>1. f \in Injection(R, Replica)
  BY DEF Res, Injection, IsInjective
<1>2. f \in Surjection(R, Replica)
  BY <1>1 DEF Injection, Surjection, Responders
<1> QED
  BY <1>1, <1>2, FS_Injection, ProtocolAssumption

\* When the network is empty nothing is left half done: whatever the timers
\* did, no announcement and no slow path is open and every command is stable
\* at every replica.
THEOREM DrainedHolds ==
    ASSUME QuorumsReached
    PROVE  Spec => []Drained
<1>1. Basics /\ DepsCreated /\ UnderWay => Drained
  <2> SUFFICES ASSUME Basics, DepsCreated, UnderWay, msgs = {}
               PROVE  /\ pending = {}
                      /\ \A c \in Cmd : announce_quorums[c] = {} /\ instances[c] = NoInstance
                      /\ \A p \in Replica : log[p].stable = submitted
    BY DEF Drained
  <2>1. ASSUME NEW c \in pending PROVE FALSE
    <3> DEFINE R == announce_quorums[c]
    <3>1. PICK T \in AnnounceTargets : T \subseteq Responders(R)
      BY DEF UnderWay, Waits
    <3>2. R \in SUBSET Res /\ \A r, s \in R : r.pid = s.pid => r = s
      BY DEF Basics, TypeOK, AnswersOnce
    <3>3. Responders(R) \in SUBSET Replica
      BY <3>2 DEF Responders, Res
    <3>4. CASE Protocol = "Wintermute"
      <4>1. Responders(R) = Replica
        BY <3>1, <3>3, <3>4 DEF AnnounceTargets
      <4>2. Cardinality(R) = Cardinality(Replica)
        BY <3>2, <4>1, AsManyAnswers
      <4> QED
        BY <3>4, <4>2 DEF UnderWay, Waits, AnnounceReady
    <3>5. CASE Protocol # "Wintermute"
      <4>1. T \in SUBSET Replica
        BY <3>1, <3>3
      <4>2. IsQuorum(Responders(R))
        BY <3>1, <3>3, <3>5, <4>1 DEF QuorumsReached
      <4> QED
        BY <3>5, <4>2 DEF UnderWay, Waits, AnnounceReady
    <3> QED
      BY <3>4, <3>5
  <2>2. ASSUME NEW c \in Cmd PROVE announce_quorums[c] = {} /\ instances[c] = NoInstance
    <3>1. Votes(c)
      BY DEF UnderWay
    <3>2. ~instances[c].open
      <4> SUFFICES ASSUME instances[c].open PROVE FALSE
        OBVIOUS
      <4>1. instances[c].responses = Committee[c]
        BY <3>1 DEF Votes
      <4> QED
        BY <3>1, <4>1 DEF Votes
    <3> QED
      BY <2>1, <3>1, <3>2 DEF Votes, Basics, Stages
  <2>3. submitted = decided
    <3>1. \A c \in Cmd : ~instances[c].open
      BY <2>2 DEF NoInstance
    <3>2. \A c \in submitted : c \in decided
      BY <2>1, <3>1 DEF UnderWay, Concluded, Basics, TypeOK
    <3>3. decided \subseteq submitted
      BY DEF Basics, Stages
    <3> QED
      BY <3>2, <3>3
  <2>4. ASSUME NEW p \in Replica PROVE log[p].stable = submitted
    <3>1. Learned(p) = decided
      BY DEF UnderWay, Tells, Basics, LogsSound
    <3>2. ASSUME NEW a \in decided PROVE a \in log[p].stable
      <4>1. \A d \in decided : decidedDeps[d] \subseteq decided
        BY <2>3 DEF DepsCreated, Rivals, Basics, TypeOK
      <4>2. Settled(decidedDeps, a, Learned(p))
        BY <3>1, <4>1 DEF Settled
      <4> QED
        BY <4>2, SettledIsStable
    <3> QED
      BY <2>3, <3>1, <3>2 DEF Learned
  <2> QED
    BY <2>1, <2>2, <2>4
<1> QED
  BY <1>1, DepsInit, DepsStep, UnderWayInit, UnderWayStep, BasicsInvariant, PTL DEF Spec

-----------------------------------------------------------------------------
\* Who knows a command.

\* The answers that end an announcement come from a quorum or from everybody.
Enough(S) == IsQuorum(S) \/ S = Replica

Answered(c, p) ==
    \/ p \in Responders(announce_quorums[c])
    \/ \E m \in msgs : m.type = "Res" /\ m.cmd = c /\ m.src = p

\* Who has answered a pending announcement has the command, and so have
\* enough replicas once it is over.
KnownToEnough ==
    /\ \A c \in pending : \A p \in Replica : Answered(c, p) => Visible(p, c)
    /\ \A c \in Cmd : Concluded(c) =>
          \E S \in SUBSET Replica : Enough(S) /\ \A p \in S : Visible(p, c)
    /\ \A c \in decided : paths[c] = "fast" => \A p \in Replica : Visible(p, c)
    /\ \A c \in Cmd : instances[c].open => paths[c] = "slow"

-----------------------------------------------------------------------------
\* What two conflicting commands know of each other.

\* p has answered the announcement of b after it had a: the answer names a,
\* or has a as settled in its past.
Sees(b, a, p) ==
    \/ \E r \in announce_quorums[b] :
          r.pid = p /\ (a \in r.conflicts \/ Settled(decidedDeps, a, Learned(Owner[b])))
    \/ \E m \in msgs :
          /\ m.type = "Res" /\ m.cmd = b /\ m.src = p
          /\ a \in m.deps \/ Settled(decidedDeps, a, Known(m))

\* Every replica executes a before it learns that b is decided.
Before(a, b) ==
    /\ \A p \in Replica : b \in Learned(p) =>
          a \in log[p].stable /\ ~Precedes(log[p].executed, b, a)
    /\ \A m \in msgs : m.type = "Commit" /\ m.cmd = b => Settled(decidedDeps, a, Known(m))

Deps(b) == IF b \in decided THEN decidedDeps[b] ELSE instances[b].deps

\* b, whose announcement is over, comes after a or depends on it.
Covers(b, a) ==
    \/ a \in Deps(b)
    \/ IF b \in decided THEN Before(a, b) ELSE Settled(decidedDeps, a, Learned(Owner[b]))

Conflict(a, b) == KeyOf[a] = KeyOf[b] /\ a # b

PendingMeet ==
    \A a, b \in pending : \A p \in Replica :
        Conflict(a, b) /\ Answered(a, p) /\ Answered(b, p) => Sees(a, b, p) \/ Sees(b, a, p)

\* Enough replicas have given a to every announcement they have answered.
ConcludedMeet ==
    \A a \in Cmd : Concluded(a) =>
        \E S \in SUBSET Replica :
            /\ Enough(S)
            /\ \A p \in S :
                  /\ Visible(p, a)
                  /\ \A b \in pending :
                        Conflict(a, b) /\ Answered(b, p) => b \in Deps(a) \/ Sees(b, a, p)

ConflictsCovered ==
    \A a, b \in Cmd :
        Conflict(a, b) /\ Concluded(a) /\ Concluded(b) => Covers(a, b) \/ Covers(b, a)

-----------------------------------------------------------------------------
\* What a step can do to an announcement.

\* R is what the owner of c has gathered when the announcement ends: answers
\* it had, and the one it receives.
Gathered(c, R) ==
    /\ R \in SUBSET Res
    /\ announce_quorums[c] \subseteq R
    /\ \A r, s \in R : r.pid = s.pid => r = s
    /\ Enough(Responders(R))
    /\ \A r \in R : \/ r \in announce_quorums[c]
                     \/ \E m \in msgs : /\ m.type = "Res" /\ m.cmd = c /\ Deliverable(m)
                                        /\ m.src = r.pid /\ m.deps = r.conflicts

\* The announcement of c ends with the answers R.
Ends(c, R) ==
    /\ c \in pending /\ Gathered(c, R)
    /\ \/ AnnounceReady(R)
       \/ R = announce_quorums[c] /\ (Timely => RoundTripOver(c))
    /\ \E kept \in SUBSET msgs :
          /\ QuorumReady(c, R, kept)
          /\ \A m \in msgs : m.cmd # c => m \in kept
    /\ UNCHANGED submitted

\* The owner takes the answer m and waits for more.
Collects(m) ==
    /\ m.type = "Res" /\ Deliverable(m) /\ m.cmd \in pending
    /\ announce_quorums' = [announce_quorums EXCEPT
                              ![m.cmd] = @ \cup {[pid |-> m.src, conflicts |-> m.deps]}]
    /\ msgs' = msgs \ {m}
    /\ UNCHANGED <<submitted, log, pending, instances, records>>

\* The slow path of c decides.
Finishes(c) ==
    /\ instances[c].open
    /\ instances' = [instances EXCEPT ![c] = NoInstance]
    /\ \E kept \in SUBSET msgs :
          /\ Decide(c, instances[c].deps, kept)
          /\ \A m \in msgs : m.type # "Response" => m \in kept
    /\ UNCHANGED <<submitted, announce_quorums, pending, paths>>

\* Nothing that concerns an open announcement or a log.
Idles ==
    /\ \A m \in msgs' : m \in msgs \/ m.type = "Response"
    /\ \A m \in msgs : m.type \in {"Req", "Res"} /\ m.cmd \in pending => m \in msgs'
    /\ \A c \in Cmd : instances'[c].open = instances[c].open
                       /\ instances'[c].deps = instances[c].deps
    /\ UNCHANGED <<submitted, log, announce_quorums, pending, records>>

\* All replicas have answered when there are as many answers as replicas.
LEMMA AllAnswered ==
    ASSUME NEW R \in SUBSET Res, \A r, s \in R : r.pid = s.pid => r = s,
           Cardinality(R) = Cardinality(Replica)
    PROVE  Responders(R) = Replica
<1> DEFINE f == [r \in R |-> r.pid]
<1>1. \A r \in R : r.pid \in Replica
  BY DEF Res
<1>2. f \in Injection(R, Replica)
  BY <1>1 DEF Injection, IsInjective
<1>3. f \in Surjection(R, Replica)
  BY <1>2, FS_Injection, ProtocolAssumption
<1>4. \A p \in Replica : \E r \in R : r.pid = p
  BY <1>3 DEF Surjection
<1> QED
  BY <1>1, <1>4 DEF Responders

\* Every step is one of these.
LEMMA StepKinds ==
    ASSUME Basics, [Next]_vars
    PROVE  \/ \E c \in Cmd : Announce(c)
           \/ \E m \in msgs : HandleReq(m)
           \/ \E c \in Cmd, R \in SUBSET Res : Ends(c, R)
           \/ \E m \in msgs : Collects(m)
           \/ \E m \in msgs : HandleCommit(m) /\ Deliverable(m)
           \/ \E c \in Cmd : Finishes(c)
           \/ Idles
<1>1. CASE UNCHANGED vars
  BY <1>1 DEF vars, owners, records, Idles
<1>2. ASSUME NEW c \in Cmd, OnForceTimer(c)
      PROVE  Idles \/ \E R \in SUBSET Res : Ends(c, R)
  <2>1. CASE /\ c \in pending /\ IsQuorum(Responders(announce_quorums[c]))
             /\ QuorumReady(c, announce_quorums[c], msgs)
    <3>1. Gathered(c, announce_quorums[c])
      BY <2>1 DEF Gathered, Enough, Basics, TypeOK, AnswersOnce
    <3>2. Ends(c, announce_quorums[c])
      BY <1>2, <2>1, <3>1 DEF Ends, OnForceTimer
    <3> QED
      BY <3>1, <3>2 DEF Gathered
  <2>2. CASE UNCHANGED <<log, msgs, owners, records>>
    BY <1>2, <2>2 DEF Idles, owners, OnForceTimer
  <2> QED
    BY <1>2, <2>1, <2>2 DEF OnForceTimer
<1>3. ASSUME NEW m \in msgs, HandleRes(m), Deliverable(m)
      PROVE  Idles \/ Collects(m) \/ \E c \in Cmd, R \in SUBSET Res : Ends(c, R)
  <2> DEFINE c == m.cmd
             r == [pid |-> m.src, conflicts |-> m.deps]
             R == announce_quorums[c] \cup {r}
  <2>1. m.type = "Res" /\ c \in Cmd /\ r \in Res /\ submitted' = submitted
    BY <1>3 DEF HandleRes, Basics, TypeOK, Message, Res
  <2>2. CASE c \notin pending /\ Deliver(m, {}) /\ UNCHANGED <<log, owners, records>>
    BY <2>1, <2>2 DEF Idles, Deliver, owners
  <2>3. CASE /\ c \in pending
             /\ announce_quorums' = [announce_quorums EXCEPT ![c] = R]
             /\ Deliver(m, {})
             /\ UNCHANGED <<log, pending, instances, records>>
    BY <1>3, <2>1, <2>3 DEF Collects, Deliver
  <2>4. CASE c \in pending /\ AnnounceReady(R) /\ QuorumReady(c, R, msgs \ {m})
    <3>1. R \in SUBSET Res
      BY <2>1 DEF Basics, TypeOK
    <3>2. \A s, t \in R : s.pid = t.pid => s = t
      <4>1. \A s \in announce_quorums[c] : s.pid # r.pid
        BY <2>1 DEF Basics, AnswersOnce, Responders, Asks, Answerer
      <4> QED
        BY <2>1, <4>1 DEF Basics, AnswersOnce
    <3>3. Enough(Responders(R))
      BY <2>4, <3>1, <3>2, AllAnswered DEF AnnounceReady, Enough
    <3>4. Gathered(c, R)
      BY <1>3, <2>1, <3>1, <3>2, <3>3 DEF Gathered
    <3>5. \A n \in msgs : n.cmd # c => n \in msgs \ {m}
      OBVIOUS
    <3>6. msgs \ {m} \in SUBSET msgs
      OBVIOUS
    <3> HIDE DEF R, c
    <3>7. Ends(c, R)
      BY <2>1, <2>4, <3>4, <3>5, <3>6 DEF Ends
    <3> QED
      BY <2>1, <3>1, <3>7
  <2> QED
    BY <1>3, <2>2, <2>3, <2>4 DEF HandleRes
<1>4. ASSUME NEW m \in msgs, HandleRequest(m) PROVE Idles
  <2>1. \A n \in Sent("Response", m.dst, {m.src}, m.cmd, m.deps) : n.type = "Response"
    BY DEF Sent
  <2> QED
    BY <1>4, <2>1 DEF HandleRequest, Idles, Deliver, owners
<1>5. ASSUME NEW m \in msgs, HandleResponse(m) PROVE Idles \/ \E c \in Cmd : Finishes(c)
  <2> DEFINE c == m.cmd
             R == instances[c].responses \cup {m.src}
  <2>1. m.type = "Response" /\ c \in Cmd
    BY <1>5 DEF HandleResponse, Basics, TypeOK, Message
  <2>2. CASE Deliver(m, {}) /\ UNCHANGED <<log, instances, records>>
    BY <1>5, <2>1, <2>2 DEF Idles, Deliver, HandleResponse
  <2>3. CASE /\ instances' = [instances EXCEPT ![c].responses = R]
             /\ Deliver(m, {}) /\ UNCHANGED <<log, records>>
    <3>1. \A d \in Cmd : instances'[d].open = instances[d].open
                         /\ instances'[d].deps = instances[d].deps
      BY <2>1, <2>3 DEF Basics, TypeOK, Instance
    <3> QED
      BY <1>5, <2>1, <2>3, <3>1 DEF Idles, Deliver, HandleResponse
  <2>4. CASE /\ instances[c].open
             /\ instances' = [instances EXCEPT ![c] = NoInstance]
             /\ Decide(c, instances[c].deps, msgs \ {m})
             /\ UNCHANGED paths
    <3>1. msgs \ {m} \in SUBSET msgs /\ \A n \in msgs : n.type # "Response" => n \in msgs \ {m}
      BY <2>1
    <3>2. Finishes(c)
      BY <1>5, <2>4, <3>1 DEF Finishes, HandleResponse
    <3> QED
      BY <2>1, <3>2
  <2> QED
    BY <1>5, <2>2, <2>3, <2>4 DEF HandleResponse
<1> QED
  BY <1>1, <1>2, <1>3, <1>4, <1>5 DEF Next, Receive

-----------------------------------------------------------------------------
\* What is never lost, by any step.
LEMMA StepGrows == Basics /\ [Next]_vars => Grows
<1> SUFFICES ASSUME Basics, [Next]_vars PROVE Grows
  OBVIOUS
<1>1. ASSUME NEW c \in Cmd, NEW R \in SUBSET Res, Ends(c, R) PROVE Grows
  <2>1. c \notin decided /\ UnionDeps(R) \in SUBSET Cmd
    BY <1>1 DEF Ends, Basics, Stages, Concluded, UnionDeps, Res
  <2>2. PICK kept : QuorumReady(c, R, kept) /\ UNCHANGED submitted
    BY <1>1 DEF Ends
  <2>3. CASE Decide(c, UnionDeps(R), kept)
    BY <2>1, <2>2, <2>3, DecideLearns
  <2>4. CASE UNCHANGED <<log, decided, decidedDeps>>
    BY <2>2, <2>4, QuietGrows
  <2> QED
    BY <2>2, <2>3, <2>4 DEF QuorumReady
<1>2. ASSUME NEW c \in Cmd, Finishes(c) PROVE Grows
  <2>1. c \notin decided /\ instances[c].deps \in SUBSET Cmd
    BY <1>2 DEF Finishes, Basics, Stages, TypeOK, Instance
  <2>2. PICK kept : Decide(c, instances[c].deps, kept) /\ UNCHANGED submitted
    BY <1>2 DEF Finishes
  <2> QED
    BY <2>1, <2>2, DecideLearns
<1>3. ASSUME NEW m \in msgs, Collects(m) PROVE Grows
  BY <1>3, QuietGrows DEF Collects, records
<1>4. CASE Idles
  BY <1>4, QuietGrows DEF Idles, records
<1> QED
  BY <1>1, <1>2, <1>3, <1>4, BodyGrows, CommitLearnsOne, StepKinds

-----------------------------------------------------------------------------
\* Announcements end once, and their outcome stays.

LEMMA StaysConcluded ==
    ASSUME Basics, [Next]_vars, NEW c \in Cmd, Concluded(c)
    PROVE  Concluded(c)' /\ Deps(c)' = Deps(c) /\ paths'[c] = paths[c]
<1>1. ASSUME UNCHANGED <<decided, decidedDeps, paths>>,
             \A d \in Cmd : instances'[d].open = instances[d].open
                            /\ instances'[d].deps = instances[d].deps
      PROVE  Concluded(c)' /\ Deps(c)' = Deps(c) /\ paths'[c] = paths[c]
  BY <1>1 DEF Concluded, Deps
<1>2. ASSUME NEW d \in Cmd, NEW R \in SUBSET Res, Ends(d, R)
      PROVE  Concluded(c)' /\ Deps(c)' = Deps(c) /\ paths'[c] = paths[c]
  <2>1. d # c
    BY <1>2 DEF Ends, Basics, Stages
  <2> QED
    BY <1>2, <2>1 DEF Ends, QuorumReady, Decide, Propose, Concluded, Deps, Basics, TypeOK
<1>3. ASSUME NEW d \in Cmd, Finishes(d)
      PROVE  Concluded(c)' /\ Deps(c)' = Deps(c) /\ paths'[c] = paths[c]
  <2>1. d \notin decided
    BY <1>3 DEF Finishes, Basics, Stages
  <2> QED
    BY <1>3, <2>1 DEF Finishes, Decide, Concluded, Deps, Basics, TypeOK
<1>4. ASSUME NEW d \in Cmd, Announce(d)
      PROVE  Concluded(c)' /\ Deps(c)' = Deps(c) /\ paths'[c] = paths[c]
  BY <1>1, <1>4 DEF Announce, records
<1>5. ASSUME NEW m \in msgs, HandleReq(m) \/ Collects(m) \/ HandleCommit(m)
      PROVE  Concluded(c)' /\ Deps(c)' = Deps(c) /\ paths'[c] = paths[c]
  BY <1>1, <1>5 DEF HandleReq, Collects, HandleCommit, owners, records
<1>6. CASE Idles
  BY <1>1, <1>6 DEF Idles, records
<1> QED
  BY <1>2, <1>3, <1>4, <1>5, <1>6, StepKinds

LEMMA NewlyConcluded ==
    ASSUME Basics, [Next]_vars, NEW c \in Cmd, Concluded(c)', ~Concluded(c)
    PROVE  \E R \in SUBSET Res : Ends(c, R)
<1>1. ASSUME UNCHANGED decided, \A d \in Cmd : instances'[d].open = instances[d].open
      PROVE  FALSE
  BY <1>1 DEF Concluded
<1>2. ASSUME NEW d \in Cmd, NEW R \in SUBSET Res, Ends(d, R)
      PROVE  d = c
  BY <1>2 DEF Ends, QuorumReady, Decide, Propose, Concluded, Basics, TypeOK
<1>3. ASSUME NEW d \in Cmd, Finishes(d)
      PROVE  FALSE
  <2>1. d # c
    BY <1>3 DEF Finishes, Concluded
  <2> QED
    BY <1>3, <2>1 DEF Finishes, Decide, Concluded, Basics, TypeOK
<1>4. ASSUME NEW d \in Cmd, Announce(d)
      PROVE  FALSE
  BY <1>1, <1>4 DEF Announce, records
<1>5. ASSUME NEW m \in msgs, HandleReq(m) \/ Collects(m) \/ HandleCommit(m)
      PROVE  FALSE
  BY <1>1, <1>5 DEF HandleReq, Collects, HandleCommit, owners, records
<1>6. CASE Idles
  BY <1>1, <1>6 DEF Idles, records
<1> QED
  BY <1>2, <1>3, <1>4, <1>5, <1>6, StepKinds

\* A step answers no announcement but by handling its Req.
LEMMA AnswersGrow ==
    ASSUME Basics, [Next]_vars
    PROVE  \/ \A c \in pending', p \in Replica : Answered(c, p)' => c \in pending /\ Answered(c, p)
           \/ \E m \in msgs :
                 /\ HandleReq(m)
                 /\ \A c \in pending', p \in Replica : Answered(c, p)' =>
                       c \in pending /\ (Answered(c, p) \/ (c = m.cmd /\ p = m.dst))
<1> DEFINE Fewer == \A c \in pending', p \in Replica :
                       Answered(c, p)' => c \in pending /\ Answered(c, p)
<1>1. ASSUME \A c \in pending' : c \in pending /\ announce_quorums'[c] \subseteq announce_quorums[c],
             \A m \in msgs' : m \in msgs \/ m.type # "Res"
      PROVE  Fewer
  BY <1>1 DEF Answered, Responders
<1>2. ASSUME NEW d \in Cmd, Announce(d) PROVE Fewer
  <2>1. announce_quorums[d] = {} /\ \A m \in msgs : m.cmd # d
    BY <1>2 DEF Announce, Basics, Stages, Truthful, TruthOf
  <2>2. PICK T : msgs' = msgs \cup Sent("Req", Owner[d], T, d, {})
    BY <1>2 DEF Announce
  <2>3. \A m \in Sent("Req", Owner[d], T, d, {}) : m.type = "Req"
    BY DEF Sent
  <2>4. \A p \in Replica : ~Answered(d, p)'
    BY <1>2, <2>1, <2>2, <2>3 DEF Answered, Responders, Announce
  <2>5. \A c \in pending, p \in Replica : Answered(c, p)' => Answered(c, p)
    BY <1>2, <2>2, <2>3 DEF Answered, Announce
  <2> QED
    BY <1>2, <2>4, <2>5 DEF Announce
<1>3. ASSUME NEW m \in msgs, HandleReq(m)
      PROVE  \A c \in pending', p \in Replica : Answered(c, p)' =>
                c \in pending /\ (Answered(c, p) \/ (c = m.cmd /\ p = m.dst))
  <2> DEFINE N == Sent("Res", m.dst, {m.src}, m.cmd, Conflicts(log[m.dst], m.cmd))
  <2>1. \A n \in N : n.cmd = m.cmd /\ n.src = m.dst
    BY DEF Sent
  <2> HIDE DEF N
  <2>2. msgs' = (msgs \ {m}) \cup N /\ UNCHANGED <<pending, announce_quorums>>
    BY <1>3 DEF HandleReq, Deliver, owners, N
  <2> QED
    BY <2>1, <2>2 DEF Answered
<1>4. ASSUME NEW d \in Cmd, NEW R \in SUBSET Res, Ends(d, R) PROVE Fewer
  <2>1. PICK kept \in SUBSET msgs : QuorumReady(d, R, kept)
    BY <1>4 DEF Ends
  <2>2. \A m \in msgs' : m \in msgs \/ m.type # "Res"
    <3>1. \A T : /\ \A m \in Sent("Commit", Owner[d], T, d, UnionDeps(R)) : m.type = "Commit"
                 /\ \A m \in Sent("Request", Owner[d], T, d, UnionDeps(R)) : m.type = "Request"
      BY DEF Sent
    <3> QED
      BY <2>1, <3>1 DEF QuorumReady, Decide, Propose
  <2>3. \A c \in pending' : c \in pending /\ announce_quorums'[c] \subseteq announce_quorums[c]
    BY <1>4, <2>1 DEF Ends, QuorumReady, CloseAnnouncement, Basics, TypeOK
  <2> QED
    BY <1>1, <2>2, <2>3
<1>5. ASSUME NEW d \in Cmd, Finishes(d) PROVE Fewer
  <2>1. \A T, D : \A m \in Sent("Commit", Owner[d], T, d, D) : m.type = "Commit"
    BY DEF Sent
  <2>2. \A m \in msgs' : m \in msgs \/ m.type # "Res"
    BY <1>5, <2>1 DEF Finishes, Decide
  <2> QED
    BY <1>1, <1>5, <2>2 DEF Finishes
<1>6. ASSUME NEW m \in msgs, Collects(m) PROVE Fewer
  <2>1. m.cmd \in Cmd
    BY <1>6 DEF Basics, TypeOK, Message
  <2>2. \A c \in pending : Responders(announce_quorums'[c]) =
           Responders(announce_quorums[c]) \cup (IF c = m.cmd THEN {m.src} ELSE {})
    <3>1. \A c \in pending : announce_quorums'[c] = announce_quorums[c] \cup
             (IF c = m.cmd THEN {[pid |-> m.src, conflicts |-> m.deps]} ELSE {})
      BY <1>6, <2>1 DEF Collects, Basics, TypeOK
    <3>2. \A R, r : Responders(R \cup {r}) = Responders(R) \cup {r.pid}
      BY DEF Responders
    <3>3. \A R : Responders(R \cup {[pid |-> m.src, conflicts |-> m.deps]}) =
                 Responders(R) \cup {m.src}
      BY <3>2
    <3> QED
      BY <3>1, <3>3
  <2> QED
    BY <1>6, <2>2 DEF Collects, Answered
<1>7. ASSUME NEW m \in msgs, HandleCommit(m) PROVE Fewer
  <2>1. \A n \in msgs' : n \in msgs
    BY <1>7 DEF HandleCommit, Deliver
  <2> QED
    BY <1>1, <1>7, <2>1 DEF HandleCommit, owners
<1>8. CASE Idles
  <2>1. \A m \in msgs' : m \in msgs \/ m.type # "Res"
    BY <1>8 DEF Idles
  <2> QED
    BY <1>1, <1>8, <2>1 DEF Idles
<1> QED
  BY <1>2, <1>3, <1>4, <1>5, <1>6, <1>7, <1>8, StepKinds

-----------------------------------------------------------------------------
\* A decided command is known.

\* A replica has had the commands it has answered for.
LEMMA AnsweredKnown ==
    ASSUME Basics, KnownToEnough, NEW c \in pending, NEW R, Gathered(c, R)
    PROVE  /\ Responders(R) \subseteq Replica
           /\ \A p \in Responders(R) : Answered(c, p) /\ Visible(p, c)
<1>1. Responders(R) \subseteq Replica
  BY DEF Gathered, Responders, Res
<1>2. \A p \in Responders(R) : Answered(c, p)
  BY DEF Gathered, Responders, Answered
<1> QED
  BY <1>1, <1>2 DEF KnownToEnough

LEMMA KnownStep == Basics /\ KnownToEnough /\ [Next]_vars => KnownToEnough'
<1> SUFFICES ASSUME Basics, KnownToEnough, [Next]_vars PROVE KnownToEnough'
  OBVIOUS
<1>1. Grows
  BY StepGrows
<1>2. pending \subseteq Cmd /\ submitted \subseteq Cmd
  BY DEF Basics, TypeOK
<1>3. \A c \in pending' : c \in Cmd
  BY BasicsStep DEF Basics, TypeOK
<1>4. ASSUME NEW c \in pending', NEW p \in Replica, Answered(c, p)'
      PROVE  Visible(p, c)'
  <2>1. CASE c \in pending /\ Answered(c, p)
    BY <1>1, <1>2, <2>1 DEF KnownToEnough, Grows
  <2>2. ASSUME NEW m \in msgs, HandleReq(m), c = m.cmd, p = m.dst, c \in pending
        PROVE  Visible(p, c)'
    <3>1. c \notin log[p].stable
      BY <2>2 DEF Basics, Stages, Concluded, LogsSound, Learned
    <3>2. log' = [log EXCEPT ![p] = Submit(@, c)] /\ UNCHANGED <<decided, decidedDeps>>
      BY <2>2 DEF HandleReq, records
    <3> QED
      BY <1>2, <2>2, <3>1, <3>2, BodyStep DEF Basics, TypeOK
  <2> QED
    BY <1>4, <2>1, <2>2, AnswersGrow
<1>5. ASSUME NEW c \in Cmd, Concluded(c)'
      PROVE  \E S \in SUBSET Replica : Enough(S) /\ \A p \in S : Visible(p, c)'
  <2>1. CASE Concluded(c)
    BY <1>1, <2>1 DEF KnownToEnough, Grows
  <2>2. ASSUME NEW R \in SUBSET Res, Ends(c, R)
        PROVE  \E S \in SUBSET Replica : Enough(S) /\ \A p \in S : Visible(p, c)'
    <3>1. /\ Responders(R) \subseteq Replica /\ Enough(Responders(R))
          /\ \A p \in Responders(R) : Visible(p, c)
      BY <2>2, AnsweredKnown DEF Ends, Gathered
    <3> QED
      BY <1>1, <3>1 DEF Grows
  <2> QED
    BY <1>5, <2>1, <2>2, NewlyConcluded
<1>6. ASSUME NEW c \in decided', paths'[c] = "fast", NEW p \in Replica
      PROVE  Visible(p, c)'
  <2>1. c \in Cmd /\ Concluded(c)'
    BY BasicsStep DEF Basics, TypeOK, Concluded
  <2>2. CASE Concluded(c)
    <3>1. paths[c] = "fast"
      BY <1>6, <2>1, <2>2, StaysConcluded
    <3>2. c \in decided
      BY <2>1, <2>2, <3>1 DEF Concluded, KnownToEnough
    <3> QED
      BY <1>1, <2>1, <3>1, <3>2 DEF KnownToEnough, Grows
  <2>3. ASSUME NEW R \in SUBSET Res, Ends(c, R)
        PROVE  Visible(p, c)'
    <3>1. PICK kept : QuorumReady(c, R, kept)
      BY <2>3 DEF Ends
    <3>2. AllowFastpath(R)
      BY <1>6, <2>1, <3>1 DEF QuorumReady, Basics, TypeOK
    <3>3. Responders(R) = Replica
      BY <2>3, <3>2, AllAnswered DEF AllowFastpath, Ends, Gathered
    <3> QED
      BY <1>1, <2>1, <2>3, <3>3, AnsweredKnown DEF Ends, Grows
  <2> QED
    BY <2>1, <2>2, <2>3, NewlyConcluded
<1>7. ASSUME NEW c \in Cmd, instances'[c].open
      PROVE  paths'[c] = "slow"
  <2>1. Concluded(c)'
    BY <1>7 DEF Concluded
  <2>2. CASE Concluded(c)
    <3>1. c \notin decided'
      BY <1>7, BasicsStep DEF Basics, Stages
    <3>2. instances[c].open
      BY <1>1, <2>2, <3>1 DEF Concluded, Grows
    <3> QED
      BY <2>2, <3>2, StaysConcluded DEF KnownToEnough
  <2>3. ASSUME NEW R \in SUBSET Res, Ends(c, R)
        PROVE  paths'[c] = "slow"
    <3>1. ~instances[c].open
      BY <2>3 DEF Ends, Basics, Stages, Concluded
    <3> QED
      BY <1>7, <2>3, <3>1 DEF Ends, QuorumReady, Basics, TypeOK
  <2> QED
    BY <2>1, <2>2, <2>3, NewlyConcluded
<1>8. \A S : Enough(S)' <=> Enough(S)
  BY DEF Enough
<1>9. \A c \in pending' : \A p \in Replica : Answered(c, p)' => Visible(p, c)'
  BY <1>4
<1>10. \A c \in Cmd : Concluded(c)' =>
          \E S \in SUBSET Replica : Enough(S) /\ \A p \in S : Visible(p, c)'
  BY <1>5
<1>11. \A c \in decided' : paths'[c] = "fast" => \A p \in Replica : Visible(p, c)'
  BY <1>6
<1>12. \A c \in Cmd : instances'[c].open => paths'[c] = "slow"
  BY <1>7
<1> QED
  BY <1>9, <1>10, <1>11, <1>12 DEF KnownToEnough

LEMMA KnownInit == Init => KnownToEnough
<1> SUFFICES ASSUME Init PROVE KnownToEnough
  OBVIOUS
<1>1. NoInstance.open = FALSE
  BY DEF NoInstance
<1> QED
  BY <1>1 DEF Init, KnownToEnough, Concluded

\* More answers are as good, and all of them are a quorum.
QuorumsGrow ==
    /\ IsQuorum(Replica)
    /\ \A S, T \in SUBSET Replica : S \subseteq T /\ IsQuorum(S) => IsQuorum(T)

\* Whatever the order of requests, answers and timers, a decided command is
\* known to a quorum, and one decided on the fast path to every replica.
THEOREM DecisionVisibleHolds ==
    ASSUME QuorumsGrow
    PROVE  Spec => []DecisionVisible
<1>1. Basics /\ KnownToEnough => DecisionVisible
  <2> SUFFICES ASSUME Basics, KnownToEnough, NEW c \in decided
               PROVE  /\ IsQuorum({p \in Replica : Visible(p, c)})
                      /\ paths[c] = "fast" => \A p \in Replica : Visible(p, c)
    BY DEF DecisionVisible
  <2>1. c \in Cmd /\ Concluded(c)
    BY DEF Basics, TypeOK, Concluded
  <2>2. PICK S \in SUBSET Replica : Enough(S) /\ \A p \in S : Visible(p, c)
    BY <2>1 DEF KnownToEnough
  <2>3. IsQuorum(S)
    BY <2>2 DEF Enough, QuorumsGrow
  <2> DEFINE V == {p \in Replica : Visible(p, c)}
  <2>4. S \subseteq V /\ V \in SUBSET Replica
    BY <2>2
  <2> HIDE DEF V
  <2>5. IsQuorum(V)
    BY <2>3, <2>4 DEF QuorumsGrow
  <2> QED
    BY <2>5 DEF V, KnownToEnough
<1> QED
  BY <1>1, KnownInit, KnownStep, BasicsInvariant, PTL DEF Spec

-----------------------------------------------------------------------------
\* What is settled.

\* What is stable is settled.
LEMMA StableIsSettled ==
    ASSUME Basics, NEW p \in Replica, NEW a \in log[p].stable, NEW L, Learned(p) \subseteq L
    PROVE  Settled(decidedDeps, a, L)
BY DEF Settled, Basics, LogsSound, Learned

LEMMA SettledGrows ==
    ASSUME Grows, NEW a, NEW L \in SUBSET decided, NEW M, L \subseteq M,
           Settled(decidedDeps, a, L)
    PROVE  Settled(decidedDeps', a, M)
<1>1. PICK C \in SUBSET L : a \in C /\ \A d \in C : decidedDeps[d] \subseteq C
  BY DEF Settled
<1>2. \A d \in C : decidedDeps'[d] \subseteq C
  BY <1>1 DEF Grows
<1> QED
  BY <1>1, <1>2 DEF Settled

LEMMA KnownGrows ==
    ASSUME Basics, Grows, NEW m \in msgs
    PROVE  /\ Known(m) \subseteq decided /\ Known(m) \subseteq Known(m)'
           /\ Deliverable(m) => Known(m) = Learned(m.dst)
           /\ m.dst \in Replica
<1>1. m.dst \in Replica /\ m.past \subseteq decided
  BY DEF Basics, TypeOK, Message, Truthful, TruthOf
<1> QED
  BY <1>1 DEF Basics, LogsSound, Grows, Known, Deliverable

LEMMA LearnedGrows ==
    ASSUME Basics, Grows, NEW p \in Replica, NEW a, Settled(decidedDeps, a, Learned(p))
    PROVE  Settled(decidedDeps, a, Learned(p))'
<1>1. Learned(p) \in SUBSET decided /\ Learned(p) \subseteq Learned(p)'
  BY DEF Basics, LogsSound, Grows
<1> QED
  BY <1>1, SettledGrows

-----------------------------------------------------------------------------
\* What an answer sees, it goes on seeing.

LEMMA AnswersKept ==
    ASSUME Basics, [Next]_vars, NEW b \in pending, b \in pending'
    PROVE  /\ announce_quorums[b] \subseteq announce_quorums'[b]
           /\ \A m \in msgs : m.type = "Res" /\ m.cmd = b =>
                 \/ m \in msgs'
                 \/ /\ Deliverable(m)
                    /\ [pid |-> m.src, conflicts |-> m.deps] \in announce_quorums'[b]
<1> DEFINE Kept == /\ announce_quorums[b] \subseteq announce_quorums'[b]
                   /\ \A m \in msgs : m.type = "Res" /\ m.cmd = b =>
                         \/ m \in msgs'
                         \/ /\ Deliverable(m)
                            /\ [pid |-> m.src, conflicts |-> m.deps] \in announce_quorums'[b]
<1>1. ASSUME NEW c \in Cmd, Announce(c) PROVE Kept
  BY <1>1 DEF Announce
<1>2. ASSUME NEW n \in msgs, HandleReq(n) PROVE Kept
  BY <1>2 DEF HandleReq, Deliver, owners
<1>3. ASSUME NEW c \in Cmd, NEW R \in SUBSET Res, Ends(c, R) PROVE Kept
  <2>1. PICK kept \in SUBSET msgs : /\ QuorumReady(c, R, kept)
                                    /\ \A m \in msgs : m.cmd # c => m \in kept
    BY <1>3 DEF Ends
  <2>2. c # b /\ announce_quorums'[b] = announce_quorums[b]
    BY <2>1 DEF QuorumReady, CloseAnnouncement, Basics, TypeOK
  <2>3. kept \subseteq msgs'
    BY <2>1 DEF QuorumReady, Decide, Propose
  <2> QED
    BY <2>1, <2>2, <2>3
<1>4. ASSUME NEW n \in msgs, Collects(n) PROVE Kept
  <2>1. announce_quorums'[b] = announce_quorums[b] \cup
           (IF b = n.cmd THEN {[pid |-> n.src, conflicts |-> n.deps]} ELSE {})
    BY <1>4 DEF Collects, Basics, TypeOK
  <2> QED
    BY <1>4, <2>1 DEF Collects
<1>5. ASSUME NEW n \in msgs, HandleCommit(n) PROVE Kept
  BY <1>5 DEF HandleCommit, Deliver, owners
<1>6. ASSUME NEW c \in Cmd, Finishes(c) PROVE Kept
  BY <1>6 DEF Finishes, Decide
<1>7. CASE Idles
  BY <1>7 DEF Idles
<1> QED
  BY <1>1, <1>2, <1>3, <1>4, <1>5, <1>6, <1>7, StepKinds

LEMMA SeesGrows ==
    ASSUME Basics, [Next]_vars, NEW b \in pending, b \in pending',
           NEW a, NEW p \in Replica, Sees(b, a, p)
    PROVE  Sees(b, a, p)'
<1>1. Grows /\ Owner[b] \in Replica
  BY StepGrows, ProtocolAssumption DEF Basics, TypeOK
<1>2. Settled(decidedDeps, a, Learned(Owner[b])) => Settled(decidedDeps, a, Learned(Owner[b]))'
  BY <1>1, LearnedGrows
<1>3. CASE \E r \in announce_quorums[b] :
              r.pid = p /\ (a \in r.conflicts \/ Settled(decidedDeps, a, Learned(Owner[b])))
  BY <1>2, <1>3, AnswersKept DEF Sees
<1>4. ASSUME NEW m \in msgs, m.type = "Res", m.cmd = b, m.src = p,
             a \in m.deps \/ Settled(decidedDeps, a, Known(m))
      PROVE  Sees(b, a, p)'
  <2>1. /\ Known(m) \subseteq decided /\ Known(m) \subseteq Known(m)'
        /\ Deliverable(m) => Known(m) = Learned(Owner[b])
    BY <1>1, <1>4, KnownGrows DEF Basics, Truthful, TruthOf
  <2>2. Settled(decidedDeps, a, Known(m)) => Settled(decidedDeps, a, Known(m))'
    BY <1>1, <2>1, SettledGrows
  <2>3. CASE m \in msgs'
    BY <1>4, <2>2, <2>3 DEF Sees
  <2>4. CASE /\ Deliverable(m)
             /\ [pid |-> m.src, conflicts |-> m.deps] \in announce_quorums'[b]
    <3>1. a \in m.deps \/ Settled(decidedDeps, a, Learned(Owner[b]))'
      BY <1>2, <1>4, <2>1, <2>4
    <3> QED
      BY <1>4, <2>4, <3>1 DEF Sees
  <2> QED
    BY <1>4, <2>3, <2>4, AnswersKept
<1> QED
  BY <1>3, <1>4 DEF Sees

\* A replica that has a names it in its answer to the announcement of b, unless
\* a is stable there: then it is settled for whoever learns what the replica
\* had learned (submit forgets what is stable).
LEMMA AnswerSees ==
    ASSUME Basics, Causal, NEW m \in msgs, HandleReq(m), m.cmd \in pending,
           NEW a \in Cmd, KeyOf[a] = KeyOf[m.cmd], Visible(m.dst, a)
    PROVE  Sees(m.cmd, a, m.dst)'
<1> DEFINE p == m.dst
           b == m.cmd
           D == Conflicts(log[p], b)
           N == Sent("Res", p, {m.src}, b, D)
<1>1. /\ p \in Replica /\ b \in Cmd /\ {m.src} \in SUBSET Replica
      /\ log[p] \in Log /\ IndexExact(log[p]) /\ KeyOf[b] \in Key
      /\ b \notin log[p].stable
  BY KeyAssumption DEF Basics, TypeOK, Message, LogsSound, Stages, Concluded, Learned
<1>2. D \in SUBSET Cmd
  BY <1>1 DEF Conflicts, Log
<1>3. PICK n \in N : n.type = "Res" /\ n.cmd = b /\ n.src = p /\ n.deps = D /\ n.dst \in Replica
  <2>1. \A n \in N : n.type = "Res" /\ n.cmd = b /\ n.src = p /\ n.deps = D /\ n.dst = m.src
    BY DEF Sent
  <2>2. \E n : n \in N
    BY DEF Sent
  <2> QED
    BY <1>1, <2>1, <2>2
<1>4. Learned(p) \subseteq Known(n)
  BY <1>1, <1>2, <1>3, SentMessages DEF Basics, TypeOK
<1>5. n \in msgs'
  BY <1>3 DEF HandleReq, Deliver
<1>6. CASE log[p].entries[a].cmd
  <2>1. a \in D
    BY <1>1, <1>6 DEF Conflicts, IndexExact
  <2> QED
    BY <1>3, <1>5, <2>1 DEF Sees
<1>7. CASE a \in log[p].applied
  <2>1. a \in log[p].stable
    BY <1>1, <1>7 DEF IndexExact
  <2>2. \A q \in Replica : Learned(q)' = Learned(q)
    BY BodyGrows
  <2>3. Known(n)' = Known(n) /\ decidedDeps' = decidedDeps
    BY <1>3, <2>2 DEF Known, HandleReq, records
  <2>4. Settled(decidedDeps, a, Known(n))
    BY <1>1, <1>4, <2>1, StableIsSettled
  <2>5. Settled(decidedDeps, a, Known(n))'
    BY <2>3, <2>4 DEF Settled
  <2> QED
    BY <1>3, <1>5, <2>5 DEF Sees
<1> QED
  BY <1>6, <1>7 DEF Visible

-----------------------------------------------------------------------------
\* Announcements meet.

\* What the answers that end an announcement see is among the dependencies or
\* settled at the owner.
LEMMA EndSees ==
    ASSUME Basics, NEW c \in pending, NEW R, Gathered(c, R), NEW a, NEW p \in Responders(R),
           Sees(c, a, p)
    PROVE  a \in UnionDeps(R) \/ Settled(decidedDeps, a, Learned(Owner[c]))
<1>1. PICK r \in R : r.pid = p
  BY DEF Responders
<1>2. c \in Cmd
  BY DEF Basics, TypeOK
<1>3. CASE \E s \in announce_quorums[c] :
              s.pid = p /\ (a \in s.conflicts \/ Settled(decidedDeps, a, Learned(Owner[c])))
  BY <1>3 DEF Gathered, UnionDeps
<1>4. ASSUME NEW m \in msgs, m.type = "Res", m.cmd = c, m.src = p,
             a \in m.deps \/ Settled(decidedDeps, a, Known(m))
      PROVE  a \in UnionDeps(R) \/ Settled(decidedDeps, a, Learned(Owner[c]))
  <2>1. Asks(m, c) /\ Answerer(m) = p
    BY <1>4 DEF Asks, Answerer
  <2>2. r \notin announce_quorums[c]
    BY <1>1, <1>2, <2>1 DEF Basics, AnswersOnce, Responders
  <2>3. PICK n \in msgs : /\ n.type = "Res" /\ n.cmd = c /\ Deliverable(n)
                          /\ n.src = r.pid /\ n.deps = r.conflicts
    BY <2>2 DEF Gathered
  <2>4. Asks(n, c) /\ Answerer(n) = p
    BY <1>1, <2>3 DEF Asks, Answerer
  <2>5. n = m
    BY <1>2, <2>1, <2>4 DEF Basics, AnswersOnce
  <2>6. Known(m) = Learned(Owner[c])
    BY <1>4, <2>3, <2>5 DEF Known, Deliverable, Basics, Truthful, TruthOf
  <2> QED
    BY <1>4, <2>3, <2>5, <2>6 DEF UnionDeps
<1> QED
  BY <1>3, <1>4 DEF Sees

LEMMA EndDeps ==
    ASSUME Basics, NEW c \in Cmd, NEW R \in SUBSET Res, Ends(c, R)
    PROVE  Deps(c)' = UnionDeps(R) /\ pending' = pending \ {c}
<1>1. c \notin decided
  BY DEF Ends, Basics, Stages, Concluded
<1> QED
  BY <1>1 DEF Ends, QuorumReady, CloseAnnouncement, Decide, Propose, Deps, Basics, TypeOK

LEMMA PendingMeetStep ==
    ASSUME Basics, KnownToEnough, PendingMeet, Causal, [Next]_vars
    PROVE  PendingMeet'
<1> SUFFICES ASSUME NEW a \in pending', NEW b \in pending', NEW p \in Replica,
                    Conflict(a, b), Answered(a, p)', Answered(b, p)'
             PROVE  Sees(a, b, p)' \/ Sees(b, a, p)'
  BY DEF PendingMeet, Conflict
<1>1. CASE a \in pending /\ b \in pending /\ Answered(a, p) /\ Answered(b, p)
  BY <1>1, SeesGrows DEF PendingMeet
<1>2. ASSUME NEW m \in msgs, HandleReq(m),
             \A c \in pending', q \in Replica : Answered(c, q)' =>
                c \in pending /\ (Answered(c, q) \/ (c = m.cmd /\ q = m.dst))
      PROVE  Sees(a, b, p)' \/ Sees(b, a, p)'
  <2>1. /\ a \in pending /\ (Answered(a, p) \/ (a = m.cmd /\ p = m.dst))
        /\ b \in pending /\ (Answered(b, p) \/ (b = m.cmd /\ p = m.dst))
        /\ a \in Cmd /\ b \in Cmd
    BY <1>2 DEF Basics, TypeOK
  <2>2. CASE Answered(a, p) /\ b = m.cmd /\ p = m.dst
    BY <1>2, <2>1, <2>2, AnswerSees DEF KnownToEnough, Conflict
  <2>3. CASE Answered(b, p) /\ a = m.cmd /\ p = m.dst
    BY <1>2, <2>1, <2>3, AnswerSees DEF KnownToEnough, Conflict
  <2>4. a # b
    BY DEF Conflict
  <2> QED
    BY <1>1, <2>1, <2>2, <2>3, <2>4
<1> QED
  BY <1>1, <1>2, AnswersGrow

LEMMA ConcludedMeetStep ==
    ASSUME Basics, KnownToEnough, PendingMeet, ConcludedMeet, Causal, [Next]_vars
    PROVE  ConcludedMeet'
<1> SUFFICES ASSUME NEW a \in Cmd, Concluded(a)'
             PROVE  \E S \in SUBSET Replica :
                       /\ Enough(S)
                       /\ \A p \in S :
                             /\ Visible(p, a)'
                             /\ \A b \in pending' : Conflict(a, b) /\ Answered(b, p)' =>
                                   b \in Deps(a)' \/ Sees(b, a, p)'
  BY DEF ConcludedMeet, Conflict, Enough
<1>1. Grows
  BY StepGrows
<1>2. CASE Concluded(a)
  <2>1. PICK S \in SUBSET Replica :
           /\ Enough(S)
           /\ \A p \in S : /\ Visible(p, a)
                           /\ \A b \in pending : Conflict(a, b) /\ Answered(b, p) =>
                                 b \in Deps(a) \/ Sees(b, a, p)
    BY <1>2 DEF ConcludedMeet
  <2>2. Deps(a)' = Deps(a)
    BY <1>2, StaysConcluded
  <2>3. ASSUME NEW p \in S, NEW b \in pending', Conflict(a, b), Answered(b, p)'
        PROVE  b \in Deps(a) \/ Sees(b, a, p)'
    <3>1. CASE b \in pending /\ Answered(b, p)
      BY <2>1, <2>3, <3>1, SeesGrows
    <3>2. ASSUME NEW m \in msgs, HandleReq(m), b \in pending, b = m.cmd, p = m.dst
          PROVE  Sees(b, a, p)'
      BY <2>1, <2>3, <3>2, AnswerSees DEF Conflict
    <3> QED
      BY <2>3, <3>1, <3>2, AnswersGrow
  <2>4. \A p \in S : Visible(p, a)'
    BY <1>1, <2>1 DEF Grows
  <2> QED
    BY <2>1, <2>2, <2>3, <2>4
<1>3. ASSUME NEW R \in SUBSET Res, Ends(a, R)
      PROVE  \E S \in SUBSET Replica :
                       /\ Enough(S)
                       /\ \A p \in S :
                             /\ Visible(p, a)'
                             /\ \A b \in pending' : Conflict(a, b) /\ Answered(b, p)' =>
                                   b \in Deps(a)' \/ Sees(b, a, p)'
  <2> DEFINE S == Responders(R)
  <2>1. a \in pending /\ Gathered(a, R)
    BY <1>3 DEF Ends
  <2>2. S \in SUBSET Replica /\ Enough(S) /\ \A p \in S : Answered(a, p) /\ Visible(p, a)
    BY <2>1, AnsweredKnown DEF Gathered
  <2>3. Deps(a)' = UnionDeps(R) /\ pending' = pending \ {a}
    BY <1>3, EndDeps
  <2>4. ASSUME NEW p \in S, NEW b \in pending', Conflict(a, b), Answered(b, p)'
        PROVE  b \in UnionDeps(R) \/ Sees(b, a, p)'
    <3>1. b \in pending /\ Answered(b, p)
      <4>1. ASSUME NEW m \in msgs, HandleReq(m) PROVE FALSE
        BY <2>1, <2>3, <4>1 DEF HandleReq, owners
      <4> QED
        BY <2>2, <2>4, <4>1, AnswersGrow
    <3>2. CASE Sees(b, a, p)
      BY <2>2, <3>1, <3>2, SeesGrows
    <3>3. CASE Sees(a, b, p)
      <4>1. b \in UnionDeps(R) \/ Settled(decidedDeps, b, Learned(Owner[a]))
        BY <2>1, <3>3, EndSees
      <4>2. ~Settled(decidedDeps, b, Learned(Owner[a]))
        BY <3>1, ProtocolAssumption DEF Settled, Basics, LogsSound, Stages, Concluded
      <4> QED
        BY <4>1, <4>2
    <3> QED
      BY <2>1, <2>2, <2>4, <3>1, <3>2, <3>3 DEF PendingMeet
  <2>5. \A p \in S : Visible(p, a)'
    BY <1>1, <2>2 DEF Grows
  <2> QED
    BY <2>2, <2>3, <2>4, <2>5
<1> QED
  BY <1>2, <1>3, NewlyConcluded


-----------------------------------------------------------------------------
\* Commands that do not depend on each other are ordered all the same.

\* The decision on b finds a settled at the owner of b.
LEMMA DecideBefore ==
    ASSUME Basics, Causal, NEW b \in Cmd, b \notin decided, NEW D \in SUBSET Cmd,
           NEW kept \in SUBSET msgs, Decide(b, D, kept), UNCHANGED submitted,
           NEW a \in Cmd, Settled(decidedDeps, a, Learned(Owner[b]))
    PROVE  Before(a, b)'
<1> DEFINE o == Owner[b]
<1>1. /\ o \in Replica /\ a \in log[o].stable /\ Replica \ {o} \in SUBSET Replica
      /\ log \in [Replica -> Log]
  BY SettledIsStable, ProtocolAssumption DEF Basics, TypeOK
<1>2. /\ Grows
      /\ \A q \in Replica : Learned(q)' = Learned(q) \cup (IF q = o THEN {b} ELSE {})
  BY DecideLearns
<1>3. \A q \in Replica : Learned(q) \subseteq decided
  BY DEF Basics, LogsSound
<1>4. ~Precedes(log[o].executed, b, a)
  <2>1. SUFFICES ASSUME Precedes(log[o].executed, b, a) PROVE FALSE
    OBVIOUS
  <2>2. b \in Range(log[o].executed)
    BY <2>1 DEF Precedes, Range
  <2> QED
    BY <1>1, <1>3, <2>2 DEF Basics, LogsSound, IndexExact, Learned
<1>5. ASSUME NEW p \in Replica, b \in Learned(p)'
      PROVE  a \in log'[p].stable /\ ~Precedes(log'[p].executed, b, a)
  <2>1. p = o
    BY <1>2, <1>3, <1>5
  <2> QED
    BY <1>1, <1>2, <1>4, <2>1 DEF Grows
<1>6. ASSUME NEW m \in msgs', m.type = "Commit", m.cmd = b
      PROVE  Settled(decidedDeps, a, Known(m))'
  <2>1. m \notin kept
    BY <1>6 DEF Basics, Truthful, TruthOf
  <2>2. m \in Sent("Commit", o, Replica \ {o}, b, D)
    BY <2>1 DEF Decide
  <2>3. m.dst \in Replica /\ Learned(o) \subseteq Known(m)
    <3>1. Sent("Commit", o, Replica \ {o}, b, D) \subseteq Message
      BY <1>1, SentMessages
    <3>2. \A n \in Sent("Commit", o, Replica \ {o}, b, D) : Learned(o) \subseteq Known(n)
      BY <1>1, SentMessages
    <3> QED
      BY <2>2, <3>1, <3>2 DEF Message
  <2>4. Learned(o) \in SUBSET decided /\ Learned(o) \subseteq Known(m)'
    BY <1>1, <1>2, <1>3, <2>3 DEF Known
  <2> QED
    BY <1>2, <2>4, SettledGrows
<1> QED
  BY <1>5, <1>6 DEF Before

\* Only the delivery of a Commit message tells a replica of an old decision.
LEMMA NewlyLearned ==
    ASSUME Basics, [Next]_vars, NEW b \in decided, NEW p \in Replica,
           b \in Learned(p)', b \notin Learned(p)
    PROVE  \E m \in msgs : /\ HandleCommit(m) /\ Deliverable(m)
                           /\ m.dst = p /\ m.cmd = b
<1>1. ASSUME \A q \in Replica : Learned(q)' = Learned(q) PROVE FALSE
  BY <1>1
<1>2. CASE (\E c \in Cmd : Announce(c)) \/ (\E m \in msgs : HandleReq(m))
  BY <1>1, <1>2, BodyGrows
<1>3. ASSUME NEW c \in Cmd, c \notin decided, NEW D \in SUBSET Cmd, NEW kept,
             Decide(c, D, kept), UNCHANGED submitted
      PROVE  FALSE
  <2>1. Learned(p)' = Learned(p) \cup (IF p = Owner[c] THEN {c} ELSE {})
    BY <1>3, DecideLearns
  <2> QED
    BY <1>3, <2>1
<1>4. ASSUME NEW c \in Cmd, NEW R \in SUBSET Res, Ends(c, R) PROVE FALSE
  <2>1. c \notin decided /\ UnionDeps(R) \in SUBSET Cmd
    BY <1>4 DEF Ends, Basics, Stages, Concluded, UnionDeps, Res
  <2>2. ASSUME UNCHANGED <<log, decided, decidedDeps>> PROVE FALSE
    BY <1>1, <2>2, LogsStay DEF Basics
  <2> QED
    BY <1>3, <1>4, <2>1, <2>2 DEF Ends, QuorumReady
<1>5. ASSUME NEW c \in Cmd, Finishes(c) PROVE FALSE
  BY <1>3, <1>5 DEF Finishes, Basics, TypeOK, Stages, Instance
<1>6. CASE Idles \/ \E m \in msgs : Collects(m)
  BY <1>1, <1>6, LogsStay DEF Idles, Collects, records, Basics
<1>7. ASSUME NEW m \in msgs, HandleCommit(m), Deliverable(m)
      PROVE  m.dst = p /\ m.cmd = b
  BY <1>7, CommitLearnsOne
<1> QED
  BY <1>2, <1>4, <1>5, <1>6, <1>7, StepKinds

\* ... and nobody sends one for it.
LEMMA NoNewCommit ==
    ASSUME Basics, [Next]_vars, NEW m \in msgs', m \notin msgs, m.type = "Commit"
    PROVE  m.cmd \notin decided
<1>1. ASSUME NEW c \in Cmd, Announce(c) PROVE FALSE
  BY <1>1 DEF Announce, Sent
<1>2. ASSUME NEW n \in msgs, HandleReq(n) PROVE FALSE
  BY <1>2 DEF HandleReq, Deliver, Sent
<1>3. ASSUME NEW c \in Cmd, c \notin decided, NEW D, NEW kept \in SUBSET msgs, Decide(c, D, kept)
      PROVE  m.cmd \notin decided
  BY <1>3 DEF Decide, Sent
<1>4. ASSUME NEW c \in Cmd, NEW R \in SUBSET Res, Ends(c, R) PROVE m.cmd \notin decided
  <2>1. PICK kept \in SUBSET msgs : QuorumReady(c, R, kept)
    BY <1>4 DEF Ends
  <2>2. c \notin decided
    BY <1>4 DEF Ends, Basics, Stages, Concluded
  <2>3. ~Propose(c, UnionDeps(R), kept)
    BY DEF Propose, Sent
  <2> QED
    BY <1>3, <2>1, <2>2, <2>3 DEF QuorumReady
<1>5. ASSUME NEW c \in Cmd, Finishes(c) PROVE m.cmd \notin decided
  BY <1>3, <1>5 DEF Finishes, Basics, Stages
<1>6. ~Idles
  BY DEF Idles
<1>7. ASSUME NEW n \in msgs, Collects(n) \/ HandleCommit(n) PROVE FALSE
  BY <1>7 DEF Collects, HandleCommit, Deliver
<1> QED
  BY <1>1, <1>2, <1>4, <1>5, <1>6, <1>7, StepKinds

LEMMA BeforeStays ==
    ASSUME Basics, [Next]_vars, NEW a \in Cmd, NEW b \in decided, Before(a, b)
    PROVE  Before(a, b)'
<1>1. Grows /\ b \in Cmd
  BY StepGrows DEF Basics, TypeOK
<1>2. ASSUME NEW p \in Replica, b \in Learned(p)'
      PROVE  a \in log[p].stable /\ ~Precedes(log[p].executed, b, a)
  <2>1. CASE b \in Learned(p)
    BY <2>1 DEF Before
  <2>2. CASE b \notin Learned(p)
    <3>1. PICK m \in msgs : /\ HandleCommit(m) /\ Deliverable(m)
                            /\ m.dst = p /\ m.cmd = b
      BY <1>2, <2>2, NewlyLearned
    <3>2. Settled(decidedDeps, a, Learned(p))
      BY <1>1, <3>1, KnownGrows DEF HandleCommit, Before
    <3>3. ~Precedes(log[p].executed, b, a)
      <4>1. SUFFICES ASSUME Precedes(log[p].executed, b, a) PROVE FALSE
        OBVIOUS
      <4>2. b \in Range(log[p].executed)
        BY <4>1 DEF Precedes, Range
      <4> QED
        BY <2>2, <4>2 DEF Basics, LogsSound, IndexExact, Learned
    <3> QED
      BY <3>2, <3>3, SettledIsStable
  <2> QED
    BY <2>1, <2>2
<1>3. \A p \in Replica : b \in Learned(p)' =>
         a \in log'[p].stable /\ ~Precedes(log'[p].executed, b, a)
  BY <1>1, <1>2 DEF Grows
<1>4. ASSUME NEW m \in msgs', m.type = "Commit", m.cmd = b
      PROVE  Settled(decidedDeps, a, Known(m))'
  <2>1. m \in msgs
    BY <1>4, NoNewCommit
  <2>2. /\ Known(m) \in SUBSET decided /\ Known(m) \subseteq Known(m)'
        /\ Settled(decidedDeps, a, Known(m))
    BY <1>1, <1>4, <2>1, KnownGrows DEF Before
  <2> QED
    BY <1>1, <2>2, SettledGrows
<1> QED
  BY <1>3, <1>4 DEF Before

LEMMA CoversStay ==
    ASSUME Basics, Causal, [Next]_vars, NEW a \in Cmd, NEW b \in Cmd, Concluded(b), Covers(b, a)
    PROVE  Covers(b, a)'
<1>1. Concluded(b)' /\ Deps(b)' = Deps(b) /\ Grows /\ Owner[b] \in Replica
  BY StaysConcluded, StepGrows, ProtocolAssumption
<1>2. CASE a \in Deps(b)
  BY <1>1, <1>2 DEF Covers
<1>3. CASE b \in decided /\ Before(a, b)
  BY <1>1, <1>3, BeforeStays DEF Covers, Grows
<1>4. CASE b \notin decided /\ Settled(decidedDeps, a, Learned(Owner[b]))
  <2>1. CASE b \notin decided'
    BY <1>1, <1>4, <2>1, LearnedGrows DEF Covers
  <2>2. CASE b \in decided'
    <3>1. ASSUME NEW c \in Cmd, NEW D, NEW kept, Decide(c, D, kept) PROVE c = b
      BY <1>4, <2>2, <3>1 DEF Decide
    <3>2. ASSUME NEW D \in SUBSET Cmd, NEW kept \in SUBSET msgs,
                 Decide(b, D, kept), UNCHANGED submitted
          PROVE  Before(a, b)'
      BY <1>4, <3>2, DecideBefore
    <3>3. ASSUME NEW c \in Cmd, NEW R \in SUBSET Res, Ends(c, R) PROVE Before(a, b)'
      <4>1. UnionDeps(R) \in SUBSET Cmd
        BY DEF UnionDeps, Res
      <4> QED
        BY <1>4, <2>2, <3>1, <3>2, <3>3, <4>1 DEF Ends, QuorumReady
    <3>4. ASSUME NEW c \in Cmd, Finishes(c) PROVE Before(a, b)'
      BY <3>1, <3>2, <3>4 DEF Finishes, Basics, TypeOK, Instance
    <3>5. UNCHANGED decided => FALSE
      BY <1>4, <2>2
    <3>6. Before(a, b)'
      BY <3>3, <3>4, <3>5, StepKinds DEF Announce, HandleReq, Collects, HandleCommit, Idles, records
    <3> QED
      BY <2>2, <3>6 DEF Covers
  <2> QED
    BY <2>1, <2>2
<1> QED
  BY <1>2, <1>3, <1>4 DEF Covers

-----------------------------------------------------------------------------
\* Of two conflicting commands one covers the other.

\* Two quorums have a replica in common.
QuorumsMeet ==
    \A S, T \in SUBSET Replica : IsQuorum(S) /\ IsQuorum(T) => S \cap T # {}

LEMMA EnoughMeet ==
    ASSUME QuorumsMeet, NEW c \in Cmd, NEW S \in SUBSET Replica, NEW T \in SUBSET Replica,
           Enough(S), Enough(T)
    PROVE  \E q \in S : q \in T
BY ProtocolAssumption DEF QuorumsMeet, Enough

\* An announcement that ends finds a conflicting command whose announcement
\* is over, or is found in its dependencies.
LEMMA CoversEnd ==
    ASSUME Basics, KnownToEnough, ConcludedMeet, Causal, QuorumsMeet, [Next]_vars,
           NEW a \in Cmd, NEW b \in Cmd, Conflict(a, b), Concluded(a),
           NEW R \in SUBSET Res, Ends(b, R)
    PROVE  Covers(a, b)' \/ Covers(b, a)'
<1>1. /\ b \in pending /\ Gathered(b, R) /\ b \notin decided
      /\ Deps(b)' = UnionDeps(R) /\ UnionDeps(R) \in SUBSET Cmd
  BY EndDeps DEF Ends, Basics, Stages, Concluded, UnionDeps, Res
<1>2. PICK S \in SUBSET Replica :
         /\ Enough(S)
         /\ \A p \in S : Answered(b, p) => b \in Deps(a) \/ Sees(b, a, p)
  BY <1>1 DEF ConcludedMeet
<1>3. Responders(R) \in SUBSET Replica /\ \A p \in Responders(R) : Answered(b, p)
  BY <1>1, AnsweredKnown
<1>4. PICK q \in S : q \in Responders(R)
  BY <1>1, <1>2, <1>3, EnoughMeet DEF Gathered
<1>5. CASE b \in Deps(a)
  BY <1>5, CoversStay DEF Covers
<1>6. CASE a \in UnionDeps(R)
  BY <1>1, <1>6 DEF Covers
<1>7. CASE Settled(decidedDeps, a, Learned(Owner[b]))
  <2>1. PICK kept \in SUBSET msgs : QuorumReady(b, R, kept) /\ UNCHANGED submitted
    BY DEF Ends
  <2>2. CASE Decide(b, UnionDeps(R), kept)
    <3>1. Before(a, b)'
      BY <1>1, <1>7, <2>1, <2>2, DecideBefore
    <3>2. b \in decided'
      BY <2>2 DEF Decide
    <3> QED
      BY <3>1, <3>2 DEF Covers
  <2>3. CASE UNCHANGED <<log, decided, decidedDeps>>
    <3>1. Settled(decidedDeps, a, Learned(Owner[b]))'
      BY <1>7, StepGrows, LearnedGrows, ProtocolAssumption
    <3>2. b \notin decided'
      BY <1>1, <2>3
    <3> QED
      BY <3>1, <3>2 DEF Covers
  <2> QED
    BY <2>1, <2>2, <2>3 DEF QuorumReady
<1>8. a \in UnionDeps(R) \/ Settled(decidedDeps, a, Learned(Owner[b])) \/ b \in Deps(a)
  BY <1>1, <1>2, <1>3, <1>4, EndSees
<1> QED
  BY <1>5, <1>6, <1>7, <1>8

LEMMA ConflictsCoveredStep ==
    ASSUME Basics, KnownToEnough, ConcludedMeet, ConflictsCovered, Causal, QuorumsMeet,
           [Next]_vars
    PROVE  ConflictsCovered'
<1> SUFFICES ASSUME NEW a \in Cmd, NEW b \in Cmd, Conflict(a, b), Concluded(a)', Concluded(b)'
             PROVE  Covers(a, b)' \/ Covers(b, a)'
  BY DEF ConflictsCovered, Conflict
<1>1. Conflict(b, a)
  BY DEF Conflict
<1>2. CASE Concluded(a) /\ Concluded(b)
  BY <1>2, CoversStay DEF ConflictsCovered
<1>3. CASE Concluded(a) /\ ~Concluded(b)
  BY <1>3, NewlyConcluded, CoversEnd
<1>4. CASE ~Concluded(a) /\ Concluded(b)
  BY <1>1, <1>4, NewlyConcluded, CoversEnd
<1>5. CASE ~Concluded(a) /\ ~Concluded(b)
  <2>1. PICK R \in SUBSET Res : Ends(a, R)
    BY <1>5, NewlyConcluded
  <2>2. PICK T \in SUBSET Res : Ends(b, T)
    BY <1>5, NewlyConcluded
  <2>3. pending' = pending \ {a} /\ pending' = pending \ {b} /\ a \in pending /\ a # b
    BY <2>1, <2>2, EndDeps DEF Ends, Conflict
  <2> QED
    BY <2>3
<1> QED
  BY <1>2, <1>3, <1>4, <1>5

LEMMA MeetInit == Init => PendingMeet /\ ConcludedMeet /\ ConflictsCovered
<1> SUFFICES ASSUME Init PROVE PendingMeet /\ ConcludedMeet /\ ConflictsCovered
  OBVIOUS
<1>1. pending = {} /\ \A c \in Cmd : ~Concluded(c)
  BY DEF Init, Concluded, NoInstance
<1> QED
  BY <1>1 DEF PendingMeet, ConcludedMeet, ConflictsCovered

-----------------------------------------------------------------------------
\* The logs, seen as the abstract order of execution.

RP == INSTANCE ReplicasProofs

DO == INSTANCE ExecutionProofs
          WITH order <- [p \in Replica |-> log[p].executed],
               learned <- [p \in Replica |-> log[p].pending_commit \cup log[p].stable]

\* The instances of the proofs speak of the same steps.
LEMMA SameCommits == \A l, c, D : RP!CommitOutcomes(l, c, D) = Logs!CommitOutcomes(l, c, D)
<1>1. \A l, c, D : RP!MarkCommitted(l, c, D) = Logs!MarkCommitted(l, c, D)
  BY DEF Logs!MarkCommitted, RP!MarkCommitted
<1>2. \A l : RP!NewlyStable(l) = Logs!NewlyStable(l) /\ RP!DepsOf(l) = Logs!DepsOf(l)
  BY DEF Logs!NewlyStable, Logs!IsDepsClosureCommitted, Logs!CommittedIds, Logs!DepsOf,
         RP!NewlyStable, RP!IsDepsClosureCommitted, RP!CommittedIds, RP!DepsOf
<1>3. \A l, s : RP!Promote(l, s) = Logs!Promote(l, s)
  BY DEF Logs!Promote, Logs!NoEntry, Logs!Range, RP!Promote, RP!NoEntry, RP!Range
<1>4. \A G, B : RP!ExecutionOrders(G, B) = Logs!ExecutionOrders(G, B)
  <2>1. \A G, B, x, y : RP!Reaches(G, B, x, y) <=> Logs!Reaches(G, B, x, y)
    BY DEF Logs!Reaches, Logs!ClosedIn, RP!Reaches, RP!ClosedIn
  <2>2. \A S, T : RP!Bijection(S, T) = Logs!Bijection(S, T)
    BY DEF Logs!Bijection, Logs!Injection, Logs!Surjection, Logs!IsInjective,
           RP!Bijection, RP!Injection, RP!Surjection, RP!IsInjective
  <2>3. \A B : RP!Cardinality(B) = Logs!Cardinality(B)
    BY DEF Logs!Cardinality, Logs!IsFiniteSet, RP!Cardinality, RP!IsFiniteSet
  <2> QED
    BY <2>1, <2>2, <2>3 DEF Logs!ExecutionOrders, RP!ExecutionOrders
<1> QED
  BY <1>1, <1>2, <1>3, <1>4 DEF Logs!CommitOutcomes, RP!CommitOutcomes

LEMMA SameSteps ==
    /\ Logs!Init => RP!Init
    /\ [Logs!Next]_Logs!vars => [RP!Next]_RP!vars
<1>1. Logs!Init => RP!Init
  BY DEF Logs!Init, RP!Init, Logs!EmptyLog, RP!EmptyLog, Logs!NoEntry, RP!NoEntry
<1>2. UNCHANGED Logs!vars => UNCHANGED RP!vars
  BY DEF Logs!vars, RP!vars
<1>3. /\ \A l, c : Logs!RecordCreation(l, c) = RP!RecordCreation(l, c)
      /\ \A l, c : Logs!Submit(l, c) = RP!Submit(l, c)
  BY DEF Logs!RecordCreation, RP!RecordCreation, Logs!Submit, RP!Submit
<1>4. Logs!Next => RP!Next
  BY <1>3, SameCommits
     DEF Logs!Next, Logs!Create, Logs!Receive, Logs!Decide, Logs!Learn, Logs!Commit,
         RP!Next, RP!Create, RP!Receive, RP!Decide, RP!Learn, RP!Commit
<1> QED
  BY <1>1, <1>2, <1>4

LEMMA SameOrders ==
    /\ RP!Abstract!Init => DO!Init
    /\ [RP!Abstract!Next]_RP!Abstract!vars => [DO!Next]_DO!vars
<1>1. RP!Abstract!Init => DO!Init
  BY DEF RP!Abstract!Init, DO!Init, RP!order
<1>2. UNCHANGED RP!Abstract!vars => UNCHANGED DO!vars
  BY DEF RP!Abstract!vars, DO!vars, RP!order
<1>3. /\ \A G, B : RP!Abstract!ExecutionOrders(G, B) = DO!ExecutionOrders(G, B)
      /\ \A f : RP!Abstract!Range(f) = DO!Range(f)
  <2>1. \A G, B, x, y : RP!Abstract!Reaches(G, B, x, y) <=> DO!Reaches(G, B, x, y)
    BY DEF RP!Abstract!Reaches, RP!Abstract!ClosedIn, DO!Reaches, DO!ClosedIn
  <2>2. \A S, T : RP!Abstract!Bijection(S, T) = DO!Bijection(S, T)
    BY DEF RP!Abstract!Bijection, RP!Abstract!Injection, RP!Abstract!Surjection,
           RP!Abstract!IsInjective, DO!Bijection, DO!Injection, DO!Surjection, DO!IsInjective
  <2>3. \A B : RP!Abstract!Cardinality(B) = DO!Cardinality(B)
    BY DEF RP!Abstract!Cardinality, RP!Abstract!IsFiniteSet, DO!Cardinality, DO!IsFiniteSet
  <2>4. \A f : RP!Abstract!Range(f) = DO!Range(f)
    BY DEF RP!Abstract!Range, DO!Range
  <2> QED
    BY <2>1, <2>2, <2>3, <2>4 DEF RP!Abstract!ExecutionOrders, DO!ExecutionOrders
<1>4. \A p, B : RP!Abstract!Execute(p, B) => DO!Execute(p, B)
  BY <1>3 DEF RP!order, RP!Abstract!Execute, DO!Execute
<1>5. RP!Abstract!Next => DO!Next
  BY <1>4 DEF RP!Abstract!Next, RP!Abstract!Decide, RP!Abstract!Learn,
              DO!Next, DO!Decide, DO!Learn
<1> QED
  BY <1>1, <1>2, <1>5

LEMMA LogsOrder == Spec => []DO!SameOrder
<1>1. Cmd \subseteq Nat /\ RP!IsFiniteSet(Cmd)
  BY CmdAssumption DEF IsFiniteSet, RP!IsFiniteSet
<1>2. Cmd \subseteq Nat /\ DO!IsFiniteSet(Cmd)
  BY CmdAssumption DEF IsFiniteSet, DO!IsFiniteSet
<1>3. KeyOf \in [Cmd -> Key]
  BY KeyAssumption
<1>4. RP!Spec => RP!ImplementsDependencyOrder
  BY <1>1, <1>3, RP!LogsImplementOrder
<1>5. DO!Spec => []DO!SameOrder
  BY <1>2, DO!SameOrderHolds
<1>6. ImplementsReplicas => RP!Spec
  BY SameSteps, PTL DEF ImplementsReplicas, Logs!Spec, RP!Spec
<1>7. RP!ImplementsDependencyOrder => DO!Spec
  BY SameOrders, PTL DEF RP!ImplementsDependencyOrder, RP!Abstract!Spec, DO!Spec
<1> QED
  BY <1>4, <1>5, <1>6, <1>7, Refinement, PTL

-----------------------------------------------------------------------------

\* Commands on one key are executed in the same order by all replicas: of any
\* number of them, with any owners, network delays and force timers, as long
\* as latencies are causal and two quorums have a replica in common.
THEOREM ConflictOrderHolds ==
    ASSUME Causal, QuorumsMeet
    PROVE  Spec => []ConflictOrder
<1>1. Basics /\ ConflictsCovered /\ DO!SameOrder => ConflictOrder
  <2> SUFFICES ASSUME Basics, ConflictsCovered, DO!SameOrder,
                      NEW p \in Replica, NEW q \in Replica, NEW a \in Cmd, NEW b \in Cmd,
                      KeyOf[a] = KeyOf[b],
                      Precedes(log[p].executed, a, b), Precedes(log[q].executed, b, a)
               PROVE  FALSE
    BY DEF ConflictOrder
  <2>1. ~DO!Related(a, b)
    BY DEF DO!SameOrder, DO!Precedes, Precedes
  <2>2. a # b /\ a \notin decidedDeps[b] /\ b \notin decidedDeps[a]
    BY <2>1 DEF DO!Related, DO!Reaches, DO!ClosedIn
  <2>3. a \in Learned(p) /\ b \in Learned(q)
    <3>1. a \in Range(log[p].executed) /\ b \in Range(log[q].executed)
      BY DEF Precedes, Range
    <3> QED
      BY <3>1 DEF Basics, LogsSound, IndexExact, Learned
  <2>4. a \in decided /\ b \in decided
    BY <2>3 DEF Basics, LogsSound
  <2>5. Covers(a, b) \/ Covers(b, a)
    BY <2>2, <2>4 DEF ConflictsCovered, Conflict, Concluded
  <2>6. Before(a, b) \/ Before(b, a)
    BY <2>2, <2>4, <2>5 DEF Covers, Deps
  <2> QED
    BY <2>3, <2>6 DEF Before
<1>2. Basics /\ KnownToEnough /\ PendingMeet /\ ConcludedMeet /\ ConflictsCovered /\ [Next]_vars
         => PendingMeet' /\ ConcludedMeet' /\ ConflictsCovered'
  BY PendingMeetStep, ConcludedMeetStep, ConflictsCoveredStep
<1> QED
  BY <1>1, <1>2, MeetInit, KnownInit, KnownStep, BasicsInvariant, LogsOrder, PTL DEF Spec

-----------------------------------------------------------------------------
\* Wintermute with a timeout longer than a round trip: everybody answers.

\* Each replica has answered an open announcement, or is asked, or is answering.
AllAsked ==
    \A c \in pending : \A p \in Replica :
        \/ p \in Responders(announce_quorums[c])
        \/ \E m \in msgs : Asks(m, c) /\ Answerer(m) = p

LEMMA AllAskedStep ==
    ASSUME Basics, AllAsked, Protocol # "ThreeJane", [Next]_vars
    PROVE  AllAsked'
<1> SUFFICES ASSUME NEW c \in pending', NEW p \in Replica
             PROVE  \/ p \in Responders(announce_quorums'[c])
                    \/ \E m \in msgs' : Asks(m, c) /\ Answerer(m) = p
  BY DEF AllAsked
<1> DEFINE Asked == \/ p \in Responders(announce_quorums'[c])
                    \/ \E m \in msgs' : Asks(m, c) /\ Answerer(m) = p
<1>1. ASSUME c \in pending, announce_quorums[c] \subseteq announce_quorums'[c],
             \A m \in msgs : Asks(m, c) => \/ m \in msgs'
                                           \/ Answerer(m) \in Responders(announce_quorums'[c])
                                           \/ \E n \in msgs' : Asks(n, c) /\ Answerer(n) = Answerer(m)
      PROVE  Asked
  <2>1. Responders(announce_quorums[c]) \subseteq Responders(announce_quorums'[c])
    BY <1>1 DEF Responders
  <2> QED
    BY <1>1, <2>1 DEF AllAsked
<1>2. ASSUME NEW d \in Cmd, Announce(d) PROVE Asked
  <2>1. msgs' = msgs \cup Sent("Req", Owner[d], Replica, d, {}) /\ pending' = pending \cup {d}
        /\ announce_quorums' = announce_quorums
    BY <1>2 DEF Announce, AnnounceTargets
  <2>2. CASE c = d
    <3>1. \E m \in Sent("Req", Owner[d], Replica, d, {}) :
             m.type = "Req" /\ m.cmd = d /\ m.dst = p
      BY SentTo
    <3> QED
      BY <2>1, <2>2, <3>1 DEF Asks, Answerer
  <2>3. CASE c \in pending
    BY <1>1, <2>1, <2>3
  <2> QED
    BY <2>1, <2>2, <2>3
<1>3. ASSUME NEW m \in msgs, HandleReq(m) PROVE Asked
  <2>1. PICK n \in Sent("Res", m.dst, {m.src}, m.cmd, Conflicts(log[m.dst], m.cmd)) :
           n.type = "Res" /\ n.cmd = m.cmd /\ n.src = m.dst
    BY SentTo, m.src \in {m.src}
  <2>2. n \in msgs' /\ m.type = "Req" /\ UNCHANGED <<pending, announce_quorums>>
        /\ \A k \in msgs : k = m \/ k \in msgs'
    BY <1>3 DEF HandleReq, Deliver, owners
  <2>3. Asks(m, c) => Asks(n, c) /\ Answerer(n) = Answerer(m)
    BY <2>1, <2>2 DEF Asks, Answerer
  <2> QED
    BY <1>1, <2>2, <2>3
<1>4. ASSUME NEW d \in Cmd, NEW R \in SUBSET Res, Ends(d, R) PROVE Asked
  <2>1. pending' = pending \ {d}
    BY <1>4, EndDeps
  <2>2. PICK kept \in SUBSET msgs : QuorumReady(d, R, kept) /\ \A m \in msgs : m.cmd # d => m \in kept
    BY <1>4 DEF Ends
  <2>3. announce_quorums'[c] = announce_quorums[c]
    BY <2>1, <2>2 DEF QuorumReady, CloseAnnouncement, Basics, TypeOK
  <2>4. kept \subseteq msgs'
    BY <2>2 DEF QuorumReady, Decide, Propose
  <2> QED
    BY <1>1, <2>1, <2>2, <2>3, <2>4 DEF Asks
<1>5. ASSUME NEW m \in msgs, Collects(m) PROVE Asked
  <2>1. announce_quorums'[c] = announce_quorums[c] \cup
           (IF c = m.cmd THEN {[pid |-> m.src, conflicts |-> m.deps]} ELSE {})
    BY <1>5 DEF Collects, Basics, TypeOK
  <2>2. Asks(m, c) => Answerer(m) \in Responders(announce_quorums'[c])
    <3>1. \A R, r : r \in R => r.pid \in Responders(R)
      BY DEF Responders
    <3>2. [pid |-> m.src, conflicts |-> m.deps].pid = m.src
      OBVIOUS
    <3> QED
      BY <1>5, <2>1, <3>1, <3>2 DEF Collects, Asks, Answerer
  <2> QED
    BY <1>1, <1>5, <2>1, <2>2 DEF Collects
<1>6. ASSUME NEW m \in msgs, HandleCommit(m) PROVE Asked
  BY <1>1, <1>6 DEF HandleCommit, Deliver, owners, Asks
<1>7. ASSUME NEW d \in Cmd, Finishes(d) PROVE Asked
  BY <1>1, <1>7 DEF Finishes, Decide, Asks
<1>8. CASE Idles
  BY <1>1, <1>8 DEF Idles, Asks
<1> QED
  BY <1>2, <1>3, <1>4, <1>5, <1>6, <1>7, <1>8, StepKinds

\* The force timer comes too late to end an announcement that somebody has
\* not answered.
LEMMA EverybodyAnswers ==
    ASSUME Basics, AllAsked, Protocol = "Wintermute", Timely,
           NEW c \in Cmd, NEW R \in SUBSET Res, Ends(c, R)
    PROVE  Responders(R) = Replica
<1>1. c \in pending /\ Responders(R) \subseteq Replica
  BY DEF Ends, Responders, Res
<1>2. CASE AnnounceReady(R)
  BY <1>2, AllAnswered DEF AnnounceReady, Ends, Gathered
<1>3. CASE R = announce_quorums[c] /\ RoundTripOver(c)
  BY <1>1, <1>3 DEF AllAsked, RoundTripOver, Asks
<1> QED
  BY <1>2, <1>3 DEF Ends

\* The answer of p to the announcement of b names a.
Names(b, a, p) ==
    \/ \E r \in announce_quorums[b] : r.pid = p /\ a \in r.conflicts
    \/ \E m \in msgs : m.type = "Res" /\ m.cmd = b /\ m.src = p /\ a \in m.deps

\* p has executed a, and b not before it.
First(a, b, p) == a \in log[p].stable /\ ~Precedes(log[p].executed, b, a)

\* What everybody's answers make of two conflicting commands.
NamedOrFirst ==
    /\ \A a, b \in pending : \A p \in Replica :
          Conflict(a, b) /\ Answered(a, p) /\ Answered(b, p) => Names(a, b, p) \/ Names(b, a, p)
    /\ \A a \in Cmd : Concluded(a) => \A p \in Replica :
          /\ Visible(p, a)
          /\ \A b \in pending : Conflict(a, b) /\ Answered(b, p) =>
                b \in Deps(a) \/ Names(b, a, p) \/ First(a, b, p)
    /\ \A a, b \in Cmd : Conflict(a, b) /\ Concluded(a) /\ Concluded(b) =>
          \/ a \in Deps(b) \/ b \in Deps(a)
          \/ \A p \in Replica : First(a, b, p)
          \/ \A p \in Replica : First(b, a, p)

LEMMA NamesStays ==
    ASSUME Basics, [Next]_vars, NEW b \in pending, b \in pending',
           NEW a, NEW p \in Replica, Names(b, a, p)
    PROVE  Names(b, a, p)'
BY AnswersKept DEF Names

LEMMA FirstStays ==
    ASSUME Basics, [Next]_vars, NEW a \in Cmd, NEW b \in Cmd, NEW p \in Replica, First(a, b, p)
    PROVE  First(a, b, p)'
BY StepGrows DEF First, Grows

\* A replica that has a, or has executed it, answers the announcement of b.
LEMMA AnswerNames ==
    ASSUME Basics, NEW m \in msgs, HandleReq(m), m.cmd \in pending,
           NEW a \in Cmd, KeyOf[a] = KeyOf[m.cmd], Visible(m.dst, a)
    PROVE  Names(m.cmd, a, m.dst)' \/ First(a, m.cmd, m.dst)'
<1> DEFINE p == m.dst
           b == m.cmd
           D == Conflicts(log[p], b)
<1>1. /\ p \in Replica /\ b \in Cmd /\ log[p] \in Log /\ IndexExact(log[p])
      /\ KeyOf[b] \in Key /\ b \notin log[p].stable
  BY KeyAssumption DEF Basics, TypeOK, Message, LogsSound, Stages, Concluded, Learned
<1>2. CASE log[p].entries[a].cmd
  <2>1. a \in D
    BY <1>1, <1>2 DEF Conflicts, IndexExact
  <2>2. \E n \in Sent("Res", p, {m.src}, b, D) :
           n.type = "Res" /\ n.cmd = b /\ n.src = p /\ n.deps = D
    BY SentTo, m.src \in {m.src}
  <2>3. Sent("Res", p, {m.src}, b, D) \subseteq msgs'
    BY DEF HandleReq, Deliver
  <2> QED
    BY <2>1, <2>2, <2>3 DEF Names
<1>3. CASE a \in log[p].applied
  <2>1. a \in log[p].stable /\ b \notin Range(log[p].executed)
    BY <1>1, <1>3 DEF IndexExact
  <2>2. ~Precedes(log[p].executed, b, a)
    BY <2>1 DEF Precedes, Range
  <2> QED
    BY <1>1, <2>1, <2>2, BodyGrows DEF First, Grows
<1> QED
  BY <1>2, <1>3 DEF Visible

\* What the answers that end an announcement name becomes a dependency.
LEMMA EndNames ==
    ASSUME Basics, NEW c \in pending, NEW R, Gathered(c, R), NEW a, NEW p \in Responders(R),
           Names(c, a, p)
    PROVE  a \in UnionDeps(R)
<1>1. PICK r \in R : r.pid = p
  BY DEF Responders
<1>2. c \in Cmd
  BY DEF Basics, TypeOK
<1>3. CASE \E s \in announce_quorums[c] : s.pid = p /\ a \in s.conflicts
  BY <1>3 DEF Gathered, UnionDeps
<1>4. ASSUME NEW m \in msgs, m.type = "Res", m.cmd = c, m.src = p, a \in m.deps
      PROVE  a \in UnionDeps(R)
  <2>1. Asks(m, c) /\ Answerer(m) = p
    BY <1>4 DEF Asks, Answerer
  <2>2. r \notin announce_quorums[c]
    BY <1>1, <1>2, <2>1 DEF Basics, AnswersOnce, Responders
  <2>3. PICK n \in msgs : /\ n.type = "Res" /\ n.cmd = c
                          /\ n.src = r.pid /\ n.deps = r.conflicts
    BY <2>2 DEF Gathered
  <2>4. Asks(n, c) /\ Answerer(n) = p
    BY <1>1, <2>3 DEF Asks, Answerer
  <2>5. n = m
    BY <1>2, <2>1, <2>4 DEF Basics, AnswersOnce
  <2> QED
    BY <1>4, <2>3, <2>5 DEF UnionDeps
<1> QED
  BY <1>3, <1>4 DEF Names

LEMMA NamedOrFirstStep ==
    ASSUME Basics, KnownToEnough, AllAsked, NamedOrFirst,
           Protocol = "Wintermute", Timely, [Next]_vars
    PROVE  NamedOrFirst'
<1> USE StepGrows DEF Conflict
<1>1. ASSUME NEW a \in pending', NEW b \in pending', NEW p \in Replica,
             Conflict(a, b), Answered(a, p)', Answered(b, p)'
      PROVE  Names(a, b, p)' \/ Names(b, a, p)'
  <2>1. CASE a \in pending /\ b \in pending /\ Answered(a, p) /\ Answered(b, p)
    BY <1>1, <2>1, NamesStays DEF NamedOrFirst
  <2>2. ASSUME NEW m \in msgs, HandleReq(m), NEW c \in pending, c # m.cmd, m.cmd \in pending,
               KeyOf[c] = KeyOf[m.cmd], Answered(c, m.dst), m.dst \in Replica
        PROVE  Names(m.cmd, c, m.dst)'
    <3>1. c \in Cmd /\ c \notin log'[m.dst].stable
      <4>1. c \in Cmd /\ c \notin Learned(m.dst)
        BY <2>2 DEF Basics, TypeOK, Stages, LogsSound, Concluded
      <4>2. Learned(m.dst)' = Learned(m.dst)
        BY <2>2, BodyGrows
      <4> QED
        BY <4>1, <4>2 DEF Learned
    <3>2. Visible(m.dst, c)
      BY <2>2 DEF KnownToEnough
    <3>3. Names(m.cmd, c, m.dst)' \/ First(c, m.cmd, m.dst)'
      BY <2>2, <3>1, <3>2, AnswerNames
    <3> QED
      BY <3>1, <3>3 DEF First
  <2>3. ASSUME NEW m \in msgs, HandleReq(m),
               \A c \in pending', q \in Replica : Answered(c, q)' =>
                  c \in pending /\ (Answered(c, q) \/ (c = m.cmd /\ q = m.dst))
        PROVE  Names(a, b, p)' \/ Names(b, a, p)'
    <3>1. /\ a \in pending /\ (Answered(a, p) \/ (a = m.cmd /\ p = m.dst))
          /\ b \in pending /\ (Answered(b, p) \/ (b = m.cmd /\ p = m.dst))
      BY <1>1, <2>3
    <3> QED
      BY <1>1, <2>1, <2>2, <2>3, <3>1
  <2> QED
    BY <1>1, <2>1, <2>3, AnswersGrow
<1>2. ASSUME NEW a \in Cmd, Concluded(a)', NEW p \in Replica
      PROVE  Visible(p, a)'
  <2>1. CASE Concluded(a)
    BY <1>2, <2>1 DEF NamedOrFirst, Grows
  <2>2. ASSUME NEW R \in SUBSET Res, Ends(a, R) PROVE Visible(p, a)'
    BY <1>2, <2>2, EverybodyAnswers, AnsweredKnown DEF Ends, Grows
  <2> QED
    BY <1>2, <2>1, <2>2, NewlyConcluded
<1>3. ASSUME NEW a \in Cmd, Concluded(a)', NEW p \in Replica,
             NEW b \in pending', Conflict(a, b), Answered(b, p)'
      PROVE  b \in Deps(a)' \/ Names(b, a, p)' \/ First(a, b, p)'
  <2>1. CASE Concluded(a)
    <3>1. Deps(a)' = Deps(a)
      BY <2>1, StaysConcluded
    <3>2. CASE b \in pending /\ Answered(b, p)
      <4>1. b \in Cmd
        BY <3>2 DEF Basics, TypeOK
      <4> QED
        BY <1>3, <2>1, <3>1, <3>2, <4>1, NamesStays, FirstStays DEF NamedOrFirst
    <3>3. ASSUME NEW m \in msgs, HandleReq(m), b \in pending, b = m.cmd, p = m.dst
          PROVE  Names(b, a, p)' \/ First(a, b, p)'
      <4>1. Visible(p, a) /\ KeyOf[a] = KeyOf[b]
        BY <1>3, <2>1 DEF NamedOrFirst
      <4> QED
        BY <3>3, <4>1, AnswerNames
    <3> QED
      BY <1>3, <3>1, <3>2, <3>3, AnswersGrow
  <2>2. ASSUME NEW R \in SUBSET Res, Ends(a, R)
        PROVE  b \in Deps(a)' \/ Names(b, a, p)'
    <3>1. /\ a \in pending /\ Gathered(a, R) /\ p \in Responders(R) /\ Answered(a, p)
          /\ Deps(a)' = UnionDeps(R) /\ pending' = pending \ {a}
      BY <2>2, EverybodyAnswers, EndDeps, AnsweredKnown DEF Ends
    <3>2. b \in pending /\ Answered(b, p)
      <4>1. ASSUME NEW m \in msgs, HandleReq(m) PROVE FALSE
        BY <3>1, <4>1 DEF HandleReq, owners
      <4> QED
        BY <1>3, <4>1, AnswersGrow
    <3>3. CASE Names(b, a, p)
      BY <1>3, <3>2, <3>3, NamesStays
    <3>4. CASE Names(a, b, p)
      BY <3>1, <3>4, EndNames
    <3> QED
      BY <1>3, <3>1, <3>2, <3>3, <3>4 DEF NamedOrFirst
  <2> QED
    BY <1>3, <2>1, <2>2, NewlyConcluded
<1>4. ASSUME NEW a \in Cmd, NEW b \in Cmd, Conflict(a, b), Concluded(a),
             NEW R \in SUBSET Res, Ends(b, R)
      PROVE  \/ b \in Deps(a)' \/ a \in Deps(b)'
             \/ \A p \in Replica : First(a, b, p)'
  <2>1. /\ b \in pending /\ Gathered(b, R) /\ Responders(R) = Replica
        /\ Deps(b)' = UnionDeps(R) /\ Deps(a)' = Deps(a)
        /\ \A p \in Replica : Answered(b, p)
    BY <1>4, EverybodyAnswers, EndDeps, AnsweredKnown, StaysConcluded DEF Ends
  <2>2. \A p \in Replica : b \in Deps(a) \/ Names(b, a, p) \/ First(a, b, p)
    BY <1>4, <2>1 DEF NamedOrFirst
  <2>3. ASSUME NEW p \in Replica, Names(b, a, p) PROVE a \in UnionDeps(R)
    BY <2>1, <2>3, EndNames
  <2> QED
    BY <1>4, <2>1, <2>2, <2>3, FirstStays
<1>5. ASSUME NEW a \in Cmd, NEW b \in Cmd, Conflict(a, b), Concluded(a)', Concluded(b)'
      PROVE  \/ a \in Deps(b)' \/ b \in Deps(a)'
             \/ \A p \in Replica : First(a, b, p)'
             \/ \A p \in Replica : First(b, a, p)'
  <2>1. CASE Concluded(a) /\ Concluded(b)
    BY <1>5, <2>1, StaysConcluded, FirstStays DEF NamedOrFirst
  <2>2. CASE Concluded(a) /\ ~Concluded(b)
    BY <1>4, <1>5, <2>2, NewlyConcluded
  <2>3. CASE ~Concluded(a) /\ Concluded(b)
    BY <1>4, <1>5, <2>3, NewlyConcluded
  <2>4. CASE ~Concluded(a) /\ ~Concluded(b)
    <3>1. PICK R \in SUBSET Res : Ends(a, R)
      BY <1>5, <2>4, NewlyConcluded
    <3>2. PICK T \in SUBSET Res : Ends(b, T)
      BY <1>5, <2>4, NewlyConcluded
    <3>3. pending' = pending \ {a} /\ pending' = pending \ {b} /\ a \in pending /\ a # b
      BY <1>5, <3>1, <3>2, EndDeps DEF Ends
    <3> QED
      BY <3>3
  <2> QED
    BY <2>1, <2>2, <2>3, <2>4
<1> QED
  BY <1>1, <1>2, <1>3, <1>5 DEF NamedOrFirst

LEMMA TimelyInit == Init => AllAsked /\ NamedOrFirst
<1> SUFFICES ASSUME Init PROVE AllAsked /\ NamedOrFirst
  OBVIOUS
<1>1. pending = {} /\ \A c \in Cmd : ~Concluded(c)
  BY DEF Init, Concluded, NoInstance
<1> QED
  BY <1>1 DEF AllAsked, NamedOrFirst

LEMMA TimelyInvariant ==
    ASSUME Protocol = "Wintermute", Timely
    PROVE  Spec => [](Basics /\ KnownToEnough /\ AllAsked /\ NamedOrFirst)
<1>1. Basics /\ AllAsked /\ [Next]_vars => AllAsked'
  BY AllAskedStep
<1>2. Basics /\ KnownToEnough /\ AllAsked /\ NamedOrFirst /\ [Next]_vars => NamedOrFirst'
  BY NamedOrFirstStep
<1> QED
  BY <1>1, <1>2, TimelyInit, KnownInit, KnownStep, BasicsInvariant, PTL DEF Spec

\* Wintermute with a timeout longer than a round trip orders the commands on
\* one key alike everywhere, whatever its quorums and however the network
\* delays messages: no triangle inequality is needed when everybody answers.
THEOREM TimelyOrders ==
    ASSUME Protocol = "Wintermute", Timely
    PROVE  Spec => []ConflictOrder
<1>1. Basics /\ NamedOrFirst /\ DO!SameOrder => ConflictOrder
  <2> SUFFICES ASSUME Basics, NamedOrFirst, DO!SameOrder,
                      NEW p \in Replica, NEW q \in Replica, NEW a \in Cmd, NEW b \in Cmd,
                      KeyOf[a] = KeyOf[b],
                      Precedes(log[p].executed, a, b), Precedes(log[q].executed, b, a)
               PROVE  FALSE
    BY DEF ConflictOrder
  <2>1. ~DO!Related(a, b)
    BY DEF DO!SameOrder, DO!Precedes, Precedes
  <2>2. a # b /\ a \notin decidedDeps[b] /\ b \notin decidedDeps[a]
    BY <2>1 DEF DO!Related, DO!Reaches, DO!ClosedIn
  <2>3. a \in decided /\ b \in decided
    <3>1. a \in Range(log[p].executed) /\ b \in Range(log[q].executed)
      BY DEF Precedes, Range
    <3> QED
      BY <3>1 DEF Basics, LogsSound, IndexExact, Learned
  <2>4. \/ \A r \in Replica : First(a, b, r)
        \/ \A r \in Replica : First(b, a, r)
    BY <2>2, <2>3 DEF NamedOrFirst, Conflict, Concluded, Deps
  <2> QED
    BY <2>4 DEF First
<1> QED
  BY <1>1, TimelyInvariant, LogsOrder, PTL

\* ... and every replica has the body of each command it executes.
THEOREM TimelyExecutesBodies ==
    ASSUME Protocol = "Wintermute", Timely
    PROVE  Spec => []ExecutedHasBody
<1>1. Basics /\ NamedOrFirst => ExecutedHasBody
  <2> SUFFICES ASSUME Basics, NamedOrFirst, NEW p \in Replica, NEW c \in Range(log[p].executed)
               PROVE  c \in log[p].applied
    BY DEF ExecutedHasBody
  <2>1. c \in log[p].stable /\ IndexExact(log[p]) /\ c \in decided /\ c \in Cmd
    BY DEF Basics, TypeOK, LogsSound, IndexExact, Learned
  <2>2. ~log[p].entries[c].cmd
    BY <2>1 DEF IndexExact
  <2>3. Visible(p, c)
    BY <2>1 DEF NamedOrFirst, Concluded
  <2> QED
    BY <2>2, <2>3 DEF Visible
<1> QED
  BY <1>1, TimelyInvariant, PTL

-----------------------------------------------------------------------------
\* The quorum systems the simulations configure.

\* The lines of a grid of which S has every cell.
FullRows(qs, S) == {r \in QS!Indices(qs) : QS!Row(qs, r) \subseteq S}
FullColumns(qs, S) == {c \in QS!Indices(qs) : QS!Column(qs, c) \subseteq S}

(***************************************************************************)
(* The definitions of the quorum systems, with the Cardinality of this     *)
(* module for theirs.                                                      *)
(***************************************************************************)
LEMMA SystemDefinitions ==
    /\ \A qs, S : QS!ThresholdIsQuorum(qs, S) <=> Cardinality(S) >= QS!ThresholdSize(qs)
    /\ \A qs, S : QS!GridIsQuorum(qs, S) <=>
          Cardinality(FullRows(qs, S)) >= qs.x /\ Cardinality(FullColumns(qs, S)) >= qs.x
    /\ \A k, S : \A X \in QS!kSubset(k, S) : X \in SUBSET S /\ Cardinality(X) = k
<1>1. \A X : QS!Cardinality(X) = Cardinality(X)
  BY DEF QS!Cardinality, QS!IsFiniteSet, Cardinality, IsFiniteSet
<1> QED
  BY <1>1 DEF QS!ThresholdIsQuorum, QS!GridIsQuorum, QS!kSubset,
                   FullRows, FullColumns

(***************************************************************************)
(* A pool has as many processes as entries.                                *)
(***************************************************************************)
LEMMA PoolSize ==
    ASSUME NEW P, NEW pids \in Seq(P), IsInjective(pids)
    PROVE  IsFiniteSet(Range(pids)) /\ Cardinality(Range(pids)) = Len(pids)
<1>1. IsFiniteSet(1 .. Len(pids)) /\ Cardinality(1 .. Len(pids)) = Len(pids)
  <2>1. Len(pids) \in Nat
    OBVIOUS
  <2> QED
    BY <2>1, FS_Interval
<1>2. pids \in Bijection(1 .. Len(pids), Range(pids))
  <2>1. DOMAIN pids = 1 .. Len(pids)
    OBVIOUS
  <2>2. pids \in [1 .. Len(pids) -> Range(pids)]
    BY <2>1 DEF Range
  <2> QED
    BY <2>1, <2>2 DEF IsInjective, Range, Bijection, Injection, Surjection
<1> QED
  BY <1>1, <1>2, FS_Bijection DEF ExistsBijection

(***************************************************************************)
(* In a pool of 3f + 1 processes any two sets of responders that thres.rs  *)
(* accepts for new_dissemination have f + 1 processes in common, so one    *)
(* more than may fail.  (With 3f + 2 or 3f + 3 processes, as in some of    *)
(* the simulations, they may have fewer or none.)                          *)
(***************************************************************************)
THEOREM DisseminationQuorumsMeet ==
    ASSUME NEW P, NEW pids \in Seq(P), IsInjective(pids),
           NEW f \in Nat, Len(pids) = 3 * f + 1,
           NEW S \in SUBSET Range(pids), NEW T \in SUBSET Range(pids),
           QS!IsQuorum(QS!NewDissemination(pids), S), QS!IsQuorum(QS!NewDissemination(pids), T)
    PROVE  Cardinality(S \cap T) >= f + 1
<1>1. /\ IsFiniteSet(S) /\ IsFiniteSet(T)
      /\ IsFiniteSet(S \cup T) /\ Cardinality(S \cup T) <= 3 * f + 1
  BY PoolSize, FS_Subset
<1>2. QS!ThresholdSize(QS!NewDissemination(pids)) = 2 * f + 1
  <2>1. QS!ThresholdSize(QS!NewDissemination(pids)) = 2 * ((Len(pids) - 1) \div 3) + 2 - 1
    BY DEF QS!ThresholdSize, QS!NewDissemination, QS!Threshold
  <2>2. (3 * f) \div 3 = f
    OBVIOUS
  <2> QED
    BY <2>1, <2>2
<1>3. Cardinality(S) >= 2 * f + 1 /\ Cardinality(T) >= 2 * f + 1
  BY <1>2, SystemDefinitions DEF QS!IsQuorum, QS!NewDissemination, QS!Threshold
<1>4. /\ Cardinality(S \cup T) = Cardinality(S) + Cardinality(T) - Cardinality(S \cap T)
      /\ IsFiniteSet(S \cap T)
  BY <1>1, FS_Union, FS_Intersection
<1>5. /\ Cardinality(S) \in Nat /\ Cardinality(T) \in Nat
      /\ Cardinality(S \cap T) \in Nat /\ Cardinality(S \cup T) \in Nat
  BY <1>1, <1>4, FS_CardinalityType
<1> QED
  BY <1>1, <1>3, <1>4, <1>5

(***************************************************************************)
(* Any two sets of responders that grid.rs accepts have a process in       *)
(* common, whatever the side and the width of the grid: a full row of one  *)
(* crosses a full column of the other.  So of two announcements one meets  *)
(* the other at some replica.                                              *)
(***************************************************************************)
THEOREM GridQuorumsMeet ==
    ASSUME NEW qs, qs.x \in Nat, qs.x > 0,
           NEW S, NEW T, QS!GridIsQuorum(qs, S), QS!GridIsQuorum(qs, T)
    PROVE  S \cap T # {}
<1>1. \A X : Cardinality(X) >= qs.x => X # {}
  BY FS_EmptySet
<1>2. Cardinality(FullRows(qs, S)) >= qs.x /\ Cardinality(FullColumns(qs, T)) >= qs.x
  BY SystemDefinitions
<1>3. PICK r \in QS!Indices(qs) : QS!Row(qs, r) \subseteq S
  BY <1>1, <1>2 DEF FullRows
<1>4. PICK c \in QS!Indices(qs) : QS!Column(qs, c) \subseteq T
  BY <1>1, <1>2 DEF FullColumns
<1> QED
  BY <1>3, <1>4 DEF QS!Row, QS!Column

(***************************************************************************)
(* Whoever has enough responders has enough with more of them, the whole   *)
(* pool is enough and nobody is not, however many processes there are.     *)
(***************************************************************************)
LEMMA DisseminationQuorumsGrow ==
    ASSUME NEW P, NEW pids \in Seq(P), IsInjective(pids), Len(pids) > 0
    PROVE  /\ QS!IsQuorum(QS!NewDissemination(pids), Range(pids))
           /\ \A S, T \in SUBSET Range(pids) :
                 S \subseteq T /\ QS!IsQuorum(QS!NewDissemination(pids), S)
                    => QS!IsQuorum(QS!NewDissemination(pids), T)
           /\ ~QS!IsQuorum(QS!NewDissemination(pids), {})
<1> DEFINE n == Len(pids)
           k == QS!ThresholdSize(QS!NewDissemination(pids))
<1>1. k \in Nat /\ 1 <= k /\ k <= n /\ n \in Nat
  <2>1. k = 2 * ((n - 1) \div 3) + 2 - 1
    BY DEF QS!ThresholdSize, QS!NewDissemination, QS!Threshold
  <2>2. n \in Nat /\ n >= 1
    OBVIOUS
  <2> HIDE DEF n, k
  <2>3. PICK d \in Nat : d = (n - 1) \div 3 /\ 3 * d <= n - 1
    BY <2>2
  <2> QED
    BY <2>1, <2>2, <2>3
<1>2. \A S : QS!IsQuorum(QS!NewDissemination(pids), S) <=> Cardinality(S) >= k
  BY SystemDefinitions DEF QS!IsQuorum, QS!NewDissemination, QS!Threshold
<1>3. IsFiniteSet(Range(pids)) /\ Cardinality(Range(pids)) = n
  BY PoolSize
<1>4. ASSUME NEW S \in SUBSET Range(pids), NEW T \in SUBSET Range(pids), S \subseteq T
      PROVE  /\ Cardinality(S) <= Cardinality(T)
             /\ Cardinality(S) \in Nat /\ Cardinality(T) \in Nat
  BY <1>3, <1>4, FS_Subset, FS_CardinalityType
<1>5. Cardinality({}) = 0
  BY FS_EmptySet
<1> HIDE DEF n, k
<1> QED
  BY <1>1, <1>2, <1>3, <1>4, <1>5

LEMMA GridQuorumsGrow ==
    ASSUME NEW qs, qs.n \in Nat, qs.x \in Nat, qs.x <= qs.n
    PROVE  /\ (\A r \in QS!Indices(qs) : QS!Row(qs, r) \subseteq Range(qs.pids))
              /\ (\A c \in QS!Indices(qs) : QS!Column(qs, c) \subseteq Range(qs.pids))
                 => QS!GridIsQuorum(qs, Range(qs.pids))
           /\ \A S, T : S \subseteq T /\ QS!GridIsQuorum(qs, S) => QS!GridIsQuorum(qs, T)
<1>1. IsFiniteSet(QS!Indices(qs)) /\ Cardinality(QS!Indices(qs)) = qs.n
  <2>1. 0 \in Int /\ qs.n - 1 \in Int
    OBVIOUS
  <2>2. /\ IsFiniteSet(0 .. qs.n - 1)
        /\ Cardinality(0 .. qs.n - 1) = IF 0 > qs.n - 1 THEN 0 ELSE (qs.n - 1) - 0 + 1
    BY <2>1, FS_Interval
  <2>3. (IF 0 > qs.n - 1 THEN 0 ELSE (qs.n - 1) - 0 + 1) = qs.n
    OBVIOUS
  <2> QED
    BY <2>2, <2>3 DEF QS!Indices
<1>2. \A X \in SUBSET QS!Indices(qs) : \A Y \in SUBSET X :
         /\ Cardinality(Y) <= Cardinality(X)
         /\ Cardinality(Y) \in Nat /\ Cardinality(X) \in Nat
  BY <1>1, FS_Subset, FS_CardinalityType
<1>3. ASSUME NEW S, NEW T, S \subseteq T, QS!GridIsQuorum(qs, S)
      PROVE  QS!GridIsQuorum(qs, T)
  <2>1. /\ FullRows(qs, S) \subseteq FullRows(qs, T)
        /\ FullRows(qs, T) \in SUBSET QS!Indices(qs)
        /\ FullColumns(qs, S) \subseteq FullColumns(qs, T)
        /\ FullColumns(qs, T) \in SUBSET QS!Indices(qs)
    BY <1>3 DEF FullRows, FullColumns
  <2>2. /\ Cardinality(FullRows(qs, S)) <= Cardinality(FullRows(qs, T))
        /\ Cardinality(FullColumns(qs, S)) <= Cardinality(FullColumns(qs, T))
        /\ Cardinality(FullRows(qs, S)) \in Nat /\ Cardinality(FullRows(qs, T)) \in Nat
        /\ Cardinality(FullColumns(qs, S)) \in Nat /\ Cardinality(FullColumns(qs, T)) \in Nat
    BY <1>2, <2>1
  <2>3. Cardinality(FullRows(qs, S)) >= qs.x /\ Cardinality(FullColumns(qs, S)) >= qs.x
    BY <1>3, SystemDefinitions
  <2>4. Cardinality(FullRows(qs, T)) >= qs.x /\ Cardinality(FullColumns(qs, T)) >= qs.x
    BY <2>2, <2>3
  <2> QED
    BY <2>4, SystemDefinitions
<1>4. ASSUME \A r \in QS!Indices(qs) : QS!Row(qs, r) \subseteq Range(qs.pids),
             \A c \in QS!Indices(qs) : QS!Column(qs, c) \subseteq Range(qs.pids)
      PROVE  QS!GridIsQuorum(qs, Range(qs.pids))
  <2>1. /\ FullRows(qs, Range(qs.pids)) = QS!Indices(qs)
        /\ FullColumns(qs, Range(qs.pids)) = QS!Indices(qs)
    BY <1>4 DEF FullRows, FullColumns
  <2> QED
    BY <1>1, <2>1, SystemDefinitions
<1> QED
  BY <1>3, <1>4

\* The cells of a square grid are processes of the pool.
LEMMA CellInPool ==
    ASSUME NEW qs, NEW P, qs.pids \in Seq(P), qs.n \in Nat, Len(qs.pids) = qs.n * qs.n,
           NEW r \in QS!Indices(qs), NEW c \in QS!Indices(qs)
    PROVE  r * qs.n + c + 1 \in DOMAIN qs.pids
<1>1. r \in Nat /\ c \in Nat /\ r + 1 <= qs.n /\ c + 1 <= qs.n
  BY DEF QS!Indices
<1>2. (r + 1) * qs.n <= qs.n * qs.n
  BY <1>1
<1>3. (r + 1) * qs.n = r * qs.n + qs.n
  <2>1. \A u, v \in Nat : (u + 1) * v = u * v + v
    OBVIOUS
  <2> QED
    BY <1>1, <2>1
<1>4. r * qs.n \in Nat /\ qs.n * qs.n \in Nat
  BY <1>1
<1>5. \A u, v \in Nat : u + qs.n <= v => u + c + 1 \in 1 .. v
  BY <1>1
<1>6. r * qs.n + c + 1 \in 1 .. qs.n * qs.n
  BY <1>2, <1>3, <1>4, <1>5
<1> QED
  BY <1>6

LEMMA GridCells ==
    ASSUME NEW qs, NEW P, qs.pids \in Seq(P), qs.n \in Nat, Len(qs.pids) = qs.n * qs.n,
           NEW i \in QS!Indices(qs)
    PROVE  QS!Row(qs, i) \subseteq Range(qs.pids) /\ QS!Column(qs, i) \subseteq Range(qs.pids)
BY CellInPool DEF QS!Row, QS!Column, QS!Cell, Range

(***************************************************************************)
(* How many processes two grid quorums share: the full rows of one cross   *)
(* the full columns of the other in x * x different cells.  As grid.rs     *)
(* computes x, twice that is at least the side of the grid (Width).        *)
(***************************************************************************)
THEOREM GridQuorumsShare ==
    ASSUME NEW qs, NEW P, qs.pids \in Seq(P), IsInjective(qs.pids), qs.n \in Nat,
           Len(qs.pids) = qs.n * qs.n, qs.x \in Nat,
           NEW S \in SUBSET Range(qs.pids), NEW T,
           QS!GridIsQuorum(qs, S), QS!GridIsQuorum(qs, T)
    PROVE  Cardinality(S \cap T) >= qs.x * qs.x
<1> DEFINE R == FullRows(qs, S)
           C == FullColumns(qs, T)
           f == [rc \in R \X C |-> QS!Cell(qs, rc[1], rc[2])]
<1>1. IsFiniteSet(R) /\ IsFiniteSet(C)
  <2>1. 0 \in Int /\ qs.n - 1 \in Int
    OBVIOUS
  <2>2. IsFiniteSet(QS!Indices(qs))
    BY <2>1, FS_Interval DEF QS!Indices
  <2> QED
    BY <2>2, FS_Subset DEF FullRows, FullColumns
<1>2. /\ Cardinality(R) >= qs.x /\ Cardinality(C) >= qs.x
      /\ Cardinality(R) \in Nat /\ Cardinality(C) \in Nat
  <2>1. Cardinality(R) >= qs.x /\ Cardinality(C) >= qs.x
    BY SystemDefinitions
  <2> QED
    BY <1>1, <2>1, FS_CardinalityType
<1>3. IsFiniteSet(S \cap T)
  BY PoolSize, FS_Subset
<1>4. ASSUME NEW r \in QS!Indices(qs), NEW c \in QS!Indices(qs)
      PROVE  r \in Nat /\ c \in Nat /\ r + 1 <= qs.n /\ c + 1 <= qs.n /\ r * qs.n \in Nat
  <2>1. r \in Nat /\ c \in Nat /\ r + 1 <= qs.n /\ c + 1 <= qs.n
    BY DEF QS!Indices
  <2> QED
    BY <2>1
<1>5. ASSUME NEW r \in Nat, NEW s \in Nat, r < s PROVE r * qs.n + qs.n <= s * qs.n
  <2>1. (r + 1) * qs.n <= s * qs.n
    BY <1>5
  <2>2. (r + 1) * qs.n = r * qs.n + qs.n
    OBVIOUS
  <2> QED
    BY <2>1, <2>2
<1>6. ASSUME NEW r \in QS!Indices(qs), NEW c \in QS!Indices(qs),
             NEW s \in QS!Indices(qs), NEW d \in QS!Indices(qs),
             QS!Cell(qs, r, c) = QS!Cell(qs, s, d)
      PROVE  r = s /\ c = d
  <2>1. /\ r * qs.n + c + 1 \in DOMAIN qs.pids
        /\ s * qs.n + d + 1 \in DOMAIN qs.pids
    BY CellInPool
  <2>2. r * qs.n + c + 1 = s * qs.n + d + 1
    BY <1>6, <2>1 DEF QS!Cell, IsInjective
  <2>3. \A u, v, x, y, n \in Nat :
           u + x + 1 = v + y + 1 /\ x + 1 <= n /\ y + 1 <= n
              => ~(u + n <= v) /\ ~(v + n <= u) /\ (u = v => x = y)
    OBVIOUS
  <2>4. /\ r \in Nat /\ c \in Nat /\ c + 1 <= qs.n /\ r * qs.n \in Nat
        /\ s \in Nat /\ d \in Nat /\ d + 1 <= qs.n /\ s * qs.n \in Nat
    BY <1>4
  <2>5. /\ ~(r * qs.n + qs.n <= s * qs.n) /\ ~(s * qs.n + qs.n <= r * qs.n)
        /\ r * qs.n = s * qs.n => c = d
    <3> DEFINE u == r * qs.n
               v == s * qs.n
    <3>1. u \in Nat /\ v \in Nat /\ u + c + 1 = v + d + 1
      BY <2>2, <2>4
    <3>2. c \in Nat /\ d \in Nat /\ c + 1 <= qs.n /\ d + 1 <= qs.n
      BY <2>4
    <3> HIDE DEF u, v
    <3>3. ~(u + qs.n <= v) /\ ~(v + qs.n <= u) /\ (u = v => c = d)
      BY <2>3, <3>1, <3>2
    <3> QED
      BY <3>3 DEF u, v
  <2>6. ~(r < s) /\ ~(s < r)
    BY <1>5, <2>4, <2>5
  <2>7. r = s
    BY <2>4, <2>6
  <2> QED
    BY <2>5, <2>7
<1>7. f \in Injection(R \X C, S \cap T)
  <2>1. \A rc \in R \X C : rc[1] \in QS!Indices(qs) /\ rc[2] \in QS!Indices(qs)
                           /\ QS!Cell(qs, rc[1], rc[2]) \in S \cap T
    BY DEF QS!Row, QS!Column, FullRows, FullColumns
  <2>2. \A rc, sd \in R \X C : f[rc] = f[sd] => rc = sd
    BY <1>6, <2>1
  <2> QED
    BY <2>1, <2>2 DEF Injection, IsInjective
<1>8. Cardinality(R) * Cardinality(C) <= Cardinality(S \cap T)
  <2> HIDE DEF f, R, C
  <2> QED
    <3>1. IsFiniteSet(R \X C) /\ Cardinality(R \X C) = Cardinality(R) * Cardinality(C)
      BY <1>1, FS_Product
    <3>2. Cardinality(R \X C) <= Cardinality(S \cap T)
      BY <1>3, <1>7, FS_Injection
    <3> QED
      BY <3>1, <3>2
<1>9. qs.x * qs.x <= Cardinality(R) * Cardinality(C)
  <2>1. \A x, m, n \in Nat : m >= x /\ n >= x => x * x <= m * n
    <3> TAKE x, m, n \in Nat
    <3> HAVE m >= x /\ n >= x
    <3>1. x * x <= m * x /\ m * x <= m * n
      OBVIOUS
    <3>2. x * x \in Nat /\ m * x \in Nat /\ m * n \in Nat
      OBVIOUS
    <3> QED
      BY <3>1, <3>2
  <2> QED
    BY <1>2, <2>1
<1>10. \A x, y, z \in Nat : x <= y /\ y <= z => z >= x
  OBVIOUS
<1>11. /\ qs.x * qs.x \in Nat /\ Cardinality(R) * Cardinality(C) \in Nat
       /\ Cardinality(S \cap T) \in Nat
  BY <1>2, <1>3, FS_CardinalityType
<1> QED
  BY <1>8, <1>9, <1>10, <1>11

\* The sets that choose_random_quorum draws from a grid are quorums.
LEMMA GridQuorumsDrawn ==
    ASSUME NEW qs, qs.n \in Nat, qs.x \in Nat, NEW T \in QS!GridRandomQuorums(qs)
    PROVE  QS!GridIsQuorum(qs, T)
<1>1. PICK R \in QS!kSubset(qs.x, QS!Indices(qs)), C \in QS!kSubset(qs.x, QS!Indices(qs)) :
         T = UNION ({QS!Row(qs, r) : r \in R} \cup {QS!Column(qs, c) : c \in C})
  BY DEF QS!GridRandomQuorums
<1>2. /\ R \in SUBSET QS!Indices(qs) /\ Cardinality(R) = qs.x
      /\ C \in SUBSET QS!Indices(qs) /\ Cardinality(C) = qs.x
  BY SystemDefinitions
<1> DEFINE rows == FullRows(qs, T)
           cols == FullColumns(qs, T)
<1>3. R \subseteq rows /\ C \subseteq cols
  BY <1>1, <1>2 DEF FullRows, FullColumns
<1>4. IsFiniteSet(rows) /\ IsFiniteSet(cols)
  <2>1. 0 \in Int /\ qs.n - 1 \in Int
    OBVIOUS
  <2>2. IsFiniteSet(QS!Indices(qs))
    BY <2>1, FS_Interval DEF QS!Indices
  <2> QED
    BY <2>2, FS_Subset DEF FullRows, FullColumns
<1>5. /\ Cardinality(R) <= Cardinality(rows) /\ Cardinality(C) <= Cardinality(cols)
      /\ Cardinality(rows) \in Nat /\ Cardinality(cols) \in Nat
  BY <1>3, <1>4, FS_Subset, FS_CardinalityType
<1>6. Cardinality(rows) >= qs.x /\ Cardinality(cols) >= qs.x
  BY <1>2, <1>5
<1> QED
  BY <1>6, SystemDefinitions

LEMMA DisseminationSupports ==
    ASSUME NEW pids \in Seq(Replica), IsInjective(pids), Len(pids) > 0,
           System = QS!NewDissemination(pids)
    PROVE  QuorumsGrow /\ ~IsQuorum({})
<1>1. Range(pids) = Replica
  BY ProtocolAssumption DEF QS!NewDissemination, QS!Threshold, Range
<1> QED
  BY <1>1, DisseminationQuorumsGrow DEF QuorumsGrow, IsQuorum

LEMMA DisseminationQuorums ==
    ASSUME NEW f \in Nat, NEW pids \in Seq(Replica), IsInjective(pids),
           Len(pids) = 3 * f + 1, System = QS!NewDissemination(pids)
    PROVE  QuorumsGrow /\ QuorumsMeet
<1>1. Range(pids) = Replica
  BY ProtocolAssumption DEF QS!NewDissemination, QS!Threshold, Range
<1>2. QuorumsGrow
  BY DisseminationSupports
<1>3. QuorumsMeet
  <2>1. ASSUME NEW S \in SUBSET Replica, NEW T \in SUBSET Replica, IsQuorum(S), IsQuorum(T)
        PROVE  S \cap T # {}
    <3>1. Cardinality(S \cap T) >= f + 1
      BY <1>1, <2>1, DisseminationQuorumsMeet DEF IsQuorum
    <3>2. Cardinality({}) = 0 /\ ~(0 >= f + 1)
      BY FS_EmptySet
    <3> QED
      BY <3>1, <3>2
  <2> QED
    BY <2>1 DEF QuorumsMeet
<1> QED
  BY <1>2, <1>3

LEMMA GridQuorums ==
    ASSUME NEW pids \in Seq(Replica),
           System.flavor = "WitnessGrid", System.pids = pids, System.n \in Nat,
           Len(pids) = System.n * System.n, System.x \in 1 .. System.n
    PROVE  /\ QuorumsGrow /\ QuorumsMeet
           /\ \A T \in QS!RandomQuorums(System) : IsQuorum(T)
<1>1. \A S : IsQuorum(S) <=> QS!GridIsQuorum(System, S)
  BY DEF IsQuorum, QS!IsQuorum
<1>2. Range(System.pids) = Replica
  BY ProtocolAssumption DEF Range
<1>3. System.x \in Nat /\ System.x > 0 /\ System.x <= System.n
  OBVIOUS
<1>4. QuorumsMeet
  BY <1>1, <1>3, GridQuorumsMeet DEF QuorumsMeet
<1>5. QuorumsGrow
  <2>1. \A i \in QS!Indices(System) :
           /\ QS!Row(System, i) \subseteq Range(System.pids)
           /\ QS!Column(System, i) \subseteq Range(System.pids)
    BY GridCells
  <2>2. QS!GridIsQuorum(System, Replica)
    BY <1>2, <1>3, <2>1, GridQuorumsGrow
  <2>3. \A S, T : S \subseteq T /\ QS!GridIsQuorum(System, S) => QS!GridIsQuorum(System, T)
    BY <1>3, GridQuorumsGrow
  <2> QED
    BY <1>1, <2>2, <2>3 DEF QuorumsGrow
<1>6. QS!RandomQuorums(System) = QS!GridRandomQuorums(System)
  BY DEF QS!RandomQuorums
<1>7. \A T \in QS!GridRandomQuorums(System) : QS!GridIsQuorum(System, T)
  BY <1>3, GridQuorumsDrawn
<1> QED
  BY <1>1, <1>4, <1>5, <1>6, <1>7

\* With Quorum::new_dissemination over 3f + 1 processes, commands on one key
\* are executed in the same order everywhere and known to a quorum.
THEOREM DisseminationOrders ==
    ASSUME Causal, NEW f \in Nat, NEW pids \in Seq(Replica), IsInjective(pids),
           Len(pids) = 3 * f + 1, System = QS!NewDissemination(pids)
    PROVE  Spec => [](ConflictOrder /\ DecisionVisible)
<1>1. Spec => []ConflictOrder
  BY DisseminationQuorums, ConflictOrderHolds
<1>2. Spec => []DecisionVisible
  BY DisseminationQuorums, DecisionVisibleHolds
<1> QED
  BY <1>1, <1>2, PTL

\* ... and with the square grid of Quorum::new_witnessing_grid, whatever its width.
THEOREM GridOrders ==
    ASSUME Causal, NEW pids \in Seq(Replica),
           System.flavor = "WitnessGrid", System.pids = pids, System.n \in Nat,
           Len(pids) = System.n * System.n, System.x \in 1 .. System.n
    PROVE  Spec => [](ConflictOrder /\ DecisionVisible)
<1>1. Spec => []ConflictOrder
  BY GridQuorums, ConflictOrderHolds
<1>2. Spec => []DecisionVisible
  BY GridQuorums, DecisionVisibleHolds
<1> QED
  BY <1>1, <1>2, PTL

\* In a dissemination pool of any size a decided command is known to a quorum,
\* also where two quorums need not meet.
THEOREM DisseminationKnows ==
    ASSUME NEW pids \in Seq(Replica), IsInjective(pids), Len(pids) > 0,
           System = QS!NewDissemination(pids)
    PROVE  Spec => []DecisionVisible
BY DisseminationSupports, DecisionVisibleHolds

LEMMA TargetsReached ==
    ASSUME QuorumsGrow, ~IsQuorum({}), \A T \in AnnounceTargets : IsQuorum(T),
           \A c \in Cmd : Committee[c] # {}
    PROVE  QuorumsReached
BY DEF QuorumsGrow, QuorumsReached

LEMMA NobodyIsNoQuorum ==
    ASSUME QuorumsMeet
    PROVE  ~IsQuorum({})
<1>1. {} \in SUBSET Replica /\ {} \cap {} = {}
  OBVIOUS
<1> QED
  BY <1>1 DEF QuorumsMeet

LEMMA CommitteeOfAll ==
    ASSUME Protocol # "ThreeJane", NEW c \in Cmd
    PROVE  Committee[c] # {}
<1>1. Owner[c] \in Replica /\ Cardinality(Committee[c]) = Cardinality(Replica)
  BY ProtocolAssumption DEF CommitteeOfSystem
<1>2. IsFiniteSet(Replica) /\ Replica # {}
  BY <1>1, ProtocolAssumption
<1>3. Cardinality(Replica) # 0 /\ Cardinality({}) = 0
  BY <1>2, FS_EmptySet
<1>4. Committee[c] = {} => Cardinality(Committee[c]) = Cardinality({})
  BY Zenon
<1> QED
  BY <1>1, <1>3, <1>4

\* Wintermute leaves nothing half done, whatever its quorums and timeouts.
THEOREM WintermuteDrains ==
    ASSUME Protocol = "Wintermute"
    PROVE  Spec => []Drained
BY CommitteeOfAll, DrainedHolds DEF QuorumsReached

\* Nor does EPaxos in a dissemination pool of any size.
THEOREM DisseminationDrains ==
    ASSUME Protocol # "ThreeJane", NEW pids \in Seq(Replica), IsInjective(pids),
           Len(pids) > 0, System = QS!NewDissemination(pids)
    PROVE  Spec => []Drained
<1>1. QuorumsGrow /\ ~IsQuorum({})
  BY DisseminationSupports
<1>2. \A T \in AnnounceTargets : IsQuorum(T)
  BY <1>1 DEF AnnounceTargets, QuorumsGrow
<1> QED
  BY <1>1, <1>2, CommitteeOfAll, TargetsReached, DrainedHolds

\* So does 3Jane on a grid, if its committees have members.
THEOREM GridDrains ==
    ASSUME Protocol = "ThreeJane", NEW pids \in Seq(Replica),
           System.flavor = "WitnessGrid", System.pids = pids, System.n \in Nat,
           Len(pids) = System.n * System.n, System.x \in 1 .. System.n,
           System.consensus_committee_size > 0
    PROVE  Spec => []Drained
<1>1. /\ QuorumsGrow /\ QuorumsMeet
      /\ \A T \in QS!RandomQuorums(System) : IsQuorum(T)
  BY GridQuorums
<1>2. ASSUME NEW c \in Cmd PROVE Committee[c] # {}
  <2>1. Cardinality(Committee[c]) = System.consensus_committee_size
    BY ProtocolAssumption DEF CommitteeOfSystem, QS!CommitteeSize
  <2>2. Cardinality({}) = 0
    BY FS_EmptySet
  <2>3. Committee[c] = {} => Cardinality(Committee[c]) = Cardinality({})
    BY Zenon
  <2> QED
    BY <2>1, <2>2, <2>3
<1> QED
  BY <1>1, <1>2, TargetsReached, NobodyIsNoQuorum, DrainedHolds DEF AnnounceTargets
=============================================================================
