------------------------------- MODULE BLSMR -------------------------------
(***************************************************************************)
(* The protocol (crates/blsmr/src): process.rs drives the announce phase   *)
(* of dds.rs, the slow path of quorum.rs and the command log of log.rs.    *)
(* The owner of a command asks the replicas which commands conflict with   *)
(* it; when all replicas answer, and alike, the answer is decided at once  *)
(* (fast path), otherwise the union of the answers is proposed to a        *)
(* committee (slow path).  The decision is committed in every log.         *)
(*                                                                         *)
(* The network (dscale, external) delivers every message exactly once, in  *)
(* any order.  Two switches restrict it to what the simulations configure: *)
(*   Causal  link latencies satisfy the triangle inequality, so a Commit   *)
(*           cannot be overtaken by a message sent after its delivery      *)
(*           elsewhere (only this part of causality is kept);              *)
(*   Timely  the announce timeout is longer than a round trip.             *)
(***************************************************************************)
EXTENDS CmdLog

CONSTANTS
    Replica,    \* the processes of POOL_BLSMR
    Owner,      \* the replica that creates each command (CmdId::pid)
    Protocol,   \* BLSMRProtocol
    System,     \* the QuorumSystem of the configuration
    Committee,  \* the slow-path replicas of each command
    Causal, Timely

QS == INSTANCE QuorumSystem

\* Quorum::replicas: 3Jane takes as many as the quorum system says, ranked
\* by a hash; the others take everybody.
CommitteeOfSystem(S) ==
    /\ S \subseteq Replica
    /\ Cardinality(S) = IF Protocol = "ThreeJane" THEN QS!CommitteeSize(System)
                                                 ELSE Cardinality(Replica)

ASSUME ProtocolAssumption ==
    /\ Owner \in [Cmd -> Replica]
    /\ Protocol \in {"EPaxos", "Wintermute", "ThreeJane"}
    /\ Range(System.pids) = Replica /\ Len(System.pids) = Cardinality(Replica)
    /\ \A c \in Cmd : CommitteeOfSystem(Committee[c])
    /\ IsFiniteSet(Replica)
    /\ QS!RandomQuorums(System) \subseteq SUBSET Replica
    /\ Causal \in BOOLEAN /\ Timely \in BOOLEAN

Res == [pid : Replica, conflicts : SUBSET Cmd]

Instance == [open : BOOLEAN, deps : SUBSET Cmd, responses : SUBSET Replica]

Message == [type : {"Req", "Res", "Commit", "Request", "Response"},
            src : Replica, dst : Replica, cmd : Cmd,
            deps : SUBSET Cmd,   \* conflicts in a Res
            past : SUBSET Cmd]   \* decisions the sender had learned

VARIABLES
    submitted,        \* commands created so far
    log,              \* per replica, its CmdLog
    announce_quorums, \* responses gathered for a pending announcement
    pending,          \* commands with an entry in pending_announce_quorums
    timers,           \* commands with an armed force timer
    instances,        \* slow-path instances of the owners
    msgs,             \* messages in flight
    decided,          \* commands recorded by record_decision
    decidedDeps,      \* ... and their dependencies
    paths             \* recorded by record_path

owners == <<announce_quorums, pending, instances>>
records == <<decided, decidedDeps, paths>>
vars == <<submitted, log, timers, msgs, owners, records>>

NoInstance == [open |-> FALSE, deps |-> {}, responses |-> {}]

TypeOK ==
    /\ submitted \in SUBSET Cmd
    /\ log \in [Replica -> Log]
    /\ announce_quorums \in [Cmd -> SUBSET Res]
    /\ pending \in SUBSET Cmd
    /\ timers \in SUBSET Cmd
    /\ instances \in [Cmd -> Instance]
    /\ msgs \in SUBSET Message
    /\ decided \in SUBSET Cmd
    /\ decidedDeps \in [Cmd -> SUBSET Cmd]
    /\ paths \in [Cmd -> {"none", "fast", "slow"}]

Init ==
    /\ submitted = {}
    /\ log = [p \in Replica |-> EmptyLog]
    /\ announce_quorums = [c \in Cmd |-> {}]
    /\ pending = {}
    /\ timers = {}
    /\ instances = [c \in Cmd |-> NoInstance]
    /\ msgs = {}
    /\ decided = {}
    /\ decidedDeps = [c \in Cmd |-> {}]
    /\ paths = [c \in Cmd |-> "none"]

-----------------------------------------------------------------------------
\* The network.

Learned(p) == log[p].pending_commit \cup log[p].stable

\* The messages p sends to the replicas in T.
Sent(type, p, T, c, D) ==
    {[type |-> type, src |-> p, dst |-> q, cmd |-> c, deps |-> D,
      past |-> IF Causal THEN Learned(p) \ Learned(q) ELSE {}] : q \in T}

Deliverable(m) == m.past \subseteq Learned(m.dst)

\* m is taken from the network and the messages M are put on it.
Deliver(m, M) == msgs' = (msgs \ {m}) \cup M

-----------------------------------------------------------------------------
\* The steps of an owner, as seen from the announce and the slow path.

IsQuorum(S) == QS!IsQuorum(System, S)

Responders(R) == {res.pid : res \in R}

\* Faulty: only the conflicts all responses agree on.
CommonDeps(R) == {d \in Cmd : \A res \in R : d \in res.conflicts}

\* union_deps
UnionDeps(R) == UNION {res.conflicts : res \in R}

\* Faulty: equal answers of any number of replicas.
AlikeResponses(R) == \A a, b \in R : a.conflicts = b.conflicts

\* allow_fastpath
AllowFastpath(R) ==
    /\ Cardinality(R) = Cardinality(Replica)
    /\ \A a, b \in R : a.conflicts = b.conflicts

\* BLSMR::decide, at the owner of c; "kept" is what stays on the network.
Decide(c, D, kept) ==
    LET p == Owner[c] IN
    /\ decided' = decided \cup {c}
    /\ decidedDeps' = [decidedDeps EXCEPT ![c] = D]
    /\ \E l \in CommitOutcomes(log[p], c, D) : log' = [log EXCEPT ![p] = l]
    /\ msgs' = kept \cup Sent("Commit", p, Replica \ {p}, c, D)

\* Quorum::propose, at the owner of c.
Propose(c, D, kept) ==
    /\ instances' = [instances EXCEPT
                        ![c] = [open |-> TRUE, deps |-> D, responses |-> {}]]
    /\ msgs' = kept \cup Sent("Request", Owner[c], Committee[c], c, D)

\* When the responses R to an announcement are enough.
QuorumSuffices(R) == IsQuorum(Responders(R))  \* Faulty for Wintermute.

AnnounceReady(R) ==
    IF Protocol = "Wintermute"
    THEN Cardinality(R) = Cardinality(Replica)
    ELSE IsQuorum(Responders(R))

\* Faulty: a later response or the timer ends the announcement again.
KeepAnnouncement(c) == UNCHANGED <<pending, announce_quorums>>

\* The entry of c leaves pending_announce_quorums.
CloseAnnouncement(c) ==
    /\ pending' = pending \ {c}
    /\ announce_quorums' = [announce_quorums EXCEPT ![c] = {}]

\* The announcement of c ends with the responses R: handle_announce_status.
QuorumReady(c, R, kept) ==
    /\ CloseAnnouncement(c)
    /\ \/ /\ AllowFastpath(R)
          /\ paths' = [paths EXCEPT ![c] = "fast"]
          /\ Decide(c, UnionDeps(R), kept)
          /\ UNCHANGED instances
       \/ /\ ~AllowFastpath(R)
          /\ paths' = [paths EXCEPT ![c] = "slow"]
          /\ Propose(c, UnionDeps(R), kept)
          /\ UNCHANGED <<log, decided, decidedDeps>>

-----------------------------------------------------------------------------
\* Timers.

AnnounceTargets == IF Protocol = "ThreeJane" THEN QS!RandomQuorums(System) ELSE {Replica}

\* The submit timer of the owner: c is created and announced.  A process
\* creates its commands in the order of their ids.
Announce(c) ==
    /\ c \notin submitted
    /\ \A d \in Cmd \ submitted : Owner[d] = Owner[c] => c <= d
    /\ submitted' = submitted \cup {c}
    /\ log' = [log EXCEPT ![Owner[c]] = RecordCreation(@, c)]
    /\ timers' = IF Protocol = "Wintermute" THEN timers \cup {c} ELSE timers
    /\ pending' = pending \cup {c}
    /\ \E T \in AnnounceTargets : msgs' = msgs \cup Sent("Req", Owner[c], T, c, {})
    /\ UNCHANGED <<announce_quorums, instances, records>>

RoundTripOver(c) == \A m \in msgs : m.cmd = c => m.type \notin {"Req", "Res"}

\* Faulty: the announcement ends before the quorum is checked.
AbandoningForceTimer(c) ==
    /\ c \in timers
    /\ timers' = timers \ {c}
    /\ IF c \in pending /\ IsQuorum(Responders(announce_quorums[c]))
       THEN QuorumReady(c, announce_quorums[c], msgs)
       ELSE CloseAnnouncement(c) /\ UNCHANGED <<log, msgs, instances, records>>
    /\ UNCHANGED submitted

\* The force timer of c.  When there is no quorum yet the announcement stays
\* pending, without a timer.
OnForceTimer(c) ==
    /\ c \in timers
    /\ Timely => RoundTripOver(c)
    /\ timers' = timers \ {c}
    /\ IF c \in pending /\ IsQuorum(Responders(announce_quorums[c]))
       THEN QuorumReady(c, announce_quorums[c], msgs)
       ELSE UNCHANGED <<log, msgs, owners, records>>
    /\ UNCHANGED submitted

-----------------------------------------------------------------------------
\* Message handlers.

HandleReq(m) ==
    /\ m.type = "Req"
    /\ log' = [log EXCEPT ![m.dst] = Submit(@, m.cmd)]
    /\ Deliver(m, Sent("Res", m.dst, {m.src}, m.cmd, Conflicts(log[m.dst], m.cmd)))
    /\ UNCHANGED <<submitted, timers, owners, records>>

\* A response to an announcement that is over is ignored.
HandleRes(m) ==
    LET c == m.cmd
        R == announce_quorums[c] \cup {[pid |-> m.src, conflicts |-> m.deps]}
    IN
    /\ m.type = "Res"
    /\ \/ /\ c \notin pending
          /\ Deliver(m, {})
          /\ UNCHANGED <<log, owners, records>>
       \/ /\ c \in pending /\ ~AnnounceReady(R)
          /\ announce_quorums' = [announce_quorums EXCEPT ![c] = R]
          /\ Deliver(m, {})
          /\ UNCHANGED <<log, pending, instances, records>>
       \/ /\ c \in pending /\ AnnounceReady(R)
          /\ QuorumReady(c, R, msgs \ {m})
    /\ UNCHANGED <<submitted, timers>>

HandleCommit(m) ==
    /\ m.type = "Commit"
    /\ \E l \in CommitOutcomes(log[m.dst], m.cmd, m.deps) :
          log' = [log EXCEPT ![m.dst] = l]
    /\ Deliver(m, {})
    /\ UNCHANGED <<submitted, timers, owners, records>>

HandleRequest(m) ==
    /\ m.type = "Request"
    /\ Deliver(m, Sent("Response", m.dst, {m.src}, m.cmd, m.deps))
    /\ UNCHANGED <<submitted, log, timers, owners, records>>

\* Instance::accept, then the decision when the whole committee answered.
HandleResponse(m) ==
    LET c == m.cmd
        instance == instances[c]
        accepted == instance.open /\ instance.deps = m.deps /\ m.src \in Committee[c]
        responses == instance.responses \cup {m.src}
    IN
    /\ m.type = "Response"
    /\ \/ /\ ~accepted
          /\ Deliver(m, {})
          /\ UNCHANGED <<log, instances, records>>
       \/ /\ accepted /\ responses # Committee[c]
          /\ instances' = [instances EXCEPT ![c].responses = responses]
          /\ Deliver(m, {})
          /\ UNCHANGED <<log, records>>
       \/ /\ accepted /\ responses = Committee[c]
          /\ instances' = [instances EXCEPT ![c] = NoInstance]
          /\ Decide(c, instance.deps, msgs \ {m})
          /\ UNCHANGED paths
    /\ UNCHANGED <<submitted, timers, announce_quorums, pending>>

Receive(m) ==
    /\ Deliverable(m)
    /\ \/ HandleReq(m)
       \/ HandleRes(m)
       \/ HandleCommit(m)
       \/ HandleRequest(m)
       \/ HandleResponse(m)

Next ==
    \/ \E c \in Cmd : Announce(c) \/ OnForceTimer(c)
    \/ \E m \in msgs : Receive(m)

Spec == Init /\ [][Next]_vars

\* dscale delivers every message and fires every timer in the end.
Fairness ==
    /\ WF_vars(\E m \in msgs : Receive(m))
    /\ WF_vars(\E c \in Cmd : OnForceTimer(c))

FairSpec == Spec /\ Fairness

-----------------------------------------------------------------------------

(***************************************************************************)
(* Commands on one key are executed in the same order everywhere: what the *)
(* announce phase is for.  No step compares two replicas; the order has to *)
(* follow from the conflicts seen by two quorums (dds.rs, log.rs submit,   *)
(* which forgets a command once it is stable).                             *)
(***************************************************************************)
ConflictOrder ==
    \A p, q \in Replica : \A a, b \in Cmd :
        KeyOf[a] = KeyOf[b] /\ Precedes(log[p].executed, a, b)
            => ~Precedes(log[q].executed, b, a)

\* p has the body of c, or had it when it executed c.
Visible(p, c) == log[p].entries[c].cmd \/ c \in log[p].applied

(***************************************************************************)
(* A decided command is known to a quorum, and one decided on the fast     *)
(* path (allow_fastpath) to every replica: only then do later announcements*)
(* meet it, and every replica can execute a fast command.                  *)
(***************************************************************************)
DecisionVisible ==
    \A c \in decided :
        /\ IsQuorum({p \in Replica : Visible(p, c)})
        /\ paths[c] = "fast" => \A p \in Replica : Visible(p, c)

(***************************************************************************)
(* "Executes root and every not-yet-executed command reachable through it" *)
(* (log.rs try_execute): what is marked executed has been executed.        *)
(***************************************************************************)
ExecutedHasBody ==
    \A p \in Replica : Range(log[p].executed) \subseteq log[p].applied

(***************************************************************************)
(* When the network is empty and no timer is armed nothing is left half    *)
(* done: no announcement and no slow-path instance is kept, and every      *)
(* command is stable everywhere.                                           *)
(***************************************************************************)
Drained ==
    msgs = {} /\ timers = {} =>
        /\ pending = {}
        /\ \A c \in Cmd : announce_quorums[c] = {} /\ instances[c] = NoInstance
        /\ \A p \in Replica : log[p].stable = submitted

(***************************************************************************)
(* Every command that is created becomes stable at every replica, however  *)
(* early its force timer fires.                                            *)
(***************************************************************************)
EventuallyStable ==
    \A c \in Cmd : \A p \in Replica : c \in submitted ~> c \in log[p].stable

(***************************************************************************)
(* The protocol implements the specification of the replicas: it decides   *)
(* once per command, never makes a command depend on itself, and every log *)
(* learns exactly what was decided.                                        *)
(***************************************************************************)
Logs == INSTANCE Replicas

ImplementsReplicas == Logs!Spec
=============================================================================
