----------------------------- MODULE Bullshark -----------------------------
(***************************************************************************)
(* Bullshark (crates/bullshark/src: lib.rs and dag_utils.rs) over links of *)
(* fixed latency, as the simulations configure them: events happen in the  *)
(* order of their times, two at the same time in any order.  A run covers  *)
(* every choice of latencies in Latencies and of a timeout, up to MaxTime. *)
(*                                                                         *)
(* Consistent broadcast is ConsistentBroadcast seen from outside: a vertex *)
(* is delivered to q when the certificate of its source reaches q.         *)
(*                                                                         *)
(* Every process submits commands to all; each puts those it has pending   *)
(* into its next vertex and forgets the ones it meets in other vertices.   *)
(***************************************************************************)
EXTENDS Integers, Sequences, FiniteSets, FiniteSetsExt, SequencesExt

CONSTANTS
    N,          \* proc_num
    Latencies,  \* the latencies considered, functions of two processes
    Timeouts,   \* the timeouts of a round considered
    MaxTime,    \* time budget of the simulation
    SubmitInterval, SubmitLimit,  \* of the commands of a process
    MaxLag      \* see KeepsOrdering

Replica == 0 .. N - 1

ASSUME BullsharkAssumption ==
    /\ N \in Nat \ {0} /\ Timeouts \subseteq Nat \ {0} /\ MaxTime \in Nat /\ MaxLag \in Nat
    /\ SubmitInterval \in Nat \ {0} /\ SubmitLimit \in Nat
    /\ Latencies \subseteq [Replica \X Replica -> Nat]

\* Of a process, numbered from 1.
Command == Replica \X (1 .. SubmitLimit)

\* struct Vertex; strong_edges are the sources of vertices of round - 1.
\* A process has one vertex in a round.
Vertex == [round : Nat, source : Replica, strong_edges : SUBSET Replica,
           commands : SUBSET Command]

\* struct Bullshark with its RoundBasedDAG.  Commits and its elements are
\* the history of order_anchors: an anchor and the vertices ordered with it.
State == [submitted : Nat, pending_commands : SUBSET Command,
          round : Nat, wait : BOOLEAN,
          timer : Nat,               \* when it fires; 0: none
          matrix : SUBSET Vertex, allocated : Nat, gc_offset : Nat,
          buffer : SUBSET Vertex,
          ordered : SUBSET Vertex,
          last_ordered_round : Nat,
          commits : Seq([anchor : Vertex, vertices : SUBSET Vertex]),
          panic : {"none", "index", "live strong edge"}]

VARIABLES
    latency,  \* of the links, fixed
    timeout,  \* of a round, fixed
    now,
    replica,  \* the state of every process
    msgs,     \* vertices on their way to a process, with the time of arrival
    submits,  \* commands on their way, likewise
    made      \* history: every vertex that was ever made

vars == <<latency, timeout, now, replica, msgs, submits, made>>

Message == [vertex : Vertex, dst : Replica, at : Nat]
Submit == [command : Command, dst : Replica, at : Nat]

-----------------------------------------------------------------------------
\* Thresholds and leaders.

AdversaryThreshold == (N - 1) \div 3

\* Faulty: one member short.
QuorumShort == 2 * AdversaryThreshold

QuorumSize == 2 * AdversaryThreshold + 1
DirectCommitThreshold == AdversaryThreshold + 1

\* N is the leader of some rounds; it is not a process.
LeaderId(r) == (r % N) + 1

-----------------------------------------------------------------------------
\* struct RoundBasedDAG

Row(st, r) == {v \in st.matrix : v.round = r}

\* Faulty: the leader is that of the round the process is in.
AnchorOfLeaderNow(st, r) == {v \in Row(st, r) : v.source = LeaderId(st.round)}

\* The anchor of round r, as a set of no or one vertex.
Anchor(st, r) == {v \in Row(st, r) : v.source = LeaderId(r)}

QuorumReached(st, r) == Cardinality(Row(st, r)) >= QuorumSize

\* The vertices that v refers to; they are in the matrix as long as v is,
\* unless their round was collected.
Parents(st, v) == {u \in Row(st, v.round - 1) : u.source \in v.strong_edges}

\* The vertices reachable from v but not through the vertices in S.
Reachable(st, v, S) ==
    LET layer[k \in 0 .. v.round - st.gc_offset] ==
            IF k = 0 THEN {v} \ S
            ELSE (UNION {Parents(st, u) : u \in layer[k - 1]}) \ S
    IN  UNION {layer[k] : k \in 0 .. v.round - st.gc_offset}

PathExists(st, from, to) == to \in Reachable(st, from, {})

\* Faulty: all that the process has up to the anchor is ordered with it.
OrderUpTo(st, anchor) ==
    LET new == {v \in st.matrix : v.round < anchor.round} \cup {anchor}
    IN  [st EXCEPT !.ordered = @ \cup new,
                   !.commits = Append(@, [anchor |-> anchor, vertices |-> new \ st.ordered])]

\* fn order_from
OrderFrom(st, anchor) ==
    LET new == Reachable(st, anchor, st.ordered)
    IN  IF new = {} THEN st
        ELSE [st EXCEPT !.ordered = @ \cup new,
                        !.commits = Append(@, [anchor |-> anchor, vertices |-> new])]

AddVertex(st, v) ==
    [st EXCEPT !.matrix = @ \cup {v},
               !.allocated = IF v.round >= @ THEN v.round + 1 ELSE @]

\* Faulty: the marks of the rows that go stay.
CollectWithoutMarks(st, keep_from) ==
    LET offset == Max({st.gc_offset, Min({keep_from, st.allocated - 1})})
    IN  [st EXCEPT !.gc_offset = offset,
                   !.matrix = {v \in @ : v.round >= offset}]

\* Faulty: the marks of the oldest row that stays go, too.
CollectTooManyMarks(st, keep_from) ==
    LET offset == Max({st.gc_offset, Min({keep_from, st.allocated - 1})})
    IN  [st EXCEPT !.gc_offset = offset,
                   !.matrix = {v \in @ : v.round >= offset},
                   !.ordered = {v \in @ : v.round > offset}]

\* Faulty: the row of the anchor goes, too.
CollectThrough(st, keep_from) ==
    LET offset == Max({st.gc_offset, Min({keep_from + 1, st.allocated - 1})})
    IN  [st EXCEPT !.gc_offset = offset,
                   !.matrix = {v \in @ : v.round >= offset},
                   !.ordered = {v \in @ : v.round >= offset}]

\* fn gc: the newest row stays.
CollectGarbage(st, keep_from) ==
    LET offset == Min({keep_from, st.allocated - 1})
    IN  IF offset <= st.gc_offset THEN st
        ELSE [st EXCEPT !.gc_offset = offset,
                        !.matrix = {v \in @ : v.round >= offset},
                        !.ordered = {v \in @ : v.round >= offset}]

-----------------------------------------------------------------------------
\* Ordering.

\* The steps of two rounds that order_anchors goes back from the anchor.
StepsBack(st, anchor) == Max({0, (anchor.round - 1 - st.last_ordered_round) \div 2})

\* The anchor that each step back leads to: an older one with a path from
\* the one before, or else the one before.
AnchorsBack(st, anchor) ==
    LET found[k \in 0 .. StepsBack(st, anchor)] ==
            IF k = 0 THEN anchor
            ELSE LET older == {a \in Anchor(st, anchor.round - 2 * k) :
                                  PathExists(st, found[k - 1], a)}
                 IN  IF older = {} THEN found[k - 1] ELSE CHOOSE a \in older : TRUE
    IN  found

\* fn order_anchors: the oldest of the anchors is ordered first; another call
\* of order_from with the same one finds nothing new.
OrderAnchors(st, anchor) ==
    LET steps == StepsBack(st, anchor)
        anchors == AnchorsBack(st, anchor)
        start == [st EXCEPT !.last_ordered_round = anchor.round]
        ordered[k \in 0 .. steps] ==
            OrderFrom(IF k = 0 THEN start ELSE ordered[k - 1], anchors[steps - k])
    IN  CollectGarbage(ordered[steps], anchor.round)

Votes(st, v) ==
    {u \in Parents(st, v) : LeaderId(v.round - 2) \in u.strong_edges}

\* fn try_ordering, for the vertex v of a leader.
TryOrdering(st, v) ==
    IF /\ v.round % 2 = 0 /\ v.round > 0
       /\ Anchor(st, v.round - 2) # {}
       /\ Cardinality(Votes(st, v)) >= DirectCommitThreshold
    THEN OrderAnchors(st, CHOOSE a \in Anchor(st, v.round - 2) : TRUE)
    ELSE st

OrderIfLeader(st, v) ==
    IF v.source = LeaderId(v.round) THEN TryOrdering(st, v) ELSE st

-----------------------------------------------------------------------------
\* Rounds.  A handler of the process pid works at the time "time" on the
\* record w: the state st, the vertices it broadcasts, and whether the last
\* vertex was added.

\* fn create_vertex
CreateVertex(w, r) ==
    [round |-> r, source |-> w.pid,
     strong_edges |-> {u.source : u \in Row(w.st, r - 1)},
     commands |-> w.st.pending_commands]

\* The process enters round r: start_timer and broadcast_vertex.
EnterRound(w, r) ==
    LET vertex == CreateVertex(w, r)
        st == [w.st EXCEPT !.round = r, !.timer = w.time + timeout, !.wait = TRUE,
                           !.pending_commands = {}]
    IN  [w EXCEPT !.st = OrderIfLeader(AddVertex(st, vertex), vertex),
                  !.sent = @ \cup {vertex}]

TryAdvanceRound(w) ==
    IF QuorumReached(w.st, w.st.round) THEN EnterRound(w, w.st.round + 1) ELSE w

\* Names of vertices.
Names(V) == {<<v.round, v.source>> : v \in V}

Panic(w, what) == [w EXCEPT !.st.panic = what]

\* fn try_add_to_dag.  An edge is a weak pointer: the vertex of a missing one
\* is alive in the buffer or, one of A, elsewhere.
TryAddToDag(w, v, A) ==
    LET st == w.st
        missing == v.strong_edges \ {u.source : u \in Row(st, v.round - 1)}
        added == [w EXCEPT !.st = AddVertex(st, v), !.added = TRUE]
        jumped == IF QuorumReached(added.st, v.round) /\ v.round > st.round
                  THEN EnterRound(added, v.round) ELSE added
        tried == [jumped.st EXCEPT !.buffer = @ \ {v}]
    IN  IF v.round <= st.gc_offset
        THEN [w EXCEPT !.st.buffer = @ \ {v}, !.added = TRUE]
        ELSE IF v.round > Max({st.allocated, 1})
        THEN [w EXCEPT !.added = FALSE]
        ELSE IF st.allocated = 0
        THEN Panic(w, "index")
        ELSE IF missing # {}
        THEN IF <<v.round - 1, Min(missing)>> \in A \cup Names(st.buffer)
             THEN [w EXCEPT !.added = FALSE] ELSE Panic(w, "live strong edge")
        ELSE [jumped EXCEPT !.st = OrderIfLeader(tried, v)]

-----------------------------------------------------------------------------
\* Handlers.

\* on_message, VertexType::Genesis.
OnGenesis(w, v) ==
    IF v.round < w.st.gc_offset THEN Panic(w, "index")
    ELSE TryAdvanceRound([w EXCEPT !.st = AddVertex(w.st, v)])

\* Faulty: nothing is waited for.
RoundRushed(st) == TRUE

\* What the process waits for in its round, until the timer.
RoundDone(st) ==
    \/ ~st.wait
    \/ st.round % 2 = 0 /\ Anchor(st, st.round) # {}
    \/ /\ st.round % 2 = 1 /\ Anchor(st, st.round - 1) # {}
       /\ Cardinality({v \in Row(st, st.round) : LeaderId(st.round - 1) \in v.strong_edges})
            >= QuorumSize

\* Vertex::cmp
Earlier(u, v) == u.round < v.round \/ (u.round = v.round /\ u.source < v.source)

First(V) == CHOOSE v \in V : \A u \in V : ~Earlier(u, v)

\* The buffered vertices are tried again, in their order.
RetryBuffer(w, A) ==
    LET V == w.st.buffer
        retried[i \in 0 .. Cardinality(V)] ==
            IF i = 0 THEN [left |-> V, w |-> w]
            ELSE LET before == retried[i - 1]
                     v == First(before.left)
                 IN  [left |-> before.left \ {v}, w |-> TryAddToDag(before.w, v, A)]
    IN  retried[Cardinality(V)].w

\* on_message, VertexType::Vertex: its commands are no longer pending, and
\* the buffered vertices are tried first.
OnVertex(w, v, A) ==
    LET retried == RetryBuffer([w EXCEPT !.st.pending_commands = @ \ v.commands], A)
        tried == TryAddToDag(retried, v, A)
        kept == IF tried.added THEN tried ELSE [tried EXCEPT !.st.buffer = @ \cup {v}]
    IN  IF Cardinality(v.strong_edges) < QuorumSize THEN w
        ELSE IF kept.st.round = v.round /\ RoundDone(kept.st) THEN TryAdvanceRound(kept)
        ELSE kept

-----------------------------------------------------------------------------
\* Links, time and the processes.

\* The certificate of p goes out when a quorum has signed.
CertifiedAfter(l, p) ==
    LET signed[q \in Replica] == l[p, q] + l[q, p]
    IN  Min({t \in {signed[q] : q \in Replica} :
                Cardinality({q \in Replica : signed[q] <= t}) >= QuorumSize})

Broadcast(l, t, p, V) ==
    UNION {{[vertex |-> v, dst |-> q, at |-> t + CertifiedAfter(l, p) + l[p, q]] :
               q \in Replica} : v \in V}

Genesis(p) == [round |-> 0, source |-> p, strong_edges |-> {},
               commands |-> {}]

Start == [submitted |-> 0, pending_commands |-> {},
          round |-> 0, wait |-> TRUE, timer |-> 0,
          matrix |-> {}, allocated |-> 0, gc_offset |-> 0,
          buffer |-> {}, ordered |-> {}, last_ordered_round |-> 0,
          commits |-> <<>>, panic |-> "none"]

Init ==
    /\ latency \in Latencies
    /\ timeout \in Timeouts
    /\ now = 0
    /\ replica = [p \in Replica |-> Start]
    /\ msgs = UNION {Broadcast(latency, 0, p, {Genesis(p)}) : p \in Replica}
    /\ submits = {}
    /\ made = {Genesis(p) : p \in Replica}

\* The rows are those from gc_offset on, and marked as ordered is only what is
\* in them; no event is overdue.
TypeOK ==
    /\ latency \in Latencies /\ timeout \in Timeouts
    /\ now \in 0 .. MaxTime
    /\ DOMAIN replica = Replica
    /\ \A p \in Replica :
          LET st == replica[p] IN
          /\ DOMAIN st = DOMAIN Start
          /\ \A v \in st.matrix \cup st.buffer \cup st.ordered :
                v.source \in Replica /\ v.strong_edges \subseteq Replica
          /\ \A v \in st.matrix : st.gc_offset <= v.round /\ v.round < st.allocated
          /\ st.ordered \subseteq st.matrix
          /\ st.timer > 0 => st.timer >= now
          /\ st.submitted <= SubmitLimit /\ st.pending_commands \subseteq Command
    /\ \A m \in msgs \cup submits : m.dst \in Replica /\ m.at >= now

\* What other processes than p, and the messages, hold.
AliveElsewhere(p) ==
    Names({m.vertex : m \in msgs}
            \cup UNION {replica[q].matrix \cup replica[q].buffer : q \in Replica \ {p}})

\* When the submit timer of p fires, while it is armed.
SubmitAt(p) == SubmitInterval * (replica[p].submitted + 1)

\* The next event is at time t.
NextEventAt(t) ==
    /\ t <= MaxTime
    /\ \A m \in msgs \cup submits : t <= m.at
    /\ \A p \in Replica :
          /\ replica[p].timer > 0 => t <= replica[p].timer
          /\ replica[p].submitted < SubmitLimit => t <= SubmitAt(p)
    /\ now' = t

Work(p) == [pid |-> p, time |-> now', st |-> replica[p], sent |-> {}, added |-> FALSE]

\* p has handled an event; "rest" stays on its way.
Handled(p, w, rest) ==
    /\ replica' = [replica EXCEPT ![p] = w.st]
    /\ msgs' = rest \cup Broadcast(latency, now', p, w.sent)
    /\ made' = made \cup w.sent
    /\ UNCHANGED <<latency, timeout, submits>>

OnMessage(m) ==
    LET p == m.dst IN
    /\ NextEventAt(m.at)
    /\ Handled(p,
               IF m.vertex.round = 0 THEN OnGenesis(Work(p), m.vertex)
               ELSE OnVertex(Work(p), m.vertex, AliveElsewhere(p)),
               msgs \ {m})

\* The timer of the current round.
OnTimer(p) ==
    /\ replica[p].timer > 0
    /\ NextEventAt(replica[p].timer)
    /\ Handled(p, TryAdvanceRound([Work(p) EXCEPT !.st.wait = FALSE, !.st.timer = 0]), msgs)

\* on_timer, the submit timer: a new command goes to every process.
OnSubmitTimer(p) ==
    LET n == replica[p].submitted + 1 IN
    /\ n <= SubmitLimit
    /\ NextEventAt(SubmitAt(p))
    /\ replica' = [replica EXCEPT ![p].submitted = n]
    /\ submits' = submits \cup
           {[command |-> <<p, n>>, dst |-> q, at |-> now' + latency[p, q]] : q \in Replica}
    /\ UNCHANGED <<latency, timeout, msgs, made>>

\* on_message, BullsharkMessage::Submit
OnSubmit(m) ==
    /\ NextEventAt(m.at)
    /\ replica' = [replica EXCEPT ![m.dst].pending_commands = @ \cup {m.command}]
    /\ submits' = submits \ {m}
    /\ UNCHANGED <<latency, timeout, msgs, made>>

\* No process panics: none indexes a round that was collected, as a late
\* Genesis vertex does (dag_utils.rs, round), or follows an edge to a vertex
\* that nobody holds any more.  A panic ends the simulation.
Running == \A p \in Replica : replica[p].panic = "none"

Next ==
    /\ Running
    /\ \/ \E m \in msgs : OnMessage(m)
       \/ \E p \in Replica : OnTimer(p) \/ OnSubmitTimer(p)
       \/ \E m \in submits : OnSubmit(m)

Spec == Init /\ [][Next]_vars

-----------------------------------------------------------------------------
\* Properties.

\* Any two processes order the same anchors, each with the same vertices, as
\* far as both have come, also when one commits an anchor directly and the
\* other finds it walking back from a later one (order_anchors, gc).
OrderAgreement ==
    \A p, q \in Replica :
        LET a == replica[p].commits  b == replica[q].commits
        IN  IsPrefix(a, b) \/ IsPrefix(b, a)

Anchors(p) == {c.anchor : c \in Range(replica[p].commits)}

\* Every process commits anchors in the order of their rounds, and two that have
\* both passed a round have both committed its anchor, directly or walking back
\* from a later one, or neither has (try_ordering, order_anchors).  Round 0 is
\* left out: order_anchors does not walk back to it.
AnchorAgreement ==
    \A p \in Replica :
        /\ \A i, j \in DOMAIN replica[p].commits : i < j =>
              replica[p].commits[i].anchor.round < replica[p].commits[j].anchor.round
        /\ \A q \in Replica, a \in Anchors(p) :
              0 < a.round /\ a.round <= replica[q].last_ordered_round => a \in Anchors(q)

RefersTo(v, u) == u.round = v.round - 1 /\ u.source \in v.strong_edges

\* A vertex is ordered once, though gc forgets what was ordered, and with no
\* later anchor than the vertices that refer to it, though it may arrive after
\* them and wait in the buffer (order_from, gc, try_add_to_dag).
CausalOrder ==
    \A p \in Replica :
        LET c == replica[p].commits
        IN  \A i, j \in DOMAIN c : i < j =>
                \A v \in c[i].vertices, u \in c[j].vertices : u # v /\ ~RefersTo(v, u)

\* Vertices that some process may still order.
Alive ==
    {m.vertex : m \in msgs} \cup
    UNION {replica[p].buffer \cup (replica[p].matrix \ replica[p].ordered) : p \in Replica}

\* AtomicBool committed: set by whoever orders a vertex with the command.
Committed ==
    UNION {v.commands : v \in
        UNION {c.vertices : c \in UNION {Range(replica[p].commits) : p \in Replica}}}

Submitted == {c \in Command : c[2] <= replica[c[1]].submitted}

\* No command is forgotten: it is committed, or on its way, or pending somewhere,
\* or in a vertex that may still be ordered.
CommandKept ==
    Submitted \subseteq
        Committed \cup {m.command : m \in submits}
            \cup UNION {replica[p].pending_commands : p \in Replica}
            \cup UNION {v.commands : v \in Alive}

\* Where the timeout is long for the links, the rounds do not run away from
\* the order: a process that enters round after round orders anchors, too, at
\* most MaxLag rounds behind (try_ordering, the wait of on_message).
KeepsOrdering ==
    (\A p, q \in Replica : timeout > 10 * latency[p, q]) =>
        \A p \in Replica : replica[p].round - replica[p].last_ordered_round <= MaxLag
=============================================================================
