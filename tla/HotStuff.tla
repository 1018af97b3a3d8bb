------------------------------ MODULE HotStuff ------------------------------
(***************************************************************************)
(* Chained HotStuff (crates/hotstuff/src/lib.rs), rotating leader or not.  *)
(*                                                                         *)
(* A block refers to its parent by a weak pointer.  The processes of a     *)
(* simulation share one memory, so the pointer works as long as anybody,   *)
(* a replica or a message in flight, holds the parent: Held and Upgraded   *)
(* model that.                                                             *)
(*                                                                         *)
(* dscale (external) delivers every message exactly once.  With Ordered    *)
(* it does so as links of fixed metric latency do, the only ones that the  *)
(* simulations configure: what reaches q does not overtake a message to q  *)
(* sent in its causal past.  Without it the order is free.                 *)
(***************************************************************************)
EXTENDS Naturals, Sequences

CONSTANTS
    N,          \* number of processes
    Cmd,        \* commands
    Owner,      \* the process that submits each command
    Rotating,   \* const ROTATING
    Ordered,
    MaxBlocks   \* bound: no leaf is created after this many

Replica == 0 .. N - 1

ASSUME HotStuffAssumption ==
    /\ N \in Nat \ {0} /\ MaxBlocks \in Nat \ {0}
    /\ Owner \in [Cmd -> Replica]
    /\ Rotating \in BOOLEAN /\ Ordered \in BOOLEAN

Genesis == 0
BlockId == 0 .. MaxBlocks

Block == [parent : BlockId, height : 1 .. MaxBlocks, commands : SUBSET Cmd]

\* struct Hotstuff; "executed" is the history of commit.
State == [pending_commands : SUBSET Cmd,
          pending_quorums  : [1 .. MaxBlocks -> 0 .. N],  \* 0: no entry
          nodes            : SUBSET BlockId,
          vheight          : 0 .. MaxBlocks,
          b_lock : BlockId, b_exec : BlockId, b_leaf : BlockId,
          executed         : Seq(BlockId),
          panicked         : BOOLEAN]

Message == [type : {"Submit", "Propose", "Vote"},
            src : Replica, dst : Replica,
            block : BlockId,         \* of a proposal or a vote
            commands : SUBSET Cmd]   \* the submitted command

VARIABLES
    blocks,     \* every block ever created; a block's id is its index
    replica,    \* the state of every process
    submitted,  \* commands submitted so far
    msgs        \* messages in flight

vars == <<blocks, replica, submitted, msgs>>

TypeOK ==
    /\ blocks \in Seq(Block) /\ Len(blocks) <= MaxBlocks
    /\ replica \in [Replica -> State]
    /\ submitted \in SUBSET Cmd
    /\ msgs \in SUBSET Message

ToAll(type, p, T, b, C) ==
    {[type |-> type, src |-> p, dst |-> q, block |-> b, commands |-> C] : q \in T}

Start == [pending_commands |-> {},
          pending_quorums  |-> [b \in 1 .. MaxBlocks |-> 0],
          nodes            |-> {Genesis},
          vheight          |-> 0,
          b_lock |-> Genesis, b_exec |-> Genesis, b_leaf |-> Genesis,
          executed         |-> <<>>,
          panicked         |-> FALSE]

\* default() of all processes, and on_start of process 0, which proposes.
Init ==
    /\ blocks = <<[parent |-> Genesis, height |-> 1, commands |-> {}]>>
    /\ replica = [p \in Replica |-> IF p = 0 THEN [Start EXCEPT !.nodes = {Genesis, 1}]
                                             ELSE Start]
    /\ submitted = {}
    /\ msgs = ToAll("Propose", 0, Replica, 1, {})

-----------------------------------------------------------------------------
\* Blocks.  bs is the sequence of the blocks that exist.

Height(bs, b) == IF b = Genesis THEN 0 ELSE bs[b].height

\* Node::parent, for a set of no or one block; A are the blocks alive.
Upgraded(bs, S, A) == {bs[b].parent : b \in S \ {Genesis}} \cap A

\* b and its ancestors, without the genesis.
Lineage(bs, b) ==
    LET L[x \in 0 .. Len(bs)] == IF x = Genesis THEN {} ELSE {x} \cup L[bs[x].parent]
    IN  L[b]

\* The blocks a process holds.
Held(st) == st.nodes \cup {st.b_lock, st.b_exec, st.b_leaf}

\* The blocks that others than p hold; the key-value store holds the genesis.
HeldElsewhere(p) ==
    {Genesis} \cup {m.block : m \in msgs}
        \cup UNION {Held(replica[q]) : q \in Replica \ {p}}

-----------------------------------------------------------------------------
\* fn update and what it calls.  A are the blocks held elsewhere.

\* Faulty: what is below the lock is dropped, executed or not.
CollectUnlocked(bs, st) ==
    LET h == Height(bs, st.b_lock) IN
    [st EXCEPT !.nodes = {b \in @ : Height(bs, b) >= h},
               !.pending_quorums =
                    [b \in DOMAIN @ |-> IF @[b] > 0 /\ Height(bs, b) <= h THEN 0 ELSE @[b]]]

CollectGarbage(bs, st) ==
    LET h == Height(bs, st.b_exec) IN
    [st EXCEPT !.nodes = {b \in @ : Height(bs, b) >= h},
               !.pending_quorums =
                    [b \in DOMAIN @ |-> IF @[b] > 0 /\ Height(bs, b) <= h THEN 0 ELSE @[b]]]

\* commit walks down to the last executed block and executes on the way
\* back, height by height; a parent that nobody holds any more is a panic.
Commit(bs, st, x, A) ==
    LET h == Height(bs, st.b_exec)
        new == {b \in Lineage(bs, x) : Height(bs, b) > h}
        batch == [i \in 1 .. Height(bs, x) - h |-> CHOOSE b \in new : Height(bs, b) = h + i]
    IN  IF \E b \in new : bs[b].parent \notin A \cup Held(st)
        THEN [st EXCEPT !.panicked = TRUE]
        ELSE CollectGarbage(bs, [st EXCEPT !.executed = @ \o batch, !.b_exec = x])

\* Faulty: a chain of two is enough.
UpdateTwoChain(bs, st, b, A) ==
    LET alive == A \cup Held(st)
        parent == Upgraded(bs, {b}, alive)
        grandparent == Upgraded(bs, parent, alive)
        next == [st EXCEPT
                    !.b_leaf = IF Height(bs, b) > Height(bs, @) THEN b ELSE @,
                    !.b_lock = CHOOSE l \in parent \cup {@} :
                        \A g \in parent \cup {@} : Height(bs, g) <= Height(bs, l)]
    IN  IF grandparent = {} THEN next
        ELSE Commit(bs, next, CHOOSE x \in grandparent : TRUE, alive)

Update(bs, st, b, A) ==
    LET alive == A \cup Held(st)
        grandparent == Upgraded(bs, Upgraded(bs, {b}, alive), alive)
        great_grandparent == Upgraded(bs, grandparent, alive)
        next == [st EXCEPT
                    !.b_leaf = IF Height(bs, b) > Height(bs, @) THEN b ELSE @,
                    !.b_lock = IF \E g \in grandparent : Height(bs, g) > Height(bs, @)
                               THEN CHOOSE g \in grandparent : TRUE ELSE @]
    IN  IF great_grandparent = {} THEN next
        ELSE Commit(bs, next, CHOOSE x \in great_grandparent : TRUE,
                    A \cup grandparent \cup great_grandparent)

-----------------------------------------------------------------------------
\* Handlers.

QuorumSize == (N * 2) \div 3 + 1

\* Faulty: leaders are numbered from 1.
NextLeaderFromOne(h) == IF Rotating THEN (h % N) + 1 ELSE 0

NextLeader(h) == IF Rotating THEN h % N ELSE 0

\* The commands of the blocks created up to b.
Included(b) == UNION {blocks[x].commands : x \in 1 .. b}

\* k was sent in the causal past of m, to the same process.  (Blocks are
\* created one on the other, see OneChain.)
Before(k, m) ==
    /\ k.dst = m.dst
    /\ \/ k.type = "Propose" /\ m.type = "Propose" /\ k.block < m.block
       \/ k.type = "Propose" /\ m.type = "Vote" /\ k.block <= m.block
       \/ k.type = "Submit" /\ m.type # "Submit" /\ k.commands \subseteq Included(m.block)

Deliverable(m) == Ordered => ~ \E k \in msgs : Before(k, m)

\* The submit timer of the owner of c.
OnTimer(c) ==
    /\ c \notin submitted
    /\ submitted' = submitted \cup {c}
    /\ replica' = [replica EXCEPT ![Owner[c]].pending_commands = @ \cup {c}]
    /\ msgs' = msgs \cup ToAll("Submit", Owner[c], Replica \ {Owner[c]}, Genesis, {c})
    /\ UNCHANGED blocks

HandleSubmit(m) ==
    /\ m.type = "Submit"
    /\ replica' = [replica EXCEPT ![m.dst].pending_commands = @ \cup m.commands]
    /\ msgs' = msgs \ {m}
    /\ UNCHANGED <<blocks, submitted>>

Extends(st, b) == blocks[b].parent = st.b_lock

\* Faulty: only a child of the locked block gets a vote.
AcceptsChild(st, b) == Height(blocks, b) > st.vheight /\ Extends(st, b)

Accepts(st, b) ==
    /\ Height(blocks, b) > st.vheight
    /\ Extends(st, b) \/ Height(blocks, b) > Height(blocks, st.b_lock)

\* Faulty: all pending commands are taken for proposed.
VotedAndCleared(st, b) ==
    [st EXCEPT !.pending_commands = {}, !.nodes = @ \cup {b},
               !.vheight = Height(blocks, b)]

Voted(st, b) ==
    [st EXCEPT !.pending_commands = @ \ blocks[b].commands, !.nodes = @ \cup {b},
               !.vheight = Height(blocks, b)]

HandlePropose(m) ==
    LET p == m.dst
        b == m.block
        st == replica[p]
    IN
    /\ m.type = "Propose"
    /\ UNCHANGED <<blocks, submitted>>
    /\ IF Accepts(st, b)
       THEN /\ replica' = [replica EXCEPT
                              ![p] = Update(blocks, Voted(st, b), b, HeldElsewhere(p))]
            /\ msgs' = (msgs \ {m})
                         \cup ToAll("Vote", p, {NextLeader(Height(blocks, b))}, b, {})
       ELSE msgs' = msgs \ {m} /\ UNCHANGED replica

\* Faulty: the block executed last still takes votes.
BelowExecuted(st, b) == Height(blocks, b) < Height(blocks, st.b_exec)

\* A vote for b comes too late: b is executed.
TooLate(st, b) == Height(blocks, b) <= Height(blocks, st.b_exec)

\* Faulty: every vote beyond the quorum completes it again.
QuorumExceeded(st, b) == st.pending_quorums[b] + 1 >= QuorumSize

\* The next vote for b completes a quorum (external: Quorum::add answers
\* when the number is reached, once).
QuorumCompletes(st, b) == st.pending_quorums[b] + 1 = QuorumSize

DropVote(m) ==
    /\ m.type = "Vote"
    /\ TooLate(replica[m.dst], m.block)
    /\ msgs' = msgs \ {m}
    /\ UNCHANGED <<blocks, replica, submitted>>

CountVote(m) ==
    LET p == m.dst
        b == m.block
    IN
    /\ m.type = "Vote"
    /\ ~TooLate(replica[p], b)
    /\ ~QuorumCompletes(replica[p], b)
    /\ replica' = [replica EXCEPT ![p].pending_quorums[b] = @ + 1]
    /\ msgs' = msgs \ {m}
    /\ UNCHANGED <<blocks, submitted>>

Leading(st, b) == [st EXCEPT !.pending_quorums[b] = @ + 1, !.nodes = @ \cup {b}, !.b_leaf = b]

\* create_leaf
Leaf(st) == [parent   |-> st.b_leaf,
             height   |-> Height(blocks, st.b_leaf) + 1,
             commands |-> st.pending_commands]

\* The vote that completes the quorum for b: its leader proposes a child.
CompleteQuorum(m) ==
    LET p == m.dst
        b == m.block
        st == Leading(replica[p], b)
        bs == Append(blocks, Leaf(st))
        leaf == Len(bs)
    IN
    /\ m.type = "Vote"
    /\ ~TooLate(replica[p], b)
    /\ QuorumCompletes(replica[p], b)
    /\ Len(blocks) < MaxBlocks
    /\ blocks' = bs
    /\ replica' = [replica EXCEPT
                      ![p] = Update(bs, [st EXCEPT !.pending_commands = {},
                                                   !.nodes = @ \cup {leaf}],
                                    leaf, HeldElsewhere(p))]
    /\ msgs' = (msgs \ {m}) \cup ToAll("Propose", p, Replica, leaf, {})
    /\ UNCHANGED submitted

\* A panic of one process ends the simulation.
Running == \A p \in Replica : ~replica[p].panicked

Receive(m) ==
    /\ Deliverable(m)
    /\ \/ HandleSubmit(m)
       \/ HandlePropose(m)
       \/ DropVote(m)
       \/ CountVote(m)
       \/ CompleteQuorum(m)

Next ==
    /\ Running
    /\ \/ \E c \in Cmd : OnTimer(c)
       \/ \E m \in msgs : Receive(m)

Spec == Init /\ [][Next]_vars

\* dscale delivers what is in flight; commands need not be submitted.
FairSpec == Spec /\ WF_vars(Running /\ \E m \in msgs : Receive(m))

-----------------------------------------------------------------------------

(***************************************************************************)
(* The weak pointers that commit follows never dangle: a replica holds     *)
(* every block from the one it executed last to the one it voted for last, *)
(* although all replicas collect garbage, each at its own pace.            *)
(***************************************************************************)
HoldsChain ==
    /\ Running
    /\ \A p \in Replica : \A b \in 1 .. Len(blocks) :
          LET st == replica[p] IN
          Height(blocks, st.b_exec) <= blocks[b].height /\ blocks[b].height <= st.vheight
              => b \in st.nodes

(***************************************************************************)
(* No submitted command is forgotten: it is in the chain, or every replica *)
(* still has it pending or will receive it, so that the next leader,       *)
(* whoever it is, can propose it.                                          *)
(***************************************************************************)
CommandKept ==
    \A c \in submitted \ Included(Len(blocks)) : \A p \in Replica :
        \/ c \in replica[p].pending_commands
        \/ \E m \in msgs : m.type = "Submit" /\ m.dst = p /\ c \in m.commands

(***************************************************************************)
(* There is one chain, whatever the order of messages: a quorum is         *)
(* completed once for a block, so no two blocks have the same parent.      *)
(***************************************************************************)
OneChain ==
    \A b \in 1 .. Len(blocks) : blocks[b].parent = b - 1 /\ blocks[b].height = b

(***************************************************************************)
(* A replica keeps no count of votes for a block it has executed, although *)
(* late votes go on arriving: what collect_garbage removed stays removed.  *)
(***************************************************************************)
NoStaleQuorums ==
    \A p \in Replica : \A b \in 1 .. Len(blocks) :
        replica[p].pending_quorums[b] > 0
            => blocks[b].height > Height(blocks, replica[p].b_exec)

(***************************************************************************)
(* Progress: proposals and votes keep the chain going with no timer at     *)
(* all, and every replica executes whatever heads a chain of three.        *)
(***************************************************************************)
EventuallyExecuted ==
    <>(\A p \in Replica : Len(replica[p].executed) = MaxBlocks - 3)

ledger == [b \in 1 .. Len(blocks) |-> blocks[b].commands]
executed == [p \in Replica |-> replica[p].executed]

Abstract == INSTANCE Ledger

(***************************************************************************)
(* The replicas implement one ledger: they execute the same blocks in the  *)
(* same order, none twice, none before three blocks are built on it, and   *)
(* no command is in two blocks.                                            *)
(***************************************************************************)
ImplementsLedger == Abstract!Spec
=============================================================================
