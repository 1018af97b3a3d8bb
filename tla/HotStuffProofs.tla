--------------------------- MODULE HotStuffProofs ---------------------------
(***************************************************************************)
(* What holds of HotStuff for any number of processes, blocks and          *)
(* commands.  First whatever the order of messages: one chain, exact       *)
(* counts of votes, no command forgotten.  Then over links that keep the   *)
(* order of causally related messages: no parent is ever missing, and the  *)
(* replicas implement one ledger.                                          *)
(***************************************************************************)
EXTENDS HotStuff, SequenceTheorems, FiniteSetTheorems, WellFoundedInduction, TLAPS

Created == 1 .. Len(blocks)

Proposal(m) == m.type = "Propose"

VoteFor(m, b) == m.type = "Vote" /\ m.block = b

\* Those whose vote for b may still arrive.
Electorate(b) ==
    {r \in Replica : replica[r].vheight < b \/ \E m \in msgs : VoteFor(m, b) /\ m.src = r}

Count(b) == replica[NextLeader(b)].pending_quorums[b]

\* Messages name blocks that exist; votes go from who voted to the leader
\* that collects them.
Addressed ==
    \A m \in msgs :
        /\ m.type # "Submit" => m.block \in Created
        /\ m.type = "Vote" => /\ m.dst = NextLeader(m.block) /\ m.commands = {}
                              /\ m.block <= replica[m.src].vheight

\* What replicas know of are blocks that exist.
Known ==
    \A p \in Replica :
        LET st == replica[p] IN
        /\ Held(st) \subseteq 0 .. Len(blocks)
        /\ st.vheight <= Len(blocks)
        /\ \A b \in 1 .. MaxBlocks : b > Len(blocks) => st.pending_quorums[b] = 0

\* A block has been built on only after a quorum, and what remains of the
\* votes for it is no second one.
Elected ==
    \A b \in Created :
        /\ Count(b) + Cardinality(Electorate(b)) <= N
        /\ b < Len(blocks) => \/ Count(b) >= QuorumSize
                              \/ Count(b) + Cardinality(Electorate(b)) < QuorumSize

Chain == TypeOK /\ blocks # <<>> /\ OneChain /\ Addressed /\ Known /\ Elected

-----------------------------------------------------------------------------
\* With Ordered.

\* A proposal is under way to everybody who has not voted so high.
Proposed ==
    \A p \in Replica : \A b \in Created :
        \/ b <= replica[p].vheight
        \/ \E m \in msgs : Proposal(m) /\ m.dst = p /\ m.block = b

\* A replica holds what it has yet to execute, and has executed the chain.
Steady(st) ==
    /\ ~st.panicked
    /\ st.b_exec .. st.vheight \subseteq st.nodes
    /\ st.b_exec = 0 \/ st.b_exec + 2 <= st.vheight
    /\ st.b_lock <= st.vheight
    /\ st.executed = [i \in 1 .. st.b_exec |-> i]

InStep == \A p \in Replica : Steady(replica[p])

\* Commands that p has or will get.
Coming(p) ==
    replica[p].pending_commands
        \cup UNION {m.commands : m \in {k \in msgs : k.type = "Submit" /\ k.dst = p}}

\* No replica proposes again what it has seen proposed.
Fresh ==
    /\ \A p \in Replica : /\ Coming(p) \subseteq submitted
                          /\ \A b \in Created :
                                b <= replica[p].vheight => blocks[b].commands \cap Coming(p) = {}
    /\ \A b \in Created : blocks[b].commands \subseteq submitted
    /\ \A m \in msgs : m.type = "Submit" => \E c \in Cmd : m.commands = {c}

InOrder == Proposed /\ InStep /\ Fresh

-----------------------------------------------------------------------------
\* A chain of blocks, and update on it.

IsChain(bs) ==
    /\ bs \in Seq(Block) /\ Len(bs) <= MaxBlocks
    /\ \A b \in 1 .. Len(bs) : bs[b].parent = b - 1 /\ bs[b].height = b

\* A set of numbers has a least one.
LEMMA Least ==
    ASSUME NEW T \in SUBSET Nat, T # {}
    PROVE  \E x \in T : \A y \in T : x <= y
<1>1. IsWellFoundedOn(OpToRel(<, Nat), Nat)
  BY NatLessThanWellFounded
<1>2. PICK x \in T : \A y \in T : <<y, x>> \notin OpToRel(<, Nat)
  BY <1>1, WFMin
<1>3. \A y \in T : ~(y < x)
  BY <1>2 DEF OpToRel
<1> QED
  BY <1>3

LEMMA HeightIs ==
    ASSUME NEW bs, IsChain(bs), NEW b \in 0 .. Len(bs)
    PROVE  Height(bs, b) = b
BY DEF IsChain, Height, Genesis

LEMMA UpgradedIs ==
    ASSUME NEW bs, IsChain(bs), NEW A
    PROVE  /\ \A b \in 0 .. Len(bs) :
                 Upgraded(bs, {b}, A) = IF b = 0 THEN {} ELSE {b - 1} \cap A
           /\ Upgraded(bs, {}, A) = {}
BY DEF IsChain, Upgraded, Genesis

\* On a chain the ancestors of b are the blocks before it.
LEMMA LineageIs ==
    ASSUME NEW bs, IsChain(bs), NEW b \in 0 .. Len(bs)
    PROVE  Lineage(bs, b) = 1 .. b
<1> DEFINE n == Len(bs)
           F(L) == [x \in 0 .. n |-> IF x = Genesis THEN {} ELSE {x} \cup L[bs[x].parent]]
           W == [x \in 0 .. n |-> 1 .. x]
           D == CHOOSE L : L = F(L)
<1>1. n \in Nat
  BY DEF IsChain
<1>2. W = F(W)
  <2>1. \A x \in 0 .. n : x # 0 => bs[x].parent = x - 1 /\ x - 1 \in 0 .. n
    BY <1>1 DEF IsChain
  <2>2. \A x \in 0 .. n : x # 0 => {x} \cup (1 .. x - 1) = 1 .. x
    BY <1>1
  <2>3. ASSUME NEW x \in 0 .. n
        PROVE  W[x] = IF x = Genesis THEN {} ELSE {x} \cup W[bs[x].parent]
    <3>1. W[x] = 1 .. x
      OBVIOUS
    <3>2. x # 0 => W[bs[x].parent] = 1 .. x - 1
      BY <2>1
    <3> HIDE DEF W
    <3>3. x = 0 => 1 .. x = {}
      OBVIOUS
    <3> QED
      BY <2>2, <3>1, <3>2, <3>3 DEF Genesis
  <2> HIDE DEF W
  <2>4. F(W) = [x \in 0 .. n |-> W[x]]
    BY <2>3
  <2> QED
    BY <2>4 DEF W
<1>3. D = F(D)
  <2> HIDE DEF F, W
  <2> QED
    BY <1>2
<1> HIDE DEF D
<1>4. ASSUME NEW x \in 0 .. n PROVE D[x] = IF x = 0 THEN {} ELSE {x} \cup D[x - 1]
  <2>1. F(D)[x] = IF x = Genesis THEN {} ELSE {x} \cup D[bs[x].parent]
    OBVIOUS
  <2>2. x # 0 => bs[x].parent = x - 1
    BY <1>1 DEF IsChain
  <2> HIDE DEF F
  <2> QED
    BY <1>3, <2>1, <2>2 DEF Genesis
<1> DEFINE T == {x \in 0 .. n : D[x] # 1 .. x}
<1>5. T = {}
  <2> SUFFICES ASSUME T # {} PROVE FALSE
    OBVIOUS
  <2>1. T \in SUBSET Nat
    BY <1>1
  <2>2. PICK x \in T : \A y \in T : x <= y
    BY <2>1, Least
  <2>3. x # 0
    <3>1. 0 \in 0 .. n /\ 1 .. 0 = {}
      BY <1>1
    <3>2. D[0] = {}
      BY <3>1, <1>4
    <3> QED
      BY <2>2, <3>1, <3>2
  <2>4. D[x - 1] = 1 .. x - 1
    BY <1>1, <2>2, <2>3
  <2>5. D[x] = {x} \cup (1 .. x - 1)
    BY <1>4, <2>2, <2>3, <2>4
  <2>6. {x} \cup (1 .. x - 1) = 1 .. x
    BY <2>1, <2>2, <2>3
  <2> QED
    BY <2>2, <2>5, <2>6
<1>6. Lineage(bs, b) = D[b]
  BY DEF Lineage, D
<1> QED
  BY <1>5, <1>6

\* What collect_garbage leaves of the counts.
Kept(counts, h) == [b \in DOMAIN counts |-> IF b <= h THEN 0 ELSE counts[b]]

\* The state after x and the blocks before it are executed.
Advanced(st, x) ==
    [st EXCEPT !.executed = @ \o [i \in 1 .. x - st.b_exec |-> st.b_exec + i],
               !.b_exec = x,
               !.nodes = {b \in @ : b >= x},
               !.pending_quorums = Kept(@, x)]

\* A parent that commit follows is held by nobody.
Missing(st, x, A) == \E b \in st.b_exec + 1 .. x : b - 1 \notin A \cup Held(st)

\* commit and collect_garbage on a chain.
LEMMA CommitIs ==
    ASSUME NEW bs, IsChain(bs), NEW st \in State, Held(st) \subseteq 0 .. Len(bs),
           \A b \in 1 .. MaxBlocks : b > Len(bs) => st.pending_quorums[b] = 0,
           NEW x \in 0 .. Len(bs), NEW A
    PROVE  /\ Missing(st, x, A) => Commit(bs, st, x, A) = [st EXCEPT !.panicked = TRUE]
           /\ ~Missing(st, x, A) => Commit(bs, st, x, A) = Advanced(st, x)
<1> DEFINE e == st.b_exec
           new == {b \in Lineage(bs, x) : Height(bs, b) > Height(bs, e)}
           batch == [i \in 1 .. Height(bs, x) - Height(bs, e) |->
                        CHOOSE b \in new : Height(bs, b) = Height(bs, e) + i]
           run == [i \in 1 .. x - e |-> e + i]
<1>1. Len(bs) \in Nat /\ e \in 0 .. Len(bs) /\ x \in Nat
  BY DEF IsChain, Held
<1>2. /\ Height(bs, e) = e /\ Height(bs, x) = x
      /\ \A b \in 1 .. x : Height(bs, b) = b /\ bs[b].parent = b - 1
  BY <1>1, HeightIs DEF IsChain
<1>3. new = e + 1 .. x
  BY <1>1, <1>2, LineageIs
<1>4. batch = run
  <2>1. ASSUME NEW i \in 1 .. x - e
        PROVE  (CHOOSE b \in new : Height(bs, b) = Height(bs, e) + i) = e + i
    <3>1. e + i \in e + 1 .. x /\ e + i \in 1 .. x
      BY <1>1
    <3>2. \A b \in e + 1 .. x : b \in 1 .. x /\ (b = e + i <=> Height(bs, b) = e + i)
      BY <1>1, <1>2
    <3> HIDE DEF new
    <3>3. e + i \in new /\ \A b \in new : Height(bs, b) = Height(bs, e) + i <=> b = e + i
      BY <3>1, <3>2, <1>2, <1>3
    <3> QED
      BY <3>3
  <2> QED
    BY <2>1, <1>2
<1>5. (\E b \in new : bs[b].parent \notin A \cup Held(st))
          <=> \E b \in e + 1 .. x : b - 1 \notin A \cup Held(st)
  <2>1. \A b \in e + 1 .. x : bs[b].parent = b - 1
    BY <1>1, <1>2
  <2> HIDE DEF new
  <2> QED
    BY <2>1, <1>3
<1> DEFINE next == [st EXCEPT !.executed = @ \o run, !.b_exec = x]
<1>6. CollectGarbage(bs, next) = [st EXCEPT !.executed = @ \o run, !.b_exec = x,
                                            !.nodes = {b \in @ : b >= x},
                                            !.pending_quorums = Kept(@, x)]
  <2>1. /\ next.nodes = st.nodes /\ next.b_exec = x
        /\ next.pending_quorums = st.pending_quorums
        /\ st.pending_quorums \in [1 .. MaxBlocks -> 0 .. N]
    BY DEF State
  <2>2. {b \in next.nodes : Height(bs, b) >= x} = {b \in st.nodes : b >= x}
    BY <2>1, HeightIs DEF Held
  <2>3. ASSUME NEW b \in 1 .. MaxBlocks
        PROVE  (IF st.pending_quorums[b] > 0 /\ Height(bs, b) <= x THEN 0 ELSE st.pending_quorums[b])
                  = IF b <= x THEN 0 ELSE st.pending_quorums[b]
    <3>1. CASE b > Len(bs)
      BY <3>1, <2>1, HotStuffAssumption
    <3>2. CASE b <= Len(bs)
      <4>1. Height(bs, b) = b
        BY <3>2, <1>1, HeightIs
      <4> QED
        BY <4>1, <2>1, <1>1, HotStuffAssumption
    <3> QED
      BY <3>1, <3>2, <1>1, HotStuffAssumption
  <2>4. [b \in DOMAIN next.pending_quorums |->
            IF next.pending_quorums[b] > 0 /\ Height(bs, b) <= x THEN 0 ELSE next.pending_quorums[b]]
           = Kept(st.pending_quorums, x)
    <3> HIDE DEF next
    <3> QED
      BY <2>1, <2>3 DEF Kept
  <2>5. CollectGarbage(bs, next) = [next EXCEPT !.nodes = {b \in st.nodes : b >= x},
                                                !.pending_quorums = Kept(st.pending_quorums, x)]
    <3> HIDE DEF next
    <3> DEFINE left(h) == {b \in next.nodes : Height(bs, b) >= h}
               counts(h) == [b \in DOMAIN next.pending_quorums |->
                                IF next.pending_quorums[b] > 0 /\ Height(bs, b) <= h
                                THEN 0 ELSE next.pending_quorums[b]]
    <3>1. CollectGarbage(bs, next) = [next EXCEPT !.nodes = left(Height(bs, next.b_exec)),
                                                  !.pending_quorums = counts(Height(bs, next.b_exec))]
      BY DEF CollectGarbage
    <3>2. left(x) = {b \in st.nodes : b >= x} /\ counts(x) = Kept(st.pending_quorums, x)
      BY <2>2, <2>4
    <3>3. Height(bs, next.b_exec) = x
      BY <2>1, <1>2
    <3> HIDE DEF left, counts
    <3> QED
      BY <3>1, <3>2, <3>3
  <2> HIDE DEF run
  <2> QED
    BY <2>5 DEF State
<1> QED
  BY <1>2, <1>3, <1>4, <1>5, <1>6 DEF Commit, Missing, Advanced

\* The three outcomes of update for the block b: nothing is committed, the
\* chain to what is committed is broken, or b commits the block three below.
Rests(st, u) ==
    /\ u.b_exec = st.b_exec /\ u.executed = st.executed
    /\ u.nodes = st.nodes /\ u.pending_quorums = st.pending_quorums

Breaks(st, u, b) ==
    /\ Rests(st, u) /\ u.panicked
    /\ b >= 3 /\ \E y \in st.b_exec + 1 .. b - 3 : y - 1 \notin st.nodes

Commits(st, u, b) ==
    /\ b >= 3 /\ u.b_exec = b - 3 /\ u.panicked = st.panicked
    /\ u.executed = st.executed \o [i \in 1 .. b - 3 - st.b_exec |-> st.b_exec + i]
    /\ u.nodes = {y \in st.nodes : y >= b - 3}
    /\ u.pending_quorums = Kept(st.pending_quorums, b - 3)

LEMMA UpdateIs ==
    ASSUME NEW bs, IsChain(bs), NEW st \in State, Held(st) \subseteq 0 .. Len(bs),
           \A k \in 1 .. MaxBlocks : k > Len(bs) => st.pending_quorums[k] = 0,
           NEW b \in 1 .. Len(bs), NEW A
    PROVE  LET u == Update(bs, st, b, A)
           IN  /\ u \in State /\ Held(u) \subseteq 0 .. Len(bs)
               /\ u.pending_commands = st.pending_commands /\ u.vheight = st.vheight
               /\ u.b_lock = st.b_lock \/ (b >= 2 /\ u.b_lock = b - 2)
               /\ \/ Rests(st, u) /\ u.panicked = st.panicked
                  \/ Breaks(st, u, b)
                  \/ Commits(st, u, b)
<1> DEFINE alive == A \cup Held(st)
           parent == Upgraded(bs, {b}, alive)
           grandparent == Upgraded(bs, parent, alive)
           great == Upgraded(bs, grandparent, alive)
           leaf == IF Height(bs, b) > Height(bs, st.b_leaf) THEN b ELSE st.b_leaf
           lock == IF \E g \in grandparent : Height(bs, g) > Height(bs, st.b_lock)
                   THEN CHOOSE g \in grandparent : TRUE ELSE st.b_lock
           next == [st EXCEPT !.b_leaf = leaf, !.b_lock = lock]
<1>1. Len(bs) \in Nat /\ Len(bs) <= MaxBlocks /\ MaxBlocks \in Nat
  BY HotStuffAssumption DEF IsChain
<1> HIDE DEF alive
<1>a. /\ \A k \in 0 .. Len(bs) :
            Upgraded(bs, {k}, alive) = {} \/ (k >= 1 /\ Upgraded(bs, {k}, alive) = {k - 1})
      /\ Upgraded(bs, {}, alive) = {}
  <2>1. \A k \in 0 .. Len(bs) :
           Upgraded(bs, {k}, alive) = IF k = 0 THEN {} ELSE {k - 1} \cap alive
    BY UpgradedIs
  <2>2. ASSUME NEW k \in 0 .. Len(bs), k >= 1, NEW U, U = {k - 1} \cap alive
        PROVE  U = {} \/ U = {k - 1}
    BY <2>2
  <2>3. \A k \in 0 .. Len(bs) : k = 0 \/ k >= 1
    BY <1>1
  <2>4. Upgraded(bs, {}, alive) = {}
    BY UpgradedIs
  <2> QED
    BY <2>1, <2>2, <2>3, <2>4
<1>b. parent = {} \/ parent = {b - 1}
  BY <1>a, <1>1
<1>2. grandparent = {} \/ (b >= 2 /\ grandparent = {b - 2})
  <2> HIDE DEF parent
  <2>1. CASE parent = {}
    BY <2>1, <1>a
  <2>2. CASE parent = {b - 1}
    <3>1. b - 1 \in 0 .. Len(bs) /\ b - 1 - 1 = b - 2
      BY <1>1
    <3> QED
      BY <2>2, <3>1, <1>a
  <2> QED
    BY <2>1, <2>2, <1>b
<1> HIDE DEF parent
<1>3. great = {} \/ (b >= 3 /\ great = {b - 3})
  <2> HIDE DEF grandparent
  <2>1. CASE grandparent = {}
    BY <2>1, <1>a
  <2>2. CASE b >= 2 /\ grandparent = {b - 2}
    <3>1. b - 2 \in 0 .. Len(bs) /\ b - 2 - 1 = b - 3
      BY <1>1, <2>2
    <3> QED
      BY <2>2, <3>1, <1>a
  <2> QED
    BY <2>1, <2>2, <1>2
<1>4. leaf \in 0 .. Len(bs) /\ (lock = st.b_lock \/ (b >= 2 /\ lock = b - 2))
  <2>1. st.b_leaf \in 0 .. Len(bs)
    BY DEF Held
  <2> HIDE DEF grandparent
  <2> QED
    BY <2>1, <1>2
<1>5. lock \in 0 .. Len(bs)
  <2>1. st.b_lock \in 0 .. Len(bs)
    BY DEF Held
  <2> HIDE DEF lock
  <2> QED
    BY <1>1, <1>4, <2>1
<1>6. /\ next \in State /\ next.b_leaf = leaf /\ next.b_lock = lock
      /\ next.pending_commands = st.pending_commands /\ next.vheight = st.vheight
      /\ next.pending_quorums = st.pending_quorums /\ next.nodes = st.nodes
      /\ next.b_exec = st.b_exec /\ next.executed = st.executed /\ next.panicked = st.panicked
  <2>1. leaf \in BlockId /\ lock \in BlockId
    <3> HIDE DEF leaf, lock
    <3> QED
      BY <1>1, <1>4, <1>5 DEF BlockId
  <2> HIDE DEF leaf, lock
  <2> QED
    BY <2>1 DEF State
<1> DEFINE u == Update(bs, st, b, A)
<1> HIDE DEF leaf, lock
<1>7. Held(next) \subseteq 0 .. Len(bs)
  <2> HIDE DEF next
  <2> QED
    BY <1>4, <1>5, <1>6 DEF Held
<1>8. CASE great = {}
  <2>1. u = next
    BY <1>8 DEF Update, leaf, lock, alive, parent
  <2> HIDE DEF next, u, grandparent, great
  <2> QED
    BY <2>1, <1>4, <1>6, <1>7 DEF Rests, u
<1>9. CASE b >= 3 /\ great = {b - 3}
  <2> DEFINE C == A \cup grandparent \cup great
             x == b - 3
  <2>1. u = Commit(bs, next, CHOOSE y \in great : TRUE, C)
    BY <1>9 DEF Update, leaf, lock, alive, parent
  <2> HIDE DEF next, u, grandparent, great, C
  <2>2. (CHOOSE y \in great : TRUE) = x /\ x \in 0 .. Len(bs)
    BY <1>9, <1>1
  <2>3. u = Commit(bs, next, x, C)
    BY <2>1, <2>2
  <2> HIDE DEF x
  <2>a. \A k \in 1 .. MaxBlocks : k > Len(bs) => next.pending_quorums[k] = 0
    BY <1>6
  <2>b. /\ next \in State
        /\ next.b_exec \in Int
    BY <1>6, <1>1 DEF State, BlockId
  <2>4. /\ Missing(next, x, C) => u = [next EXCEPT !.panicked = TRUE]
        /\ ~Missing(next, x, C) => u = Advanced(next, x)
    BY <1>7, <2>a, <2>b, <2>2, <2>3, CommitIs
  <2>5. CASE Missing(next, x, C)
    <3>1. u = [next EXCEPT !.panicked = TRUE]
      BY <2>4, <2>5
    <3>2. /\ u \in State /\ u.panicked /\ u.b_exec = next.b_exec /\ u.executed = next.executed
          /\ u.nodes = next.nodes /\ u.pending_quorums = next.pending_quorums
          /\ u.b_lock = next.b_lock /\ u.b_leaf = next.b_leaf
          /\ u.pending_commands = next.pending_commands /\ u.vheight = next.vheight
      BY <3>1, <1>6 DEF State
    <3>3. Held(u) = Held(next)
      BY <3>2 DEF Held
    <3>4. \E y \in st.b_exec + 1 .. x : y - 1 \notin st.nodes
      BY <2>5, <1>6 DEF Missing, Held
    <3>5. Breaks(st, u, b)
      BY <3>2, <3>4, <1>6, <1>9 DEF Breaks, Rests, x
    <3> QED
      BY <3>2, <3>3, <3>5, <1>4, <1>6, <1>7 DEF u
  <2>6. CASE ~Missing(next, x, C)
    <3> DEFINE batch == [i \in 1 .. x - next.b_exec |-> next.b_exec + i]
    <3>1. batch \in Seq(BlockId)
      <4>1. x \in BlockId /\ next.b_exec \in BlockId
        BY <2>2, <1>1, <1>6 DEF BlockId, State
      <4>2. \A i \in 1 .. x - next.b_exec : next.b_exec + i \in BlockId
        BY <4>1, <1>1 DEF BlockId
      <4>3. CASE x - next.b_exec \in Nat
        BY <4>2, <4>3, IsASeq
      <4>4. CASE x - next.b_exec < 0
        <5>1. 1 .. x - next.b_exec = 1 .. 0
          BY <4>1, <4>4, <1>1 DEF BlockId
        <5>2. batch \in [1 .. 0 -> BlockId]
          BY <4>2, <5>1
        <5> HIDE DEF batch
        <5> QED
          BY <5>2, IsASeq
      <4> QED
        BY <4>1, <4>3, <4>4, <1>1 DEF BlockId
    <3>2. Kept(next.pending_quorums, x) \in [1 .. MaxBlocks -> 0 .. N]
      BY <1>6, HotStuffAssumption DEF Kept, State
    <3> HIDE DEF batch
    <3>3. u = [next EXCEPT !.executed = @ \o batch, !.b_exec = x,
                           !.nodes = {y \in @ : y >= x}, !.pending_quorums = Kept(@, x)]
      BY <2>4, <2>6 DEF Advanced, batch
    <3>4. next.executed \o batch \in Seq(BlockId)
      BY <3>1, <1>6, ConcatProperties DEF State
    <3>5. /\ u.b_exec = x /\ u.executed = next.executed \o batch /\ u.panicked = next.panicked
          /\ u.nodes = {y \in next.nodes : y >= x}
          /\ u.pending_quorums = Kept(next.pending_quorums, x)
          /\ u.b_lock = next.b_lock /\ u.b_leaf = next.b_leaf
          /\ u.pending_commands = next.pending_commands /\ u.vheight = next.vheight
      BY <3>3, <1>6 DEF State
    <3>6. x \in BlockId
      BY <2>2, <1>1 DEF BlockId
    <3>7. {y \in next.nodes : y >= x} \in SUBSET BlockId
      BY <1>6 DEF State
    <3>8. u \in State
      BY <3>2, <3>3, <3>4, <3>6, <3>7, <1>6 DEF State
    <3>9. Held(u) \subseteq 0 .. Len(bs)
      BY <3>5, <1>7, <2>2 DEF Held
    <3>10. Commits(st, u, b)
      BY <3>5, <1>6, <1>9 DEF Commits, x, batch
    <3> QED
      BY <3>5, <3>8, <3>9, <3>10, <1>4, <1>6 DEF u
  <2> QED
    BY <2>5, <2>6
<1> QED
  BY <1>3, <1>8, <1>9

-----------------------------------------------------------------------------
\* The invariant, action by action.

LEMMA Leaders == \A h \in Nat : NextLeader(h) \in Replica
<1>1. \A h \in Nat : h % N \in 0 .. N - 1
  BY HotStuffAssumption
<1>2. 0 \in 0 .. N - 1
  BY HotStuffAssumption
<1> QED
  BY <1>1, <1>2 DEF NextLeader, Replica

LEMMA Quorums == QuorumSize \in Nat /\ QuorumSize > 0 /\ N < QuorumSize + QuorumSize
BY HotStuffAssumption DEF QuorumSize

LEMMA Replicas == IsFiniteSet(Replica) /\ Cardinality(Replica) = N
<1>1. 0 \in Int /\ N - 1 \in Int
  BY HotStuffAssumption
<1>2. IsFiniteSet(0 .. N - 1) /\ Cardinality(0 .. N - 1) = IF 0 > N - 1 THEN 0 ELSE (N - 1) - 0 + 1
  BY <1>1, FS_Interval
<1> QED
  BY <1>2, HotStuffAssumption DEF Replica

LEMMA ChainFacts ==
    ASSUME Chain
    PROVE  /\ IsChain(blocks) /\ Len(blocks) \in Nat /\ Len(blocks) >= 1 /\ Len(blocks) <= MaxBlocks
           /\ \A p \in Replica : /\ replica[p] \in State
                                 /\ Held(replica[p]) \subseteq 0 .. Len(blocks)
                                 /\ replica[p].b_exec \in 0 .. Len(blocks)
                                 /\ replica[p].b_lock \in 0 .. Len(blocks)
                                 /\ replica[p].b_leaf \in 0 .. Len(blocks)
                                 /\ replica[p].vheight \in 0 .. Len(blocks)
                                 /\ replica[p].pending_quorums \in [1 .. MaxBlocks -> 0 .. N]
                                 /\ \A k \in 1 .. MaxBlocks :
                                       k > Len(blocks) => replica[p].pending_quorums[k] = 0
           /\ \A b \in 0 .. Len(blocks) : Height(blocks, b) = b
<1>1. IsChain(blocks)
  BY DEF Chain, TypeOK, OneChain, IsChain
<1>2. Len(blocks) \in Nat /\ Len(blocks) >= 1 /\ Len(blocks) <= MaxBlocks
  <2>1. blocks \in Seq(Block) /\ blocks # <<>>
    BY DEF Chain, TypeOK
  <2> QED
    BY <2>1, EmptySeq, LenProperties DEF Chain, TypeOK
<1>3. ASSUME NEW p \in Replica
      PROVE  /\ replica[p] \in State
             /\ Held(replica[p]) \subseteq 0 .. Len(blocks)
             /\ replica[p].vheight \in 0 .. Len(blocks)
             /\ \A k \in 1 .. MaxBlocks : k > Len(blocks) => replica[p].pending_quorums[k] = 0
  <2>1. replica[p] \in State
    BY DEF Chain, TypeOK
  <2>2. replica[p].vheight \in 0 .. MaxBlocks
    BY <2>1 DEF State
  <2> QED
    BY <2>1, <2>2, <1>2, HotStuffAssumption DEF Chain, Known
<1>4. ASSUME NEW p \in Replica
      PROVE  /\ replica[p].b_exec \in 0 .. Len(blocks) /\ replica[p].b_lock \in 0 .. Len(blocks)
             /\ replica[p].b_leaf \in 0 .. Len(blocks)
             /\ replica[p].pending_quorums \in [1 .. MaxBlocks -> 0 .. N]
  BY <1>3 DEF Held, State
<1>5. \A b \in 0 .. Len(blocks) : Height(blocks, b) = b
  BY <1>1, HeightIs
<1> QED
  BY <1>1, <1>2, <1>3, <1>4, <1>5

LEMMA Electors ==
    ASSUME NEW b
    PROVE  /\ Electorate(b) \subseteq Replica /\ IsFiniteSet(Electorate(b))
           /\ Cardinality(Electorate(b)) \in Nat /\ Cardinality(Electorate(b)) <= N
<1>1. Electorate(b) \subseteq Replica
  BY DEF Electorate
<1> QED
  BY <1>1, Replicas, FS_Subset, FS_CardinalityType

LEMMA ChainInit == Init => Chain
<1> SUFFICES ASSUME Init PROVE Chain
  OBVIOUS
<1>1. /\ blocks = <<[parent |-> 0, height |-> 1, commands |-> {}]>>
      /\ Len(blocks) = 1 /\ blocks[1].parent = 0 /\ blocks[1].height = 1
      /\ blocks # <<>> /\ 1 \in 1 .. MaxBlocks /\ 0 \in BlockId /\ 1 \in BlockId
  BY HotStuffAssumption DEF Init, Genesis, BlockId
<1>2. blocks \in Seq(Block)
  <2>1. [parent |-> 0, height |-> 1, commands |-> {}] \in Block
    BY <1>1 DEF Block
  <2> QED
    BY <1>1, <2>1
<1>3. Start \in State
  <2>1. [b \in 1 .. MaxBlocks |-> 0] \in [1 .. MaxBlocks -> 0 .. N]
    BY HotStuffAssumption
  <2>2. 0 \in 0 .. MaxBlocks
    BY HotStuffAssumption
  <2> QED
    BY <2>1, <2>2, <1>1, EmptySeq DEF Start, State, Genesis
<1>4. [Start EXCEPT !.nodes = {Genesis, 1}] \in State
  BY <1>1, <1>3 DEF State, Genesis
<1>5. 0 \in Replica
  BY HotStuffAssumption DEF Replica
<1>6. \A p \in Replica : replica[p] \in State
  BY <1>3, <1>4 DEF Init
<1>7. TypeOK
  <2>1. msgs \in SUBSET Message
    BY <1>1, <1>5 DEF Init, ToAll, Message
  <2>2. replica \in [Replica -> State]
    BY <1>6 DEF Init
  <2> QED
    BY <2>1, <2>2, <1>1, <1>2, HotStuffAssumption DEF TypeOK, Init
<1>8. OneChain
  BY <1>1 DEF OneChain
<1>9. \A m \in msgs : m.type = "Propose" /\ m.block = 1
  BY DEF Init, ToAll
<1>10. Addressed
  BY <1>1, <1>9 DEF Addressed, Created
<1>11. \A p \in Replica : /\ replica[p].nodes \subseteq {0, 1} /\ replica[p].vheight = 0
                          /\ replica[p].b_lock = 0 /\ replica[p].b_exec = 0 /\ replica[p].b_leaf = 0
                          /\ \A b \in 1 .. MaxBlocks : replica[p].pending_quorums[b] = 0
  BY DEF Init, Start, Genesis
<1>12. Known
  BY <1>1, <1>11 DEF Known, Held
<1>13. Elected
  <2> SUFFICES ASSUME NEW b \in Created
               PROVE  Count(b) + Cardinality(Electorate(b)) <= N /\ ~(b < Len(blocks))
    BY DEF Elected
  <2>1. b = 1
    BY <1>1 DEF Created
  <2>2. NextLeader(b) \in Replica
    BY <2>1, Leaders
  <2>3. Count(b) = 0
    BY <2>1, <2>2, <1>1, <1>11 DEF Count
  <2> QED
    BY <2>1, <2>3, <1>1, Electors
<1> QED
  BY <1>1, <1>7, <1>8, <1>10, <1>12, <1>13 DEF Chain

\* Counts and electorates of one block, before and after a step.
LEMMA CountsKeep ==
    ASSUME NEW q \in Nat, NEW e \in Nat, NEW r \in Nat, NEW f \in Nat,
           q + e <= N, f <= e,
           r = 0 \/ r = q \/ (r = q + 1 /\ f + 1 <= e)
    PROVE  /\ r + f <= N
           /\ (q >= QuorumSize \/ q + e < QuorumSize) => (r >= QuorumSize \/ r + f < QuorumSize)
<1>1. N \in Nat
  BY HotStuffAssumption
<1> QED
  BY <1>1, Quorums

\* Nobody votes for b again, and b is not built on without a quorum.
LEMMA ElectedStep ==
    ASSUME Chain, NEW b \in Created,
           Count(b) \in Nat, Count(b)' \in Nat,
           \A r \in Replica : replica[r].vheight <= replica'[r].vheight,
           \A r \in Replica : replica[r].vheight \in Nat /\ replica'[r].vheight \in Nat,
           \A m \in msgs' : m.type = "Vote" /\ m.block = b
                                => m \in msgs \/ replica[m.src].vheight < b,
           \/ Count(b)' = 0 \/ Count(b)' = Count(b)
           \/ /\ Count(b)' = Count(b) + 1
              /\ \E s \in Electorate(b) : s \notin Electorate(b)'
    PROVE  /\ Count(b)' + Cardinality(Electorate(b)') <= N
           /\ b < Len(blocks) => \/ Count(b)' >= QuorumSize
                                 \/ Count(b)' + Cardinality(Electorate(b)') < QuorumSize
<1>1. Electorate(b)' \subseteq Electorate(b)
  BY ChainFacts DEF Electorate, VoteFor, Created
<1>2. IsFiniteSet(Electorate(b)) /\ Cardinality(Electorate(b)) \in Nat
  BY Electors
<1>3. Cardinality(Electorate(b)') \in Nat /\ Cardinality(Electorate(b)') <= Cardinality(Electorate(b))
  BY <1>1, <1>2, FS_Subset, FS_CardinalityType
<1>4. ASSUME NEW s \in Electorate(b), s \notin Electorate(b)'
      PROVE  Cardinality(Electorate(b)') + 1 <= Cardinality(Electorate(b))
  <2>1. Electorate(b)' \subseteq Electorate(b) \ {s}
    BY <1>1, <1>4
  <2>2. /\ IsFiniteSet(Electorate(b) \ {s})
        /\ Cardinality(Electorate(b) \ {s}) = Cardinality(Electorate(b)) - 1
    BY <1>2, FS_RemoveElement
  <2>3. Cardinality(Electorate(b)') <= Cardinality(Electorate(b) \ {s})
    BY <2>1, <2>2, FS_Subset
  <2> QED
    BY <2>2, <2>3, <1>2, <1>3
<1>5. /\ Count(b) + Cardinality(Electorate(b)) <= N
      /\ b < Len(blocks) => \/ Count(b) >= QuorumSize
                            \/ Count(b) + Cardinality(Electorate(b)) < QuorumSize
  BY DEF Chain, Elected
<1>6. \/ Count(b)' = 0 \/ Count(b)' = Count(b)
      \/ Count(b)' = Count(b) + 1 /\ Cardinality(Electorate(b)') + 1 <= Cardinality(Electorate(b))
  BY <1>4
<1> HIDE DEF Created
<1> QED
  BY <1>2, <1>3, <1>5, <1>6, CountsKeep

\* A step that changes the state of one process, and creates no block.
LEMMA SameBlocks ==
    ASSUME Chain, UNCHANGED blocks, submitted' \in SUBSET Cmd, msgs' \in SUBSET Message,
           NEW p \in Replica, NEW u \in State, replica' = [replica EXCEPT ![p] = u],
           Held(u) \subseteq 0 .. Len(blocks),
           replica[p].vheight <= u.vheight, u.vheight <= Len(blocks),
           \A k \in 1 .. MaxBlocks : k > Len(blocks) => u.pending_quorums[k] = 0,
           Addressed',
           \A m \in msgs' : m.type = "Vote" => m \in msgs \/ replica[m.src].vheight < m.block,
           \A b \in Created : NextLeader(b) = p =>
               LET r == u.pending_quorums[b]
                   q == replica[p].pending_quorums[b]
               IN  \/ r = 0 \/ r = q
                   \/ r = q + 1 /\ \E s \in Electorate(b) : s \notin Electorate(b)'
    PROVE  Chain'
<1> USE ChainFacts
<1>1. TypeOK'
  BY DEF Chain, TypeOK
<1>2. OneChain' /\ (blocks # <<>>)'
  BY DEF Chain, OneChain
<1>3. \A r \in Replica : replica'[r] = IF r = p THEN u ELSE replica[r]
  BY DEF Chain, TypeOK
<1>4. Known'
  <2> SUFFICES ASSUME NEW r \in Replica
               PROVE  /\ Held(replica'[r]) \subseteq 0 .. Len(blocks)
                      /\ replica'[r].vheight <= Len(blocks)
                      /\ \A b \in 1 .. MaxBlocks :
                            b > Len(blocks) => replica'[r].pending_quorums[b] = 0
    BY DEF Known, Held
  <2> QED
    BY <1>3
<1>5. Elected'
  <2> SUFFICES ASSUME NEW b \in Created
               PROVE  /\ Count(b)' + Cardinality(Electorate(b)') <= N
                      /\ b < Len(blocks) => \/ Count(b)' >= QuorumSize
                                            \/ Count(b)' + Cardinality(Electorate(b)') < QuorumSize
    BY DEF Elected, Created
  <2>1. NextLeader(b) \in Replica
    BY Leaders DEF Created
  <2>2. b \in 1 .. MaxBlocks
    BY HotStuffAssumption DEF Created
  <2>3. u.pending_quorums \in [1 .. MaxBlocks -> 0 .. N] /\ u.vheight \in 0 .. MaxBlocks
    BY DEF State
  <2>4. Count(b) \in Nat /\ Count(b)' \in Nat
    BY <2>1, <2>2, <2>3, <1>3, HotStuffAssumption DEF Count
  <2>5. \A r \in Replica : /\ replica[r].vheight <= replica'[r].vheight
                           /\ replica[r].vheight \in Nat /\ replica'[r].vheight \in Nat
    BY <2>3, <1>3, HotStuffAssumption
  <2>6. \/ Count(b)' = 0 \/ Count(b)' = Count(b)
        \/ /\ Count(b)' = Count(b) + 1
           /\ \E s \in Electorate(b) : s \notin Electorate(b)'
    BY <2>1, <1>3 DEF Count
  <2> QED
    BY <2>4, <2>5, <2>6, ElectedStep
<1> QED
  BY <1>1, <1>2, <1>4, <1>5 DEF Chain

\* A step that changes neither heights nor counts.
LEMMA SameVotes ==
    ASSUME Chain, UNCHANGED blocks, submitted' \in SUBSET Cmd, msgs' \in SUBSET Message,
           NEW p \in Replica, NEW u \in State, replica' = [replica EXCEPT ![p] = u],
           Held(u) = Held(replica[p]), u.vheight = replica[p].vheight,
           u.pending_quorums = replica[p].pending_quorums,
           \A m \in msgs' : m.type # "Submit" => m \in msgs
    PROVE  Chain'
<1>1. \A r \in Replica : replica'[r].vheight = replica[r].vheight
  BY DEF Chain, TypeOK
<1>2. Addressed'
  <2>1. \A m \in msgs' : m.src \in Replica
    BY DEF Message
  <2> QED
    BY <2>1, <1>1 DEF Chain, Addressed, Created
<1>3. /\ Held(u) \subseteq 0 .. Len(blocks) /\ u.vheight <= Len(blocks)
      /\ replica[p].vheight <= u.vheight
      /\ \A k \in 1 .. MaxBlocks : k > Len(blocks) => u.pending_quorums[k] = 0
  BY ChainFacts
<1>4. \A m \in msgs' : m.type = "Vote" => m \in msgs
  OBVIOUS
<1> QED
  BY <1>2, <1>3, <1>4, SameBlocks

LEMMA OnTimerChain ==
    ASSUME Chain, NEW c \in Cmd, OnTimer(c)
    PROVE  Chain'
<1> DEFINE p == Owner[c]
           u == [replica[p] EXCEPT !.pending_commands = @ \cup {c}]
<1>1. p \in Replica
  BY HotStuffAssumption
<1>2. /\ u \in State /\ Held(u) = Held(replica[p]) /\ u.vheight = replica[p].vheight
      /\ u.pending_quorums = replica[p].pending_quorums
  <2>1. replica[p] \in State
    BY <1>1 DEF Chain, TypeOK
  <2> HIDE DEF p
  <2> QED
    BY <2>1 DEF State, Held
<1>3. /\ replica' = [replica EXCEPT ![p] = u] /\ UNCHANGED blocks
      /\ submitted' \in SUBSET Cmd
      /\ \A r \in Replica : replica'[r].vheight = replica[r].vheight
  BY <1>1, <1>2 DEF OnTimer, Chain, TypeOK
<1>4. ASSUME NEW m \in msgs' PROVE m \in msgs \/ (m \in Message /\ m.type = "Submit")
  <2>1. Genesis \in BlockId
    BY HotStuffAssumption DEF Genesis, BlockId
  <2> QED
    BY <1>1, <2>1 DEF OnTimer, ToAll, Message
<1>5. msgs' \in SUBSET Message
  BY <1>4 DEF Chain, TypeOK
<1>6. \A m \in msgs' : m.type # "Submit" => m \in msgs
  BY <1>4
<1> HIDE DEF p, u
<1> QED
  BY <1>1, <1>2, <1>3, <1>5, <1>6, SameVotes

LEMMA HandleSubmitChain ==
    ASSUME Chain, NEW m \in msgs, HandleSubmit(m)
    PROVE  Chain'
<1> DEFINE p == m.dst
           u == [replica[p] EXCEPT !.pending_commands = @ \cup m.commands]
<1>1. m \in Message /\ p \in Replica
  BY DEF Chain, TypeOK, Message
<1>2. /\ u \in State /\ Held(u) = Held(replica[p]) /\ u.vheight = replica[p].vheight
      /\ u.pending_quorums = replica[p].pending_quorums
  <2>1. replica[p] \in State /\ m.commands \in SUBSET Cmd
    BY <1>1 DEF Chain, TypeOK, Message
  <2> HIDE DEF p
  <2> QED
    BY <2>1 DEF State, Held
<1>3. /\ replica' = [replica EXCEPT ![p] = u] /\ UNCHANGED blocks
      /\ submitted' \in SUBSET Cmd /\ msgs' \subseteq msgs
  BY <1>1 DEF HandleSubmit, Chain, TypeOK
<1>4. msgs' \in SUBSET Message /\ \A k \in msgs' : k.type # "Submit" => k \in msgs
  BY <1>3 DEF Chain, TypeOK
<1> HIDE DEF p, u
<1> QED
  BY <1>1, <1>2, <1>3, <1>4, SameVotes

LEMMA DropVoteChain ==
    ASSUME Chain, NEW m \in msgs, DropVote(m)
    PROVE  Chain'
<1> DEFINE p == m.dst
           u == replica[p]
<1>1. m \in Message /\ p \in Replica
  BY DEF Chain, TypeOK, Message
<1>2. /\ replica' = [replica EXCEPT ![p] = u] /\ UNCHANGED <<blocks, replica>>
      /\ submitted' \in SUBSET Cmd /\ msgs' \subseteq msgs
  BY <1>1 DEF DropVote, Chain, TypeOK
<1>3. msgs' \in SUBSET Message /\ \A k \in msgs' : k.type # "Submit" => k \in msgs
  BY <1>2 DEF Chain, TypeOK
<1>4. u \in State
  BY <1>1 DEF Chain, TypeOK
<1> HIDE DEF p
<1> QED
  BY <1>1, <1>2, <1>3, <1>4, SameVotes

\* Whoever casts a vote that arrives leaves the electorate.
LEMMA VoteCast ==
    ASSUME Chain, NEW m \in msgs, m.type = "Vote", msgs' = msgs \ {m},
           \A r \in Replica : replica'[r].vheight = replica[r].vheight
    PROVE  /\ m.block \in Created /\ m.dst = NextLeader(m.block) /\ m.src \in Replica
           /\ m.src \in Electorate(m.block) /\ m.src \notin Electorate(m.block)'
<1>1. /\ m.block \in Created /\ m.dst = NextLeader(m.block)
      /\ m.block <= replica[m.src].vheight
  BY DEF Chain, Addressed
<1>2. m.src \in Replica
  BY DEF Chain, TypeOK, Message
<1>3. \A k \in msgs : k.type = "Vote" /\ k.block = m.block /\ k.src = m.src => k = m
  <2> SUFFICES ASSUME NEW k \in msgs, k.type = "Vote", k.block = m.block, k.src = m.src
               PROVE  k = m
    OBVIOUS
  <2>1. k \in Message /\ m \in Message
    BY DEF Chain, TypeOK
  <2>2. k.commands = {} /\ m.commands = {} /\ k.dst = m.dst
    BY DEF Chain, Addressed
  <2> QED
    BY <2>1, <2>2 DEF Message
<1>4. m.src \in Electorate(m.block)
  BY <1>2 DEF Electorate, VoteFor
<1>5. replica[m.src].vheight \in Nat /\ m.block \in Nat
  BY <1>1, <1>2, ChainFacts DEF Created
<1>6. m.src \notin Electorate(m.block)'
  BY <1>1, <1>2, <1>3, <1>5 DEF Electorate, VoteFor
<1> QED
  BY <1>1, <1>2, <1>4, <1>6

LEMMA CountVoteChain ==
    ASSUME Chain, NEW m \in msgs, CountVote(m)
    PROVE  Chain'
<1> DEFINE p == m.dst
           b == m.block
           q == replica[p].pending_quorums
           u == [replica[p] EXCEPT !.pending_quorums[b] = @ + 1]
<1>1. m \in Message /\ p \in Replica /\ b \in Created /\ p = NextLeader(b) /\ b \in 1 .. MaxBlocks
  BY HotStuffAssumption DEF Chain, TypeOK, Message, CountVote, Addressed, Created
<1>a. /\ replica[p] \in State /\ Held(replica[p]) \subseteq 0 .. Len(blocks)
      /\ replica[p].vheight \in 0 .. Len(blocks)
      /\ q \in [1 .. MaxBlocks -> 0 .. N] /\ N \in Nat /\ MaxBlocks \in Nat
      /\ \A k \in 1 .. MaxBlocks : k > Len(blocks) => q[k] = 0
  BY <1>1, ChainFacts, HotStuffAssumption
<1>2. q[b] \in Nat /\ q[b] + 1 <= N
  <2>1. q[b] \in 0 .. N
    BY <1>1, <1>a
  <2>2. Count(b) + Cardinality(Electorate(b)) <= N
    BY <1>1 DEF Chain, Elected
  <2>3. m.src \in Electorate(b)
    BY <1>1 DEF Chain, TypeOK, Message, Electorate, VoteFor, CountVote
  <2>4. Cardinality(Electorate(b)) \in Nat /\ Cardinality(Electorate(b)) # 0
    BY <2>3, Electors, FS_EmptySet
  <2>5. \A x \in Nat, y \in Nat : x + y <= N /\ y # 0 => x + 1 <= N
    BY <1>a
  <2> QED
    BY <2>1, <2>2, <2>4, <2>5, <1>1, <1>a DEF Count
<1>3. /\ u.pending_quorums = [q EXCEPT ![b] = q[b] + 1]
      /\ u.pending_quorums \in [1 .. MaxBlocks -> 0 .. N]
  <2>1. q[b] + 1 \in 0 .. N
    BY <1>2, <1>a
  <2>2. u.pending_quorums = [q EXCEPT ![b] = q[b] + 1]
    BY <1>a DEF State
  <2> HIDE DEF u, q
  <2> QED
    BY <1>1, <1>a, <2>1, <2>2
<1>4. u \in State /\ Held(u) = Held(replica[p]) /\ u.vheight = replica[p].vheight
  <2> DEFINE votes == [q EXCEPT ![b] = q[b] + 1]
  <2>1. votes \in [1 .. MaxBlocks -> 0 .. N]
    BY <1>3
  <2>2. u = [replica[p] EXCEPT !.pending_quorums = votes]
    OBVIOUS
  <2> HIDE DEF votes, u, q, p, b
  <2> QED
    BY <2>1, <2>2, <1>a DEF State, Held
<1>5. /\ replica' = [replica EXCEPT ![p] = u] /\ UNCHANGED blocks
      /\ submitted' \in SUBSET Cmd /\ msgs' = msgs \ {m} /\ m.type = "Vote"
      /\ \A r \in Replica : replica'[r].vheight = replica[r].vheight
  BY <1>1, <1>4 DEF CountVote, Chain, TypeOK
<1>6. msgs' \in SUBSET Message
  BY <1>5 DEF Chain, TypeOK
<1>7. Addressed'
  <2>1. \A k \in msgs : k.src \in Replica
    BY DEF Chain, TypeOK, Message
  <2> QED
    BY <2>1, <1>5 DEF Chain, Addressed, Created
<1>8. \A k \in 1 .. MaxBlocks : k # b => u.pending_quorums[k] = q[k]
  BY <1>1, <1>3
<1>9. u.pending_quorums[b] = q[b] + 1
  BY <1>1, <1>3
<1>10. b \in Created /\ \E s \in Electorate(b) : s \notin Electorate(b)'
  BY <1>5, VoteCast
<1> HIDE DEF p, u, q
<1>11. \A k \in 1 .. MaxBlocks : k > Len(blocks) => u.pending_quorums[k] = 0
  BY <1>1, <1>8, <1>a DEF Created
<1>12. \A k \in Created : k \in 1 .. MaxBlocks
  BY ChainFacts, HotStuffAssumption DEF Created
<1> QED
  <2>1. replica[p].vheight <= u.vheight /\ u.vheight <= Len(blocks)
    BY <1>a, <1>4
  <2>2. \A k \in Created : NextLeader(k) = p =>
               LET r == u.pending_quorums[k]
                   qq == replica[p].pending_quorums[k]
               IN  \/ r = 0 \/ r = qq
                   \/ r = qq + 1 /\ \E s \in Electorate(k) : s \notin Electorate(k)'
    BY <1>8, <1>9, <1>10, <1>12 DEF q
  <2>3. Held(u) \subseteq 0 .. Len(blocks)
    BY <1>a, <1>4
  <2>4. \A k \in msgs' : k.type = "Vote" => k \in msgs \/ replica[k.src].vheight < k.block
    BY <1>5
  <2> QED
    BY <1>1, <1>4, <1>5, <1>6, <1>7, <1>11, <2>1, <2>2, <2>3, <2>4, SameBlocks

\* The state in which a replica calls update for a proposal.
LEMMA VotedIs ==
    ASSUME Chain, NEW p \in Replica, NEW b \in Created
    PROVE  LET s == replica[p]
               st == Voted(s, b)
           IN  /\ st \in State /\ Held(st) \subseteq 0 .. Len(blocks)
               /\ st.vheight = b /\ st.nodes = s.nodes \cup {b}
               /\ st.pending_commands = s.pending_commands \ blocks[b].commands
               /\ st.pending_quorums = s.pending_quorums /\ st.b_exec = s.b_exec
               /\ st.b_lock = s.b_lock /\ st.executed = s.executed /\ st.panicked = s.panicked
<1> DEFINE s == replica[p]
           st == Voted(s, b)
<1>1. /\ s \in State /\ Held(s) \subseteq 0 .. Len(blocks) /\ Height(blocks, b) = b
      /\ b \in BlockId /\ b \in 0 .. MaxBlocks /\ b \in 0 .. Len(blocks)
  BY ChainFacts, HotStuffAssumption DEF Created, BlockId
<1> HIDE DEF s
<1>2. st = [s EXCEPT !.pending_commands = @ \ blocks[b].commands, !.nodes = @ \cup {b},
                     !.vheight = b]
  BY <1>1 DEF Voted
<1> HIDE DEF st
<1>3. /\ st \in State /\ st.vheight = b /\ st.nodes = s.nodes \cup {b}
      /\ st.pending_commands = s.pending_commands \ blocks[b].commands
      /\ st.pending_quorums = s.pending_quorums /\ st.b_exec = s.b_exec
      /\ st.b_lock = s.b_lock /\ st.b_leaf = s.b_leaf
      /\ st.executed = s.executed /\ st.panicked = s.panicked
  BY <1>1, <1>2 DEF State
<1>4. Held(st) \subseteq 0 .. Len(blocks)
  BY <1>1, <1>3 DEF Held
<1> QED
  BY <1>3, <1>4 DEF s, st

\* What accepting a proposal does to a replica.
LEMMA AcceptIs ==
    ASSUME Chain, NEW m \in msgs, HandlePropose(m), Accepts(replica[m.dst], m.block)
    PROVE  LET p == m.dst
               b == m.block
               st == Voted(replica[p], b)
               u == Update(blocks, st, b, HeldElsewhere(p))
           IN  /\ p \in Replica /\ b \in Created /\ replica[p].vheight < b
               /\ replica' = [replica EXCEPT ![p] = u]
               /\ msgs' = (msgs \ {m}) \cup ToAll("Vote", p, {NextLeader(b)}, b, {})
               /\ u \in State /\ Held(u) \subseteq 0 .. Len(blocks)
               /\ u.vheight = b /\ u.pending_commands = st.pending_commands
               /\ u.b_lock = st.b_lock \/ (b >= 2 /\ u.b_lock = b - 2)
               /\ \/ Rests(st, u) /\ u.panicked = st.panicked
                  \/ Breaks(st, u, b)
                  \/ Commits(st, u, b)
<1> DEFINE p == m.dst
           b == m.block
           st == Voted(replica[p], b)
           A == HeldElsewhere(p)
           u == Update(blocks, st, b, A)
<1>1. p \in Replica /\ b \in Created
  BY DEF HandlePropose, Chain, TypeOK, Message, Addressed
<1>2. Height(blocks, b) = b /\ IsChain(blocks) /\ b \in 1 .. Len(blocks)
  BY <1>1, ChainFacts DEF Created
<1>3. /\ replica' = [replica EXCEPT ![p] = u]
      /\ msgs' = (msgs \ {m}) \cup ToAll("Vote", p, {NextLeader(b)}, b, {})
      /\ replica[p].vheight < b
  BY <1>2 DEF HandlePropose, Accepts
<1>4. /\ st \in State /\ Held(st) \subseteq 0 .. Len(blocks) /\ st.vheight = b
      /\ \A k \in 1 .. MaxBlocks : k > Len(blocks) => st.pending_quorums[k] = 0
  BY <1>1, VotedIs, ChainFacts
<1> HIDE DEF p, b, st, A
<1>5. /\ u \in State /\ Held(u) \subseteq 0 .. Len(blocks)
      /\ u.pending_commands = st.pending_commands /\ u.vheight = st.vheight
      /\ u.b_lock = st.b_lock \/ (b >= 2 /\ u.b_lock = b - 2)
      /\ \/ Rests(st, u) /\ u.panicked = st.panicked
         \/ Breaks(st, u, b)
         \/ Commits(st, u, b)
  BY <1>2, <1>4, UpdateIs
<1> QED
  BY <1>1, <1>3, <1>4, <1>5 DEF p, b, st, A

\* update forgets counts, and adds to none.
LEMMA CountsAfter ==
    ASSUME NEW st \in State, NEW u, NEW b,
           \/ Rests(st, u) \/ Breaks(st, u, b) \/ Commits(st, u, b),
           NEW k \in 1 .. MaxBlocks
    PROVE  u.pending_quorums[k] = 0 \/ u.pending_quorums[k] = st.pending_quorums[k]
<1>1. CASE u.pending_quorums = st.pending_quorums
  BY <1>1
<1>2. CASE u.pending_quorums = Kept(st.pending_quorums, b - 3)
  <2>1. DOMAIN st.pending_quorums = 1 .. MaxBlocks
    BY DEF State
  <2> QED
    BY <1>2, <2>1 DEF Kept
<1> QED
  BY <1>1, <1>2 DEF Rests, Breaks, Commits

LEMMA HandleProposeChain ==
    ASSUME Chain, NEW m \in msgs, HandlePropose(m)
    PROVE  Chain'
<1> DEFINE p == m.dst
           b == m.block
<1>1. CASE ~Accepts(replica[p], b)
  <2>1. UNCHANGED <<blocks, replica, submitted>> /\ msgs' \subseteq msgs
    BY <1>1 DEF HandlePropose
  <2>2. p \in Replica /\ replica[p] \in State /\ replica' = [replica EXCEPT ![p] = replica[p]]
    BY <2>1 DEF Chain, TypeOK, Message
  <2>3. submitted' \in SUBSET Cmd /\ msgs' \in SUBSET Message
    BY <2>1 DEF Chain, TypeOK
  <2> HIDE DEF p
  <2> QED
    BY <2>1, <2>2, <2>3, SameVotes
<1>2. CASE Accepts(replica[p], b)
  <2> DEFINE st == Voted(replica[p], b)
             u == Update(blocks, st, b, HeldElsewhere(p))
             votes == ToAll("Vote", p, {NextLeader(b)}, b, {})
  <2>1. /\ p \in Replica /\ b \in Created /\ replica[p].vheight < b
        /\ replica' = [replica EXCEPT ![p] = u] /\ msgs' = (msgs \ {m}) \cup votes
        /\ u \in State /\ Held(u) \subseteq 0 .. Len(blocks) /\ u.vheight = b
        /\ Rests(st, u) \/ Breaks(st, u, b) \/ Commits(st, u, b)
    BY <1>2, AcceptIs
  <2>2. UNCHANGED <<blocks, submitted>>
    BY DEF HandlePropose
  <2>3. /\ st \in State /\ st.pending_quorums = replica[p].pending_quorums
    BY <2>1, VotedIs
  <2> HIDE DEF p, b, st, u
  <2>4. \A v \in votes : /\ v.type = "Vote" /\ v.src = p /\ v.dst = NextLeader(b)
                         /\ v.block = b /\ v.commands = {} /\ v \in Message
    <3>1. NextLeader(b) \in Replica /\ b \in BlockId
      BY <2>1, Leaders, ChainFacts, HotStuffAssumption DEF Created, BlockId
    <3> QED
      BY <2>1, <3>1 DEF ToAll, Message
  <2> HIDE DEF votes
  <2>5. msgs' \in SUBSET Message /\ submitted' \in SUBSET Cmd
    BY <2>1, <2>2, <2>4 DEF Chain, TypeOK
  <2>6. \A r \in Replica : replica'[r] = IF r = p THEN u ELSE replica[r]
    BY <2>1 DEF Chain, TypeOK
  <2>7. \A r \in Replica : replica[r].vheight \in Nat /\ Len(blocks) \in Nat /\ b \in Nat /\ b <= Len(blocks)
    BY <2>1, ChainFacts DEF Created
  <2>8. Addressed'
    <3>1. \A k \in msgs : k.src \in Replica
      BY DEF Chain, TypeOK, Message
    <3>2. \A r \in Replica : replica[r].vheight <= replica'[r].vheight
      BY <2>1, <2>6, <2>7
    <3>3. \A k \in msgs : /\ k.type # "Submit" => k.block \in Nat
      BY <2>7 DEF Chain, Addressed, Created
    <3>4. ASSUME NEW k \in msgs'
          PROVE  /\ k.type # "Submit" => k.block \in Created
                 /\ k.type = "Vote" => /\ k.dst = NextLeader(k.block) /\ k.commands = {}
                                       /\ k.block <= replica'[k.src].vheight
      <4>1. CASE k \in msgs
        <5>1. /\ k.type # "Submit" => k.block \in Created
              /\ k.type = "Vote" => /\ k.dst = NextLeader(k.block) /\ k.commands = {}
                                    /\ k.block <= replica[k.src].vheight
          BY <4>1 DEF Chain, Addressed
        <5>2. replica'[k.src].vheight \in Nat
          BY <4>1, <3>1, <2>1, <2>6, <2>7
        <5> QED
          BY <4>1, <5>1, <5>2, <3>1, <3>2, <3>3, <2>7
      <4>2. CASE k \in votes
        BY <4>2, <2>1, <2>4, <2>6, <2>7
      <4> QED
        BY <4>1, <4>2, <2>1
    <3> QED
      BY <3>4, <2>2 DEF Addressed, Created
  <2>9. \A k \in msgs' : k.type = "Vote" => k \in msgs \/ replica[k.src].vheight < k.block
    BY <2>1, <2>4
  <2>10. ASSUME NEW k \in 1 .. MaxBlocks
         PROVE  u.pending_quorums[k] = 0 \/ u.pending_quorums[k] = replica[p].pending_quorums[k]
    BY <2>1, <2>3, CountsAfter
  <2>11. \A k \in 1 .. MaxBlocks : k > Len(blocks) => u.pending_quorums[k] = 0
    BY <2>1, <2>10, ChainFacts
  <2>12. \A k \in Created : k \in 1 .. MaxBlocks
    BY ChainFacts, HotStuffAssumption DEF Created
  <2>13. replica[p].vheight <= u.vheight /\ u.vheight <= Len(blocks)
    BY <2>1, <2>7
  <2>14. \A k \in Created : NextLeader(k) = p =>
            LET r == u.pending_quorums[k]
                q == replica[p].pending_quorums[k]
            IN  \/ r = 0 \/ r = q
                \/ r = q + 1 /\ \E s \in Electorate(k) : s \notin Electorate(k)'
    BY <2>10, <2>12
  <2>15. /\ UNCHANGED blocks /\ p \in Replica /\ u \in State /\ replica' = [replica EXCEPT ![p] = u]
         /\ Held(u) \subseteq 0 .. Len(blocks)
    BY <2>1, <2>2
  <2> QED
    BY <2>5, <2>8, <2>9, <2>11, <2>13, <2>14, <2>15, SameBlocks
<1> QED
  BY <1>1, <1>2

\* A quorum is completed for the last block only.
LEMMA LastCompleted ==
    ASSUME Chain, NEW m \in msgs, CompleteQuorum(m)
    PROVE  /\ m.dst \in Replica /\ m.block \in Created /\ m.dst = NextLeader(m.block)
           /\ m.block = Len(blocks) /\ m.block \in 1 .. MaxBlocks
           /\ replica[m.dst].pending_quorums[m.block] + 1 = QuorumSize
           /\ replica[m.dst].pending_quorums[m.block] + 1 <= N
<1> DEFINE b == m.block
           q == replica[m.dst].pending_quorums[b]
           e == Cardinality(Electorate(b))
<1>1. m.dst \in Replica /\ m.src \in Replica /\ b \in Created /\ m.dst = NextLeader(b)
  BY DEF CompleteQuorum, Chain, TypeOK, Message, Addressed
<1>2. b \in 1 .. MaxBlocks /\ b <= Len(blocks) /\ Len(blocks) \in Nat /\ q \in 0 .. N
  BY <1>1, ChainFacts, HotStuffAssumption DEF Created
<1>3. q + e <= N /\ (b < Len(blocks) => q >= QuorumSize \/ q + e < QuorumSize)
  BY <1>1 DEF Chain, Elected, Count
<1>4. m.src \in Electorate(b)
  BY <1>1 DEF Electorate, VoteFor, CompleteQuorum
<1>5. e \in Nat /\ e # 0
  BY <1>4, Electors, FS_EmptySet
<1>6. q + 1 = QuorumSize
  BY DEF CompleteQuorum, QuorumCompletes
<1>7. \A x \in Nat, y \in Nat, z \in Nat : x + 1 = z /\ y # 0 => ~(x >= z \/ x + y < z)
  OBVIOUS
<1>8. \A x \in Nat, y \in Nat, z \in Nat : x + y <= z /\ y # 0 => x + 1 <= z
  OBVIOUS
<1> HIDE DEF q, e
<1>9. q \in Nat /\ N \in Nat
  BY <1>2, HotStuffAssumption
<1>10. ~(b < Len(blocks))
  BY <1>3, <1>5, <1>6, <1>7, <1>9, Quorums
<1> QED
  BY <1>1, <1>2, <1>3, <1>5, <1>6, <1>8, <1>9, <1>10 DEF q, Created

\* What the completion of a quorum does.
LEMMA CompleteIs ==
    ASSUME Chain, NEW m \in msgs, CompleteQuorum(m)
    PROVE  LET p == m.dst
               b == m.block
               s == replica[p]
               u == replica'[p]
           IN  /\ b < MaxBlocks /\ IsChain(blocks') /\ Len(blocks') = b + 1
               /\ \A k \in 1 .. b : blocks'[k] = blocks[k]
               /\ blocks'[b + 1].commands = s.pending_commands
               /\ replica' = [replica EXCEPT ![p] = u]
               /\ msgs' = (msgs \ {m}) \cup ToAll("Propose", p, Replica, b + 1, {})
               /\ u \in State /\ Held(u) \subseteq 0 .. b + 1
               /\ u.vheight = s.vheight /\ u.pending_commands = {}
               /\ u.b_lock = s.b_lock \/ (b >= 1 /\ u.b_lock = b - 1)
               /\ \E st \in State :
                    /\ st.pending_quorums = [s.pending_quorums EXCEPT ![b] = @ + 1]
                    /\ st.nodes = s.nodes \cup {b, b + 1}
                    /\ st.b_exec = s.b_exec /\ st.executed = s.executed /\ st.panicked = s.panicked
                    /\ \/ Rests(st, u) /\ u.panicked = st.panicked
                       \/ Breaks(st, u, b + 1)
                       \/ Commits(st, u, b + 1)
<1> DEFINE p == m.dst
           b == m.block
           s == replica[p]
           led == Leading(s, b)
           bs == Append(blocks, Leaf(led))
           leaf == Len(bs)
           st == [led EXCEPT !.pending_commands = {}, !.nodes = @ \cup {leaf}]
           A == HeldElsewhere(p)
           u == Update(bs, st, leaf, A)
<1>1. /\ p \in Replica /\ b = Len(blocks) /\ b \in 1 .. MaxBlocks
      /\ s.pending_quorums[b] + 1 <= N
  BY LastCompleted
<1>2. /\ IsChain(blocks) /\ Height(blocks, b) = b
      /\ s \in State /\ Held(s) \subseteq 0 .. b
      /\ s.pending_quorums \in [1 .. MaxBlocks -> 0 .. N]
      /\ \A k \in 1 .. MaxBlocks : k > b => s.pending_quorums[k] = 0
      /\ N \in Nat /\ MaxBlocks \in Nat /\ b \in Nat /\ b >= 1
  <2>1. /\ IsChain(blocks) /\ Len(blocks) \in Nat /\ Len(blocks) >= 1
        /\ \A k \in 0 .. Len(blocks) : Height(blocks, k) = k
    BY ChainFacts
  <2>2. /\ s \in State /\ Held(s) \subseteq 0 .. Len(blocks)
        /\ s.pending_quorums \in [1 .. MaxBlocks -> 0 .. N]
        /\ \A k \in 1 .. MaxBlocks : k > Len(blocks) => s.pending_quorums[k] = 0
    BY <1>1, ChainFacts
  <2>3. b = Len(blocks)
    BY <1>1
  <2> HIDE DEF b, s
  <2> QED
    BY <2>1, <2>2, <2>3, HotStuffAssumption
<1>3. /\ b < MaxBlocks /\ blocks' = bs /\ replica' = [replica EXCEPT ![p] = u]
      /\ msgs' = (msgs \ {m}) \cup ToAll("Propose", p, Replica, leaf, {})
  <2>1. /\ blocks' = bs /\ replica' = [replica EXCEPT ![p] = u]
        /\ msgs' = (msgs \ {m}) \cup ToAll("Propose", p, Replica, leaf, {})
        /\ Len(blocks) < MaxBlocks
    BY DEF CompleteQuorum
  <2> HIDE DEF b, bs, u, leaf, p
  <2> QED
    BY <1>1, <2>1
<1> DEFINE votes == [s.pending_quorums EXCEPT ![b] = @ + 1]
<1>4. votes \in [1 .. MaxBlocks -> 0 .. N] /\ \A k \in 1 .. MaxBlocks : k > b => votes[k] = 0
  <2> DEFINE q == s.pending_quorums
  <2>1. q[b] + 1 \in 0 .. N
    <3>1. q[b] \in 0 .. N
      BY <1>1, <1>2
    <3> QED
      BY <3>1, <1>1, <1>2
  <2>2. votes = [q EXCEPT ![b] = q[b] + 1] /\ q \in [1 .. MaxBlocks -> 0 .. N]
    BY <1>2
  <2>3. \A k \in 1 .. MaxBlocks : k > b => q[k] = 0
    BY <1>2
  <2>4. b \in 1 .. MaxBlocks /\ b \in Nat /\ MaxBlocks \in Nat
    BY <1>1, <1>2
  <2> HIDE DEF q, s, votes, b
  <2>5. votes \in [1 .. MaxBlocks -> 0 .. N]
    BY <2>1, <2>2, <2>4
  <2>6. ASSUME NEW k \in 1 .. MaxBlocks, k > b PROVE votes[k] = 0
    <3>1. k # b
      BY <2>4, <2>6
    <3> QED
      BY <2>2, <2>3, <2>6, <3>1
  <2> QED
    BY <2>5, <2>6
<1>5. /\ led.b_leaf = b /\ led.pending_commands = s.pending_commands
      /\ led.nodes = s.nodes \cup {b} /\ led.pending_quorums = votes /\ led.vheight = s.vheight
      /\ led.b_exec = s.b_exec /\ led.b_lock = s.b_lock /\ led.executed = s.executed
      /\ led.panicked = s.panicked /\ led \in State
  <2>1. led = [s EXCEPT !.pending_quorums = votes, !.nodes = @ \cup {b}, !.b_leaf = b]
    BY DEF Leading
  <2>2. b \in BlockId
    BY <1>1, <1>2 DEF BlockId
  <2> HIDE DEF led, votes, s, b
  <2> QED
    BY <1>2, <1>4, <2>1, <2>2 DEF State
<1>6. Leaf(led) = [parent |-> b, height |-> b + 1, commands |-> s.pending_commands]
  <2> HIDE DEF led, s
  <2> QED
    BY <1>2, <1>5 DEF Leaf
<1>7. IsChain(bs) /\ leaf = b + 1 /\ (\A k \in 1 .. b : bs[k] = blocks[k])
      /\ bs[b + 1].commands = s.pending_commands
  <2>1. Leaf(led) \in Block
    <3>1. s.pending_commands \in SUBSET Cmd /\ b \in BlockId /\ b + 1 \in 1 .. MaxBlocks
      BY <1>1, <1>2, <1>3 DEF State, BlockId
    <3> HIDE DEF s, led, b
    <3> QED
      BY <1>6, <3>1 DEF Block
  <2> HIDE DEF led, s
  <2>2. /\ bs \in Seq(Block) /\ Len(bs) = b + 1 /\ bs[b + 1] = Leaf(led)
        /\ \A k \in 1 .. b : bs[k] = blocks[k]
    BY <1>1, <1>2, <2>1, AppendProperties DEF IsChain
  <2> HIDE DEF bs
  <2>3. \A k \in 1 .. b + 1 : bs[k].parent = k - 1 /\ bs[k].height = k
    <3> DEFINE top == b + 1
    <3>1. bs[top].parent = top - 1 /\ bs[top].height = top
      BY <1>2, <1>6, <2>2
    <3>2. \A k \in 1 .. b : bs[k].parent = k - 1 /\ bs[k].height = k
      BY <1>1, <1>2, <2>2 DEF IsChain
    <3>3. \A k \in 1 .. top : k \in 1 .. b \/ k = top
      BY <1>2
    <3> HIDE DEF top
    <3>4. \A k \in 1 .. top : bs[k].parent = k - 1 /\ bs[k].height = k
      BY <3>1, <3>2, <3>3
    <3> QED
      BY <3>4 DEF top
  <2> QED
    BY <1>2, <1>3, <1>6, <2>2, <2>3 DEF IsChain
<1>8. /\ st \in State /\ st.pending_commands = {} /\ st.nodes = s.nodes \cup {b, b + 1}
      /\ st.pending_quorums = votes /\ st.vheight = s.vheight /\ st.b_exec = s.b_exec
      /\ st.b_lock = s.b_lock /\ st.b_leaf = b /\ st.executed = s.executed
      /\ st.panicked = s.panicked
  <2>1. leaf \in BlockId /\ leaf = b + 1
    BY <1>2, <1>3, <1>7 DEF BlockId
  <2> HIDE DEF led, leaf, s, votes
  <2> QED
    BY <1>5, <2>1 DEF State
<1>9. Held(st) \subseteq 0 .. b + 1
  <2> HIDE DEF st, s, b
  <2> QED
    BY <1>2, <1>8 DEF Held
<1>10. \A k \in 1 .. MaxBlocks : k > Len(bs) => st.pending_quorums[k] = 0
  <2> HIDE DEF st, s, votes, bs
  <2> QED
    BY <1>2, <1>4, <1>7, <1>8
<1>11. leaf \in 1 .. Len(bs)
  BY <1>2, <1>7
<1>12. /\ u \in State /\ Held(u) \subseteq 0 .. Len(bs)
       /\ u.pending_commands = st.pending_commands /\ u.vheight = st.vheight
       /\ u.b_lock = st.b_lock \/ (leaf >= 2 /\ u.b_lock = leaf - 2)
       /\ \/ Rests(st, u) /\ u.panicked = st.panicked
          \/ Breaks(st, u, leaf)
          \/ Commits(st, u, leaf)
  <2>1. Held(st) \subseteq 0 .. Len(bs)
    BY <1>7, <1>9
  <2>2. IsChain(bs) /\ st \in State
    BY <1>7, <1>8
  <2> HIDE DEF st, bs, A, leaf
  <2> QED
    BY <1>10, <1>11, <2>1, <2>2, UpdateIs
<1> HIDE DEF u, st, bs, leaf, s, votes
<1>13. replica'[p] = u
  BY <1>1, <1>3 DEF Chain, TypeOK
<1>14. Len(bs) = b + 1 /\ leaf = b + 1 /\ b + 1 - 2 = b - 1
  BY <1>2, <1>7 DEF leaf
<1>15. u.b_lock = s.b_lock \/ (b >= 1 /\ u.b_lock = b - 1)
  BY <1>2, <1>8, <1>12, <1>14
<1>16. \/ Rests(st, u) /\ u.panicked = st.panicked
       \/ Breaks(st, u, b + 1)
       \/ Commits(st, u, b + 1)
  BY <1>12, <1>14
<1>17. /\ st \in State /\ st.pending_quorums = [s.pending_quorums EXCEPT ![b] = @ + 1]
  BY <1>8 DEF votes
<1>18. \E z \in State :
          /\ z.pending_quorums = [s.pending_quorums EXCEPT ![b] = @ + 1]
          /\ z.nodes = s.nodes \cup {b, b + 1}
          /\ z.b_exec = s.b_exec /\ z.executed = s.executed /\ z.panicked = s.panicked
          /\ \/ Rests(z, u) /\ u.panicked = z.panicked
             \/ Breaks(z, u, b + 1)
             \/ Commits(z, u, b + 1)
  BY <1>8, <1>16, <1>17
<1>19. /\ u \in State /\ Held(u) \subseteq 0 .. b + 1
       /\ u.vheight = s.vheight /\ u.pending_commands = {}
  BY <1>8, <1>12, <1>14
<1>20. /\ b < MaxBlocks /\ IsChain(blocks') /\ Len(blocks') = b + 1
       /\ \A k \in 1 .. b : blocks'[k] = blocks[k]
       /\ blocks'[b + 1].commands = s.pending_commands
       /\ replica' = [replica EXCEPT ![p] = u]
       /\ msgs' = (msgs \ {m}) \cup ToAll("Propose", p, Replica, b + 1, {})
  BY <1>3, <1>7, <1>14
<1> HIDE DEF p, b
<1>21. /\ replica' = [replica EXCEPT ![p] = replica'[p]]
       /\ replica'[p] \in State /\ Held(replica'[p]) \subseteq 0 .. b + 1
  BY <1>13, <1>19, <1>20
<1> QED
  BY <1>13, <1>15, <1>18, <1>19, <1>20, <1>21 DEF p, b, s

LEMMA CompleteQuorumChain ==
    ASSUME Chain, NEW m \in msgs, CompleteQuorum(m)
    PROVE  Chain'
<1> DEFINE p == m.dst
           b == m.block
           s == replica[p]
           u == replica'[p]
           proposals == ToAll("Propose", p, Replica, b + 1, {})
<1>1. /\ p \in Replica /\ b \in Created /\ p = NextLeader(b) /\ b = Len(blocks)
      /\ b \in 1 .. MaxBlocks /\ s.pending_quorums[b] + 1 = QuorumSize
      /\ s.pending_quorums[b] + 1 <= N
  BY LastCompleted
<1>2. /\ b < MaxBlocks /\ IsChain(blocks') /\ Len(blocks') = b + 1
      /\ replica' = [replica EXCEPT ![p] = u] /\ msgs' = (msgs \ {m}) \cup proposals
      /\ u \in State /\ Held(u) \subseteq 0 .. b + 1 /\ u.vheight = s.vheight
  BY CompleteIs
<1>3. PICK st \in State :
         /\ st.pending_quorums = [s.pending_quorums EXCEPT ![b] = @ + 1]
         /\ st.b_exec = s.b_exec
         /\ Rests(st, u) \/ Breaks(st, u, b + 1) \/ Commits(st, u, b + 1)
  BY CompleteIs
<1>4. /\ s.pending_quorums \in [1 .. MaxBlocks -> 0 .. N]
      /\ \A k \in 1 .. MaxBlocks : k > b => s.pending_quorums[k] = 0
      /\ b \in Nat /\ MaxBlocks \in Nat /\ N \in Nat /\ s.vheight \in 0 .. b
      /\ s.pending_quorums[b] \in Nat
  BY <1>1, ChainFacts, HotStuffAssumption
<1>5. m.type = "Vote" /\ submitted' = submitted
  BY DEF CompleteQuorum
<1> HIDE DEF p, b, s, u, proposals
<1>6. \A r \in Replica : replica'[r] = IF r = p THEN u ELSE replica[r]
  BY <1>2 DEF Chain, TypeOK
<1>7. \A r \in Replica : replica'[r].vheight = replica[r].vheight /\ replica[r].vheight \in 0 .. b
  BY <1>1, <1>2, <1>6, ChainFacts DEF s
<1>8. \A v \in proposals : v.type = "Propose" /\ v.block = b + 1 /\ v \in Message
  <2>1. b + 1 \in BlockId
    BY <1>2, <1>4 DEF BlockId
  <2> QED
    BY <1>1, <2>1 DEF proposals, ToAll, Message
<1>9. TypeOK'
  <2>1. replica' \in [Replica -> State]
    BY <1>2 DEF Chain, TypeOK
  <2>2. msgs' \in SUBSET Message
    BY <1>2, <1>8 DEF Chain, TypeOK
  <2>3. blocks' \in Seq(Block) /\ Len(blocks') <= MaxBlocks
    BY <1>2 DEF IsChain
  <2> QED
    BY <1>5, <2>1, <2>2, <2>3 DEF Chain, TypeOK
<1>10. OneChain' /\ (blocks # <<>>)'
  <2>1. Len(blocks') # 0
    BY <1>2, <1>4
  <2>2. blocks' # <<>>
    BY <2>1, EmptySeq
  <2> QED
    BY <1>2, <2>2 DEF IsChain, OneChain
<1>11. Addressed'
  <2>1. \A k \in msgs : k.src \in Replica
    BY DEF Chain, TypeOK, Message
  <2>2. Created' = 1 .. b + 1 /\ Created = 1 .. b /\ b + 1 \in Created' /\ Created \subseteq Created'
    BY <1>1, <1>2, <1>4 DEF Created
  <2>3. ASSUME NEW k \in msgs'
        PROVE  /\ k.type # "Submit" => k.block \in Created'
               /\ k.type = "Vote" => /\ k.dst = NextLeader(k.block) /\ k.commands = {}
                                     /\ k.block <= replica'[k.src].vheight
    <3>1. CASE k \in msgs
      BY <2>1, <2>2, <3>1, <1>7 DEF Chain, Addressed
    <3>2. CASE k \in proposals
      BY <2>2, <3>2, <1>8
    <3> QED
      BY <1>2, <3>1, <3>2
  <2> QED
    BY <2>3 DEF Addressed
<1>12. \A k \in 1 .. MaxBlocks : \/ u.pending_quorums[k] = 0
                                 \/ u.pending_quorums[k] = st.pending_quorums[k]
  BY <1>3, CountsAfter
<1>13. /\ \A k \in 1 .. MaxBlocks : k # b => st.pending_quorums[k] = s.pending_quorums[k]
       /\ st.pending_quorums[b] = s.pending_quorums[b] + 1
  BY <1>1, <1>3, <1>4
<1>14. u.pending_quorums[b] = QuorumSize
  <2>1. DOMAIN st.pending_quorums = 1 .. MaxBlocks /\ ~(b <= b + 1 - 3)
    BY <1>4 DEF State
  <2>2. u.pending_quorums[b] = st.pending_quorums[b]
    <3>1. CASE u.pending_quorums = st.pending_quorums
      BY <3>1
    <3> DEFINE top == b + 1
    <3>2. CASE u.pending_quorums = Kept(st.pending_quorums, top - 3)
      BY <1>1, <2>1, <3>2 DEF Kept
    <3>3. Rests(st, u) \/ Breaks(st, u, top) \/ Commits(st, u, top)
      BY <1>3
    <3> HIDE DEF top
    <3> QED
      BY <3>1, <3>2, <3>3 DEF Rests, Breaks, Commits
  <2> QED
    BY <1>1, <1>13, <2>2
<1>15. Known'
  <2> SUFFICES ASSUME NEW r \in Replica
               PROVE  /\ Held(replica'[r]) \subseteq 0 .. b + 1
                      /\ replica'[r].vheight <= b + 1
                      /\ \A k \in 1 .. MaxBlocks :
                            k > b + 1 => replica'[r].pending_quorums[k] = 0
    BY <1>2 DEF Known, Held
  <2>1. replica'[r].vheight <= b + 1
    BY <1>4, <1>7
  <2>2. CASE r = p
    <3>1. \A k \in 1 .. MaxBlocks : k > b + 1 => k > b /\ k # b
      BY <1>4
    <3> QED
      BY <2>1, <2>2, <3>1, <1>2, <1>4, <1>6, <1>12, <1>13
  <2>3. CASE r # p
    <3>1. /\ Held(replica[r]) \subseteq 0 .. b
          /\ \A k \in 1 .. MaxBlocks : k > b => replica[r].pending_quorums[k] = 0
      BY <1>1, ChainFacts
    <3>2. 0 .. b \subseteq 0 .. b + 1 /\ \A k \in 1 .. MaxBlocks : k > b + 1 => k > b
      BY <1>4
    <3> QED
      BY <2>1, <2>3, <3>1, <3>2, <1>6
  <2> QED
    BY <2>2, <2>3
<1>16. Elected'
  <2> SUFFICES ASSUME NEW k \in Created'
               PROVE  /\ Count(k)' + Cardinality(Electorate(k)') <= N
                      /\ k < b + 1 => \/ Count(k)' >= QuorumSize
                                      \/ Count(k)' + Cardinality(Electorate(k)') < QuorumSize
    BY <1>2 DEF Elected
  <2>1. k \in 1 .. b + 1 /\ k \in Nat /\ k \in 1 .. MaxBlocks /\ NextLeader(k) \in Replica
    BY <1>2, <1>4, Leaders DEF Created
  <2>2. CASE k = b + 1
    <3>1. \A r \in Replica : replica[r].pending_quorums[k] = 0
      BY <2>1, <2>2, <1>1, <1>4, ChainFacts
    <3>2. k # b
      BY <2>2, <1>4
    <3>3. s.pending_quorums[k] = 0 /\ u.pending_quorums[k] = 0
      BY <2>1, <3>1, <3>2, <1>1, <1>12, <1>13 DEF s
    <3>4. Count(k)' = 0
      BY <2>1, <3>1, <3>3, <1>6 DEF Count
    <3>5. /\ Electorate(k)' \subseteq Replica
      BY DEF Electorate
    <3>6. Cardinality(Electorate(k)') \in Nat /\ Cardinality(Electorate(k)') <= N
      BY <3>5, Replicas, FS_Subset, FS_CardinalityType
    <3> QED
      BY <2>2, <3>4, <3>6, <1>4
  <2>3. CASE k # b + 1
    <3>1. k \in Created /\ k <= b
      BY <2>1, <2>3, <1>1, <1>4 DEF Created
    <3>2. Count(k) \in Nat /\ Count(k)' \in Nat
      <4>1. \A r \in Replica : /\ replica[r].pending_quorums[k] \in 0 .. N
                               /\ replica'[r].pending_quorums[k] \in 0 .. N
        <5>1. ASSUME NEW r \in Replica
              PROVE  replica[r] \in State /\ replica'[r] \in State
          BY <1>9 DEF Chain, TypeOK
        <5>2. \A st0 \in State : st0.pending_quorums[k] \in 0 .. N
          BY <2>1 DEF State
        <5> QED
          BY <5>1, <5>2
      <4> QED
        BY <2>1, <4>1, <1>4 DEF Count
    <3>3. \A r \in Replica : /\ replica[r].vheight <= replica'[r].vheight
                             /\ replica[r].vheight \in Nat /\ replica'[r].vheight \in Nat
      BY <1>4, <1>7
    <3>4. \A v \in msgs' : v.type = "Vote" /\ v.block = k => v \in msgs \/ replica[v.src].vheight < k
      BY <1>2, <1>8
    <3>5. CASE k # b
      <4>1. Count(k)' = 0 \/ Count(k)' = Count(k)
        BY <2>1, <3>5, <1>1, <1>6, <1>12, <1>13 DEF Count, s
      <4>2. k < Len(blocks)
        BY <2>1, <3>1, <3>5, <1>1, <1>4
      <4> QED
        BY <3>1, <3>2, <3>3, <3>4, <4>1, <4>2, ElectedStep
    <3>6. CASE k = b
      <4>1. Count(k)' = Count(k) + 1 /\ Count(k)' = QuorumSize
        BY <3>6, <1>1, <1>6, <1>14 DEF Count, s
      <4>2. \E v \in Electorate(k) : v \notin Electorate(k)'
        <5>1. m.src \in Electorate(b)
          BY <1>5 DEF Chain, TypeOK, Message, Electorate, VoteFor, b
        <5>2. replica[m.src].vheight \in Nat /\ b <= replica[m.src].vheight
          BY <1>4, <1>5, <1>7 DEF Chain, TypeOK, Message, Addressed, b
        <5>3. \A v \in msgs : v.type = "Vote" /\ v.block = b /\ v.src = m.src => v = m
          <6> SUFFICES ASSUME NEW v \in msgs, v.type = "Vote", v.block = b, v.src = m.src
                       PROVE  v = m
            OBVIOUS
          <6>1. v \in Message /\ m \in Message
            BY DEF Chain, TypeOK
          <6>2. v.commands = {} /\ m.commands = {} /\ v.dst = m.dst
            BY <1>5 DEF Chain, Addressed, b
          <6> QED
            BY <6>1, <6>2, <1>5 DEF Message, b
        <5>4. m.src \in Replica
          BY DEF Chain, TypeOK, Message
        <5>5. ~ \E v \in msgs' : v.type = "Vote" /\ v.block = b /\ v.src = m.src
          BY <5>3, <1>2, <1>8
        <5>6. m.src \notin Electorate(b)'
          BY <5>2, <5>4, <5>5, <1>4, <1>7 DEF Electorate, VoteFor
        <5> QED
          BY <3>6, <5>1, <5>6
      <4>3. Count(k)' + Cardinality(Electorate(k)') <= N
        BY <3>1, <3>2, <3>3, <3>4, <4>1, <4>2, ElectedStep
      <4> QED
        BY <3>2, <4>1, <4>3
    <3> QED
      BY <3>5, <3>6
  <2> QED
    BY <2>2, <2>3
<1> QED
  BY <1>9, <1>10, <1>11, <1>15, <1>16 DEF Chain

LEMMA ChainStep == Chain /\ [Next]_vars => Chain'
<1> SUFFICES ASSUME Chain, [Next]_vars PROVE Chain'
  OBVIOUS
<1>1. ASSUME NEW c \in Cmd, OnTimer(c) PROVE Chain'
  BY <1>1, OnTimerChain
<1>2. ASSUME NEW m \in msgs, Receive(m) PROVE Chain'
  <2>1. CASE HandleSubmit(m)
    BY <2>1, HandleSubmitChain
  <2>2. CASE HandlePropose(m)
    BY <2>2, HandleProposeChain
  <2>3. CASE DropVote(m)
    BY <2>3, DropVoteChain
  <2>4. CASE CountVote(m)
    BY <2>4, CountVoteChain
  <2>5. CASE CompleteQuorum(m)
    BY <2>5, CompleteQuorumChain
  <2> QED
    BY <1>2, <2>1, <2>2, <2>3, <2>4, <2>5 DEF Receive
<1>3. CASE UNCHANGED vars
  BY <1>3 DEF vars, Chain, TypeOK, OneChain, Addressed, Known, Elected, Created, Count,
              Electorate, VoteFor, Held
<1> QED
  BY <1>1, <1>2, <1>3 DEF Next

(***************************************************************************)
(* The state of a replica, blocks and messages keep their types, counts of *)
(* votes never exceed the number of replicas, and messages name blocks and *)
(* replicas that exist.                                                    *)
(***************************************************************************)
THEOREM TypeCorrect == Spec => []TypeOK
<1>1. Chain => TypeOK
  BY DEF Chain
<1> QED
  BY <1>1, ChainInit, ChainStep, PTL DEF Spec

(***************************************************************************)
(* One chain whatever the order of messages: the votes that may still come *)
(* for a block that has been built on are too few for a second quorum.     *)
(***************************************************************************)
THEOREM OneChainHolds == Spec => []OneChain
<1>1. Chain => OneChain
  BY DEF Chain
<1> QED
  BY <1>1, ChainInit, ChainStep, PTL DEF Spec

-----------------------------------------------------------------------------
\* No count for what is executed.

Clean(st) == \A k \in 1 .. MaxBlocks : st.pending_quorums[k] > 0 => k > st.b_exec

AllClean == \A p \in Replica : Clean(replica[p])

\* update leaves no count for what it executes.
LEMMA CleanAfter ==
    ASSUME NEW st \in State, Clean(st), NEW u, NEW b \in Nat,
           Rests(st, u) \/ Breaks(st, u, b) \/ Commits(st, u, b)
    PROVE  Clean(u)
<1>1. CASE u.pending_quorums = st.pending_quorums /\ u.b_exec = st.b_exec
  BY <1>1 DEF Clean
<1>2. CASE u.pending_quorums = Kept(st.pending_quorums, b - 3) /\ u.b_exec = b - 3
  <2>1. DOMAIN st.pending_quorums = 1 .. MaxBlocks
    BY DEF State
  <2>2. \A k \in 1 .. MaxBlocks : k <= b - 3 => u.pending_quorums[k] = 0
    BY <1>2, <2>1 DEF Kept
  <2>3. \A k \in 1 .. MaxBlocks : k <= b - 3 \/ k > b - 3
    BY HotStuffAssumption
  <2> QED
    BY <1>2, <2>2, <2>3 DEF Clean
<1> QED
  BY <1>1, <1>2 DEF Rests, Breaks, Commits

\* Only counts and b_exec of one replica matter.
LEMMA CleanStep ==
    ASSUME Chain, AllClean, NEW p \in Replica, NEW u,
           replica' = [replica EXCEPT ![p] = u], Clean(u)
    PROVE  AllClean'
BY DEF Chain, TypeOK, AllClean, Clean

LEMMA AllCleanStep == Chain /\ AllClean /\ [Next]_vars => AllClean'
<1> SUFFICES ASSUME Chain, AllClean, [Next]_vars PROVE AllClean'
  OBVIOUS
<1>1. ASSUME NEW c \in Cmd, OnTimer(c) PROVE AllClean'
  <2> DEFINE p == Owner[c]
             u == [replica[p] EXCEPT !.pending_commands = @ \cup {c}]
  <2>1. p \in Replica /\ replica[p] \in State
    BY HotStuffAssumption DEF Chain, TypeOK
  <2>2. replica' = [replica EXCEPT ![p] = u]
    BY <1>1 DEF OnTimer
  <2>3. u.pending_quorums = replica[p].pending_quorums /\ u.b_exec = replica[p].b_exec
    BY <2>1 DEF State
  <2> HIDE DEF p, u
  <2>4. Clean(u)
    BY <2>1, <2>3 DEF AllClean, Clean
  <2> QED
    BY <2>1, <2>2, <2>4, CleanStep
<1>2. ASSUME NEW m \in msgs, Receive(m) PROVE AllClean'
  <2> DEFINE p == m.dst
             b == m.block
  <2>1. p \in Replica /\ replica[p] \in State /\ Clean(replica[p])
    BY DEF Chain, TypeOK, Message, AllClean
  <2>2. CASE HandleSubmit(m)
    <3> DEFINE u == [replica[p] EXCEPT !.pending_commands = @ \cup m.commands]
    <3>1. replica' = [replica EXCEPT ![p] = u]
      BY <2>2 DEF HandleSubmit
    <3>2. u.pending_quorums = replica[p].pending_quorums /\ u.b_exec = replica[p].b_exec
      BY <2>1 DEF State
    <3> HIDE DEF p, u
    <3>3. Clean(u)
      BY <2>1, <3>2 DEF Clean
    <3> QED
      BY <2>1, <3>1, <3>3, CleanStep
  <2>3. CASE HandlePropose(m)
    <3>1. CASE ~Accepts(replica[p], b)
      BY <2>3, <3>1 DEF HandlePropose, AllClean, Clean
    <3>2. CASE Accepts(replica[p], b)
      <4> DEFINE st == Voted(replica[p], b)
                 u == Update(blocks, st, b, HeldElsewhere(p))
      <4>1. /\ b \in Created /\ replica' = [replica EXCEPT ![p] = u]
            /\ Rests(st, u) \/ Breaks(st, u, b) \/ Commits(st, u, b)
        BY <2>3, <3>2, AcceptIs
      <4>2. /\ st \in State /\ st.pending_quorums = replica[p].pending_quorums
            /\ st.b_exec = replica[p].b_exec
        BY <2>1, <4>1, VotedIs
      <4> HIDE DEF st, u, p, b
      <4>3. Clean(st)
        BY <2>1, <4>2 DEF Clean
      <4>4. b \in Nat
        BY <4>1, ChainFacts DEF Created
      <4>5. Clean(u)
        BY <4>1, <4>2, <4>3, <4>4, CleanAfter
      <4> QED
        BY <2>1, <4>1, <4>5, CleanStep
    <3> QED
      BY <3>1, <3>2
  <2>4. CASE DropVote(m)
    BY <2>4 DEF DropVote, AllClean, Clean
  <2>5. /\ m.type = "Vote" => b \in Created
    BY DEF Chain, Addressed
  <2>6. CASE CountVote(m)
    <3> DEFINE q == replica[p].pending_quorums
               u == [replica[p] EXCEPT !.pending_quorums[b] = @ + 1]
    <3>1. replica' = [replica EXCEPT ![p] = u] /\ ~TooLate(replica[p], b)
      BY <2>6 DEF CountVote
    <3>2. u.pending_quorums = [q EXCEPT ![b] = q[b] + 1] /\ u.b_exec = replica[p].b_exec
      BY <2>1 DEF State
    <3>3. b \in 0 .. Len(blocks) /\ b \in Nat
      BY <2>5, <2>6, ChainFacts DEF CountVote, Created
    <3>4. b > replica[p].b_exec
      BY <2>1, <3>1, <3>3, ChainFacts DEF TooLate
    <3>5. q \in [1 .. MaxBlocks -> 0 .. N]
      BY <2>1 DEF State
    <3> HIDE DEF p, b, u
    <3>6. Clean(u)
      BY <2>1, <3>2, <3>4, <3>5 DEF Clean
    <3> QED
      BY <2>1, <3>1, <3>6, CleanStep
  <2>7. CASE CompleteQuorum(m)
    <3> DEFINE u == replica'[p]
               q == replica[p].pending_quorums
    <3>1. replica' = [replica EXCEPT ![p] = u]
      BY <2>7, CompleteIs
    <3>2. PICK st \in State :
             /\ st.pending_quorums = [q EXCEPT ![b] = @ + 1] /\ st.b_exec = replica[p].b_exec
             /\ Rests(st, u) \/ Breaks(st, u, b + 1) \/ Commits(st, u, b + 1)
      BY <2>7, CompleteIs
    <3>3. b \in 0 .. Len(blocks) /\ b \in Nat /\ b + 1 \in Nat
      BY <2>5, <2>7, ChainFacts DEF CompleteQuorum, Created
    <3>4. b > replica[p].b_exec
      BY <2>1, <2>7, <3>3, ChainFacts DEF CompleteQuorum, TooLate
    <3>5. q \in [1 .. MaxBlocks -> 0 .. N]
      BY <2>1 DEF State
    <3> HIDE DEF p, b, u
    <3>6. Clean(st)
      BY <2>1, <3>2, <3>4, <3>5 DEF Clean
    <3>7. Clean(u)
      BY <3>2, <3>3, <3>6, CleanAfter
    <3> QED
      BY <2>1, <3>1, <3>7, CleanStep
  <2> QED
    BY <1>2, <2>2, <2>3, <2>4, <2>6, <2>7 DEF Receive
<1>3. CASE UNCHANGED vars
  BY <1>3 DEF vars, AllClean, Clean
<1> QED
  BY <1>1, <1>2, <1>3 DEF Next

(***************************************************************************)
(* Counts of votes for executed blocks never come back: a vote for such a  *)
(* block is turned away, and what executes it drops its count.             *)
(***************************************************************************)
THEOREM NoStaleQuorumsHolds == Spec => []NoStaleQuorums
<1>1. Init => AllClean
  BY DEF Init, Start, AllClean, Clean, Genesis
<1>2. ASSUME Chain, AllClean PROVE NoStaleQuorums
  <2> SUFFICES ASSUME NEW p \in Replica, NEW b \in 1 .. Len(blocks),
                      replica[p].pending_quorums[b] > 0
               PROVE  blocks[b].height > Height(blocks, replica[p].b_exec)
    BY DEF NoStaleQuorums
  <2>1. b \in 1 .. MaxBlocks /\ blocks[b].height = b
    BY <1>2, ChainFacts, HotStuffAssumption DEF Chain, OneChain
  <2>2. Height(blocks, replica[p].b_exec) = replica[p].b_exec
    BY <1>2, ChainFacts
  <2> QED
    BY <1>2, <2>1, <2>2 DEF AllClean, Clean
<1> QED
  BY <1>1, <1>2, ChainInit, ChainStep, AllCleanStep, PTL DEF Spec

-----------------------------------------------------------------------------
\* No command is forgotten.

\* The commands that are in the chain, or that p has or will get.
Reached(p) == Included(Len(blocks)) \cup replica[p].pending_commands
                 \cup UNION {m.commands : m \in {k \in msgs : k.type = "Submit" /\ k.dst = p}}

KeptEverywhere == \A p \in Replica : submitted \subseteq Reached(p)

LEMMA KeptStep == Chain /\ KeptEverywhere /\ [Next]_vars => KeptEverywhere'
<1> SUFFICES ASSUME Chain, KeptEverywhere, [Next]_vars, NEW r \in Replica
             PROVE  submitted' \subseteq Reached(r)'
  BY DEF KeptEverywhere
<1>0. submitted \subseteq Reached(r) /\ replica[r] \in State
  BY DEF KeptEverywhere, Chain, TypeOK
<1>1. ASSUME NEW c \in Cmd, OnTimer(c) PROVE submitted' \subseteq Reached(r)'
  <2> DEFINE p == Owner[c]
             u == [replica[p] EXCEPT !.pending_commands = @ \cup {c}]
  <2>1. p \in Replica /\ replica[p] \in State /\ replica \in [Replica -> State]
    BY HotStuffAssumption DEF Chain, TypeOK
  <2>2. /\ replica' = [replica EXCEPT ![p] = u] /\ submitted' = submitted \cup {c}
        /\ blocks' = blocks
        /\ msgs' = msgs \cup ToAll("Submit", p, Replica \ {p}, Genesis, {c})
    BY <1>1 DEF OnTimer
  <2>3. u.pending_commands = replica[p].pending_commands \cup {c}
    BY <2>1 DEF State
  <2>4. Included(Len(blocks))' = Included(Len(blocks)) /\ msgs \subseteq msgs'
    BY <2>2 DEF Included
  <2> HIDE DEF p, u
  <2>5. replica[r].pending_commands \subseteq replica'[r].pending_commands
    BY <2>1, <2>2, <2>3
  <2>6. Reached(r) \subseteq Reached(r)'
    BY <2>4, <2>5 DEF Reached
  <2>7. c \in Reached(r)'
    <3>1. CASE r = p
      BY <2>1, <2>2, <2>3, <3>1 DEF Reached
    <3>2. CASE r # p
      <4> DEFINE m == [type |-> "Submit", src |-> p, dst |-> r, block |-> Genesis,
                       commands |-> {c}]
      <4>1. m \in msgs' /\ m.type = "Submit" /\ m.dst = r /\ c \in m.commands
        BY <2>2, <3>2 DEF ToAll
      <4> HIDE DEF m
      <4> QED
        BY <4>1 DEF Reached
    <3> QED
      BY <3>1, <3>2
  <2> QED
    BY <1>0, <2>2, <2>6, <2>7
<1>2. ASSUME NEW m \in msgs, Receive(m) PROVE submitted' \subseteq Reached(r)'
  <2> DEFINE p == m.dst
             b == m.block
  <2>1. /\ p \in Replica /\ replica[p] \in State /\ replica \in [Replica -> State]
        /\ m.commands \in SUBSET Cmd
    BY DEF Chain, TypeOK, Message
  <2>2. submitted' = submitted
    BY <1>2 DEF Receive, HandleSubmit, HandlePropose, DropVote, CountVote, CompleteQuorum
  <2>3. CASE HandleSubmit(m)
    <3> DEFINE u == [replica[p] EXCEPT !.pending_commands = @ \cup m.commands]
    <3>1. /\ replica' = [replica EXCEPT ![p] = u] /\ msgs' = msgs \ {m} /\ blocks' = blocks
      BY <2>3 DEF HandleSubmit
    <3>2. u.pending_commands = replica[p].pending_commands \cup m.commands
      BY <2>1 DEF State
    <3>3. Included(Len(blocks))' = Included(Len(blocks))
      BY <3>1 DEF Included
    <3> HIDE DEF u
    <3>4. /\ replica[r].pending_commands \subseteq replica'[r].pending_commands
          /\ r = p => m.commands \subseteq replica'[r].pending_commands
      BY <2>1, <3>1, <3>2
    <3>5. Reached(r) \subseteq Reached(r)'
      <4> SUFFICES ASSUME NEW k \in msgs, k.type = "Submit", k.dst = r, NEW d \in k.commands
                   PROVE  d \in Reached(r)'
        BY <3>3, <3>4 DEF Reached
      <4>1. CASE k = m
        BY <4>1, <3>4 DEF Reached
      <4>2. CASE k # m
        BY <4>2, <3>1 DEF Reached
      <4> QED
        BY <4>1, <4>2
    <3> QED
      BY <1>0, <2>2, <3>5
  <2>4. ASSUME m.type # "Submit",
               msgs \ {m} \subseteq msgs',
               Included(Len(blocks)) \subseteq Included(Len(blocks))',
               replica[r].pending_commands
                   \subseteq replica'[r].pending_commands \cup Included(Len(blocks))'
        PROVE  Reached(r) \subseteq Reached(r)'
    <3> SUFFICES ASSUME NEW k \in msgs, k.type = "Submit", k.dst = r, NEW d \in k.commands
                 PROVE  d \in Reached(r)'
      BY <2>4 DEF Reached
    <3>1. k \in msgs'
      BY <2>4
    <3> QED
      BY <3>1 DEF Reached
  <2>5. blocks' = blocks => Included(Len(blocks))' = Included(Len(blocks))
    BY DEF Included
  <2>6. CASE HandlePropose(m)
    <3>1. m.type # "Submit" /\ msgs \ {m} \subseteq msgs' /\ blocks' = blocks
      BY <2>6 DEF HandlePropose
    <3>2. CASE ~Accepts(replica[p], b)
      <4>1. replica' = replica
        BY <2>6, <3>2 DEF HandlePropose
      <4> QED
        BY <1>0, <2>2, <2>4, <2>5, <3>1, <4>1
    <3>3. CASE Accepts(replica[p], b)
      <4> DEFINE st == Voted(replica[p], b)
                 u == Update(blocks, st, b, HeldElsewhere(p))
      <4>1. /\ b \in Created /\ replica' = [replica EXCEPT ![p] = u]
            /\ u.pending_commands = st.pending_commands
        BY <2>6, <3>3, AcceptIs
      <4>2. st.pending_commands = replica[p].pending_commands \ blocks[b].commands
        BY <2>1, <4>1, VotedIs
      <4> HIDE DEF st, u, b
      <4>3. blocks[b].commands \subseteq Included(Len(blocks))
        BY <4>1 DEF Included, Created
      <4>4. replica[r].pending_commands
                   \subseteq replica'[r].pending_commands \cup Included(Len(blocks))'
        BY <2>1, <2>5, <3>1, <4>1, <4>2, <4>3
      <4> QED
        BY <1>0, <2>2, <2>4, <2>5, <3>1, <4>4
    <3> QED
      BY <3>2, <3>3
  <2>7. CASE DropVote(m)
    <3>1. m.type # "Submit" /\ msgs' = msgs \ {m} /\ blocks' = blocks /\ replica' = replica
      BY <2>7 DEF DropVote
    <3> QED
      BY <1>0, <2>2, <2>4, <2>5, <3>1
  <2>8. CASE CountVote(m)
    <3> DEFINE u == [replica[p] EXCEPT !.pending_quorums[b] = @ + 1]
    <3>1. /\ m.type # "Submit" /\ msgs' = msgs \ {m} /\ blocks' = blocks
          /\ replica' = [replica EXCEPT ![p] = u]
      BY <2>8 DEF CountVote
    <3>2. u.pending_commands = replica[p].pending_commands
      BY <2>1 DEF State
    <3> HIDE DEF u
    <3>3. replica'[r].pending_commands = replica[r].pending_commands
      BY <2>1, <3>1, <3>2
    <3> QED
      BY <1>0, <2>2, <2>4, <2>5, <3>1, <3>3
  <2>9. CASE CompleteQuorum(m)
    <3> DEFINE u == replica'[p]
    <3>1. /\ Len(blocks) = b
          /\ replica' = [replica EXCEPT ![p] = u] /\ Len(blocks') = b + 1
          /\ \A k \in 1 .. b : blocks'[k] = blocks[k]
          /\ blocks'[b + 1].commands = replica[p].pending_commands
      BY <2>9, CompleteIs, LastCompleted
    <3>2. msgs \ {m} \subseteq msgs' /\ m.type # "Submit"
      BY <2>9 DEF CompleteQuorum
    <3>3. b \in Nat
      BY <3>1, ChainFacts
    <3> HIDE DEF b, u
    <3>4. 1 .. b \subseteq 1 .. b + 1 /\ b + 1 \in 1 .. b + 1
      BY <3>3
    <3>5. /\ Included(Len(blocks)) \subseteq Included(Len(blocks))'
          /\ replica[p].pending_commands \subseteq Included(Len(blocks))'
      BY <3>1, <3>4 DEF Included
    <3>6. replica[r].pending_commands
              \subseteq replica'[r].pending_commands \cup Included(Len(blocks))'
      BY <2>1, <3>1, <3>5
    <3> QED
      BY <1>0, <2>2, <2>4, <3>2, <3>5, <3>6
  <2> QED
    BY <1>2, <2>3, <2>6, <2>7, <2>8, <2>9 DEF Receive
<1>3. CASE UNCHANGED vars
  BY <1>0, <1>3 DEF vars, Reached, Included
<1> QED
  BY <1>1, <1>2, <1>3 DEF Next

(***************************************************************************)
(* No submitted command is forgotten: a voter drops only what the block    *)
(* includes, and a leader only what it proposes, whatever the order in     *)
(* which submissions, proposals and votes arrive.                          *)
(***************************************************************************)
THEOREM CommandKeptHolds == Spec => []CommandKept
<1>1. Init => KeptEverywhere
  BY DEF Init, KeptEverywhere
<1>2. KeptEverywhere => CommandKept
  BY DEF KeptEverywhere, Reached, CommandKept
<1> QED
  BY <1>1, <1>2, ChainInit, ChainStep, KeptStep, PTL DEF Spec

-----------------------------------------------------------------------------
\* Links that keep the causal order.

LEMMA Counted ==
    ASSUME NEW e \in Nat, NEW k \in Nat
    PROVE  [i \in 1 .. e |-> i] \o [i \in 1 .. k |-> e + i] = [i \in 1 .. e + k |-> i]
<1> DEFINE s == [i \in 1 .. e |-> i]
           t == [i \in 1 .. k |-> e + i]
           w == [i \in 1 .. e + k |-> i]
<1>1. s \in Seq(Nat) /\ Len(s) = e /\ \A i \in 1 .. e : s[i] = i
  BY IsASeq
<1>2. t \in Seq(Nat) /\ Len(t) = k /\ \A i \in 1 .. k : t[i] = e + i
  BY IsASeq
<1>3. w \in Seq(Nat) /\ Len(w) = e + k /\ \A i \in 1 .. e + k : w[i] = i
  BY IsASeq
<1> HIDE DEF s, t, w
<1>4. s \o t \in Seq(Nat) /\ Len(s \o t) = e + k
  BY <1>1, <1>2, ConcatProperties
<1>5. ASSUME NEW i \in 1 .. e + k PROVE (s \o t)[i] = i
  <2>1. (s \o t)[i] = IF i <= Len(s) THEN s[i] ELSE t[i - Len(s)]
    BY <1>1, <1>2, ConcatProperties
  <2>2. CASE i <= e
    BY <1>1, <2>1, <2>2
  <2>3. CASE ~(i <= e)
    <3>1. i - e \in 1 .. k /\ e + (i - e) = i
      BY <2>3
    <3> QED
      BY <1>1, <1>2, <2>1, <2>3, <3>1
  <2> QED
    BY <2>2, <2>3
<1>6. \A i \in 1 .. Len(s \o t) : (s \o t)[i] = w[i]
  BY <1>3, <1>4, <1>5
<1>7. s \o t = w
  BY <1>3, <1>4, <1>6, SeqEqual
<1> QED
  BY <1>7 DEF s, t, w

\* A proposal that is accepted is for the next block; a vote comes to a
\* leader that has voted itself.
LEMMA Next1 ==
    ASSUME Ordered, Chain, Proposed, NEW m \in msgs, Deliverable(m)
    PROVE  /\ Proposal(m) => \/ m.block <= replica[m.dst].vheight
                             \/ m.block = replica[m.dst].vheight + 1
           /\ m.type = "Vote" => m.block <= replica[m.dst].vheight
<1> DEFINE p == m.dst
           v == replica[p].vheight
<1>1. p \in Replica /\ v \in 0 .. Len(blocks) /\ Len(blocks) \in Nat
  BY ChainFacts DEF Chain, TypeOK, Message
<1>2. m.type # "Submit" => m.block \in 1 .. Len(blocks)
  BY DEF Chain, Addressed, Created
<1>3. \A k \in msgs : ~Before(k, m)
  BY DEF Deliverable
<1>4. CASE Proposal(m) /\ m.block > v + 1
  <2>1. v + 1 \in Created /\ ~(v + 1 <= v)
    BY <1>1, <1>2, <1>4 DEF Created, Proposal
  <2>2. PICK k \in msgs : Proposal(k) /\ k.dst = p /\ k.block = v + 1
    BY <1>1, <2>1 DEF Proposed
  <2> QED
    BY <1>3, <1>4, <2>2 DEF Before, Proposal
<1>5. CASE m.type = "Vote" /\ ~(m.block <= v)
  <2>1. PICK k \in msgs : Proposal(k) /\ k.dst = p /\ k.block = m.block
    BY <1>1, <1>2, <1>5 DEF Proposed, Created
  <2> QED
    BY <1>1, <1>2, <1>3, <1>5, <2>1 DEF Before, Proposal
<1> QED
  BY <1>1, <1>2, <1>4, <1>5 DEF Proposal

\* update finds the chain unbroken.
LEMMA SteadyAfter ==
    ASSUME NEW st \in State, NEW u \in State, NEW b \in Nat,
           \/ Rests(st, u) /\ u.panicked = st.panicked
           \/ Breaks(st, u, b)
           \/ Commits(st, u, b),
           ~st.panicked, st.b_exec .. b \subseteq st.nodes,
           st.b_exec = 0 \/ st.b_exec + 3 <= b,
           u.vheight <= b, b <= u.vheight + 1, u.b_lock <= u.vheight,
           st.executed = [i \in 1 .. st.b_exec |-> i]
    PROVE  /\ Steady(u) /\ st.b_exec <= u.b_exec
           /\ u.b_exec = st.b_exec \/ u.b_exec + 3 <= b
<1> DEFINE e == st.b_exec
<1>1. e \in Nat /\ u.vheight \in Nat
  BY HotStuffAssumption DEF State, BlockId
<1>2. ~Breaks(st, u, b)
  BY <1>1 DEF Breaks
<1>3. CASE Rests(st, u) /\ u.panicked = st.panicked
  BY <1>1, <1>3 DEF Rests, Steady
<1>4. CASE Commits(st, u, b)
  <2> DEFINE x == b - 3
  <2>1. x \in Nat /\ e <= x /\ u.b_exec = x /\ x - e \in Nat /\ e + (x - e) = x
    BY <1>1, <1>4 DEF Commits
  <2>2. u.executed = [i \in 1 .. x |-> i]
    <3>1. u.executed = st.executed \o [i \in 1 .. x - e |-> e + i]
      BY <1>4 DEF Commits
    <3>2. st.executed = [i \in 1 .. e |-> i]
      OBVIOUS
    <3> HIDE DEF x, e
    <3>3. [i \in 1 .. e |-> i] \o [i \in 1 .. x - e |-> e + i] = [i \in 1 .. e + (x - e) |-> i]
      BY <1>1, <2>1, Counted
    <3> QED
      BY <2>1, <3>1, <3>2, <3>3
  <2>3. x .. u.vheight \subseteq u.nodes
    BY <1>1, <1>4, <2>1 DEF Commits
  <2>4. x + 2 <= u.vheight /\ ~u.panicked
    BY <1>1, <1>4 DEF Commits
  <2>5. x + 3 <= b
    OBVIOUS
  <2> HIDE DEF x
  <2> QED
    BY <2>1, <2>2, <2>3, <2>4, <2>5 DEF Steady
<1> QED
  BY <1>2, <1>3, <1>4

\* What an accepted proposal and a completed quorum leave behind.
LEMMA AcceptSteady ==
    ASSUME Ordered, Chain, InOrder, NEW m \in msgs, Deliverable(m),
           HandlePropose(m), Accepts(replica[m.dst], m.block)
    PROVE  LET p == m.dst
               b == m.block
               u == replica'[p]
           IN  /\ p \in Replica /\ b \in Created /\ b = replica[p].vheight + 1
               /\ replica' = [replica EXCEPT ![p] = u] /\ u.vheight = b
               /\ msgs' = (msgs \ {m}) \cup ToAll("Vote", p, {NextLeader(b)}, b, {})
               /\ u.pending_commands = replica[p].pending_commands \ blocks[b].commands
               /\ Steady(u) /\ replica[p].b_exec <= u.b_exec
               /\ u.b_exec = replica[p].b_exec \/ u.b_exec + 3 <= b
<1> DEFINE p == m.dst
           b == m.block
           s == replica[p]
           st == Voted(s, b)
           u == Update(blocks, st, b, HeldElsewhere(p))
<1>1. /\ p \in Replica /\ b \in Created /\ s.vheight < b
      /\ replica' = [replica EXCEPT ![p] = u]
      /\ msgs' = (msgs \ {m}) \cup ToAll("Vote", p, {NextLeader(b)}, b, {})
      /\ u \in State /\ u.vheight = b /\ u.pending_commands = st.pending_commands
      /\ u.b_lock = st.b_lock \/ (b >= 2 /\ u.b_lock = b - 2)
      /\ \/ Rests(st, u) /\ u.panicked = st.panicked
         \/ Breaks(st, u, b)
         \/ Commits(st, u, b)
  BY AcceptIs
<1>2. /\ st \in State /\ st.nodes = s.nodes \cup {b}
      /\ st.pending_commands = s.pending_commands \ blocks[b].commands
      /\ st.b_exec = s.b_exec /\ st.b_lock = s.b_lock
      /\ st.executed = s.executed /\ st.panicked = s.panicked
  BY <1>1, VotedIs
<1>3. /\ Len(blocks) \in Nat /\ b \in Nat /\ s.vheight \in Nat
      /\ s.b_exec \in Nat /\ s.b_lock \in Nat
  BY <1>1, ChainFacts DEF Created
<1>4. b = s.vheight + 1
  <2>1. Proposal(m)
    BY DEF HandlePropose, Proposal
  <2> QED
    BY <1>1, <1>3, <2>1, Next1 DEF InOrder
<1>5. Steady(s)
  BY <1>1 DEF InOrder, InStep
<1> HIDE DEF p, b, s, st, u
<1>6. /\ ~st.panicked
      /\ st.b_exec = 0 \/ st.b_exec + 3 <= b
      /\ st.b_exec .. b \subseteq st.nodes
      /\ st.executed = [i \in 1 .. st.b_exec |-> i]
  <2>1. ~st.panicked /\ st.executed = [i \in 1 .. st.b_exec |-> i]
    BY <1>2, <1>5 DEF Steady
  <2>2. st.b_exec = 0 \/ st.b_exec + 3 <= b
    BY <1>2, <1>3, <1>4, <1>5 DEF Steady
  <2>3. s.b_exec .. b \subseteq (s.b_exec .. s.vheight) \cup {b}
    BY <1>3, <1>4
  <2> QED
    BY <1>2, <1>5, <2>1, <2>2, <2>3 DEF Steady
<1>7. u.b_lock <= u.vheight /\ u.vheight <= b /\ b <= u.vheight + 1
  BY <1>1, <1>2, <1>3, <1>4, <1>5 DEF Steady
<1>8. /\ Steady(u) /\ st.b_exec <= u.b_exec
      /\ u.b_exec = st.b_exec \/ u.b_exec + 3 <= b
  BY <1>1, <1>2, <1>3, <1>6, <1>7, SteadyAfter
<1>9. replica'[p] = u
  BY <1>1 DEF Chain, TypeOK
<1> QED
  BY <1>1, <1>2, <1>4, <1>8, <1>9 DEF p, b, s

LEMMA CompleteSteady ==
    ASSUME Ordered, Chain, InOrder, NEW m \in msgs, Deliverable(m), CompleteQuorum(m)
    PROVE  LET p == m.dst
               b == m.block
               u == replica'[p]
           IN  /\ p \in Replica /\ b = Len(blocks) /\ b = replica[p].vheight
               /\ replica' = [replica EXCEPT ![p] = u] /\ u.vheight = b
               /\ u.pending_commands = {}
               /\ Steady(u) /\ replica[p].b_exec <= u.b_exec
               /\ u.b_exec = replica[p].b_exec \/ u.b_exec + 3 <= b + 1
<1> DEFINE p == m.dst
           b == m.block
           s == replica[p]
           u == replica'[p]
           top == b + 1
<1>1. p \in Replica /\ b = Len(blocks)
  BY LastCompleted
<1>2. /\ replica' = [replica EXCEPT ![p] = u]
      /\ u \in State /\ u.vheight = s.vheight /\ u.pending_commands = {}
      /\ u.b_lock = s.b_lock \/ (b >= 1 /\ u.b_lock = b - 1)
  BY CompleteIs
<1>3. PICK st \in State :
         /\ st.nodes = s.nodes \cup {b, b + 1}
         /\ st.b_exec = s.b_exec /\ st.executed = s.executed /\ st.panicked = s.panicked
         /\ \/ Rests(st, u) /\ u.panicked = st.panicked
            \/ Breaks(st, u, top)
            \/ Commits(st, u, top)
  BY CompleteIs
<1>4. b \in Nat /\ s.vheight \in Nat /\ s.vheight <= b /\ s.b_exec \in Nat /\ s.b_lock \in Nat
  BY <1>1, ChainFacts
<1>5. b = s.vheight
  <2>1. m.type = "Vote"
    BY DEF CompleteQuorum
  <2> QED
    BY <1>4, <2>1, Next1 DEF InOrder
<1>6. Steady(s)
  BY <1>1 DEF InOrder, InStep
<1>7. top \in Nat /\ top = b + 1
  BY <1>4
<1> HIDE DEF p, b, s, u, top
<1>8. /\ ~st.panicked
      /\ st.b_exec = 0 \/ st.b_exec + 3 <= top
      /\ st.b_exec .. top \subseteq st.nodes
      /\ st.executed = [i \in 1 .. st.b_exec |-> i]
  <2>1. ~st.panicked /\ st.executed = [i \in 1 .. st.b_exec |-> i]
    BY <1>3, <1>6 DEF Steady
  <2>2. st.b_exec = 0 \/ st.b_exec + 3 <= top
    BY <1>3, <1>4, <1>5, <1>6, <1>7 DEF Steady
  <2>3. s.b_exec .. top \subseteq (s.b_exec .. s.vheight) \cup {b, b + 1}
    BY <1>4, <1>5, <1>7
  <2> QED
    BY <1>3, <1>6, <2>1, <2>2, <2>3 DEF Steady
<1>9. u.b_lock <= u.vheight /\ u.vheight <= top /\ top <= u.vheight + 1
  BY <1>2, <1>4, <1>5, <1>6, <1>7 DEF Steady
<1>10. /\ Steady(u) /\ st.b_exec <= u.b_exec
       /\ u.b_exec = st.b_exec \/ u.b_exec + 3 <= top
  BY <1>2, <1>3, <1>7, <1>8, <1>9, SteadyAfter
<1> QED
  BY <1>1, <1>2, <1>3, <1>5, <1>7, <1>10 DEF p, b, s, u

LEMMA InOrderInit == Init => InOrder
<1> SUFFICES ASSUME Init PROVE InOrder
  OBVIOUS
<1>1. /\ Created = {1} /\ blocks[1].commands = {} /\ submitted = {}
      /\ msgs = ToAll("Propose", 0, Replica, 1, {})
  BY DEF Init, Created
<1>2. \A m \in msgs : m.type = "Propose"
  BY <1>1 DEF ToAll
<1>3. Proposed
  <2> SUFFICES ASSUME NEW p \in Replica
               PROVE  \E m \in msgs : Proposal(m) /\ m.dst = p /\ m.block = 1
    BY <1>1 DEF Proposed
  <2> DEFINE m == [type |-> "Propose", src |-> 0, dst |-> p, block |-> 1, commands |-> {}]
  <2>1. m \in msgs /\ Proposal(m) /\ m.dst = p /\ m.block = 1
    BY <1>1 DEF ToAll, Proposal
  <2> QED
    BY <2>1
<1>4. InStep
  <2> SUFFICES ASSUME NEW p \in Replica PROVE Steady(replica[p])
    BY DEF InStep
  <2>1. /\ ~replica[p].panicked /\ 0 \in replica[p].nodes /\ replica[p].vheight = 0
        /\ replica[p].b_exec = 0 /\ replica[p].b_lock = 0 /\ replica[p].executed = <<>>
    BY DEF Init, Start, Genesis
  <2>2. 0 .. 0 = {0} /\ 1 .. 0 = {}
    OBVIOUS
  <2>3. [i \in 1 .. 0 |-> i] = <<>>
    <3>1. [i \in 1 .. 0 |-> i] \in Seq(Nat) /\ Len([i \in 1 .. 0 |-> i]) = 0
      BY IsASeq
    <3> QED
      BY <3>1, EmptySeq
  <2> QED
    BY <2>1, <2>2, <2>3 DEF Steady
<1>5. Fresh
  <2>1. \A p \in Replica : replica[p].pending_commands = {}
    BY DEF Init, Start
  <2>2. \A p \in Replica : Coming(p) = {}
    BY <1>2, <2>1 DEF Coming
  <2> QED
    BY <1>1, <1>2, <2>2 DEF Fresh
<1> QED
  BY <1>3, <1>4, <1>5 DEF InOrder

\* A step that accepts no proposal, builds no block and submits nothing.
LEMMA InOrderKept ==
    ASSUME Chain, InOrder, UNCHANGED <<blocks, submitted>>, NEW m \in msgs, msgs' = msgs \ {m},
           ~Proposal(m) \/ m.block <= replica[m.dst].vheight,
           \A r \in Replica : /\ replica'[r].vheight = replica[r].vheight
                              /\ Steady(replica[r]) => Steady(replica'[r])
                              /\ Coming(r)' \subseteq Coming(r)
    PROVE  InOrder'
<1>1. Proposed'
  <2> SUFFICES ASSUME NEW r \in Replica, NEW b \in Created, ~(b <= replica[r].vheight)
               PROVE  \E k \in msgs' : Proposal(k) /\ k.dst = r /\ k.block = b
    BY DEF Proposed, Created, Proposal
  <2>1. PICK k \in msgs : Proposal(k) /\ k.dst = r /\ k.block = b
    BY DEF InOrder, Proposed
  <2> QED
    BY <2>1
<1>2. InStep'
  BY DEF InOrder, InStep, Steady
<1>3. Fresh'
  <2>1. Created' = Created
    BY DEF Created
  <2>2. \A r \in Replica :
           /\ Coming(r)' \subseteq submitted'
           /\ \A b \in Created : b <= replica'[r].vheight => blocks[b].commands \cap Coming(r)' = {}
    BY DEF InOrder, Fresh
  <2> QED
    BY <2>1, <2>2 DEF InOrder, Fresh
<1> QED
  BY <1>1, <1>2, <1>3 DEF InOrder

LEMMA OnTimerInOrder ==
    ASSUME Chain, InOrder, NEW c \in Cmd, OnTimer(c)
    PROVE  InOrder'
<1> DEFINE p == Owner[c]
           u == [replica[p] EXCEPT !.pending_commands = @ \cup {c}]
<1>1. p \in Replica /\ replica[p] \in State
  BY HotStuffAssumption DEF Chain, TypeOK
<1>2. /\ replica' = [replica EXCEPT ![p] = u] /\ submitted' = submitted \cup {c}
      /\ c \notin submitted /\ blocks' = blocks
      /\ msgs' = msgs \cup ToAll("Submit", p, Replica \ {p}, Genesis, {c})
  BY DEF OnTimer
<1>3. /\ u.pending_commands = replica[p].pending_commands \cup {c}
      /\ u.vheight = replica[p].vheight /\ u.b_exec = replica[p].b_exec
      /\ u.b_lock = replica[p].b_lock /\ u.nodes = replica[p].nodes
      /\ u.executed = replica[p].executed /\ u.panicked = replica[p].panicked
  BY <1>1 DEF State
<1> HIDE DEF p, u
<1>4. \A r \in Replica : replica'[r] = IF r = p THEN u ELSE replica[r]
  BY <1>1, <1>2 DEF Chain, TypeOK
<1>5. \A k \in msgs' : k \in msgs \/ (k.type = "Submit" /\ k.commands = {c})
  BY <1>2 DEF ToAll
<1>6. Proposed'
  <2> SUFFICES ASSUME NEW r \in Replica, NEW b \in Created
               PROVE  \/ b <= replica'[r].vheight
                      \/ \E k \in msgs' : Proposal(k) /\ k.dst = r /\ k.block = b
    BY <1>2 DEF Proposed, Created, Proposal
  <2>1. replica'[r].vheight = replica[r].vheight
    BY <1>3, <1>4
  <2> QED
    BY <1>2, <2>1 DEF InOrder, Proposed
<1>7. InStep'
  <2> SUFFICES ASSUME NEW r \in Replica PROVE Steady(replica'[r])
    BY DEF InStep, Steady
  <2> QED
    BY <1>3, <1>4 DEF InOrder, InStep, Steady
<1>8. Fresh'
  <2>1. ASSUME NEW r \in Replica PROVE Coming(r)' \subseteq Coming(r) \cup {c}
    BY <1>3, <1>4, <1>5 DEF Coming
  <2>2. Created' = Created /\ \A r \in Replica : replica'[r].vheight = replica[r].vheight
    BY <1>2, <1>3, <1>4 DEF Created
  <2>3. \A b \in Created : blocks[b].commands \subseteq submitted /\ c \notin blocks[b].commands
    BY <1>2 DEF InOrder, Fresh
  <2>4. ASSUME NEW r \in Replica
        PROVE  /\ Coming(r)' \subseteq submitted'
               /\ \A b \in Created : b <= replica'[r].vheight
                                         => blocks[b].commands \cap Coming(r)' = {}
    BY <1>2, <2>1, <2>2, <2>3 DEF InOrder, Fresh
  <2>5. \A k \in msgs' : k.type = "Submit" => \E d \in Cmd : k.commands = {d}
    BY <1>5 DEF InOrder, Fresh
  <2> QED
    BY <1>2, <2>2, <2>3, <2>4, <2>5 DEF Fresh
<1> QED
  BY <1>6, <1>7, <1>8 DEF InOrder

LEMMA HandleProposeInOrder ==
    ASSUME Ordered, Chain, InOrder, NEW m \in msgs, Deliverable(m), HandlePropose(m)
    PROVE  InOrder'
<1> DEFINE p == m.dst
           b == m.block
<1>1. /\ Proposal(m) /\ UNCHANGED <<blocks, submitted>>
  BY DEF HandlePropose, Proposal
<1>2. /\ p \in Replica /\ b \in Created /\ b \in Nat /\ Height(blocks, b) = b
      /\ replica[p].vheight \in Nat /\ replica[p].b_lock \in Nat
      /\ Height(blocks, replica[p].b_lock) = replica[p].b_lock
  <2>1. p \in Replica /\ b \in Created
    BY <1>1 DEF Chain, TypeOK, Message, Addressed, Proposal
  <2> QED
    BY <2>1, ChainFacts DEF Created
<1>3. CASE ~Accepts(replica[p], b)
  <2>1. msgs' = msgs \ {m} /\ UNCHANGED replica
    BY <1>3 DEF HandlePropose
  <2>2. replica[p].b_lock <= replica[p].vheight
    BY <1>2 DEF InOrder, InStep, Steady
  <2>3. b <= replica[p].vheight
    BY <1>2, <1>3, <2>2 DEF Accepts
  <2>4. \A r \in Replica : /\ replica'[r].vheight = replica[r].vheight
                           /\ Steady(replica[r]) => Steady(replica'[r])
                           /\ Coming(r)' \subseteq Coming(r)
    BY <2>1 DEF Steady, Coming
  <2> QED
    BY <1>1, <2>1, <2>3, <2>4, InOrderKept
<1>4. CASE Accepts(replica[p], b)
  <2> DEFINE u == replica'[p]
             votes == ToAll("Vote", p, {NextLeader(b)}, b, {})
  <2>1. /\ b = replica[p].vheight + 1
        /\ replica' = [replica EXCEPT ![p] = u] /\ u.vheight = b
        /\ msgs' = (msgs \ {m}) \cup votes
        /\ u.pending_commands = replica[p].pending_commands \ blocks[b].commands
        /\ Steady(u)
    BY <1>4, AcceptSteady
  <2> HIDE DEF p, b, u
  <2>2. \A r \in Replica : replica'[r] = IF r = p THEN u ELSE replica[r]
    BY <2>1 DEF Chain, TypeOK
  <2>3. \A v \in votes : v.type = "Vote"
    BY DEF ToAll
  <2> HIDE DEF votes
  <2>4. Created' = Created /\ \A x \in Created : x \in Nat
    BY <1>1, ChainFacts DEF Created
  <2>5. Proposed'
    <3> SUFFICES ASSUME NEW r \in Replica, NEW x \in Created, ~(x <= replica'[r].vheight)
                 PROVE  \E k \in msgs' : Proposal(k) /\ k.dst = r /\ k.block = x
      BY <2>4 DEF Proposed, Proposal
    <3>1. ~(x <= replica[r].vheight)
      BY <1>2, <2>1, <2>2, <2>4
    <3>2. PICK k \in msgs : Proposal(k) /\ k.dst = r /\ k.block = x
      BY <3>1 DEF InOrder, Proposed
    <3>3. k # m
      BY <1>2, <2>1, <2>2, <3>2 DEF p, b
    <3> QED
      BY <2>1, <3>2, <3>3
  <2>6. InStep'
    <3> SUFFICES ASSUME NEW r \in Replica PROVE Steady(replica'[r])
      BY DEF InStep, Steady
    <3> QED
      BY <2>1, <2>2 DEF InOrder, InStep
  <2>7. Fresh'
    <3>1. ASSUME NEW r \in Replica PROVE Coming(r)' \subseteq Coming(r)
      BY <2>1, <2>2, <2>3 DEF Coming
    <3>2. blocks[b].commands \cap Coming(p)' = {}
      <4> SUFFICES ASSUME NEW k \in msgs, k.type = "Submit", k.dst = p,
                          NEW d \in k.commands, d \in blocks[b].commands
                   PROVE  FALSE
        BY <1>2, <2>1, <2>2, <2>3 DEF Coming
      <4>1. k.commands = {d}
        BY DEF InOrder, Fresh
      <4>2. blocks[b].commands \subseteq Included(b)
        <5>1. b \in 1 .. b
          BY <1>2, ChainFacts DEF Created
        <5> QED
          BY <5>1 DEF Included
      <4>3. Before(k, m)
        BY <1>1, <4>1, <4>2 DEF Before, Proposal, p, b
      <4> QED
        BY <4>3 DEF Deliverable
    <3>3. ASSUME NEW r \in Replica, NEW x \in Created, x <= replica'[r].vheight
          PROVE  blocks[x].commands \cap Coming(r)' = {}
      <4>1. CASE x <= replica[r].vheight
        BY <3>1, <4>1 DEF InOrder, Fresh
      <4>2. CASE ~(x <= replica[r].vheight)
        <5>1. r = p /\ x = b
          BY <1>2, <2>1, <2>2, <2>4, <3>3, <4>2
        <5> QED
          BY <3>2, <5>1
      <4> QED
        BY <4>1, <4>2
    <3>4. \A k \in msgs' : k.type = "Submit" => k \in msgs
      BY <2>1, <2>3
    <3>5. \A r \in Replica : Coming(r)' \subseteq submitted'
      BY <1>1, <3>1 DEF InOrder, Fresh
    <3>6. /\ \A x \in Created' : blocks'[x].commands \subseteq submitted'
          /\ \A k \in msgs' : k.type = "Submit" => \E c \in Cmd : k.commands = {c}
      BY <1>1, <2>4, <3>4 DEF InOrder, Fresh
    <3> QED
      BY <1>1, <2>4, <3>3, <3>5, <3>6 DEF Fresh
  <2> QED
    BY <2>5, <2>6, <2>7 DEF InOrder
<1> QED
  BY <1>3, <1>4

LEMMA CompleteQuorumInOrder ==
    ASSUME Ordered, Chain, InOrder, NEW m \in msgs, Deliverable(m), CompleteQuorum(m)
    PROVE  InOrder'
<1> DEFINE p == m.dst
           b == m.block
           u == replica'[p]
           proposals == ToAll("Propose", p, Replica, b + 1, {})
<1>1. /\ p \in Replica /\ b = Len(blocks) /\ b = replica[p].vheight
      /\ replica' = [replica EXCEPT ![p] = u] /\ u.vheight = b
      /\ u.pending_commands = {} /\ Steady(u)
  BY CompleteSteady
<1>2. /\ Len(blocks') = b + 1 /\ \A k \in 1 .. b : blocks'[k] = blocks[k]
      /\ blocks'[b + 1].commands = replica[p].pending_commands
      /\ msgs' = (msgs \ {m}) \cup proposals
  BY CompleteIs
<1>3. ~Proposal(m) /\ m.type # "Submit" /\ submitted' = submitted
  BY DEF CompleteQuorum, Proposal
<1>4. b \in Nat /\ \A r \in Replica : replica[r].vheight \in Nat /\ replica[r].vheight <= b
  BY <1>1, ChainFacts
<1> HIDE DEF p, b, u
<1>5. \A r \in Replica : /\ replica'[r] = IF r = p THEN u ELSE replica[r]
                         /\ replica'[r].vheight = replica[r].vheight
  BY <1>1 DEF Chain, TypeOK
<1>6. \A k \in proposals : k.type = "Propose" /\ k.block = b + 1
  BY DEF ToAll
<1>7. \A r \in Replica : \E k \in proposals : Proposal(k) /\ k.dst = r /\ k.block = b + 1
  <2> SUFFICES ASSUME NEW r \in Replica
               PROVE  \E k \in proposals : Proposal(k) /\ k.dst = r /\ k.block = b + 1
    OBVIOUS
  <2> DEFINE k == [type |-> "Propose", src |-> p, dst |-> r, block |-> b + 1, commands |-> {}]
  <2>1. k \in proposals /\ Proposal(k) /\ k.dst = r /\ k.block = b + 1
    BY DEF ToAll, Proposal
  <2> QED
    BY <2>1
<1> HIDE DEF proposals
<1>8. Created = 1 .. b /\ Created' = 1 .. b + 1 /\ \A x \in Created' : x \in Created \/ x = b + 1
  BY <1>1, <1>2, <1>4 DEF Created
<1>9. Proposed'
  <2> SUFFICES ASSUME NEW r \in Replica, NEW x \in Created', ~(x <= replica'[r].vheight)
               PROVE  \E k \in msgs' : Proposal(k) /\ k.dst = r /\ k.block = x
    BY DEF Proposed, Proposal
  <2>1. CASE x \in Created
    <3>1. PICK k \in msgs : Proposal(k) /\ k.dst = r /\ k.block = x
      BY <1>5, <2>1 DEF InOrder, Proposed
    <3> QED
      BY <1>2, <1>3, <3>1
  <2>2. CASE x = b + 1
    BY <1>2, <1>7, <2>2
  <2> QED
    BY <1>8, <2>1, <2>2
<1>10. InStep'
  <2> SUFFICES ASSUME NEW r \in Replica PROVE Steady(replica'[r])
    BY DEF InStep, Steady
  <2> QED
    BY <1>1, <1>5 DEF InOrder, InStep
<1>11. Fresh'
  <2>1. ASSUME NEW r \in Replica PROVE Coming(r)' \subseteq Coming(r)
    BY <1>1, <1>2, <1>5, <1>6 DEF Coming
  <2>2. \A r \in Replica : Coming(r)' \subseteq submitted'
    BY <1>3, <2>1 DEF InOrder, Fresh
  <2>3. ASSUME NEW r \in Replica, NEW x \in Created', x <= replica'[r].vheight
        PROVE  blocks'[x].commands \cap Coming(r)' = {}
    <3>1. x \in Created /\ x <= replica[r].vheight /\ blocks'[x] = blocks[x]
      BY <1>2, <1>4, <1>5, <1>8, <2>3
    <3> QED
      BY <2>1, <3>1 DEF InOrder, Fresh
  <2>4. replica[p].pending_commands \subseteq submitted
    BY <1>1 DEF InOrder, Fresh, Coming
  <2>5. \A x \in Created' : blocks'[x].commands \subseteq submitted'
    BY <1>2, <1>3, <1>8, <2>4 DEF InOrder, Fresh
  <2>6. \A k \in msgs' : k.type = "Submit" => k \in msgs
    BY <1>2, <1>6
  <2>7. \A k \in msgs' : k.type = "Submit" => \E c \in Cmd : k.commands = {c}
    BY <2>6 DEF InOrder, Fresh
  <2> QED
    BY <2>2, <2>3, <2>5, <2>7 DEF Fresh
<1> QED
  BY <1>9, <1>10, <1>11 DEF InOrder

LEMMA InOrderStep == Ordered /\ Chain /\ InOrder /\ [Next]_vars => InOrder'
<1> SUFFICES ASSUME Ordered, Chain, InOrder, [Next]_vars PROVE InOrder'
  OBVIOUS
<1>1. ASSUME NEW c \in Cmd, OnTimer(c) PROVE InOrder'
  BY <1>1, OnTimerInOrder
<1>2. ASSUME NEW m \in msgs, Receive(m) PROVE InOrder'
  <2> DEFINE p == m.dst
             b == m.block
  <2>1. p \in Replica /\ replica[p] \in State /\ replica \in [Replica -> State]
    BY DEF Chain, TypeOK, Message
  <2>2. CASE HandleSubmit(m)
    <3> DEFINE u == [replica[p] EXCEPT !.pending_commands = @ \cup m.commands]
    <3>1. /\ replica' = [replica EXCEPT ![p] = u] /\ msgs' = msgs \ {m}
          /\ UNCHANGED <<blocks, submitted>> /\ m.type = "Submit" /\ ~Proposal(m)
      BY <2>2 DEF HandleSubmit, Proposal
    <3>2. /\ u.pending_commands = replica[p].pending_commands \cup m.commands
          /\ u.vheight = replica[p].vheight /\ u.b_exec = replica[p].b_exec
          /\ u.b_lock = replica[p].b_lock /\ u.nodes = replica[p].nodes
          /\ u.executed = replica[p].executed /\ u.panicked = replica[p].panicked
      BY <2>1 DEF State
    <3> HIDE DEF u
    <3>3. \A r \in Replica : replica'[r] = IF r = p THEN u ELSE replica[r]
      BY <2>1, <3>1
    <3>4. ASSUME NEW r \in Replica
          PROVE  /\ replica'[r].vheight = replica[r].vheight
                 /\ Steady(replica[r]) => Steady(replica'[r])
                 /\ Coming(r)' \subseteq Coming(r)
      <4>1. replica'[r].vheight = replica[r].vheight /\ (Steady(replica[r]) => Steady(replica'[r]))
        BY <3>2, <3>3 DEF Steady
      <4>2. Coming(r)' \subseteq Coming(r)
        BY <3>1, <3>2, <3>3 DEF Coming
      <4> QED
        BY <4>1, <4>2
    <3> QED
      BY <3>1, <3>4, InOrderKept
  <2>3. CASE HandlePropose(m)
    BY <1>2, <2>3, HandleProposeInOrder DEF Receive
  <2>4. CASE DropVote(m)
    <3>1. /\ UNCHANGED <<blocks, submitted>> /\ replica' = replica /\ msgs' = msgs \ {m}
          /\ ~Proposal(m)
      BY <2>4 DEF DropVote, Proposal
    <3>2. \A r \in Replica : /\ replica'[r].vheight = replica[r].vheight
                             /\ Steady(replica[r]) => Steady(replica'[r])
                             /\ Coming(r)' \subseteq Coming(r)
      BY <3>1 DEF Steady, Coming
    <3> QED
      BY <3>1, <3>2, InOrderKept
  <2>5. CASE CountVote(m)
    <3> DEFINE u == [replica[p] EXCEPT !.pending_quorums[b] = @ + 1]
    <3>1. /\ replica' = [replica EXCEPT ![p] = u] /\ msgs' = msgs \ {m}
          /\ UNCHANGED <<blocks, submitted>> /\ ~Proposal(m)
      BY <2>5 DEF CountVote, Proposal
    <3>2. /\ u.pending_commands = replica[p].pending_commands
          /\ u.vheight = replica[p].vheight /\ u.b_exec = replica[p].b_exec
          /\ u.b_lock = replica[p].b_lock /\ u.nodes = replica[p].nodes
          /\ u.executed = replica[p].executed /\ u.panicked = replica[p].panicked
      BY <2>1 DEF State
    <3> HIDE DEF u
    <3>3. \A r \in Replica : replica'[r] = IF r = p THEN u ELSE replica[r]
      BY <2>1, <3>1
    <3>4. ASSUME NEW r \in Replica
          PROVE  /\ replica'[r].vheight = replica[r].vheight
                 /\ Steady(replica[r]) => Steady(replica'[r])
                 /\ Coming(r)' \subseteq Coming(r)
      <4>1. replica'[r].vheight = replica[r].vheight /\ (Steady(replica[r]) => Steady(replica'[r]))
        BY <3>2, <3>3 DEF Steady
      <4>2. Coming(r)' \subseteq Coming(r)
        BY <3>1, <3>2, <3>3 DEF Coming
      <4> QED
        BY <4>1, <4>2
    <3> QED
      BY <3>1, <3>4, InOrderKept
  <2>6. CASE CompleteQuorum(m)
    BY <1>2, <2>6, CompleteQuorumInOrder DEF Receive
  <2> QED
    BY <1>2, <2>2, <2>3, <2>4, <2>5, <2>6 DEF Receive
<1>3. CASE UNCHANGED vars
  <2>1. /\ Proposed' /\ InStep' /\ Created' = Created
    BY <1>3 DEF vars, InOrder, Proposed, InStep, Steady, Created, Proposal
  <2>2. Fresh'
    BY <1>3, <2>1 DEF vars, InOrder, Fresh, Coming
  <2> QED
    BY <2>1, <2>2 DEF InOrder
<1> QED
  BY <1>1, <1>2, <1>3 DEF Next

(***************************************************************************)
(* The weak pointers that commit follows never dangle, over links that     *)
(* keep the causal order: proposals arrive in the order of the chain, and  *)
(* garbage collection stops short of what is still to be executed.         *)
(***************************************************************************)
THEOREM HoldsChainHolds == ASSUME Ordered PROVE Spec => []HoldsChain
<1>1. ASSUME Chain, InOrder PROVE HoldsChain
  <2>1. Running
    BY <1>1 DEF InOrder, InStep, Steady, Running
  <2>2. ASSUME NEW p \in Replica, NEW b \in 1 .. Len(blocks),
               Height(blocks, replica[p].b_exec) <= blocks[b].height,
               blocks[b].height <= replica[p].vheight
        PROVE  b \in replica[p].nodes
    <3>1. /\ replica[p].b_exec <= b /\ b <= replica[p].vheight
          /\ replica[p].b_exec \in Nat /\ replica[p].vheight \in Nat /\ b \in Nat
      BY <1>1, <2>2, ChainFacts DEF Chain, OneChain
    <3>2. replica[p].b_exec .. replica[p].vheight \subseteq replica[p].nodes
      BY <1>1 DEF InOrder, InStep, Steady
    <3> QED
      BY <3>1, <3>2
  <2> QED
    BY <2>1, <2>2 DEF HoldsChain
<1> QED
  BY <1>1, ChainInit, ChainStep, InOrderInit, InOrderStep, PTL DEF Spec

-----------------------------------------------------------------------------
\* The refinement.

\* A replica executes up to where it is steady again.
LEMMA Executes ==
    ASSUME Chain, InOrder, NEW p \in Replica, NEW u, replica' = [replica EXCEPT ![p] = u],
           Steady(u), u.b_exec \in Nat, replica[p].b_exec <= u.b_exec
    PROVE  LET k == u.b_exec - replica[p].b_exec
           IN  /\ k \in Nat /\ Len(executed[p]) = replica[p].b_exec
               /\ executed' = [executed EXCEPT ![p] = @ \o [i \in 1 .. k |-> Len(@) + i]]
<1> DEFINE e == replica[p].b_exec
           k == u.b_exec - e
<1>1. e \in Nat /\ k \in Nat /\ e + k = u.b_exec
  BY ChainFacts
<1>2. executed[p] = [i \in 1 .. e |-> i]
  BY DEF executed, InOrder, InStep, Steady
<1>3. Len(executed[p]) = e
  <2>1. [i \in 1 .. e |-> i] \in Seq(Nat) /\ Len([i \in 1 .. e |-> i]) = e
    BY <1>1, IsASeq
  <2> QED
    BY <1>2, <2>1
<1>4. u.executed = [i \in 1 .. e + k |-> i]
  BY <1>1 DEF Steady
<1>5. \A r \in Replica : replica'[r] = IF r = p THEN u ELSE replica[r]
  BY DEF Chain, TypeOK
<1> HIDE DEF e, k
<1>6. executed[p] \o [i \in 1 .. k |-> Len(executed[p]) + i] = u.executed
  BY <1>1, <1>2, <1>3, <1>4, Counted
<1>7. executed' = [r \in Replica |-> IF r = p THEN u.executed ELSE executed[r]]
  BY <1>5 DEF executed
<1>8. [executed EXCEPT ![p] = @ \o [i \in 1 .. k |-> Len(@) + i]]
         = [r \in Replica |-> IF r = p THEN executed[p] \o [i \in 1 .. k |-> Len(executed[p]) + i]
                                       ELSE executed[r]]
  BY DEF executed
<1> QED
  BY <1>1, <1>3, <1>6, <1>7, <1>8 DEF e, k

LEMMA LedgerInit == Init => Abstract!Init
<1> SUFFICES ASSUME Init PROVE Abstract!Init
  OBVIOUS
<1>1. Len(blocks) = 1 /\ blocks[1].commands = {}
  BY DEF Init
<1>2. ledger = <<{}>>
  <2>1. ledger = [b \in 1 .. 1 |-> {}]
    BY <1>1 DEF ledger
  <2> QED
    BY <2>1
<1>3. executed = [p \in Replica |-> <<>>]
  BY DEF Init, Start, executed
<1> QED
  BY <1>2, <1>3 DEF Abstract!Init

LEMMA LedgerLength == Chain => ledger \in Seq(SUBSET Cmd) /\ Len(ledger) = Len(blocks)
<1> SUFFICES ASSUME Chain PROVE ledger \in Seq(SUBSET Cmd) /\ Len(ledger) = Len(blocks)
  OBVIOUS
<1>1. Len(blocks) \in Nat /\ blocks \in Seq(Block)
  BY ChainFacts DEF Chain, TypeOK
<1>2. \A b \in 1 .. Len(blocks) : blocks[b] \in Block
  BY <1>1, ElementOfSeq
<1>3. \A x \in Block : x.commands \in SUBSET Cmd
  BY DEF Block
<1>4. \A b \in 1 .. Len(blocks) : blocks[b].commands \in SUBSET Cmd
  BY <1>2, <1>3
<1> QED
  BY <1>1, <1>4, IsASeq DEF ledger

\* A step that changes neither the blocks nor what is executed.
LEMMA LedgerStutter ==
    ASSUME UNCHANGED blocks, \A p \in Replica : replica'[p].executed = replica[p].executed
    PROVE  UNCHANGED Abstract!vars
BY DEF Abstract!vars, ledger, executed

LEMMA LearnStep ==
    ASSUME Ordered, Chain, InOrder, NEW m \in msgs, Deliverable(m), HandlePropose(m)
    PROVE  [Abstract!Next]_(Abstract!vars)
<1> DEFINE p == m.dst
           b == m.block
           e == replica[p].b_exec
           u == replica'[p]
<1>1. UNCHANGED blocks
  BY DEF HandlePropose
<1>2. CASE ~Accepts(replica[p], b)
  <2>1. UNCHANGED replica
    BY <1>2 DEF HandlePropose
  <2> QED
    BY <1>1, <2>1, LedgerStutter
<1>3. CASE Accepts(replica[p], b)
  <2>1. /\ p \in Replica /\ b \in Created /\ replica' = [replica EXCEPT ![p] = u]
        /\ Steady(u) /\ e <= u.b_exec /\ (u.b_exec = e \/ u.b_exec + 3 <= b)
    BY <1>3, AcceptSteady
  <2>2. Chain'
    BY HandleProposeChain
  <2>3. e \in Nat /\ u.b_exec \in Nat /\ Len(blocks) \in Nat /\ b <= Len(blocks) /\ b \in Nat
    <3>1. replica'[p] \in State
      BY <2>1, <2>2 DEF Chain, TypeOK
    <3>2. u.b_exec \in Nat
      BY <3>1, HotStuffAssumption DEF State, BlockId
    <3> QED
      BY <2>1, <3>2, ChainFacts DEF Created
  <2> DEFINE k == u.b_exec - e
  <2> HIDE DEF p, b, u
  <2>4. /\ k \in Nat /\ Len(executed[p]) = e
        /\ executed' = [executed EXCEPT ![p] = @ \o [i \in 1 .. k |-> Len(@) + i]]
    BY <2>1, <2>3, Executes
  <2>5. ledger' = ledger /\ Len(ledger) = Len(blocks)
    BY <1>1, LedgerLength DEF ledger
  <2>6. CASE k > 0
    <3>1. k \in 1 .. Len(ledger) /\ Len(executed[p]) + k + 3 <= Len(ledger')
      BY <2>1, <2>3, <2>4, <2>5, <2>6
    <3> HIDE DEF k, e
    <3>2. Abstract!Execute(p, k)
      BY <2>4, <3>1 DEF Abstract!Execute
    <3>3. Abstract!Learn(p)
      BY <2>5, <3>1, <3>2 DEF Abstract!Learn
    <3> QED
      BY <2>1, <3>3 DEF Abstract!Next
  <2>7. CASE k = 0
    <3>1. u.b_exec = e
      BY <2>3, <2>7
    <3>2. u.executed = replica[p].executed
      BY <2>1, <3>1 DEF InOrder, InStep, Steady
    <3>3. \A r \in Replica : replica'[r].executed = replica[r].executed
      BY <2>1, <3>2 DEF Chain, TypeOK
    <3> QED
      BY <1>1, <3>3, LedgerStutter
  <2> QED
    BY <2>4, <2>6, <2>7
<1> QED
  BY <1>2, <1>3

LEMMA GrowStep ==
    ASSUME Ordered, Chain, InOrder, NEW m \in msgs, Deliverable(m), CompleteQuorum(m)
    PROVE  Abstract!Next
<1> DEFINE p == m.dst
           b == m.block
           e == replica[p].b_exec
           u == replica'[p]
           B == replica[p].pending_commands
<1>1. /\ p \in Replica /\ b = Len(blocks) /\ b = replica[p].vheight
      /\ replica' = [replica EXCEPT ![p] = u]
      /\ Steady(u) /\ e <= u.b_exec /\ (u.b_exec = e \/ u.b_exec + 3 <= b + 1)
  BY CompleteSteady
<1>2. /\ Len(blocks') = b + 1 /\ \A k \in 1 .. b : blocks'[k] = blocks[k]
      /\ blocks'[b + 1].commands = B
  BY CompleteIs
<1>3. Chain'
  BY CompleteQuorumChain
<1>4. e \in Nat /\ u.b_exec \in Nat /\ b \in Nat /\ e <= b /\ B \in SUBSET Cmd
  <2>1. replica'[p] \in State /\ replica[p] \in State
    BY <1>1, <1>3 DEF Chain, TypeOK
  <2>2. \A st \in State : st.b_exec \in Nat /\ st.pending_commands \in SUBSET Cmd
    BY HotStuffAssumption DEF State, BlockId
  <2>3. u.b_exec \in Nat /\ B \in SUBSET Cmd
    BY <2>1, <2>2
  <2>4. e \in 0 .. Len(blocks) /\ Len(blocks) \in Nat
    BY <1>1, ChainFacts
  <2> HIDE DEF b, e, u, B
  <2> QED
    BY <1>1, <2>3, <2>4
<1> DEFINE k == u.b_exec - e
<1> HIDE DEF p, b, u
<1>5. /\ k \in Nat /\ Len(executed[p]) = e
      /\ executed' = [executed EXCEPT ![p] = @ \o [i \in 1 .. k |-> Len(@) + i]]
  BY <1>1, <1>4, Executes
<1>6. /\ ledger \in Seq(SUBSET Cmd) /\ Len(ledger) = b
      /\ ledger' \in Seq(SUBSET Cmd) /\ Len(ledger') = b + 1
  <2>1. ledger \in Seq(SUBSET Cmd) /\ Len(ledger) = b
    BY <1>1, LedgerLength
  <2>2. (ledger \in Seq(SUBSET Cmd) /\ Len(ledger) = Len(blocks))'
    BY <1>3, LedgerLength, PTL
  <2> QED
    BY <1>2, <2>1, <2>2
<1>7. \A x \in 1 .. b : ledger[x] = blocks[x].commands
  BY <1>1 DEF ledger
<1>8. \A x \in 1 .. b + 1 : ledger'[x] = blocks'[x].commands
  BY <1>2 DEF ledger
<1> HIDE DEF B
<1>9. ledger' = Append(ledger, B)
  <2>1. /\ Append(ledger, B) \in Seq(SUBSET Cmd) /\ Len(Append(ledger, B)) = b + 1
        /\ \A x \in 1 .. b : Append(ledger, B)[x] = ledger[x]
        /\ Append(ledger, B)[b + 1] = B
    BY <1>4, <1>6, AppendProperties
  <2>2. ASSUME NEW x \in 1 .. b + 1 PROVE ledger'[x] = Append(ledger, B)[x]
    <3>1. CASE x \in 1 .. b
      BY <1>2, <1>7, <1>8, <2>1, <3>1
    <3>2. CASE x = b + 1
      <4> DEFINE top == b + 1
      <4>1. top \in 1 .. b + 1 /\ x = top
        BY <1>4, <3>2
      <4>2. ledger'[top] = blocks'[top].commands
        BY <1>8, <4>1
      <4>3. blocks'[top].commands = B /\ Append(ledger, B)[top] = B
        BY <1>2, <2>1
      <4> HIDE DEF top
      <4> QED
        BY <4>1, <4>2, <4>3
    <3>3. x \in 1 .. b \/ x = b + 1
      BY <1>4
    <3> QED
      BY <3>1, <3>2, <3>3
  <2> QED
    BY <1>6, <2>1, <2>2, SeqEqual
<1>10. B \cap UNION Abstract!Range(ledger) = {}
  <2>1. \A x \in 1 .. b : blocks[x].commands \cap B = {}
    BY <1>1, <1>4 DEF InOrder, Fresh, Coming, Created, B
  <2>2. \A C \in Abstract!Range(ledger) : \E x \in 1 .. b : C = ledger[x]
    BY <1>6 DEF Abstract!Range
  <2> QED
    BY <1>7, <2>1, <2>2
<1>11. k \in 0 .. Len(ledger) /\ (k > 0 => Len(executed[p]) + k + 3 <= Len(ledger'))
  <2> DEFINE x == u.b_exec
  <2>1. x \in Nat /\ e \in Nat /\ b \in Nat /\ e <= b /\ e <= x /\ (x = e \/ x + 3 <= b + 1)
    BY <1>1, <1>4
  <2>2. k = x - e /\ Len(executed[p]) = e /\ Len(ledger) = b /\ Len(ledger') = b + 1
    BY <1>5, <1>6
  <2> HIDE DEF k, e, x
  <2> QED
    BY <2>1, <2>2
<1> HIDE DEF k, e
<1>12. Abstract!Execute(p, k)
  BY <1>5, <1>11 DEF Abstract!Execute
<1>13. Abstract!Grow(p, B)
  BY <1>9, <1>10, <1>11, <1>12 DEF Abstract!Grow
<1> QED
  BY <1>1, <1>4, <1>13 DEF Abstract!Next

LEMMA LedgerStep ==
    Ordered /\ Chain /\ InOrder /\ [Next]_vars => [Abstract!Next]_(Abstract!vars)
<1> SUFFICES ASSUME Ordered, Chain, InOrder, [Next]_vars
             PROVE  [Abstract!Next]_(Abstract!vars)
  OBVIOUS
<1>1. ASSUME NEW p \in Replica, NEW u, replica' = [replica EXCEPT ![p] = u],
             u.executed = replica[p].executed, UNCHANGED blocks
      PROVE  UNCHANGED Abstract!vars
  <2>1. \A r \in Replica : replica'[r].executed = replica[r].executed
    BY <1>1 DEF Chain, TypeOK
  <2> QED
    BY <1>1, <2>1, LedgerStutter
<1>2. ASSUME NEW c \in Cmd, OnTimer(c) PROVE UNCHANGED Abstract!vars
  <2> DEFINE u == [replica[Owner[c]] EXCEPT !.pending_commands = @ \cup {c}]
  <2>1. Owner[c] \in Replica /\ replica[Owner[c]] \in State
    BY HotStuffAssumption DEF Chain, TypeOK
  <2>2. replica' = [replica EXCEPT ![Owner[c]] = u] /\ UNCHANGED blocks
    BY <1>2 DEF OnTimer
  <2>3. u.executed = replica[Owner[c]].executed
    BY <2>1 DEF State
  <2> HIDE DEF u
  <2> QED
    BY <1>1, <2>1, <2>2, <2>3
<1>3. ASSUME NEW m \in msgs, Receive(m) PROVE [Abstract!Next]_(Abstract!vars)
  <2>1. m.dst \in Replica /\ replica[m.dst] \in State
    BY DEF Chain, TypeOK, Message
  <2>2. CASE HandleSubmit(m)
    <3> DEFINE u == [replica[m.dst] EXCEPT !.pending_commands = @ \cup m.commands]
    <3>1. replica' = [replica EXCEPT ![m.dst] = u] /\ UNCHANGED blocks
      BY <2>2 DEF HandleSubmit
    <3>2. u.executed = replica[m.dst].executed
      BY <2>1 DEF State
    <3> HIDE DEF u
    <3> QED
      BY <1>1, <2>1, <3>1, <3>2
  <2>3. CASE HandlePropose(m)
    BY <1>3, <2>3, LearnStep DEF Receive
  <2>4. CASE DropVote(m)
    BY <2>4, LedgerStutter DEF DropVote
  <2>5. CASE CountVote(m)
    <3> DEFINE u == [replica[m.dst] EXCEPT !.pending_quorums[m.block] = @ + 1]
    <3>1. replica' = [replica EXCEPT ![m.dst] = u] /\ UNCHANGED blocks
      BY <2>5 DEF CountVote
    <3>2. u.executed = replica[m.dst].executed
      BY <2>1 DEF State
    <3> HIDE DEF u
    <3> QED
      BY <1>1, <2>1, <3>1, <3>2
  <2>6. CASE CompleteQuorum(m)
    BY <1>3, <2>6, GrowStep DEF Receive
  <2> QED
    BY <1>3, <2>2, <2>3, <2>4, <2>5, <2>6 DEF Receive
<1>4. CASE UNCHANGED vars
  BY <1>4, LedgerStutter DEF vars
<1> QED
  BY <1>2, <1>3, <1>4 DEF Next

(***************************************************************************)
(* HotStuff over links that keep the causal order implements one ledger,   *)
(* whatever the number of processes and commands: every replica executes   *)
(* the blocks of one chain, in its order, no sooner than a chain of three  *)
(* is on them, and no command is proposed twice.                           *)
(***************************************************************************)
THEOREM LedgerImplemented == ASSUME Ordered PROVE Spec => ImplementsLedger
<1> QED
  BY ChainInit, ChainStep, InOrderInit, InOrderStep, LedgerInit, LedgerStep, PTL
     DEF Spec, ImplementsLedger, Abstract!Spec
=============================================================================
