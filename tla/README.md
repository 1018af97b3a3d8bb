# BLSMR in TLA+

A verification project for the crates under `src/crates`: the BLSMR protocol
(`blsmr`, with `quorum` and `client`), and the two protocols it is measured
against, `hotstuff` and `bullshark`. TLC checks small instances, TLAPS proves
theorems for every instance.

    tlc -workers 2 -config MCReplicas.cfg MCReplicas.tla
    tlapm ExecutionProofs.tla             # the order of execution, and Tarjan's algorithm that computes it
    tlapm CmdLogProofs.tla                # one log (lemmas)
    tlapm ReplicasProofs.tla              # all logs, refinement of the order
    tlapm BLSMRProofs.tla                 # the protocol: refinement of Replicas, agreement, quorums
    tlapm ConflictTrackerProofs.tla       # the tracker beside it
    tlapm ConsistentBroadcastProofs.tla
    tlapm HotStuffProofs.tla
    tlapm BullsharkProofs.tla             # the DAG, its causal order and the anchors

## 1. Inventory

**BLSMR process** (`blsmr/src/process.rs`). One per replica. State: counters of
submitted commands, the submit timer, a `DDS` and a `Quorum`. A timer creates a
command and announces it; messages go to `DDS` or `Quorum`; what they report is
decided at once (fast path), proposed (slow path), or nothing. `decide` records
the dependencies, commits them in the own log and sends `Commit` to the peers.
Correct when a command is decided once, with one set of dependencies, and ends up
stable everywhere.

**Announce phase** (`dds.rs`, `DDS`). State: the log, the responses to every
pending announcement, the force timers. The owner asks the replicas (3Jane: one
random quorum) for conflicts. Wintermute waits for all of them, or for a quorum
when its force timer fires; the others wait for a quorum. The fast path needs equal
answers of all replicas. Correct when of two conflicting commands at least one
learns of the other, unless that other has already finished.

**Slow path** (`quorum.rs`, `Quorum`). State: open instances with their
dependencies, committee and responses. It decides when the whole committee has
echoed the proposal. (No ballots, no recovery: the owner is the only proposer.)

**Command log** (`log.rs`, `CmdLog`). State: entries (body, dependencies, phase),
the key index, pending commits, stable commands. `submit` stores a body and
returns the unfinished commands on its key; `commit` stores dependencies and
promotes every command whose dependency closure is committed: it is executed,
dependencies first, cycles by id, and removed. Correct when every replica executes
related commands in one order, nothing waits for ever, the indexes agree with the
entries.

**Conflict tracker** (`log.rs`, `ConflictTracker`). Global counters and records
for the simulations: paths, decisions, conflict rate. Correct when it follows the
logs: it holds exactly what some replica has still to execute, counts each executed
command once, misses no cycle, and is empty in the end.

**Quorum systems** (`quorum/src`). Threshold systems and a grid, stateless except
for a random generator: size, choice of a quorum, test of a set of responders.

**Client** (`client/src/lib.rs`). Command ids (process, number; ordered) and keys.

**HotStuff** (`hotstuff/src/lib.rs`). State: the blocks it holds, voted height, lock,
executed and leaf block, votes being counted, pending commands. A leader proposes,
replicas vote, the next leader counts a quorum and proposes the child; a block that
heads a chain of three is committed with its ancestors, and what is older is
collected. A block knows its parent by a weak pointer. There is no view change.
Correct when replicas commit one chain, each block once, the chain keeps growing
without a timer, parents outlive their use and no command is lost or proposed twice.

**Bullshark** (`bullshark/src`). `lib.rs`: rounds, buffer, anchors, timers, direct
and indirect commit, commands waiting for a vertex. `dag_utils.rs`: the DAG over a
sliding window of rounds.
`consistent_broadcast.rs`: initiate, signatures, certificate. Correct when replicas
order one sequence of anchors and vertices, rounds keep advancing and no command is
forgotten.

**Simulations and plots** (`sims`). Fixed, symmetric latencies (constant or
distance at the speed of light, rounded up: both satisfy the triangle inequality),
no loss, no crash, an announce timeout of 500 jiffies, longer than any round trip.
Wintermute runs on `new_dissemination` quorums, 3Jane on grids.

**dscale** is the external simulator: processes run one callback at a time, so a
callback is one action; messages are delivered once; broadcasts include the
sender.

Interaction: handlers of one process are atomic; replicas share nothing but
messages (and the tracker, which only records). What is hard: announcements of
conflicting commands crossing each other, commits overtaking requests, the force
timer against late responses, decisions learned in any order, cyclic dependencies,
and commands forgotten (stable) at one replica while unfinished at another. The
hazards are listed in `PROJECT.json`, each with the properties that cover it.

## 2. Modules

| Module | What it is |
|---|---|
| `DepGraph` | Reachability in a dependency graph and `ExecutionOrders`, the orders `try_execute` may produce |
| `DependencyOrder` | Abstract specification: one agreed graph, replicas execute closed batches of it |
| `Execution` | `promote_stable` with its graph walks and Tarjan's algorithm, call by call; implements `DependencyOrder` |
| `ExecutionProofs` | The invariants of `DependencyOrder`; Tarjan's algorithm, the loops and that refinement; no command left waiting, proved |
| `CmdLog` | `struct CmdLog` as a record; one operator per method |
| `CmdLogProofs` | What each method does to one log, and what `ExecutionOrders` contains, as lemmas |
| `Replicas` | All logs, under any agreed decisions learned in any order; implements `DependencyOrder` |
| `ReplicasProofs` | The log invariant, the absence of lost wake-ups and that refinement, proved |
| `QuorumSystem` | Threshold and grid quorum systems, as operators |
| `BLSMR` | The protocol: network, timers, announce phase, slow path, logs; implements `Replicas` |
| `BLSMRProofs` | Types, that refinement, that nothing is left half done, visibility of decisions and one order of conflicting commands; what two quorums share, proved |
| `ConflictTracker` | The tracker beside the protocol that reports to it |
| `ConflictTrackerProofs` | The tracker follows the logs, counts every cycle and empties, proved |
| `Ledger` | Abstract specification: one growing ledger, executed in order by every replica |
| `HotStuff` | The HotStuff crate: blocks, proposals, votes, commit, garbage; implements `Ledger` |
| `HotStuffProofs` | One chain, no lost parent, no lost command, that refinement, proved |
| `CertifiedBroadcast` | Abstract specification: a message is delivered once a quorum has signed it |
| `ConsistentBroadcast` | Initiate, signature and certificate; implements `CertifiedBroadcast` |
| `ConsistentBroadcastProofs` | That refinement and that nothing is kept, proved |
| `Bullshark` | The DAG, its rounds and timers, the order of anchors, garbage collection, in time |
| `BullsharkProofs` | One vertex per process and round, a graph of quorums, causal order of the commits, agreement on anchors, proved |
| `MC*` | Instances for TLC |

### How state and actions correspond

`CmdLog` keeps `entries`, `by_key`, `pending_commit`, `stable` and adds two
histories: `executed`, the order in which ids are marked executed, and `applied`,
those whose body was there (the code hands only these to `record_execution`).
Phase `Stable` and the flag `executed` live only inside `promote_stable`, so they
do not appear between calls; a pass of `promote_stable` is `Promote(m, s)`, where
`s` is any order `ExecutionOrders` allows for the batch: the strongly connected
components come dependencies first, a component in the order of ids, and unrelated
commands as the iteration of a hash set happens to have them. `Execution` shows that
the code computes such an order: there `promote_stable` is its loop over the list it
has fixed before, in any order, each root with the closure walk and `tarjan_sccs`,
and entries that are executed before their turn. A `for` or `while` is `Repeat`, the
recursion of `strongconnect` a function of its depth, which is never more than the
number of commands. In `CmdLog`, `is_deps_closure_committed`
walks the graph with a stack; the model says that a set closed under dependencies
exists. Timestamps and latency samples are left out.

`BLSMR` has one action per handler or timer: `Announce` (submit timer with
`announce`, `prepare_announce`, `send_announce`), `OnForceTimer`, `HandleReq`,
`HandleRes`, `HandleCommit`, `HandleRequest`, `HandleResponse`. `QuorumReady` is
`handle_announce_status` and includes the decision or the proposal it leads to,
as the code does in the same callback. `announce_quorums` with `pending` is
`pending_announce_quorums`; `timers` is `announce_force_timers`; `decided`,
`decidedDeps` and `paths` are what `record_decision` and `record_path` store. The
quorum system is the constant `System`, built by the operators of `QuorumSystem` (a
grid has its side, the width x and its cells, a threshold its two factors), the
hash-ranked committee of 3Jane as `Committee`, the keys as
`KeyOf`. Command ids are numbers in the order of `CmdId`; a process announces its
commands in that order.

`ConflictTracker` adds the tracker to `BLSMR`: `TrackedAnnounce`, `TrackedForceTimer`
and `TrackedReceive` are the actions of `BLSMR` together with the report the handler
makes, a new command before it is announced, a request before it is handled, and every
command a commit executes with a body, in the order of execution (`Recorded`).
`conflicting` is a history: the commands that `conflicting_commands` counts. `paths` and
`decidedDeps` of `BLSMR` are what `record_path` and `record_decision` store. The
counters are exact numbers, the percentages made of them are not modelled.

`HotStuff` keeps every block ever created in `blocks`; its index is its id, and
`replica[p].nodes`, `b_lock`, `b_exec`, `b_leaf` are what p holds. `Arc` and `Weak`
are modelled: all processes of a simulation share one memory, so a parent can be
reached while any replica or any message in flight holds it (`HeldElsewhere`,
`Upgraded`), and `commit` panics (`panicked`) where `expect` would. `HandlePropose`,
`DropVote`, `CountVote` and `CompleteQuorum` are the cases of `on_message`, each
with the whole of `update` it reaches. dscale's `Quorum`, an external helper, is a
number of votes: it answers when the number is reached, once. `commit` goes down to
the executed height and back, so blocks are executed one height after the other;
`executed` is its history; the number of submitted commands is bounded by `Cmd`.

`Bullshark` is a model in time. Its state is the table of processes, the vertices on
their way with the moment they arrive, and the clock; an event is the delivery of a
vertex or a round timer, and the next one is always the earliest (`NextEventAt`). A
handler works on a record, so that the chain of calls `try_add_to_dag`,
`broadcast_vertex`, `try_ordering`, `order_anchors`, `gc`, which calls itself for the
own vertex, is one step as in the code. `allocated` and `gc_offset` bound the window of
rounds (`matrix`, with `ordered`); an edge is the source of a vertex of the round
before; whether a missing one can be upgraded is asked of all who hold vertices.
`commits` is a history: every anchor with the vertices `order_from` took with it; so is
`made`, all vertices that any process ever made. A vertex is delivered when the
certificate of its source arrives: the time for a quorum of signatures plus one latency,
which is what `ConsistentBroadcast` does on fixed latencies. The leader of some rounds
is process n, which does not exist, as in `get_leader_id`. Commands have messages of
their own (`submits`) and one submit timer per process, armed every `SubmitInterval` up
to `SubmitLimit` times; a process keeps them in `pending_commands` and puts all of them
into its next vertex, so that one command travels in several vertices, as in the code,
where a shared flag makes the first one count.

`ConsistentBroadcast` has one action per case of `on_message` and keeps the two maps
of the struct; `signed` and `delivered` are histories.

Definitions commented "Faulty" are wrong on purpose: each replaces a definition to
show that some property notices. No specification uses them.

### The network

Messages are a set; each is delivered once, in any order. Two constants restrict
this to what the simulations configure. `Causal`: with latencies that satisfy the
triangle inequality a message sent after the delivery of a `Commit` cannot reach a
third replica before that `Commit` does. The model keeps this one consequence: a
message carries the decisions its sender had and its receiver had not, and waits
for them. `Timely`: the force timer fires after the round trip is over.
`Execution` and `ConsistentBroadcast` need no restriction. `HotStuff` has the same one as
`Causal`, `Ordered`: what reaches a process does not
overtake a message to it that was sent in its causal past.

## 3. Runs

| Run | Instance | States | Shows |
|---|---|---|---|
| `execution` | 3 commands, 2 replicas, all graphs | 2 900 | Tarjan's algorithm and the loop give allowed orders; one order, dependencies first, no ready command left waiting, inductive invariant |
| `replicas` | 3 commands (2 keys), 2 replicas | 237 000 | exact logs, no lost wake-up, refinement of `DependencyOrder` |
| `wintermute` | 4 replicas, quorums of 3, 2 commands of two owners, causal, any timeout | 1 150 000 | one order of conflicting commands; a decided command is at a quorum, a fast one everywhere |
| `three_jane` | 4 replicas in a 2 x 2 grid, 2 commands of two owners, causal | 367 000 | one order of conflicting commands, a decided command at a quorum, nothing left over |
| `wintermute_live` | 2 replicas, quorums of 1, 2 commands, any order, any timeout | 19 500 | every command becomes stable everywhere; types; refinement of `Replicas` (decided once) |
| `wintermute_timely` | 2 replicas, 3 commands, any order, timeout after the round trip, with the tracker | 301 000 | one order without quorum intersection or causal delivery; every executed command has its body; the tracker follows the logs and ends empty |
| `three_jane_body` | as `three_jane` | violation | a command is marked executed at a replica that never had its body |
| `hotstuff` | 4 replicas, rotating leader, 1 command, 5 blocks, ordered | 698 000 | parents never dangle, no command is forgotten, refinement of `Ledger` |
| `hotstuff_live` | 4 replicas, fixed leader, 4 blocks, ordered | 10 800 | every replica executes all heads of three-chains |
| `hotstuff_reordered` | 4 replicas, rotating leader, 5 blocks, any order | 1 600 000 | one chain, no stale counts of votes |
| `bullshark` | 4 replicas on 120 arrangements of a line, two timeouts, one command each, 200 units of time | 262 000 | agreement on anchors, one order of anchors and vertices, each once and not after what refers to it, no command forgotten, no panic, the order follows the rounds |
| `consistent_broadcast` | 4 processes, 2 broadcasts, any order | 58 000 | delivery once, certified, to everybody; nothing left behind |

Bounds. Three commands are the fewest with a cycle and a command that reaches into
it, or a chain. Two logs suffice where logs are compared: they interact only
through decisions. Four replicas are the fewest where a dissemination quorum has more
than one member (2 * ((n - 1) / 3) + 1) and is not everybody; a 2 x 2 grid is the
smallest grid, and its quorums (one row and one column) are also the sets of
three. Commands have two owners: the decisions of one owner already reach everybody
in one order when delivery is causal. In `wintermute` TLC identifies states by the
VIEW `LiveState`, which leaves out responses to announcements that are over and
their timers; handling those changes nothing else. The runs end when every
command is done, so deadlock is not an error (`CHECK_DEADLOCK FALSE`) and
`Drained` says what the end must look like. Symmetry is used only where no
liveness is checked, and never on commands, whose order matters. Four is also the
fewest HotStuff replicas where a quorum (3) is not everybody, so that a replica can
lag behind. Four blocks are the fewest with one that is executed; with five the
last executed block moves, after garbage has been collected.

Bullshark's 200 units are enough for anchors committed directly, two at once by
walking back, and rows collected. The latencies are those between five
places of which any two have a distance of their own; a round trip is at most 22, so
the timeout of 200 never ends a round and that of 20 often does. Latencies do not
change during a run, because the simulations draw them from an interval of one
value. In that model a commit is decided by the edges of one vertex, so replicas
differ only in what they have collected and in what order they learned it: what
agreement has to survive here are timeouts, batches and late vertices. With four
replicas a leader slow enough to be skipped at one replica and committed at another
panics first, so this case is left to a larger instance.

With the long timeout the order stays at most 4 rounds behind (`KeepsOrdering`); with the
short one it may fall far behind, since rounds go on without anchors or votes.

Two things that the model shows and no text of the repository speaks of. A replica more
than about twice as far away (places 0, 1, 4, 9, 20) makes `Running` fail: its Genesis
vertex arrives after the first collection and underflows `round()`. And a vertex of the
oldest row that arrives after a collection is dropped (`lib.rs:272`): vertices that refer
to it then wait in the buffer until their own row is collected, and ordered vertices may
have a parent that is never ordered. The commands of such a vertex are not lost with it
(`CommandKept`): every process has received them too and has put them into vertices of
its own before, at the distances checked.

Five replicas. Two more configurations of `Bullshark` are kept beside the runs, with five
replicas on ten arrangements of a line and no commands, to see what the run with four
cannot show. No simulation has five, but several have an n that is not 3f + 1.

- `MCBullsharkFive.cfg` (45 000 states, 60 000 units of time; passes). Five is 3f + 2: a
  quorum is 3 and 2 votes commit, so the votes for an anchor and the edges of a later
  vertex need not have a process in common, as with 8 replicas in the simulation of
  scalability. `AnchorAgreement` holds all the same, on these latencies. Five is also
  odd, so that process n, which does not exist, leads round 4 of every ten, an anchor
  round (with an even n it leads only odd rounds). There is no anchor in that round: it
  and the next one end only with their timers, round 6 has nothing to commit, and what was
  left open is committed by walking back from round 8. With the long timeout the order is
  therefore up to 8 rounds behind (`KeepsOrdering`; 7 is violated). A vertex takes the
  time of a quorum of signatures and one more distance: the timeouts 600 and 1200 are
  often shorter than that, 12 000 never is.
- `MCBullsharkPanic.cfg` (violates `Running`). With the long timeout the drop of a late
  vertex leads to a panic in one of the ten arrangements: process 4 drops the vertex of
  process 3 in round 8, the one of round 9 waits for it in the buffer, and when the others
  have collected round 8 nobody holds the parent, so that the next retry fails at
  `expect("live strong edge")` (`lib.rs:282`). The behaviour ends there, as the simulation
  would, so `MCBullsharkFive.cfg` says of that arrangement what holds until then.

`ConflictOrder` needs `Causal` in `wintermute` and `three_jane`: with free
reordering a replica outside the quorum that forgot a finished command can learn the
later command first, and nothing relates the two. The simulations provide
it; the code does not ask for it.

`HoldsChain` and `ImplementsLedger` need `Ordered` in `hotstuff`: when a proposal
overtakes an earlier one, the replica holds no block of that height, its parent may
be gone when it commits, and `b_exec`, which `update` sets whatever the height
(`lib.rs:190`), can move back, after which blocks are committed a second time. `OneChain`
and `NoStaleQuorums` do not depend on the order (`hotstuff_reordered`).

Fairness. `wintermute_live` assumes that the network goes on delivering and that armed
timers fire: dscale delivers every message and fires every timer. Creation of
commands is not assumed. Each message is consumed once and the instance has
finitely many, so weak fairness of delivery as a whole is enough. `hotstuff_live`
assumes the same of its network and nothing else, and so does `consistent_broadcast`.

Finding. `try_execute` marks every command
of a closure executed and executes those it has a body for (`log.rs:258`), while its
comment says it executes "every not-yet-executed command reachable". Under 3Jane the
replicas outside the announce quorum never get the body. In Wintermute within its
timeout the case cannot happen (`wintermute_timely`). The same replicas never report the
execution to the tracker: under 3Jane its entries stay for ever, and every later command
on the key counts as conflicting. `TrackerDrained` is therefore a property of
Wintermute.

## 4. Proofs

`ExecutionProofs` proves of `DependencyOrder`, for every finite set of commands, every
set of replicas and every graph,

- `OrderInvariant`: `TypeOK /\ OrderInv` always holds;
- `SameOrderHolds`: related commands run in one order at all replicas;
- `DependencyFirstHolds`: dependencies run first, cycles aside.

`SameOrder` alone is not inductive: it says nothing of commands executed at
one replica only. `OrderInv` adds that what a replica has executed is decided, closed
under dependencies and ordered by reachability in the whole graph. Two lemmas carry
the step. Later decisions do not change paths between executed commands
(`ReachesSurvives`: paths stay in a closed set, whose dependencies are fixed). A
path between two commands of a batch stays in the batch (`ReachesInBatch`), and none
leads from what was executed into it, so the order found in the batch is the order in
the whole graph. `SameOrder` then follows: if p runs a before b and q the other way
round, and a path leads from a to b, then p's order gives a path back and a < b, and
q's order gives b < a.

Of `Execution`, the code that computes that order, it proves, as generally,

- `TarjanCorrect`: `tarjan_sccs` puts every command into one component, the members of
  a component reach each other, and a dependency is in the same or an earlier one;
- `PassExecutesReady`: a pass of `promote_stable` executes exactly the commands whose
  dependency closure is committed (`NewlyStable`), as one closed batch in an order that
  `ExecutionOrders` allows, whatever order the hash set gives the list;
- `LoopImplementsOrder`: `LoopSpec => ImplementsOrder`; with it `LoopInvariant` and
  `LoopOrders`, the properties of `DependencyOrder` for the order as it is computed;
- `NothingWaitsHolds`: what a replica has learned with all it depends on is executed.

A loop keeps its invariant from one round to the next (`RepeatKeeps`). For Tarjan's
algorithm it is `Sound`: indexes ascend on the stack, the commands visited are those on
the stack and in components, components are strongly connected and closed downwards,
from everything on the stack a path leads down to a call in progress and from such a
call to everything above it. `Connected` says what `strongconnect(v)` makes of such a
state, above all that low_link is the least index on the old stack that a dependency of
the new part has (`LowSound`). Its loop over the dependencies keeps `Visiting`
(`VisitDepVisiting`); at its end either low_link is less than v's index, and a path leads
below v, or nothing of the new part leads out and it is popped as a component
(`VisitingConnected`). Calls nest no deeper than there are commands not visited, which
ends the induction over calls (`StrongConnectConnected`). A pass keeps `RunSound`: each
root adds the closure of what is pending, which is ready with the root, and so appends a
closed set to what was executed; a command of the list that an earlier root has executed
adds nothing. `DO` in `BLSMRProofs` is this module about the logs of the protocol.

`ReplicasProofs` proves, for every set of commands, keys and replicas and every graph,

- `LogsInvariant`: `TypeOK /\ LogsExact` always holds, and with it `TypeCorrect`;
- `NoneStrandedHolds`: `NoneStranded` always holds;
- `LogsImplementOrder`: `Spec => ImplementsDependencyOrder`, so that every behaviour of
  the logs has the properties proved of `DependencyOrder`.

`LogsExact` is inductive together with `TypeOK`: one lemma per method says that it
keeps a single log exact (`CreationKeeps`, `SubmitKeeps`, `MarkCommittedKeeps`,
`PromoteKeeps`). These lemmas about one log are in `CmdLogProofs`.
`CommitExecutes` is the heart of the refinement: the commands that
`is_deps_closure_committed` accepts are closed under dependencies up to what is
stable (`NewlyStableClosed`: the set that witnesses it for one command witnesses it
for each of its dependencies), so one pass of `promote_stable` is one batch of
`DependencyOrder`, and every other call is a stutter. `NoneStranded` is not
inductive: it needs that no log holds a command that is ready now (`NoneReady`).
`PassIsComplete` gives that: one pass leaves nothing ready, because what is ready
after the pass was ready before it.

`BLSMRProofs` proves, for all replicas, commands, keys, quorum systems, committees and
timeouts,

- `TypeCorrect`, from `BasicsInvariant`: `Basics` says that a command is announced,
  proposed and decided at most once and never depends on itself, that the message
  set holds what these stages leave behind, and that every log is exact;
- `Refinement`: `Spec => ImplementsReplicas`. A request is `Submit`, a decision is
  `Decide` with the owner's `Commit`, a `Commit` that arrives is `Commit`. With
  `LogsImplementOrder` the protocol has the order properties of `DependencyOrder`;
- `DrainedHolds`: when all timers have fired and all messages have arrived, every
  command is decided and stable at every replica. Hypothesis `QuorumsReached`:
  committees have members and, unless the protocol is Wintermute, which waits for
  everybody, every set a command is announced to contains a quorum, quorums grow with
  their members and nobody is no quorum. The invariant is `UnderWay`: what is
  not yet over has a message or a timer that will carry it on. `DepsCreated` is
  needed so that nothing depends on a command that does not exist;
- `DecisionVisibleHolds` (hypothesis `QuorumsGrow`), by `KnownToEnough`: a replica that
  has answered a pending announcement has the command in its log or has finished it,
  and an announcement ends with the answers of a quorum.

The agreement of the protocol is proved along two ways, because the code relies on
two different things.

- `ConflictOrderHolds` (hypotheses `Causal` and `QuorumsMeet`). A replica that has
  answered the announcements of two conflicting commands has given one of them in its
  answer to the other, or had finished it by then (`Sees`, `PendingMeet`;
  `ConcludedMeet` is the same when one of the announcements is over). A replica forgets
  a command only after its decision, and delivery is causal, so whoever gets such an
  answer has that decision and all it depends on (`Settled`). Two quorums have a replica
  in common, so one of two conflicting commands depends on the other or is executed
  after it everywhere (`ConflictsCovered`). Where it is a dependency, `SameOrderHolds`
  gives one order, through the two refinements.
- `TimelyOrders` (Wintermute, `Timely`), without any hypothesis on quorums or delivery.
  A force timer that fires after the round trip finds all answers there, so an
  announcement ends with everybody's (`AllAsked`, `EverybodyAnswers`). Two conflicting
  commands then meet at every replica (`NamedOrFirst`): there one names the other in its
  answer, or had finished it. If one does so anywhere it is a dependency; if none
  does, one of them was finished first at all replicas. `TimelyExecutesBodies` comes
  from the same invariant: a decided command has been answered by everybody, with the
  body in hand. This is the configuration of the simulations, where 6 replicas have
  disjoint quorums of 3.

The last section is about the quorum systems. `DisseminationQuorumsMeet` (n = 3f + 1: two
quorums share f + 1 processes, by counting), `GridQuorumsMeet` (a full row of one meets
a full column of the other) and `GridQuorumsShare` (x full rows of one and x full
columns of the other meet in x * x processes) are about `IsQuorum` as the code tests it.
For the n of the simulations that are not 3f + 1 the first does not apply: of 6
processes 3 are a quorum, and two quorums may be disjoint. For grids of side up to 4
TLC also found the sets that `choose_random_quorum` draws to be least quorums (not a
run of its own). With these the hypotheses on quorums are discharged:
`DisseminationOrders` and `GridOrders` leave only `Causal` for the order, with n = 3f + 1
and with a square grid.
`DisseminationKnows` and `DisseminationDrains` hold for `new_dissemination` with any number
of replicas, and `WintermuteDrains` for any quorum system. `GridDrains` leaves only that
3Jane's committees have members.

`ConflictTrackerProofs` proves of the tracker

- `TrackerExactHolds`, for every protocol, quorum system and network, with no
  hypothesis: the commands tracked, their executors and the number of executed commands
  are exactly what the logs say. `RecordedExact` follows the loop of `try_execute`
  through one batch, one report after the other (`Recording`); `CommitAppends` says that
  the batch is new to the replica. A request never brings an entry back: it comes to a
  replica that does not have the body, so the command is still tracked;
- `CyclesCountedWhereBodies`, for two replicas or more and any behaviour in which what
  is executed has its body: every executed command that reaches another one and is
  reached from it, over any number of dependencies, is itself in `conflicting`. The two
  are on one key and are executed in one batch, wherever one of them is; so when the
  command is first executed, the other is not executed at any other replica, and is
  tracked. `CyclesCountedHolds` and `TrackerDrainedHolds` use `TimelyExecutesBodies` and
  `WintermuteDrains` to give both properties to Wintermute within its timeout. The
  argument needs the second replica: with one, the first of two commands on a cycle
  would be removed before the second is counted.

`ConsistentBroadcastProofs` proves `TypeCorrect`, `NothingIsKept` and `Refinement`, for any
number of processes and messages and any order of arrival. The source's
count and the signatures on their way add up to those who have signed (`Counted`), so
the certificate goes out once and only on a quorum; from then on whoever has the
message is about to get the certificate, and the other way round
(`AfterCertificate`).

`HotStuffProofs` proves, whatever the order of messages, the number of processes and
the leaders,

- `TypeCorrect`, `OneChainHolds`: `Chain`. The heart is `Elected`, a counting argument:
  the votes a leader has counted for a block and the processes that may still vote
  for it are together at most N, and twice the quorum is more than N, so a block that
  has been built on cannot be built on again;
- `NoStaleQuorumsHolds`: votes for what is executed are not counted;
- `CommandKeptHolds`: a submitted command is in the chain, or every process has it
  pending or on its way;

and, with the assumption `Ordered` (links of fixed metric latencies),

- `HoldsChainHolds`: a replica holds every block between its last executed and its
  highest one, so `commit` never follows a dangling parent;
- `LedgerImplemented`: `Spec => ImplementsLedger`, so the replicas execute one chain in its
  order, each block once, and no command is proposed twice.

The order enters through `Proposed`: a proposal is on its way to everybody who has not
yet voted so high, and nothing later arrives before it. Hence what a process accepts is
always the block after its last one (`InStep`), and a command that is submitted after
it was proposed is removed again by the block that has it (`Fresh`).

`BullsharkProofs` proves, for any number of processes, any latencies, timeout and budget of
time,

- `TypeCorrect`;
- `CausalOrderHolds`: a vertex is ordered once and with no later anchor than the vertices
  that refer to it (those ordered with one anchor come newest first, as `order_from`
  searches in breadth);
- `OneVertexARound`, `QuorumOfEdges` and `ParentsPresent`: a process makes one vertex in a
  round, each vertex refers to a quorum of vertices that were made, and a process has what
  its vertices refer to;
- `LastAnchorDirect`: anchors are committed in ascending rounds, the last one has f + 1
  votes among the vertices that were made, and `gc` collects exactly up to it;

and, with the hypothesis that there are n = 3f + 1 processes,

- `AnchorAgreementHolds`: of an anchor of a round > 0 that two processes have both passed
  either both have committed it or neither has.

`CausalOrder` is far from inductive: `gc` throws the marks away by which `order_from`
recognises what it has ordered. The invariant of a process (`StateOK`) says what makes
this safe. The strong edges of a vertex lead to vertices in the DAG until their round is
collected (`EdgesKept`; `try_add_to_dag` waits for them), and what was ordered is marked,
with all that it refers to, until then (`OrderKept`). `Reachable` goes down edges from a
vertex in the DAG, so it stays above the offset, and new vertices are neither marked nor
referred to by marked ones. That a slot of the DAG never changes needs the invariant
about all vertices (`Sole(made)`): a process makes its vertex on entering a round and only
moves up, also when it enters one while the buffered vertices are tried again. So a
handler is followed change by change with the vertices that there were before it and
those it has made itself (`Handling`).

For `AnchorAgreement` the DAGs of two processes need not be compared. Each is a part of the
one graph `made`, which only grows at its top: a new vertex opens no path between old ones
(`ReachesStable`). `AnchorsOK` says of one process and that graph: its last anchor has its
f + 1 votes there (`Direct`), and below each of its anchors the next is the first that a
path leads to in the whole graph (`WalkedBack`). That `order_anchors` keeps this is the
bulk of the proof: in the rows that the process still has, `path_exists` finds just the
paths of the graph (`PathFound`), the walk passes over no anchor to which there is one
(`AnchorsComplete`), and it stops where `last_ordered_round` says, at an anchor that was
committed directly, to which a path leads from any later anchor: f + 1 votes and 2f + 1
edges meet if n = 3f + 1 (`DirectReached`). Then two processes: the last anchor of
the one that is behind is an anchor of the other (`LastShared`), and from an anchor that
both have they walk back alike (`SharedBelow`). For n = 3f + 2 or 3f + 3 votes and edges
need not meet and the theorem says nothing; the simulation of scalability also runs with 8
replicas. `MCBullsharkFive.cfg` looks at n = 5.

The recursive functions in the model (`Repeat`, `StrongConnect`, `Reachable`,
`AnchorsBack`, `OrderAnchors`, `RetryBuffer`) are shown to exist, and to keep the
invariant in every element, by taking a least number for which they would not. TLC found
the parts of the invariant true on the instance of `bullshark` before they were proved.

The assumptions are those on the constants, which the code establishes when it is
configured: `CmdAssumption` (ids are naturals, finitely many), `KeyAssumption` (every
command has a key), `ProtocolAssumption`, `ConsistentBroadcastAssumption`,
`HotStuffAssumption` and `BullsharkAssumption` (what kind of thing each constant is; that
`System` is built over all replicas and committees have the size it computes), and the
hypotheses named above, which stand in the theorems themselves.

Only model-checked: four properties of `Bullshark`, and everything temporal beyond
invariance (`EventuallyStable`, `EventuallyExecuted`, `EventuallyDelivered`). Liveness
under fairness and ENABLED are out of this prover's reach. So are RECURSIVE operators,
and the models use none.

Of `Bullshark`, `OrderAgreement` compares also the vertices ordered with each anchor,
and begins at round 0; for this nothing in the code suffices for all latencies, even if
n = 3f + 1. A process that walks back commits two anchors in one call and collects only
after it, so it may order with the second one a late vertex from below the first, not
reached by the first, that a process which committed the first directly has already
collected. And since the walk ends above round 0, an anchor of that round is committed
only by those who saw its votes in a vertex of the leader of round 2, which may be late
somewhere. `AnchorAgreement` is what holds whatever the latencies if n = 3f + 1; on
those of the run both properties hold. `CommandKept`, `Running` and `KeepsOrdering`
depend on the latencies too (a late Genesis vertex panics, a vertex of a collected row
is dropped with its commands). So these four are claims about latencies as in the run
and have no theorem.

## 5. Not modelled

- The simulations (`sims/src`) and the plots: configuration, statistics and CSV output.
  What they configure is what the runs are chosen from: protocol, quorum system,
  timeout, latencies.
- Latency samples, percentages and `path_records`, key distributions (a key per command
  is the constant `KeyOf`), virtual sizes of messages.
- EPaxos mode has no run of its own: it is Wintermute's broadcast with 3Jane's readiness
  test, both of which run. The theorems include it.
- `new_witnessing`, which nothing calls.
- Crashes, losses and restarts: no part of the code handles them and no simulation
  configures any.

What would be next: `Bullshark` with seven replicas, where a leader can be skipped at
one and committed at another, and with eight, the n = 3f + 2 of the simulations; their
state spaces are beyond the bounds here.
