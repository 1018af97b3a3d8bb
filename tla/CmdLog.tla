------------------------------- MODULE CmdLog -------------------------------
(***************************************************************************)
(* struct CmdLog (crates/blsmr/src/log.rs): the commands one replica knows *)
(* and has not finished, and the commands it has finished ("stable").      *)
(*                                                                         *)
(* A log is a record.  Between two calls of CmdLog no entry is in phase    *)
(* Stable or has its executed flag set: promote_stable removes an entry in *)
(* the iteration that made it stable.  So an entry is absent, pending or   *)
(* committed here, and a whole pass of promote_stable is one value.        *)
(***************************************************************************)
EXTENDS DepGraph

CONSTANTS
    Cmd,   \* command ids, numbered in the order of CmdId (pid, then id)
    Key,   \* keys; two commands conflict when they have the same key
    KeyOf  \* the key of each command

ASSUME CmdAssumption == Cmd \subseteq Nat /\ IsFiniteSet(Cmd)
ASSUME KeyAssumption == KeyOf \in [Cmd -> Key]

Entry == [phase : {"none", "pending", "commit"},
          cmd   : BOOLEAN,         \* the body of the command has arrived
          deps  : SUBSET Cmd]

NoEntry == [phase |-> "none", cmd |-> FALSE, deps |-> {}]

Log == [entries        : [Cmd -> Entry],
        by_key         : [Key -> SUBSET Cmd],
        pending_commit : SUBSET Cmd,
        stable         : SUBSET Cmd,
        executed       : Seq(Cmd),    \* ids marked executed, in order
        applied        : SUBSET Cmd]  \* ids whose body was there to execute

EmptyLog == [entries        |-> [c \in Cmd |-> NoEntry],
             by_key         |-> [k \in Key |-> {}],
             pending_commit |-> {},
             stable         |-> {},
             executed       |-> <<>>,
             applied        |-> {}]

DepsOf(l) == [c \in Cmd |-> l.entries[c].deps]

CommittedIds(l) == {c \in Cmd : l.entries[c].phase = "commit"}

\* Faulty: a dependency that is stable is looked up among the entries only.
IsDepsClosureInEntries(l, D) ==
    \E S \in SUBSET CommittedIds(l) :
        D \subseteq S /\ \A d \in S : l.entries[d].deps \subseteq S

\* Everything reachable from D is committed or stable.  The walk does not
\* go past a stable command.
IsDepsClosureCommitted(l, D) ==
    \E S \in SUBSET CommittedIds(l) :
        /\ D \subseteq S \cup l.stable
        /\ \A d \in S : l.entries[d].deps \subseteq S \cup l.stable

\* Faulty: only the direct dependencies are looked at.
DirectlyStable(l) ==
    {c \in l.pending_commit :
        l.entries[c].deps \subseteq l.pending_commit \cup l.stable}

\* The commands one pass of promote_stable moves to stable.
NewlyStable(l) ==
    {c \in l.pending_commit : IsDepsClosureCommitted(l, l.entries[c].deps)}

-----------------------------------------------------------------------------

\* An entry without a body, unless there is one: the owner creating c.
RecordCreation(l, c) ==
    IF l.entries[c].phase # "none" THEN l
    ELSE [l EXCEPT !.entries[c].phase = "pending"]

\* What submit returns: the unfinished commands on the same key.
Conflicts(l, c) ==
    IF c \in l.stable THEN {}
    ELSE {d \in l.by_key[KeyOf[c]] : l.entries[d].cmd}

\* Faulty: an entry that exists keeps what it has.
SubmitNew(l, c) ==
    IF c \in l.stable \/ l.entries[c].phase # "none" THEN l
    ELSE [RecordCreation(l, c) EXCEPT
              !.entries[c].cmd = TRUE,
              !.by_key[KeyOf[c]] = @ \cup {c}]

\* What submit does: the body of c is stored and indexed, at most once.
Submit(l, c) ==
    IF c \in l.stable \/ l.entries[c].cmd THEN l
    ELSE [RecordCreation(l, c) EXCEPT
              !.entries[c].cmd = TRUE,
              !.by_key[KeyOf[c]] = @ \cup {c}]

\* Faulty: the entry is stable at once.
MarkStable(l, c, D) ==
    [l EXCEPT !.entries[c] = [@ EXCEPT !.phase = "stable", !.deps = D],
              !.pending_commit = @ \cup {c}]

\* The entry of c takes its decided dependencies.
MarkCommitted(l, c, D) ==
    [l EXCEPT !.entries[c] = [@ EXCEPT !.phase = "commit", !.deps = D],
              !.pending_commit = @ \cup {c}]

\* Faulty: the key index keeps the commands.
PromoteKeepingIndex(l, s) ==
    LET B == Range(s) IN
    [l EXCEPT !.entries = [c \in Cmd |-> IF c \in B THEN NoEntry ELSE @[c]],
              !.pending_commit = @ \ B,
              !.stable = @ \cup B,
              !.executed = @ \o s,
              !.applied = @ \cup {c \in B : l.entries[c].cmd}]

\* The commands of the sequence s become stable: they are executed in that
\* order and leave the entries, the key index and the pending commits.
Promote(l, s) ==
    LET B == Range(s) IN
    [entries        |-> [c \in Cmd |-> IF c \in B THEN NoEntry ELSE l.entries[c]],
     by_key         |-> [k \in Key |->
                           {c \in l.by_key[k] :
                               ~(c \in B /\ l.entries[c].cmd /\ KeyOf[c] = k)}],
     pending_commit |-> l.pending_commit \ B,
     stable         |-> l.stable \cup B,
     executed       |-> l.executed \o s,
     applied        |-> l.applied \cup {c \in B : l.entries[c].cmd}]

\* Faulty: only the command just committed is considered.
CommitAlone(l, c, D) ==
    IF c \in l.stable THEN {l}
    ELSE LET m == MarkCommitted(l, c, D)
         IN  {Promote(m, s) :
                s \in ExecutionOrders(DepsOf(m), {c} \cap NewlyStable(m))}

\* The logs that commit can leave behind: one per execution order.
CommitOutcomes(l, c, D) ==
    IF c \in l.stable THEN {l}
    ELSE LET m == MarkCommitted(l, c, D)
         IN  {Promote(m, s) : s \in ExecutionOrders(DepsOf(m), NewlyStable(m))}

-----------------------------------------------------------------------------

(***************************************************************************)
(* The indexes agree with the entries: by_key lists exactly the bodies     *)
(* held, pending_commit exactly the committed entries, and a stable        *)
(* command has left no trace in either (a late request or a second commit  *)
(* must not bring it back).                                                *)
(***************************************************************************)
IndexExact(l) ==
    /\ \A k \in Key : l.by_key[k] = {c \in Cmd : l.entries[c].cmd /\ KeyOf[c] = k}
    /\ l.pending_commit = CommittedIds(l)
    /\ \A c \in Cmd : l.entries[c].phase = "none" => ~l.entries[c].cmd
    /\ \A c \in l.stable : l.entries[c].phase = "none"
    /\ Range(l.executed) = l.stable
    /\ l.applied \subseteq l.stable
=============================================================================
