-------------------------- MODULE ConflictTracker --------------------------
(***************************************************************************)
(* struct ConflictTracker (crates/blsmr/src/log.rs), beside the protocol:  *)
(* one record for all replicas of a simulation.  process.rs reports the    *)
(* commands that arrive, log.rs those that are executed; a command counts  *)
(* as conflicting when, at its first execution anywhere, another command   *)
(* on its key has arrived and is not executed everywhere.  The paths and   *)
(* decisions it also records are paths and decidedDeps of BLSMR.           *)
(***************************************************************************)
EXTENDS BLSMR

VARIABLE tracker

trackedVars == <<vars, tracker>>

\* struct ConflictTracker; the executors of a command that is not tracked
\* are left empty.  conflicting is a history: which commands the counter
\* conflicting_commands has counted.
Tracker == [commands             : SUBSET Cmd,
            executors            : [Cmd -> SUBSET Replica],
            conflicting_commands : Nat,
            conflicting          : SUBSET Cmd,
            executed_commands    : Nat]

NewTracker == [commands             |-> {},
               executors            |-> [c \in Cmd |-> {}],
               conflicting_commands |-> 0,
               conflicting          |-> {},
               executed_commands    |-> 0]

\* fn record_arrival: or_insert_with keeps an entry that is there.
RecordArrival(t, c) == [t EXCEPT !.commands = @ \cup {c}]

\* Faulty: only commands whose execution has begun somewhere.
ConflictingBegun(t, c) ==
    \E d \in t.commands \ {c} : KeyOf[d] = KeyOf[c] /\ t.executors[d] # {}

\* Another command on the key of c is tracked.  (The code also asks that
\* it has fewer executors than replicas; one with as many is not tracked.)
Conflicting(t, c) == \E d \in t.commands \ {c} : KeyOf[d] = KeyOf[c]

\* Faulty: the entry is never removed.
NeverDone(E) == FALSE

Done(E) == Cardinality(E) = Cardinality(Replica)

\* The first execution of c is counted.
Count(t, c) ==
    IF t.executors[c] # {} THEN t
    ELSE [t EXCEPT !.executed_commands = @ + 1,
                   !.conflicting_commands = @ + (IF Conflicting(t, c) THEN 1 ELSE 0),
                   !.conflicting = @ \cup (IF Conflicting(t, c) THEN {c} ELSE {})]

\* fn record_execution
RecordExecution(t, p, c) ==
    LET E == t.executors[c] \cup {p} IN
    IF Done(E)
    THEN [Count(t, c) EXCEPT !.commands = @ \ {c}, !.executors[c] = {}]
    ELSE [Count(t, c) EXCEPT !.commands = @ \cup {c}, !.executors[c] = E]

-----------------------------------------------------------------------------

\* try_execute goes through what it executes, the elements of s after the
\* first done, and reports a command to record_execution if it has the body.
Recorded(t, p, s, done, bodies) ==
    LET after[i \in done .. Len(s)] ==
            IF i = done THEN t
            ELSE IF s[i] \in bodies THEN RecordExecution(after[i - 1], p, s[i])
            ELSE after[i - 1]
    IN  after[Len(s)]

RecordExecutions(p) ==
    tracker' = Recorded(tracker, p, log'[p].executed, Len(log[p].executed), log'[p].applied)

TrackedInit == Init /\ tracker = NewTracker

\* on_timer: the submit timer reports the new command before it announces it.
TrackedAnnounce(c) == Announce(c) /\ tracker' = RecordArrival(tracker, c)

TrackedForceTimer(c) == OnForceTimer(c) /\ RecordExecutions(Owner[c])

\* on_message: a request is reported before it is handled.
TrackedReceive(m) ==
    /\ Receive(m)
    /\ \/ m.type = "Req" /\ tracker' = RecordArrival(tracker, m.cmd)
       \/ m.type # "Req" /\ RecordExecutions(m.dst)

TrackedNext ==
    \/ \E c \in Cmd : TrackedAnnounce(c) \/ TrackedForceTimer(c)
    \/ \E m \in msgs : TrackedReceive(m)

TrackedSpec == TrackedInit /\ [][TrackedNext]_trackedVars

-----------------------------------------------------------------------------

AppliedAt(c) == {p \in Replica : c \in log[p].applied}

(***************************************************************************)
(* The tracker follows the logs: it keeps exactly the commands that some   *)
(* replica has still to execute, and has counted every executed command    *)
(* once, as conflicting at most once.  A request that is handled after the *)
(* command was executed everywhere would bring the entry back for ever, a  *)
(* second "first execution" would count it again.                          *)
(***************************************************************************)
TrackerExact ==
    /\ tracker \in Tracker
    /\ tracker.commands = {c \in submitted : AppliedAt(c) # Replica}
    /\ \A c \in tracker.commands : tracker.executors[c] = AppliedAt(c)
    /\ tracker.executed_commands = Cardinality({c \in Cmd : AppliedAt(c) # {}})
    /\ tracker.conflicting_commands = Cardinality(tracker.conflicting)
    /\ \A c \in tracker.conflicting : AppliedAt(c) # {}

\* c depends on another command, directly or not, that depends on c in turn.
InCycle(c) == \E d \in Cmd \ {c} : Reaches(decidedDeps, Cmd, c, d) /\ Reaches(decidedDeps, Cmd, d, c)

(***************************************************************************)
(* The conflict rate misses no conflict that only the order of ids could   *)
(* resolve.  The commands of a cycle, of any length, are executed in one   *)
(* batch wherever one of them is executed first; so each of them finds     *)
(* another in the tracker and counts as conflicting.                       *)
(***************************************************************************)
CyclesCounted ==
    \A c \in Cmd : AppliedAt(c) # {} /\ InCycle(c) => c \in tracker.conflicting

(***************************************************************************)
(* When everything is quiet the tracker is empty: no command makes later   *)
(* ones on its key count as conflicting for ever.  This asks that every    *)
(* replica gets the body of every command before it executes it.           *)
(***************************************************************************)
TrackerDrained == msgs = {} /\ timers = {} => tracker.commands = {}
=============================================================================
