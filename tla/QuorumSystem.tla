---------------------------- MODULE QuorumSystem ----------------------------
(***************************************************************************)
(* The quorum systems of crates/quorum.  A system is made of "pids", the   *)
(* sequence of the processes in the pool; a set of responders stands for   *)
(* the iterator of their distinct ids.                                     *)
(***************************************************************************)
EXTENDS Naturals, Sequences, FiniteSets, FiniteSetsExt, Functions

LOCAL Smaller(a, b) == IF a < b THEN a ELSE b

-----------------------------------------------------------------------------
\* thres.rs

Threshold(pids, f, m) == [flavor |-> "Threshold", pids |-> pids, f |-> f, m |-> m]

ThresholdSize(qs) == qs.m * ((Len(qs.pids) - 1) \div qs.f) + qs.m - 1

\* slice::sample answers with everybody when the pool is smaller.
ThresholdRandomQuorums(qs) ==
    kSubset(Smaller(ThresholdSize(qs), Len(qs.pids)), Range(qs.pids))

ThresholdIsQuorum(qs, S) == Cardinality(S) >= ThresholdSize(qs)

-----------------------------------------------------------------------------
\* grid.rs.  Rows and columns are numbered from 0.

Side(pids) == CHOOSE s \in 1 .. Len(pids) : s * s = Len(pids)

\* sqrt(3f/2 + 1) rounded up, where f = (side - 2) / 3 is not rounded: the
\* square of the width is at least half the side.
Width(side) == CHOOSE x \in 1 .. side :
                  2 * x * x >= side /\ \A y \in 1 .. x - 1 : 2 * y * y < side

WitnessGrid(pids, faults) ==
    [flavor |-> "WitnessGrid", pids |-> pids, n |-> Side(pids), x |-> Width(Side(pids)),
     consensus_committee_size |-> Smaller(3 * faults + 1, Len(pids))]

Indices(qs) == 0 .. qs.n - 1

Cell(qs, r, c) == qs.pids[r * qs.n + c + 1]

Row(qs, r) == {Cell(qs, r, c) : c \in Indices(qs)}

Column(qs, c) == {Cell(qs, r, c) : r \in Indices(qs)}

\* x random rows and x random columns.
GridRandomQuorums(qs) ==
    {UNION ({Row(qs, r) : r \in R} \cup {Column(qs, c) : c \in C}) :
        R \in kSubset(qs.x, Indices(qs)), C \in kSubset(qs.x, Indices(qs))}

GridIsQuorum(qs, S) ==
    /\ Cardinality({r \in Indices(qs) : Row(qs, r) \subseteq S}) >= qs.x
    /\ Cardinality({c \in Indices(qs) : Column(qs, c) \subseteq S}) >= qs.x

-----------------------------------------------------------------------------
\* lib.rs

NewDissemination(pids) == Threshold(pids, 3, 2)

\* For a side of 2 or more; the code subtracts 2 from it.
NewWitnessingGrid(pids) ==
    LET faults == (Side(pids) - 2) \div 3
    IN  WitnessGrid(pids, IF faults = 0 THEN 1 ELSE faults)

NewWitnessingGridWithFaults(pids, faults) == WitnessGrid(pids, faults)

RandomQuorums(qs) == IF qs.flavor = "Threshold" THEN ThresholdRandomQuorums(qs) ELSE GridRandomQuorums(qs)

CommitteeSize(qs) ==
    IF qs.flavor = "Threshold" THEN ThresholdSize(qs) ELSE qs.consensus_committee_size

IsQuorum(qs, S) ==
    IF qs.flavor = "Threshold" THEN ThresholdIsQuorum(qs, S) ELSE GridIsQuorum(qs, S)
=============================================================================
