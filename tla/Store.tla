------------------------------- MODULE Store -------------------------------
(***************************************************************************)
(* The data a mariamesh node keeps in its replication_* tables, and the    *)
(* queries and computations over them that the session, the broadcaster,   *)
(* the applier and the collector share (internal/store, internal/changelog,*)
(* internal/gc).  No state here: only operators over table contents.       *)
(*                                                                         *)
(* An origin is a node in one incarnation.  Every node keeps one           *)
(* incarnation in this module, so the origins are the nodes themselves.    *)
(* Nodes are natural numbers because vectors are walked in the order of    *)
(* their origin keys.                                                      *)
(***************************************************************************)
EXTENDS Integers, FiniteSets, FiniteSetsExt

CONSTANTS
    Node,      \* the nodes, each the origin of its own writes
    MaxSeq     \* bound: no origin writes more than MaxSeq events

ASSUME NodeAssumption == Node \subseteq Nat
ASSUME MaxSeqAssumption == MaxSeq \in Nat

Seqs == 1 .. MaxSeq

\* A replication_log row is identified by (origin, origin_seq); what it says
\* about the row it changes is abstracted (module Replica is about that).
Event == Node \X Seqs

\* changelog.Vector: absent keys read 0.
Vector == [Node -> 0 .. MaxSeq]

\* The contiguous_seq of a replication_progress row, NoRow when there is none.
\* SetProgress is GREATEST(stored, new): with NoRow below every sequence, the
\* insert of a missing row and the update of a stored one are both a maximum.
NoRow == -1
Cursor == NoRow .. MaxSeq
Larger(a, b) == IF a >= b THEN a ELSE b
MutantSetProgress(stored, new) == new   \* no GREATEST: the last writer wins
SetProgress(stored, new) == Larger(stored, new)

\* A progress row read into a Vector.
ReadCursor(c) == IF c = NoRow THEN 0 ELSE c

\* GetProgress plus current_seq for the local origin.
LocalVector(self, rows, current) ==
    [o \in Node |-> IF o = self THEN current ELSE ReadCursor(rows[o])]

\* The scan of AdvanceContiguous: from the cursor forward to the first
\* sequence of the origin that the log does not hold.
MutantPastGap(events, origin, cursor) ==       \* one past the last present
    Min({k \in cursor .. MaxSeq : <<origin, k + 1>> \notin events}) + 1
MutantSkipsGaps(events, origin, cursor) ==     \* the highest present
    Max({cursor} \cup {k \in cursor .. MaxSeq : <<origin, k>> \in events})
FirstGap(events, origin, cursor) ==
    Min({k \in cursor .. MaxSeq : <<origin, k + 1>> \notin events})

\* A requested interval of one origin, and the intervals want has over have.
RangeReq == [origin : Node, from : Seqs, to : Seqs]

MutantMissing(have, want) ==                   \* from is one too high
    {[origin |-> o, from |-> have[o] + 2, to |-> want[o]] :
        o \in {p \in Node : want[p] > have[p] + 1}}
Missing(have, want) ==
    {[origin |-> o, from |-> have[o] + 1, to |-> want[o]] :
        o \in {p \in Node : want[p] > have[p]}}

\* The SELECT of FetchRange: the first max rows of the origin in from..to that
\* are in the log, in ascending order.  Rows that are absent are skipped
\* silently.  The byte budget only shortens the prefix and is not modelled.
FetchRange(events, origin, from, to, max) ==
    LET present == {e \in events : e[1] = origin /\ e[2] \in from .. to}
    IN  {e \in present : Cardinality({f \in present : f[2] <= e[2]}) <= max}

\* gc.Watermarks over the replication_progress rows of one node.  Only the
\* receivers that are ACTIVE and have at least one row take part; with none,
\* nothing may be deleted.  changelog.Min reads an absent cursor as 0.
Receivers(rows, active) ==
    {r \in active : \E o \in Node : rows[r][o] # NoRow}

Watermarks(rows, active) ==
    [o \in Node |->
        IF Receivers(rows, active) = {} THEN 0
        ELSE Min({ReadCursor(rows[r][o]) : r \in Receivers(rows, active)})]

\* DELETE ... origin_seq <= through LIMIT limit, in primary-key order.
DeletedRows(events, origin, through, limit) ==
    FetchRange(events, origin, 1, through, limit)
=============================================================================
