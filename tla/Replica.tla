------------------------------ MODULE Replica ------------------------------
(***************************************************************************)
(* One row of a replicated table on every node: local writes captured by   *)
(* the triggers, and remote events resolved column by column against the   *)
(* stored field versions and the tombstone (apply.applyRow).               *)
(*                                                                         *)
(* A column's value is the version of the write it comes from.  Events may *)
(* reach a node in any order, from any node that has logged them, and more *)
(* than once.  The reads of an apply transaction see its snapshot while    *)
(* its writes meet the latest rows, so it is two steps.  The batch of a    *)
(* transaction holds one event of this row; its events of other rows do    *)
(* not interact with it.                                                   *)
(***************************************************************************)
EXTENDS Version, FiniteSets

CONSTANTS
    Node,      \* the nodes; natural numbers, as origins are compared
    Col,       \* the registered columns of the table
    Writers,   \* the nodes whose application writes
    Deleters,  \* the nodes whose application deletes
    Worker,    \* Worker[n]: the sessions and broadcast handlers that can apply at n
    Walls,     \* bound: what the wall clocks can show when a trigger runs
    MaxEvents  \* bound: local writes, on all nodes together

ASSUME ReplicaAssumption ==
    /\ Node \subseteq Nat /\ Walls \subseteq Nat /\ MaxEvents \in Nat
    /\ Writers \subseteq Node /\ Deleters \subseteq Writers
    /\ Col # {}

VARIABLES
    clock,   \* clock[n]: the stored clock the triggers stamp from
    seq,     \* seq[n]: current_seq
    log,     \* log[n]: the replication_log rows about this row
    row,     \* row[n]: the row in the business table
    fv,      \* fv[n][c]: the replication_field_version of column c
    tomb,    \* tomb[n]: the replication_tombstone of the row
    tx,      \* tx[n][w]: the open apply transaction of worker w
    overlapped \* overlapped[n]: history, the events of transactions that overlapped

vars == <<clock, seq, log, row, fv, tomb, tx, overlapped>>

\* The absence of a version: a column default, no stored version, no tombstone.
None == [hlc |-> ZeroHLC, origin |-> 0, seq |-> 0]

\* INSERT and UPDATE share field-level resolution; an INSERT carries all
\* columns, an UPDATE the changed ones, a DELETE none.
EventOf(v, C) == [ver |-> v, cols |-> C]
IsDelete(e) == e.cols = {}

Absent == [present |-> FALSE, val |-> [c \in Col |-> None]]
NoVersions == [c \in Col |-> None]
NoEvent == EventOf(None, {})
Closed == [open |-> FALSE, event |-> NoEvent, fv |-> NoVersions, tomb |-> None,
           seen |-> {}]

Init ==
    /\ clock = [n \in Node |-> ZeroHLC]
    /\ seq = [n \in Node |-> 0]
    /\ log = [n \in Node |-> {}]
    /\ row = [n \in Node |-> Absent]
    /\ fv = [n \in Node |-> NoVersions]
    /\ tomb = [n \in Node |-> None]
    /\ tx = [n \in Node |-> [w \in Worker[n] |-> Closed]]
    /\ overlapped = [n \in Node |-> {}]

-----------------------------------------------------------------------------
(* Local writes.  The triggers log the change; they leave the field        *)
(* versions and the tombstone alone.                                       *)

Written(r, e) == [present |-> TRUE,
                  val |-> [c \in Col |-> IF c \in e.cols THEN e.ver ELSE r.val[c]]]

Logged == UNION {log[n] : n \in Node}

\* The trigger of a statement that changes the columns C (none: a DELETE) and
\* leaves the row as after.
LocalEvent(n, now, C) ==
    EventOf([hlc |-> Stamp(clock[n], now), origin |-> n, seq |-> seq[n] + 1], C)

Capture(n, e, after) ==
    /\ Cardinality(Logged) < MaxEvents
    /\ seq' = [seq EXCEPT ![n] = @ + 1]
    /\ clock' = [clock EXCEPT ![n] = e.ver.hlc]
    /\ log' = [log EXCEPT ![n] = @ \cup {e}]
    /\ row' = [row EXCEPT ![n] = after]
    /\ UNCHANGED <<fv, tomb, tx, overlapped>>

Insert(n, now) ==
    LET e == LocalEvent(n, now, Col)
    IN  ~row[n].present /\ Capture(n, e, Written(Absent, e))

UpdateRow(n, now, C) ==
    LET e == LocalEvent(n, now, C)
    IN  row[n].present /\ Capture(n, e, Written(row[n], e))

Delete(n, now) ==
    row[n].present /\ Capture(n, LocalEvent(n, now, {}), Absent)

-----------------------------------------------------------------------------
(* Remote events.                                                          *)

\* The transaction starts; its first SELECT fixes what its reads will see.
BeginApply(n, w, e) ==
    /\ ~tx[n][w].open
    /\ e.ver.origin # n
    /\ tx' = [tx EXCEPT ![n][w] = [open |-> TRUE, event |-> e, fv |-> fv[n],
                                      tomb |-> tomb[n], seen |-> log[n]]]
    /\ UNCHANGED <<clock, seq, log, row, fv, tomb, overlapped>>

MutantBeats(v, stored) == TRUE    \* the last to arrive wins
Beats(v, stored) == stored = None \/ Wins(v, stored)

\* applyRow on the business row, the field versions and the tombstone.
Winners(e, t) == {c \in e.cols : Beats(e.ver, t.fv[c])}

MutantApplyDelete(n, e) ==    \* no tombstone is kept
    /\ row' = [row EXCEPT ![n] = Absent]
    /\ UNCHANGED <<fv, tomb>>

ApplyDelete(n, e) ==
    /\ row' = [row EXCEPT ![n] = Absent]
    /\ tomb' = [tomb EXCEPT ![n] = e.ver]
    /\ UNCHANGED fv

ApplyWrite(n, t, C, v) ==
    /\ row' = [row EXCEPT ![n] = Written(@, EventOf(v, C))]
    /\ fv' = [fv EXCEPT ![n] = [c \in Col |-> IF c \in C THEN v ELSE @[c]]]
    /\ tomb' = [tomb EXCEPT ![n] = IF t.tomb = None THEN @ ELSE None]

applyRow(n, t) ==
    LET e == t.event
        C == Winners(e, t)
    IN  IF ~Beats(e.ver, t.tomb) THEN UNCHANGED <<row, fv, tomb>>
        ELSE IF IsDelete(e) THEN ApplyDelete(n, e)
        ELSE IF C = {} THEN UNCHANGED <<row, fv, tomb>>
        ELSE ApplyWrite(n, t, C, e.ver)

\* Clock.Update and SaveHLC, with the in-memory clock level with the stored one
\* and the wall clock behind (module Clock has them apart).
Observe(c, e) == SaveHLC(c, Update(c, e.ver.hlc, 0))

\* The events that took part in an overlap when e commits: those that committed
\* after its transaction had taken its snapshot, and e.
Overlap(n, t) == IF log[n] = t.seen THEN {} ELSE (log[n] \ t.seen) \cup {t.event}

\* INSERT IGNORE, applyRow unless the event is a duplicate, SaveHLC, commit.
CommitApply(n, w) ==
    LET t == tx[n][w]
    IN  /\ t.open
        /\ IF t.event \in log[n] THEN UNCHANGED <<row, fv, tomb, clock, overlapped>>
           ELSE /\ applyRow(n, t)
                /\ clock' = [clock EXCEPT ![n] = Observe(@, t.event)]
                /\ overlapped' = [overlapped EXCEPT ![n] = @ \cup Overlap(n, t)]
        /\ log' = [log EXCEPT ![n] = @ \cup {t.event}]
        /\ tx' = [tx EXCEPT ![n][w] = Closed]
        /\ UNCHANGED seq

RollbackApply(n, w) ==
    /\ tx[n][w].open
    /\ tx' = [tx EXCEPT ![n][w] = Closed]
    /\ UNCHANGED <<clock, seq, log, row, fv, tomb, overlapped>>

-----------------------------------------------------------------------------
LocalStep(n) ==
    \E now \in Walls :
        \/ n \in Writers /\ Insert(n, now)
        \/ n \in Writers /\ \E C \in (SUBSET Col) \ {{}} : UpdateRow(n, now, C)
        \/ n \in Deleters /\ Delete(n, now)

ApplyStep(n) ==
    \E w \in Worker[n] :
        \/ \E e \in Logged : BeginApply(n, w, e)
        \/ CommitApply(n, w) \/ RollbackApply(n, w)

Next == \E n \in Node : LocalStep(n) \/ ApplyStep(n)

Spec == Init /\ [][Next]_vars

-----------------------------------------------------------------------------
(* Properties.                                                             *)

\* Every variable keeps to the shape of the table or the transaction it models;
\* logged events have a sequence, which tells their versions from None.
RowEvent == [ver : Version, cols : SUBSET Col]
Transaction == [open : BOOLEAN, event : RowEvent, fv : [Col -> Version],
                tomb : Version, seen : SUBSET RowEvent]
TypeOK ==
    /\ clock \in [Node -> HLC] /\ seq \in [Node -> Nat]
    /\ log \in [Node -> SUBSET {e \in RowEvent : e.ver.seq > 0}]
    /\ row \in [Node -> [present : BOOLEAN, val : [Col -> Version]]]
    /\ fv \in [Node -> [Col -> Version]]
    /\ tomb \in [Node -> Version]
    /\ DOMAIN tx = Node /\ \A n \in Node : tx[n] \in [Worker[n] -> Transaction]
    /\ overlapped \in [Node -> SUBSET RowEvent]

\* The nodes whose rows only replication changes.
Observers == Node \ Writers

\* The events n has applied in a transaction that overlapped with no other one
\* of n; of overlapping ones the last to commit decides.
Alone(n) == log[n] \ overlapped[n]

\* The versions of the writes to column c in E.
Writes(E, c) == {e.ver : e \in {x \in E : c \in x.cols}}

Undeleted(E) == \A e \in E : ~IsDelete(e)

\* "Per-field last-write-wins ... deterministic on every node regardless of
\* delivery order" (applyRow): on a node that only receives, a row that no
\* delete has reached exists once something was applied, every column holds a
\* write applied there, the one its stored version says, and it is as new as
\* every write whose transaction overlapped with no other.
NewestWins ==
    \A n \in Observers : Undeleted(log[n]) =>
        /\ row[n].present <=> log[n] # {}
        /\ \A c \in Col :
              /\ row[n].val[c] = fv[n][c]
              /\ fv[n][c] \in Writes(log[n], c) \cup {None}
              /\ \A v \in Writes(Alone(n), c) : v = fv[n][c] \/ Wins(fv[n][c], v)

\* d is the newest event in E, and a delete.
LatestDelete(E, d) ==
    IsDelete(d) /\ \A e \in E : e = d \/ Wins(d.ver, e.ver)

\* "Deletes write tombstones that beat older field writes, so offline nodes
\* cannot resurrect rows" (applyRow, SetTombstone), on the nodes that only
\* receive: when the newest event a node has applied is a delete whose
\* transaction overlapped with no other, the row is gone, in whatever order
\* older writes and deletes arrive and whatever overlaps among them.
DeletesStick ==
    \A n \in Observers : \A d \in Alone(n) : LatestDelete(log[n], d) => ~row[n].present

\* What is stored about the events E of a node, of which those in A were applied
\* alone: a field version f[c] is that of one of the writes, and as new as those
\* in A while E has no delete; a tombstone t is that of one of the deletes, and
\* of the newest event when that is a delete in A (SetFieldVersion, SetTombstone,
\* ClearTombstone).
VersionsOf(E, A, f) ==
    \A c \in Col :
        /\ f[c] \in Writes(E, c) \cup {None}
        /\ Undeleted(E) => \A v \in Writes(A, c) : v = f[c] \/ Wins(f[c], v)
TombstoneOf(E, A, t) ==
    /\ t = None \/ \E e \in E : IsDelete(e) /\ e.ver = t
    /\ \A d \in A : LatestDelete(E, d) => t = d.ver
StoredInv ==
    \A n \in Observers : /\ VersionsOf(log[n], Alone(n), fv[n])
                         /\ TombstoneOf(log[n], Alone(n), tomb[n])

\* What a transaction under way holds on to: an event somebody has logged and,
\* on an observer, a snapshot that tells of what had been applied when it was
\* taken, stale as it may be when it is used (BeginApply).
SnapshotOf(n, t) ==
    /\ t.seen \subseteq log[n]
    /\ t.seen = log[n] => t.fv = fv[n] /\ t.tomb = tomb[n]
    /\ VersionsOf(t.seen, t.seen \ overlapped[n], t.fv)
    /\ TombstoneOf(t.seen, t.seen \ overlapped[n], t.tomb)
TxInv ==
    \A n \in Node : \A w \in Worker[n] : tx[n][w].open =>
        /\ tx[n][w].event \in Logged
        /\ n \in Observers => SnapshotOf(n, tx[n][w])

\* The inductive invariant behind NewestWins and DeletesStick: what applyRow
\* keeps, whether its snapshot is current or not (BeginApply).
RowInv == TypeOK /\ TxInv /\ NewestWins /\ DeletesStick /\ StoredInv

\* "deterministic on every node regardless of delivery order" (applyRow): nodes
\* that have applied the same events show the same row, those that write too
\* (the triggers store no field versions).
AllConverge == \A m, n \in Node : log[m] = log[n] => row[m] = row[n]

\* Two receivers that no delete has reached show the same value in a column when
\* they have both applied its newest write alone (applyRow).
WritesConverge ==
    \A m, n \in Observers : \A c \in Col :
        \A v \in Writes(Alone(m), c) \cap Writes(Alone(n), c) :
            /\ Undeleted(log[m]) /\ Undeleted(log[n])
            /\ \A u \in Writes(log[m], c) \cup Writes(log[n], c) : u = v \/ Wins(v, u)
            => row[m].val[c] = row[n].val[c]
=============================================================================
