---------------------------- MODULE ReplicaProofs ----------------------------
(***************************************************************************)
(* Conflict resolution on the nodes that only receive, for any number of   *)
(* nodes, columns, writes, delivery orders and apply transactions at once: *)
(* of a row no delete has reached every column is as new as each write     *)
(* whose transaction overlapped with no other, and a newest delete applied *)
(* like that is not undone.                                                *)
(***************************************************************************)
EXTENDS Replica, TLAPS

-----------------------------------------------------------------------------
(* Versions.                                                               *)

\* After is a strict total order on timestamps (hlc.go, After and Equal).
LEMMA AfterOrder ==
    /\ \A a, b \in HLC : a = b \/ After(a, b) \/ After(b, a)
    /\ \A a, b \in HLC : After(a, b) => ~After(b, a) /\ a # b
    /\ \A a, b, c \in HLC : After(a, b) /\ After(b, c) => After(a, c)
BY DEF After, HLC

\* Wins is a strict total order on versions (conflict.Compare): any two nodes
\* agree on the winner of any two writes.
LEMMA WinsOrder ==
    /\ \A a, b \in Version : a = b \/ Wins(a, b) \/ Wins(b, a)
    /\ \A a, b \in Version : Wins(a, b) => ~Wins(b, a)
    /\ \A a, b, c \in Version : Wins(a, b) /\ Wins(b, c) => Wins(a, c)
<1>1. \A a \in Version : a.hlc \in HLC /\ a.origin \in Nat /\ a.seq \in Nat
                         /\ a = [hlc |-> a.hlc, origin |-> a.origin, seq |-> a.seq]
    BY DEF Version
<1>2. ASSUME NEW a \in Version, NEW b \in Version
      PROVE  a = b \/ Wins(a, b) \/ Wins(b, a)
    BY <1>1, AfterOrder DEF Wins
<1>3. ASSUME NEW a \in Version, NEW b \in Version, Wins(a, b)
      PROVE  ~Wins(b, a)
    BY <1>1, <1>3, AfterOrder DEF Wins
<1>4. ASSUME NEW a \in Version, NEW b \in Version, NEW c \in Version,
             Wins(a, b), Wins(b, c)
      PROVE  Wins(a, c)
    BY <1>1, <1>4, AfterOrder DEF Wins
<1> QED
    BY <1>2, <1>3, <1>4

\* The absence of a version wins over nothing that was written.
LEMMA NoneLoses ==
    /\ None \in Version
    /\ \A v \in Version : ~Wins(None, v)
    /\ \A v \in Version : v.seq > 0 => v # None
BY DEF None, Version, HLC, ZeroHLC, Wins, After

\* What the triggers stamp and what SaveHLC stores are timestamps.
LEMMA ClockTypes ==
    /\ \A h \in HLC : \A now \in Nat : Stamp(h, now) \in HLC
    /\ \A h \in HLC : \A e \in RowEvent : Observe(h, e) \in HLC
<1>1. \A g, h \in HLC : Update(g, h, 0) \in HLC
    BY DEF Update, HLC
<1>2. \A g, h \in HLC : SaveHLC(g, h) \in HLC
    BY DEF SaveHLC, HLC
<1>3. \A h \in HLC : \A now \in Nat : Stamp(h, now) \in HLC
    BY DEF Stamp, HLC
<1>4. \A e \in RowEvent : e.ver.hlc \in HLC
    BY DEF RowEvent, Version
<1> QED
    BY <1>1, <1>2, <1>3, <1>4 DEF Observe

-----------------------------------------------------------------------------
(* The two kinds of step.                                                  *)

\* What the row of a node can be.
Row == [present : BOOLEAN, val : [Col -> Version]]

\* A local statement on n logs one event of n: a delete only where the
\* application deletes.
Local(n) ==
    \E e \in RowEvent, after \in Row :
        /\ e.ver.seq > 0
        /\ IsDelete(e) => n \in Deleters
        /\ Capture(n, e, after)

LEMMA LocalSteps ==
    ASSUME TypeOK, NEW n \in Node, LocalStep(n)
    PROVE  n \in Writers /\ Local(n)
<1>1. PICK now \in Walls :
        \/ n \in Writers /\ Insert(n, now)
        \/ n \in Writers /\ \E C \in (SUBSET Col) \ {{}} : UpdateRow(n, now, C)
        \/ n \in Deleters /\ Delete(n, now)
    BY DEF LocalStep
<1>2. n \in Writers
    BY <1>1, ReplicaAssumption
<1>3. n \in Nat /\ now \in Nat /\ clock[n] \in HLC /\ seq[n] \in Nat /\ row[n] \in Row
    BY ReplicaAssumption DEF TypeOK, Row
<1>4. ASSUME NEW C \in SUBSET Col
      PROVE  /\ LocalEvent(n, now, C) \in RowEvent
             /\ LocalEvent(n, now, C).ver.seq > 0
             /\ LocalEvent(n, now, C).cols = C
    BY <1>3, ClockTypes DEF LocalEvent, EventOf, RowEvent, Version
<1>5. Absent \in Row
    BY NoneLoses DEF Absent, Row
<1>6. ASSUME NEW r \in Row, NEW e \in RowEvent PROVE Written(r, e) \in Row
    BY DEF Written, RowEvent, Row
<1>7. ASSUME NEW e \in RowEvent, NEW after \in Row, e.ver.seq > 0,
             IsDelete(e) => n \in Deleters, Capture(n, e, after)
      PROVE  Local(n)
    BY <1>7 DEF Local
<1>8. ASSUME Insert(n, now) PROVE Local(n)
    <2> DEFINE e == LocalEvent(n, now, Col)
    <2>1. e \in RowEvent /\ e.ver.seq > 0 /\ ~IsDelete(e)
        BY <1>4, ReplicaAssumption DEF IsDelete
    <2>2. Capture(n, e, Written(Absent, e))
        BY <1>8 DEF Insert
    <2> QED
        BY <1>5, <1>6, <1>7, <2>1, <2>2
<1>9. ASSUME NEW C \in (SUBSET Col) \ {{}}, UpdateRow(n, now, C) PROVE Local(n)
    <2> DEFINE e == LocalEvent(n, now, C)
    <2>1. e \in RowEvent /\ e.ver.seq > 0 /\ ~IsDelete(e)
        BY <1>4 DEF IsDelete
    <2>2. Capture(n, e, Written(row[n], e))
        BY <1>9 DEF UpdateRow
    <2> QED
        BY <1>3, <1>6, <1>7, <2>1, <2>2
<1>10. ASSUME n \in Deleters, Delete(n, now) PROVE Local(n)
    <2> DEFINE e == LocalEvent(n, now, {})
    <2>1. e \in RowEvent /\ e.ver.seq > 0
        BY <1>4
    <2>2. Capture(n, e, Absent)
        BY <1>10 DEF Delete
    <2> QED
        BY <1>5, <1>7, <1>10, <2>1, <2>2
<1> QED
    BY <1>1, <1>2, <1>8, <1>9, <1>10

\* A case split on the steps that proofs below share.
LEMMA Steps ==
    ASSUME TypeOK, [Next]_vars
    PROVE  \/ UNCHANGED vars
           \/ \E n \in Writers : n \in Node /\ Local(n)
           \/ \E n \in Node : \E w \in Worker[n] : \E e \in Logged : BeginApply(n, w, e)
           \/ \E n \in Node : \E w \in Worker[n] : CommitApply(n, w)
           \/ \E n \in Node : \E w \in Worker[n] : RollbackApply(n, w)
<1>1. CASE UNCHANGED vars
    BY <1>1
<1>2. CASE \E n \in Node : LocalStep(n)
    BY <1>2, LocalSteps
<1>3. CASE \E n \in Node : ApplyStep(n)
    BY <1>3 DEF ApplyStep
<1> QED
    BY <1>1, <1>2, <1>3 DEF Next

-----------------------------------------------------------------------------
(* Types and transactions.                                                 *)

LoggedEvent == {e \in RowEvent : e.ver.seq > 0}

\* What CommitApply(n, w) leaves of the row, the field versions and the
\* tombstone of n has the right type, and nothing of other nodes changes.
LEMMA CommitTypes ==
    ASSUME TypeOK, NEW n \in Node, NEW w \in Worker[n], CommitApply(n, w)
    PROVE  /\ row' \in [Node -> Row] /\ fv' \in [Node -> [Col -> Version]]
           /\ tomb' \in [Node -> Version]
           /\ \A m \in Node \ {n} : row'[m] = row[m] /\ fv'[m] = fv[m] /\ tomb'[m] = tomb[m]
<1> DEFINE t == tx[n][w]
<1>1. /\ row \in [Node -> Row] /\ fv \in [Node -> [Col -> Version]]
      /\ tomb \in [Node -> Version] /\ t.event \in RowEvent /\ t.event.ver \in Version
    BY DEF TypeOK, Row, RowEvent, Transaction
<1>2. CASE UNCHANGED <<row, fv, tomb>>
    BY <1>1, <1>2
<1>3. CASE ApplyDelete(n, t.event)
    BY <1>1, <1>3, NoneLoses DEF ApplyDelete, Absent, Row
<1>4. ASSUME NEW C \in SUBSET Col, ApplyWrite(n, t, C, t.event.ver)
      PROVE  /\ row' \in [Node -> Row] /\ fv' \in [Node -> [Col -> Version]]
             /\ tomb' \in [Node -> Version]
             /\ \A m \in Node \ {n} : row'[m] = row[m] /\ fv'[m] = fv[m] /\ tomb'[m] = tomb[m]
    <2>1. Written(row[n], EventOf(t.event.ver, C)) \in Row
        BY <1>1 DEF Written, EventOf, Row
    <2> QED
        BY <1>1, <1>4, <2>1, NoneLoses DEF ApplyWrite
<1>5. Winners(t.event, t) \in SUBSET Col
    BY <1>1 DEF Winners, RowEvent
<1> QED
    BY <1>2, <1>3, <1>4, <1>5 DEF CommitApply, applyRow

\* A transaction's types.
LEMMA ClosedType == Closed \in Transaction
BY NoneLoses DEF Closed, NoEvent, EventOf, NoVersions, RowEvent, Transaction

\* The first half of TxInv.
TxLogged ==
    \A n \in Node : \A w \in Worker[n] : tx[n][w].open => tx[n][w].event \in Logged

\* Types and the events of transactions are preserved together: what a
\* transaction logs has a sequence because somebody has logged it before.
LEMMA TypeStep ==
    ASSUME TypeOK, TxLogged, [Next]_vars
    PROVE  TypeOK' /\ TxLogged'
<1>1. log \in [Node -> SUBSET LoggedEvent] /\ Logged \subseteq LoggedEvent
    BY DEF TypeOK, LoggedEvent, Logged
<1>2. CASE UNCHANGED vars
    BY <1>2 DEF vars, TypeOK, TxLogged, Logged
<1>3. ASSUME NEW n \in Node, n \in Writers, Local(n)
      PROVE  TypeOK' /\ TxLogged'
    <2>1. PICK e \in RowEvent, after \in Row : e.ver.seq > 0 /\ Capture(n, e, after)
        BY <1>3 DEF Local
    <2>2. e.ver.hlc \in HLC
        BY DEF RowEvent, Version
    <2>3. TypeOK'
        BY <2>1, <2>2 DEF TypeOK, Capture, Row
    <2>4. Logged \subseteq Logged'
        BY <1>1, <2>1 DEF Capture, Logged
    <2>5. TxLogged'
        BY <2>1, <2>4 DEF TxLogged, Capture
    <2> QED
        BY <2>3, <2>5
<1>4. ASSUME NEW n \in Node, NEW w \in Worker[n], NEW e \in Logged, BeginApply(n, w, e)
      PROVE  TypeOK' /\ TxLogged'
    <2> DEFINE t == [open |-> TRUE, event |-> e, fv |-> fv[n], tomb |-> tomb[n], seen |-> log[n]]
    <2>1. t \in Transaction
        BY <1>1 DEF LoggedEvent, Transaction, TypeOK
    <2>2. tx' = [tx EXCEPT ![n][w] = t] /\ UNCHANGED <<clock, seq, log, row, fv, tomb, overlapped>>
        BY <1>4 DEF BeginApply
    <2>3. DOMAIN tx' = Node /\ \A m \in Node : tx'[m] \in [Worker[m] -> Transaction]
        BY <2>1, <2>2 DEF TypeOK
    <2>4. TypeOK'
        BY <2>2, <2>3 DEF TypeOK
    <2>5. Logged' = Logged /\ t.event = e
        BY <2>2 DEF Logged
    <2>6. \A m \in Node : \A v \in Worker[m] : tx'[m][v] = tx[m][v] \/ tx'[m][v] = t
        BY <2>2 DEF TypeOK
    <2> QED
        BY <2>4, <2>5, <2>6 DEF TxLogged
<1>5. ASSUME NEW n \in Node, NEW w \in Worker[n], CommitApply(n, w)
      PROVE  TypeOK' /\ TxLogged'
    <2> DEFINE t == tx[n][w]
    <2>1. t.event \in Logged /\ t.event \in LoggedEvent /\ t.event \in RowEvent
        BY <1>1, <1>5 DEF TxLogged, CommitApply, LoggedEvent
    <2>2. Observe(clock[n], t.event) \in HLC
        BY <2>1, ClockTypes DEF TypeOK
    <2>3. Overlap(n, t) \in SUBSET RowEvent
        BY <2>1 DEF TypeOK, Overlap
    <2>4. /\ log' = [log EXCEPT ![n] = @ \cup {t.event}]
          /\ tx' = [tx EXCEPT ![n][w] = Closed]
          /\ UNCHANGED seq
        BY <1>5 DEF CommitApply
    <2>5. clock' \in [Node -> HLC] /\ overlapped' \in [Node -> SUBSET RowEvent]
        <3>1. CASE t.event \in log[n]
            BY <1>5, <3>1 DEF CommitApply, TypeOK
        <3>2. CASE t.event \notin log[n]
            <4>1. /\ clock' = [clock EXCEPT ![n] = Observe(@, t.event)]
                  /\ overlapped' = [overlapped EXCEPT ![n] = @ \cup Overlap(n, t)]
                BY <1>5, <3>2 DEF CommitApply
            <4> HIDE DEF t
            <4> QED
                BY <2>2, <2>3, <4>1 DEF TypeOK
        <3> QED
            BY <3>1, <3>2
    <2>6. log' \in [Node -> SUBSET LoggedEvent]
        BY <1>1, <2>1, <2>4
    <2>7. DOMAIN tx' = Node /\ \A m \in Node : tx'[m] \in [Worker[m] -> Transaction]
        BY <2>4, ClosedType DEF TypeOK
    <2>8. TypeOK'
        BY <1>5, <2>4, <2>5, <2>6, <2>7, CommitTypes DEF TypeOK, LoggedEvent, Row
    <2>9. Logged \subseteq Logged'
        BY <1>1, <2>4 DEF Logged
    <2>10. \A m \in Node : \A v \in Worker[m] : tx'[m][v].open => tx'[m][v] = tx[m][v]
        BY <2>4 DEF TypeOK, Closed
    <2> QED
        BY <2>8, <2>9, <2>10 DEF TxLogged
<1>6. ASSUME NEW n \in Node, NEW w \in Worker[n], RollbackApply(n, w)
      PROVE  TypeOK' /\ TxLogged'
    <2>1. /\ tx' = [tx EXCEPT ![n][w] = Closed]
          /\ UNCHANGED <<clock, seq, log, row, fv, tomb, overlapped>>
        BY <1>6 DEF RollbackApply
    <2>2. DOMAIN tx' = Node /\ \A m \in Node : tx'[m] \in [Worker[m] -> Transaction]
        BY <2>1, ClosedType DEF TypeOK
    <2>3. TypeOK'
        BY <2>1, <2>2 DEF TypeOK
    <2>4. Logged' = Logged
        BY <2>1 DEF Logged
    <2>5. \A m \in Node : \A v \in Worker[m] : tx'[m][v].open => tx'[m][v] = tx[m][v]
        BY <2>1 DEF TypeOK, Closed
    <2> QED
        BY <2>3, <2>4, <2>5 DEF TxLogged
<1> QED
    BY <1>2, <1>3, <1>4, <1>5, <1>6, Steps

-----------------------------------------------------------------------------
(* A commit at an observer.                                                *)

\* NewestWins, DeletesStick and StoredInv for one node.
NodeInv(n) ==
    /\ VersionsOf(log[n], Alone(n), fv[n])
    /\ TombstoneOf(log[n], Alone(n), tomb[n])
    /\ \A d \in Alone(n) : LatestDelete(log[n], d) => ~row[n].present
    /\ Undeleted(log[n]) => /\ row[n].present <=> log[n] # {}
                            /\ \A c \in Col : row[n].val[c] = fv[n][c]

LEMMA ByNode ==
    (NewestWins /\ DeletesStick /\ StoredInv) <=> \A n \in Observers : NodeInv(n)
<1>1. ASSUME \A n \in Observers : NodeInv(n)
      PROVE  NewestWins /\ DeletesStick /\ StoredInv
    BY <1>1 DEF NewestWins, DeletesStick, StoredInv, NodeInv, VersionsOf
<1>2. ASSUME NewestWins, DeletesStick, StoredInv
      PROVE  \A n \in Observers : NodeInv(n)
    BY <1>2 DEF NewestWins, DeletesStick, StoredInv, NodeInv
<1> QED
    BY <1>1, <1>2

\* What a transaction t of n may rely on when it commits the event e: an event
\* that stays alone was in its snapshot, unless it is e itself, and then the
\* snapshot is current.
Fresh(n, t, e) ==
    /\ e \in LoggedEvent /\ e \notin log[n] /\ log'[n] = log[n] \cup {e}
    /\ t.seen \subseteq log[n]
    /\ \A x \in Alone(n)' : x = e \/ (x \in Alone(n) /\ x \in t.seen \ overlapped[n])
    /\ e \in Alone(n)' => t.fv = fv[n] /\ t.tomb = tomb[n]
    /\ t.event = e /\ applyRow(n, t)

LEMMA FreshCommit ==
    ASSUME TypeOK, TxInv, NEW n \in Observers, NEW w \in Worker[n], CommitApply(n, w),
           tx[n][w].event \notin log[n]
    PROVE  Fresh(n, tx[n][w], tx[n][w].event)
<1> DEFINE t == tx[n][w]
           e == t.event
<1>1. n \in Node /\ t.open /\ e \in Logged /\ SnapshotOf(n, t)
    BY DEF Observers, CommitApply, TxInv
<1>2. e \in LoggedEvent
    BY <1>1 DEF TypeOK, Logged, LoggedEvent
<1>3. /\ log' = [log EXCEPT ![n] = @ \cup {e}]
      /\ overlapped' = [overlapped EXCEPT ![n] = @ \cup Overlap(n, t)]
      /\ applyRow(n, t)
    BY DEF CommitApply
<1>4. log'[n] = log[n] \cup {e} /\ overlapped'[n] = overlapped[n] \cup Overlap(n, t)
    BY <1>1, <1>3 DEF TypeOK
<1>5. t.seen \subseteq log[n]
    BY <1>1 DEF SnapshotOf
<1>6. \A x \in Alone(n)' : x = e \/ (x \in Alone(n) /\ x \in t.seen \ overlapped[n])
    BY <1>4 DEF Alone, Overlap
<1>7. e \in Alone(n)' => t.fv = fv[n] /\ t.tomb = tomb[n]
    BY <1>1, <1>4 DEF Alone, Overlap, SnapshotOf
<1> QED
    BY <1>2, <1>3, <1>4, <1>5, <1>6, <1>7 DEF Fresh

-----------------------------------------------------------------------------
(* The newest write wins.                                                  *)

\* f is as new as every version in W; the next lemma is field-level resolution.
Newest(f, W) == \A v \in W : v = f \/ Wins(f, v)

LEMMA Resolution ==
    ASSUME NEW W \in SUBSET {v \in Version : v.seq > 0}, NEW f \in Version,
           Newest(f, W), NEW v \in Version, v.seq > 0
    PROVE  /\ Beats(v, f) => Newest(v, W \cup {v})
           /\ ~Beats(v, f) => Newest(f, W \cup {v}) /\ f # None
<1>1. ASSUME Beats(v, f) PROVE Newest(v, W \cup {v})
    <2>1. ASSUME NEW u \in W PROVE u = v \/ Wins(v, u)
        <3>1. u \in Version /\ u # None
            BY NoneLoses
        <3>2. u = f \/ Wins(f, u)
            BY DEF Newest
        <3>3. f # None
            BY <3>1, <3>2, NoneLoses
        <3> QED
            BY <1>1, <3>1, <3>2, <3>3, WinsOrder DEF Beats
    <2> QED
        BY <2>1 DEF Newest
<1>2. ASSUME ~Beats(v, f) PROVE Newest(f, W \cup {v}) /\ f # None
    BY <1>2, WinsOrder DEF Newest, Beats
<1> QED
    BY <1>1, <1>2

LEMMA WritesTypes ==
    ASSUME NEW E \in SUBSET LoggedEvent, NEW c \in Col
    PROVE  Writes(E, c) \in SUBSET {v \in Version : v.seq > 0}
BY DEF Writes, RowEvent, LoggedEvent

\* Applying an event at an observer keeps what its field versions tell, although
\* the snapshot they are compared with may be stale; and an undeleted row stays
\* in step with them.
LEMMA NewestApply ==
    ASSUME TypeOK, NEW n \in Observers, NodeInv(n),
           NEW w \in Worker[n], NEW e, SnapshotOf(n, tx[n][w]), Fresh(n, tx[n][w], e)
    PROVE  /\ VersionsOf(log[n], Alone(n), fv[n])'
           /\ Undeleted(log'[n]) => /\ row'[n].present
                                    /\ \A c \in Col : row'[n].val[c] = fv'[n][c]
<1> DEFINE t == tx[n][w]
           C == Winners(e, t)
           B == t.seen \ overlapped[n]
<1>1. /\ n \in Node /\ e \in LoggedEvent /\ e.ver \in Version /\ e.ver.seq > 0
      /\ e.cols \in SUBSET Col /\ e \notin log[n] /\ log'[n] = log[n] \cup {e}
      /\ t.seen \subseteq log[n] /\ t.event = e /\ applyRow(n, t)
    BY DEF Observers, Fresh, LoggedEvent, RowEvent
<1>2. log[n] \in SUBSET LoggedEvent /\ B \in SUBSET LoggedEvent /\ Alone(n) \in SUBSET LoggedEvent
    BY <1>1 DEF TypeOK, LoggedEvent, Alone
<1>3. t \in Transaction /\ t.fv \in [Col -> Version] /\ fv[n] \in [Col -> Version]
      /\ row[n] \in Row /\ tomb[n] \in Version
    BY <1>1 DEF TypeOK, Transaction, Row
<1>4. C \subseteq e.cols /\ \A c \in e.cols : c \in C <=> Beats(e.ver, t.fv[c])
    BY DEF Winners
<1>5. ASSUME NEW c \in Col
      PROVE  /\ c \in e.cols => Writes(log'[n], c) = Writes(log[n], c) \cup {e.ver}
             /\ c \notin e.cols => Writes(log'[n], c) = Writes(log[n], c)
    BY <1>1 DEF Writes
<1>6. \A c \in Col : fv'[n][c] = fv[n][c] \/ (c \in C /\ fv'[n][c] = e.ver)
    <2>1. UNCHANGED fv \/ ApplyWrite(n, t, C, e.ver)
        BY <1>1 DEF applyRow, ApplyDelete
    <2> HIDE DEF C, t
    <2>2. CASE ApplyWrite(n, t, C, e.ver)
        BY <1>1, <1>3, <2>2 DEF ApplyWrite, TypeOK
    <2> QED
        BY <2>1, <2>2
<1>7. \A c \in Col : fv'[n][c] \in Writes(log'[n], c) \cup {None}
    <2> SUFFICES ASSUME NEW c \in Col PROVE fv'[n][c] \in Writes(log'[n], c) \cup {None}
        OBVIOUS
    <2>1. fv[n][c] \in Writes(log[n], c) \cup {None}
        BY DEF NodeInv, VersionsOf
    <2> QED
        BY <1>4, <1>5, <1>6, <2>1
<1>8. ASSUME Undeleted(log'[n])
      PROVE  /\ row'[n].present
             /\ \A c \in Col : /\ row'[n].val[c] = fv'[n][c]
                               /\ Newest(fv'[n][c], Writes(Alone(n)', c))
    <2>1. Undeleted(log[n]) /\ Undeleted(t.seen) /\ ~IsDelete(e) /\ e.cols # {}
        BY <1>1, <1>8 DEF Undeleted, IsDelete
    <2>2. t.tomb = None
        BY <2>1 DEF SnapshotOf, TombstoneOf, Undeleted
    <2>3. /\ C = {} => UNCHANGED <<row, fv, tomb>>
          /\ C # {} => ApplyWrite(n, t, C, e.ver)
        BY <1>1, <2>1, <2>2 DEF applyRow, Beats
    <2>4. \A c \in Col : /\ fv'[n][c] = IF c \in C THEN e.ver ELSE fv[n][c]
                         /\ row'[n].val[c] = IF c \in C THEN e.ver ELSE row[n].val[c]
        <3>1. CASE C = {}
            BY <2>3, <3>1
        <3>2. CASE C # {}
            BY <1>1, <1>3, <2>3, <3>2 DEF ApplyWrite, Written, EventOf, TypeOK, Row
        <3> QED
            BY <3>1, <3>2
    <2>5. row'[n].present
        <3>1. CASE C # {}
            BY <1>1, <2>3, <3>1 DEF ApplyWrite, Written, TypeOK
        <3>2. CASE C = {}
            <4>1. PICK c \in e.cols : ~Beats(e.ver, t.fv[c])
                BY <1>4, <2>1, <3>2
            <4>2. t.fv[c] # None /\ c \in Col
                BY <1>1, <4>1 DEF Beats
            <4>3. t.fv[c] \in Writes(t.seen, c)
                BY <4>2 DEF SnapshotOf, VersionsOf
            <4>4. log[n] # {}
                BY <1>1, <4>3 DEF Writes
            <4> QED
                BY <2>1, <2>3, <3>2, <4>4 DEF NodeInv
        <3> QED
            BY <3>1, <3>2
    <2>6. ASSUME NEW c \in Col PROVE row'[n].val[c] = fv'[n][c]
        BY <2>1, <2>4 DEF NodeInv
    <2>7. ASSUME NEW c \in Col PROVE Newest(fv'[n][c], Writes(Alone(n)', c))
        <3> DEFINE W == Writes(Alone(n), c)
                   X == Writes(B, c)
        <3>1. Newest(fv[n][c], W) /\ fv[n][c] \in Version /\ W \in SUBSET {v \in Version : v.seq > 0}
            BY <1>2, <1>3, <2>1, WritesTypes DEF NodeInv, VersionsOf, Newest
        <3>2. Newest(t.fv[c], X) /\ t.fv[c] \in Version /\ X \in SUBSET {v \in Version : v.seq > 0}
            BY <1>2, <1>3, <2>1, WritesTypes DEF SnapshotOf, VersionsOf, Newest
        <3>3. \A v \in Writes(Alone(n)', c) :
                 \/ v \in W /\ v \in X
                 \/ v = e.ver /\ c \in e.cols /\ t.fv = fv[n]
            BY DEF Fresh, Writes
        <3>4. CASE c \in C
            <4>1. Beats(e.ver, t.fv[c])
                BY <1>4, <3>4
            <4>2. Newest(e.ver, X \cup {e.ver})
                BY <1>1, <3>2, <4>1, Resolution
            <4> QED
                BY <2>4, <3>3, <3>4, <4>2 DEF Newest
        <3>5. CASE c \notin C
            <4>1. fv'[n][c] = fv[n][c]
                BY <2>4, <3>5
            <4>2. c \in e.cols /\ t.fv = fv[n] => Newest(fv[n][c], W \cup {e.ver})
                <5>1. c \in e.cols /\ t.fv = fv[n] => ~Beats(e.ver, fv[n][c])
                    BY <1>4, <3>5
                <5> QED
                    BY <1>1, <3>1, <5>1, Resolution
            <4> QED
                BY <3>1, <3>3, <4>1, <4>2 DEF Newest
        <3> QED
            BY <3>4, <3>5
    <2> QED
        BY <2>5, <2>6, <2>7
<1> QED
    BY <1>7, <1>8 DEF VersionsOf, Newest

-----------------------------------------------------------------------------
(* Deletes stick.                                                          *)

\* Applying an event at an observer keeps what its tombstone tells, although
\* deletes and writes are interleaved in any order and snapshots are stale.
LEMMA TombstoneApply ==
    ASSUME TypeOK, NEW n \in Observers, NodeInv(n),
           NEW w \in Worker[n], NEW e, SnapshotOf(n, tx[n][w]), Fresh(n, tx[n][w], e)
    PROVE  /\ TombstoneOf(log[n], Alone(n), tomb[n])'
           /\ \A d \in Alone(n)' : LatestDelete(log'[n], d) => ~row'[n].present
<1> DEFINE t == tx[n][w]
<1>1. /\ n \in Node /\ e \in LoggedEvent /\ e.ver \in Version /\ e.ver # None
      /\ e \notin log[n] /\ log'[n] = log[n] \cup {e}
      /\ t.seen \subseteq log[n] /\ t.event = e /\ applyRow(n, t)
    BY NoneLoses DEF Observers, Fresh, LoggedEvent, RowEvent
<1>2. \A x \in log[n] : x.ver \in Version /\ x.ver # None
    BY <1>1, NoneLoses DEF TypeOK, RowEvent
<1>3. tomb[n] \in Version /\ tomb \in [Node -> Version] /\ row \in [Node -> Row]
    BY <1>1 DEF TypeOK, Row
<1>4. tomb'[n] = None \/ \E x \in log'[n] : IsDelete(x) /\ x.ver = tomb'[n]
    <2>1. \/ tomb'[n] = tomb[n] \/ tomb'[n] = None
          \/ IsDelete(e) /\ tomb'[n] = e.ver
        BY <1>1, <1>3 DEF applyRow, ApplyDelete, ApplyWrite
    <2>2. tomb[n] = None \/ \E x \in log[n] : IsDelete(x) /\ x.ver = tomb[n]
        BY DEF NodeInv, TombstoneOf
    <2> QED
        BY <1>1, <2>1, <2>2
<1>5. ASSUME NEW d \in Alone(n)', LatestDelete(log'[n], d)
      PROVE  tomb'[n] = d.ver /\ ~row'[n].present
    <2>1. CASE d # e
        <3>1. d \in Alone(n) /\ d \in t.seen /\ d \in t.seen \ overlapped[n] /\ d \in log[n]
            BY <2>1 DEF Fresh, Alone
        <3>2. LatestDelete(log[n], d) /\ LatestDelete(t.seen, d) /\ Wins(d.ver, e.ver)
            BY <1>1, <1>5, <2>1 DEF LatestDelete
        <3>3. tomb[n] = d.ver /\ ~row[n].present /\ t.tomb = d.ver
            BY <3>1, <3>2 DEF NodeInv, TombstoneOf, SnapshotOf
        <3>4. ~Beats(e.ver, t.tomb)
            BY <1>1, <1>2, <3>1, <3>2, <3>3, WinsOrder DEF Beats
        <3>5. UNCHANGED <<row, fv, tomb>>
            BY <1>1, <3>4 DEF applyRow
        <3> QED
            BY <3>3, <3>5
    <2>2. CASE d = e
        <3>1. t.tomb = tomb[n] /\ IsDelete(e)
            BY <1>5, <2>2 DEF Fresh, LatestDelete
        <3>2. tomb[n] = None \/ \E x \in log[n] : x.ver = tomb[n]
            BY DEF NodeInv, TombstoneOf
        <3>3. \A x \in log[n] : Wins(e.ver, x.ver)
            BY <1>1, <1>5, <2>2 DEF LatestDelete
        <3>4. Beats(e.ver, t.tomb)
            BY <3>1, <3>2, <3>3 DEF Beats
        <3>5. ApplyDelete(n, e)
            BY <1>1, <3>1, <3>4 DEF applyRow
        <3> QED
            BY <1>1, <1>3, <2>2, <3>5 DEF ApplyDelete, Absent
    <2> QED
        BY <2>1, <2>2
<1>6. Alone(n)' = log'[n] \ overlapped'[n]
    BY DEF Alone
<1> QED
    BY <1>4, <1>5 DEF TombstoneOf

-----------------------------------------------------------------------------
(* The invariant.                                                          *)

\* What NodeInv and SnapshotOf depend on.
NodeState(n) == <<row[n], fv[n], tomb[n], log[n], overlapped[n]>>

LEMMA NodeUnchanged ==
    ASSUME NEW n \in Observers, NodeInv(n), UNCHANGED NodeState(n)
    PROVE  NodeInv(n)'
<1>1. Alone(n)' = Alone(n)
    BY DEF Alone, NodeState
<1> QED
    BY <1>1 DEF NodeInv, NodeState, VersionsOf, TombstoneOf

\* A commit at an observer keeps all of it.
LEMMA ObserverCommit ==
    ASSUME RowInv, NEW n \in Observers, NEW w \in Worker[n], CommitApply(n, w)
    PROVE  NodeInv(n)'
<1> DEFINE t == tx[n][w]
<1>1. TypeOK /\ TxInv /\ NodeInv(n) /\ n \in Node
    BY ByNode DEF RowInv, Observers
<1>2. CASE t.event \in log[n]
    <2>1. UNCHANGED NodeState(n)
        BY <1>1, <1>2 DEF CommitApply, NodeState, TypeOK
    <2> QED
        BY <1>1, <2>1, NodeUnchanged
<1>3. CASE t.event \notin log[n]
    <2>1. SnapshotOf(n, t) /\ Fresh(n, t, t.event)
        BY <1>1, <1>3, FreshCommit DEF TxInv, CommitApply
    <2>2. /\ VersionsOf(log[n], Alone(n), fv[n])'
          /\ Undeleted(log'[n]) => /\ row'[n].present
                                   /\ \A c \in Col : row'[n].val[c] = fv'[n][c]
        BY <1>1, <2>1, NewestApply
    <2>3. /\ TombstoneOf(log[n], Alone(n), tomb[n])'
          /\ \A d \in Alone(n)' : LatestDelete(log'[n], d) => ~row'[n].present
        BY <1>1, <2>1, TombstoneApply
    <2>4. log'[n] # {}
        BY <2>1 DEF Fresh
    <2> QED
        BY <2>2, <2>3, <2>4 DEF NodeInv
<1> QED
    BY <1>2, <1>3

\* What an open transaction has read stays true of the events it has seen: the
\* set of events that overlapped only grows, and a commit of another event makes
\* the snapshot stale for good.
LEMMA SnapshotKept ==
    ASSUME NEW n \in Node, NEW t, SnapshotOf(n, t),
           \/ UNCHANGED NodeState(n)
           \/ /\ overlapped[n] \subseteq overlapped'[n]
              /\ \E e : e \notin log[n] /\ log'[n] = log[n] \cup {e}
    PROVE  /\ t.seen \subseteq log'[n]
           /\ t.seen = log'[n] => t.fv = fv'[n] /\ t.tomb = tomb'[n]
           /\ VersionsOf(t.seen, t.seen \ overlapped'[n], t.fv)
           /\ TombstoneOf(t.seen, t.seen \ overlapped'[n], t.tomb)
<1>1. CASE UNCHANGED NodeState(n)
    BY <1>1 DEF NodeState, SnapshotOf
<1>2. CASE /\ overlapped[n] \subseteq overlapped'[n]
           /\ \E e : e \notin log[n] /\ log'[n] = log[n] \cup {e}
    <2>1. t.seen \subseteq log[n] /\ t.seen \ overlapped'[n] \subseteq t.seen \ overlapped[n]
        BY <1>2 DEF SnapshotOf
    <2>2. t.seen \subseteq log'[n] /\ t.seen # log'[n]
        BY <1>2, <2>1
    <2>3. VersionsOf(t.seen, t.seen \ overlapped'[n], t.fv)
        BY <2>1 DEF SnapshotOf, VersionsOf, Writes
    <2>4. TombstoneOf(t.seen, t.seen \ overlapped'[n], t.tomb)
        BY <2>1 DEF SnapshotOf, TombstoneOf
    <2> QED
        BY <2>2, <2>3, <2>4
<1> QED
    BY <1>1, <1>2

LEMMA RowStep ==
    ASSUME RowInv, [Next]_vars
    PROVE  RowInv'
<1>1. TypeOK /\ TxInv /\ TxLogged /\ \A n \in Observers : NodeInv(n)
    BY ByNode DEF RowInv, TxInv, TxLogged
<1>2. TypeOK' /\ TxLogged'
    BY <1>1, TypeStep
<1> DEFINE Kept(t, n) == /\ t.seen \subseteq log'[n]
                         /\ t.seen = log'[n] => t.fv = fv'[n] /\ t.tomb = tomb'[n]
                         /\ VersionsOf(t.seen, t.seen \ overlapped'[n], t.fv)
                         /\ TombstoneOf(t.seen, t.seen \ overlapped'[n], t.tomb)
<1> SUFFICES /\ \A n \in Observers : NodeInv(n)'
             /\ \A n \in Observers : \A w \in Worker[n] : tx'[n][w].open => Kept(tx'[n][w], n)
    <2>1. (NewestWins /\ DeletesStick /\ StoredInv)'
        BY DEF NewestWins, DeletesStick, StoredInv, NodeInv, VersionsOf
    <2>2. TxInv'
        BY <1>2 DEF TxInv, TxLogged, SnapshotOf, Observers
    <2> QED
        BY <1>2, <2>1, <2>2 DEF RowInv
<1>3. Observers \subseteq Node
    BY DEF Observers
<1>4. ASSUME NEW n \in Observers, NEW w \in Worker[n], tx[n][w].open
      PROVE  SnapshotOf(n, tx[n][w])
    BY <1>1, <1>3, <1>4 DEF TxInv
<1>5. ASSUME NEW m \in Observers, UNCHANGED NodeState(m),
             \A w \in Worker[m] : tx'[m][w].open => tx'[m][w] = tx[m][w]
      PROVE  NodeInv(m)' /\ \A w \in Worker[m] : tx'[m][w].open => Kept(tx'[m][w], m)
    BY <1>1, <1>3, <1>4, <1>5, NodeUnchanged, SnapshotKept
<1>6. ASSUME NEW n \in Node, n \in Writers, Local(n)
      PROVE  /\ \A m \in Observers : NodeInv(m)'
             /\ \A m \in Observers : \A w \in Worker[m] : tx'[m][w].open => Kept(tx'[m][w], m)
    <2>1. PICK e \in RowEvent, after \in Row : Capture(n, e, after)
        BY <1>6 DEF Local
    <2>2. \A m \in Observers : UNCHANGED NodeState(m) /\ tx'[m] = tx[m]
        BY <1>1, <1>6, <2>1 DEF Capture, Observers, TypeOK, NodeState
    <2> QED
        BY <1>5, <2>2
<1>7. ASSUME NEW n \in Node, NEW w \in Worker[n], NEW e \in Logged, BeginApply(n, w, e)
      PROVE  /\ \A m \in Observers : NodeInv(m)'
             /\ \A m \in Observers : \A v \in Worker[m] : tx'[m][v].open => Kept(tx'[m][v], m)
    <2> DEFINE t == [open |-> TRUE, event |-> e, fv |-> fv[n], tomb |-> tomb[n], seen |-> log[n]]
    <2>1. /\ tx' = [tx EXCEPT ![n][w] = t]
          /\ UNCHANGED <<clock, seq, log, row, fv, tomb, overlapped>>
        BY <1>7 DEF BeginApply
    <2>2. \A m \in Node : UNCHANGED NodeState(m)
        BY <2>1 DEF NodeState
    <2>3. \A m \in Observers : NodeInv(m)'
        BY <1>1, <1>3, <2>2, NodeUnchanged
    <2>4. \A m \in Node : \A v \in Worker[m] : tx'[m][v] = tx[m][v] \/ (m = n /\ tx'[m][v] = t)
        BY <1>1, <2>1 DEF TypeOK
    <2>5. n \in Observers => Kept(t, n)
        BY <1>1, <2>1 DEF NodeInv, Alone
    <2> HIDE DEF Kept, t
    <2>6. ASSUME NEW m \in Observers, NEW v \in Worker[m], tx[m][v].open PROVE Kept(tx[m][v], m)
        BY <1>3, <1>4, <2>2, <2>6, SnapshotKept DEF Kept
    <2> QED
        BY <1>3, <2>3, <2>4, <2>5, <2>6
<1>8. ASSUME NEW n \in Node, NEW w \in Worker[n], CommitApply(n, w)
      PROVE  /\ \A m \in Observers : NodeInv(m)'
             /\ \A m \in Observers : \A v \in Worker[m] : tx'[m][v].open => Kept(tx'[m][v], m)
    <2>1. \A m \in Node \ {n} : UNCHANGED NodeState(m)
        BY <1>1, <1>8, CommitTypes DEF CommitApply, TypeOK, NodeState
    <2>2. n \in Observers => NodeInv(n)'
        BY <1>8, ObserverCommit
    <2>3. \A m \in Node : \A v \in Worker[m] : tx'[m][v].open => tx'[m][v] = tx[m][v]
        BY <1>1, <1>8 DEF CommitApply, TypeOK, Closed
    <2>4. \/ UNCHANGED NodeState(n)
          \/ /\ overlapped[n] \subseteq overlapped'[n]
             /\ \E e : e \notin log[n] /\ log'[n] = log[n] \cup {e}
        <3>1. CASE tx[n][w].event \in log[n]
            <4>1. /\ log' = [log EXCEPT ![n] = @ \cup {tx[n][w].event}]
                  /\ UNCHANGED <<row, fv, tomb, overlapped>>
                BY <1>8, <3>1 DEF CommitApply
            <4>2. log'[n] = log[n]
                BY <1>1, <3>1, <4>1 DEF TypeOK
            <4> QED
                BY <4>1, <4>2 DEF NodeState
        <3>2. CASE tx[n][w].event \notin log[n]
            <4>1. /\ log' = [log EXCEPT ![n] = @ \cup {tx[n][w].event}]
                  /\ overlapped' = [overlapped EXCEPT ![n] = @ \cup Overlap(n, tx[n][w])]
                BY <1>8, <3>2 DEF CommitApply
            <4> QED
                BY <1>1, <3>2, <4>1 DEF TypeOK
        <3> QED
            BY <3>1, <3>2
    <2>5. \A m \in Observers : NodeInv(m)'
        BY <1>1, <1>3, <2>1, <2>2, NodeUnchanged
    <2>6. ASSUME NEW m \in Observers, NEW v \in Worker[m], tx'[m][v].open
          PROVE  Kept(tx'[m][v], m)
        <3>1. tx'[m][v] = tx[m][v] /\ SnapshotOf(m, tx[m][v]) /\ m \in Node
            BY <1>3, <1>4, <2>3, <2>6
        <3>2. \/ UNCHANGED NodeState(m)
              \/ /\ overlapped[m] \subseteq overlapped'[m]
                 /\ \E e : e \notin log[m] /\ log'[m] = log[m] \cup {e}
            BY <2>1, <2>4, <3>1
        <3> HIDE DEF Kept
        <3>3. Kept(tx[m][v], m)
            BY <3>1, <3>2, SnapshotKept DEF Kept
        <3> QED
            BY <3>1, <3>3
    <2> QED
        BY <2>5, <2>6
<1>9. ASSUME NEW n \in Node, NEW w \in Worker[n], RollbackApply(n, w)
      PROVE  /\ \A m \in Observers : NodeInv(m)'
             /\ \A m \in Observers : \A v \in Worker[m] : tx'[m][v].open => Kept(tx'[m][v], m)
    <2>1. \A m \in Observers : UNCHANGED NodeState(m)
        BY <1>9 DEF RollbackApply, NodeState
    <2>2. \A m \in Node : \A v \in Worker[m] : tx'[m][v].open => tx'[m][v] = tx[m][v]
        BY <1>1, <1>9 DEF RollbackApply, TypeOK, Closed
    <2> QED
        BY <1>3, <1>5, <2>1, <2>2
<1>10. CASE UNCHANGED vars
    <2>1. \A m \in Observers : UNCHANGED NodeState(m) /\ tx'[m] = tx[m]
        BY <1>10 DEF vars, NodeState
    <2> QED
        BY <1>5, <2>1
<1> QED
    BY <1>1, <1>6, <1>7, <1>8, <1>9, <1>10, Steps

LEMMA RowInit == Init => RowInv
<1> SUFFICES ASSUME Init PROVE RowInv
    OBVIOUS
<1>1. ZeroHLC \in HLC
    BY DEF ZeroHLC, HLC
<1>2. Absent \in Row
    BY NoneLoses DEF Absent, Row
<1>3. TypeOK
    BY <1>1, <1>2, ClosedType, NoneLoses DEF Init, TypeOK, Row, NoVersions
<1>4. TxInv
    BY DEF Init, TxInv, Closed
<1>5. ASSUME NEW n \in Observers PROVE NodeInv(n)
    <2>1. n \in Node /\ log[n] = {} /\ Alone(n) = {} /\ row[n] = Absent /\ fv[n] = NoVersions
          /\ tomb[n] = None
        BY DEF Init, Alone, Observers
    <2> QED
        BY <2>1 DEF NodeInv, VersionsOf, TombstoneOf, Writes, Absent, NoVersions
<1> QED
    BY <1>3, <1>4, <1>5, ByNode DEF RowInv

\* However many apply transactions a receiver runs at once, its row, field
\* versions and tombstone tell the truth about the events it has applied alone,
\* and so does the snapshot of each transaction about those it has seen
\* (BeginApply, applyRow).
THEOREM RowInvariant == Spec => []RowInv
<1>1. RowInv /\ [Next]_vars => RowInv'
    BY RowStep
<1> QED
    BY <1>1, RowInit, PTL DEF Spec

\* A node that only receives shows, in every column of a row no delete has
\* reached, a write at least as new as each one it has applied alone, whatever
\* order the events arrive in, however often, and whatever else overlaps
\* (applyRow).
THEOREM NewestWriteWins == Spec => []NewestWins
<1>1. RowInv => NewestWins
    BY DEF RowInv
<1> QED
    BY <1>1, RowInvariant, PTL

\* Two receivers that have applied the newest write of a column alone agree on
\* it, whatever each has applied before and after: a column has only one newest
\* write (applyRow, conflict.Compare).
THEOREM ReceiversConverge == Spec => []WritesConverge
<1>1. RowInv => WritesConverge
    <2> SUFFICES ASSUME RowInv, NEW m \in Observers, NEW n \in Observers, NEW c \in Col,
                        NEW v \in Writes(Alone(m), c) \cap Writes(Alone(n), c),
                        Undeleted(log[m]), Undeleted(log[n]),
                        \A u \in Writes(log[m], c) \cup Writes(log[n], c) : u = v \/ Wins(v, u)
                 PROVE  row[m].val[c] = row[n].val[c]
        BY DEF WritesConverge
    <2>1. ASSUME NEW k \in {m, n} PROVE row[k].val[c] = v
        <3>1. k \in Observers /\ k \in Node /\ TypeOK /\ v \in Writes(Alone(k), c)
            BY DEF RowInv, Observers
        <3>2. /\ row[k].val[c] = fv[k][c] /\ fv[k][c] \in Writes(log[k], c) \cup {None}
              /\ v = fv[k][c] \/ Wins(fv[k][c], v)
            BY <3>1 DEF RowInv, NewestWins
        <3>3. log[k] \in SUBSET LoggedEvent
            BY <3>1 DEF TypeOK, LoggedEvent
        <3>4. v \in Writes(log[k], c)
            BY <3>1 DEF Alone, Writes
        <3>5. v \in Version /\ v # None /\ fv[k][c] \in Version
            BY <3>1, <3>3, <3>4, WritesTypes, NoneLoses DEF TypeOK
        <3>6. fv[k][c] = v \/ fv[k][c] = None \/ Wins(v, fv[k][c])
            BY <3>2
        <3> QED
            BY <3>2, <3>5, <3>6, NoneLoses, WinsOrder
    <2> QED
        BY <2>1
<1> QED
    BY <1>1, RowInvariant, PTL

\* A node that only receives does not show a row whose newest applied event is a
\* delete applied alone, whatever order deletes and older writes arrive in and
\* whatever overlaps among them (applyRow, SetTombstone, ClearTombstone).
THEOREM NewestDeleteSticks == Spec => []DeletesStick
<1>1. RowInv => DeletesStick
    BY DEF RowInv
<1> QED
    BY <1>1, RowInvariant, PTL
=============================================================================
