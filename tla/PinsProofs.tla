----------------------------- MODULE PinsProofs -----------------------------
(* Retention pins against collection, for any set of nodes and sessions.    *)
EXTENDS Pins, StoreProofs

USE NodeAssumption, MaxSeqAssumption, PinsAssumption

-----------------------------------------------------------------------------
(* The operators.                                                          *)

LEMMA CursorOrder ==
    ASSUME NEW c \in Cursor, NEW k \in 0 .. MaxSeq
    PROVE  /\ ReadCursor(c) \in 0 .. MaxSeq
           /\ SetProgress(c, k) \in Cursor
           /\ ReadCursor(c) <= ReadCursor(SetProgress(c, k))
           /\ SetProgress(c, k) # NoRow
           /\ SetProgress(c, k) = c \/ SetProgress(c, k) = k
BY DEF Cursor, NoRow, ReadCursor, SetProgress, Larger

\* MIN(seed_seq) is one of the pins and below all of them.
LEMMA LeastPin ==
    ASSUME TypeOK, NEW o \in Node, PinsOf(o) # {}
    PROVE  /\ Min(PinsOf(o)) \in PinsOf(o)
           /\ \A p \in PinsOf(o) : p \in 0 .. MaxSeq /\ Min(PinsOf(o)) <= p
<1>1. PinsOf(o) \subseteq 0 .. MaxSeq
    BY DEF PinsOf, Started, TypeOK, SessionState, Cursor, NoRow
<1>2. PinsOf(o) \subseteq Nat
    BY <1>1
<1> QED
    BY <1>1, <1>2, MinOfNaturals

LEMMA PinsVector ==
    ASSUME TypeOK
    PROVE  /\ ActiveBootstrapPins \in Vector
           /\ \A o \in Node, s \in Started :
                 sess[s].pins[o] # NoRow => ActiveBootstrapPins[o] <= sess[s].pins[o]
           /\ \A o \in Node : ActiveBootstrapPins[o] > 0 =>
                 \E s \in Started : sess[s].pins[o] # NoRow
                                    /\ ActiveBootstrapPins[o] = sess[s].pins[o]
<1>1. ASSUME NEW o \in Node PROVE ActiveBootstrapPins[o] \in 0 .. MaxSeq
    <2>1. CASE PinsOf(o) = {}
        BY <2>1 DEF ActiveBootstrapPins
    <2>2. CASE PinsOf(o) # {}
        BY <2>2, LeastPin DEF ActiveBootstrapPins
    <2> QED
        BY <2>1, <2>2
<1>2. ActiveBootstrapPins \in Vector
    BY <1>1 DEF ActiveBootstrapPins, Vector
<1>3. ASSUME NEW o \in Node, NEW s \in Started, sess[s].pins[o] # NoRow
      PROVE  ActiveBootstrapPins[o] <= sess[s].pins[o]
    <2>1. sess[s].pins[o] \in PinsOf(o)
        BY <1>3 DEF PinsOf
    <2> QED
        BY <2>1, LeastPin DEF ActiveBootstrapPins
<1>4. ASSUME NEW o \in Node, ActiveBootstrapPins[o] > 0
      PROVE  \E s \in Started : sess[s].pins[o] # NoRow
                                /\ ActiveBootstrapPins[o] = sess[s].pins[o]
    <2>1. PinsOf(o) # {}
        BY <1>4 DEF ActiveBootstrapPins
    <2>2. ActiveBootstrapPins[o] \in PinsOf(o)
        BY <2>1, LeastPin DEF ActiveBootstrapPins
    <2> QED
        BY <2>2 DEF PinsOf
<1> QED
    BY <1>2, <1>3, <1>4

LEMMA OwnVector ==
    ASSUME TypeOK
    PROVE  /\ OwnWatermarks \in Vector
           /\ \A o \in Node : /\ OwnWatermarks[o] <= ReadCursor(cursor[o])
                              /\ OwnWatermarks[o] > 0 => OwnWatermarks[o] = ReadCursor(cursor[o])
<1>1. \A o \in Node : ReadCursor(cursor[o]) \in 0 .. MaxSeq
    BY CursorOrder DEF TypeOK
<1> QED
    BY <1>1 DEF OwnWatermarks, Vector

\* What is deleted for an origin lies at or below its watermark.
LEMMA DeletesBelow ==
    ASSUME TypeOK, NEW o \in Node,
           NEW e \in DeletedRows(log, o, gc.wm[o], GCLimit)
    PROVE  e \in Event /\ e[1] = o /\ e[2] <= gc.wm[o]
<1>1. log \in SUBSET Event
    BY DEF TypeOK
<1>2. gc.wm[o] \in 0 .. MaxSeq
    BY DEF TypeOK, CycleState, Vector
<1>3. e \in log /\ e[1] = o /\ e[2] \in 1 .. gc.wm[o]
    BY <1>1, FetchRangeSound DEF DeletedRows
<1> QED
    BY <1>1, <1>2, <1>3

-----------------------------------------------------------------------------
(* Types.                                                                  *)

LEMMA PinTypeInit == Init => TypeOK
<1>1. NoRows \in [Node -> Cursor]
    BY DEF NoRows, Cursor, NoRow
<1>2. ZeroVector \in Vector
    BY DEF ZeroVector, Vector
<1>3. NewSession \in SessionState
    BY <1>1 DEF NewSession, SessionState
<1>4. Idle \in CycleState
    BY <1>2 DEF Idle, CycleState
<1>5. Init => seq \in 0 .. MaxSeq /\ faults \in 0 .. MaxFaults
    BY DEF Init
<1> QED
    BY <1>1, <1>2, <1>3, <1>4, <1>5, Zenon DEF Init, TypeOK

LEMMA ApplyTypes ==
    ASSUME TypeOK, NEW o \in Node, NEW k \in Seqs, ApplyEvent(o, k)
    PROVE  /\ log' \subseteq Event
           /\ cursor' \in [Node -> Cursor]
           /\ \A p \in Node : ReadCursor(cursor[p]) <= ReadCursor(cursor'[p])
           /\ cursor[Source] <= seq => cursor'[Source] <= seq
<1>1. log' = log \cup {<<o, k>>} /\ log' \in SUBSET Event
    BY DEF TypeOK, ApplyEvent, Event
<1>2. cursor[o] \in Cursor /\ ReadCursor(cursor[o]) \in 0 .. MaxSeq
    BY CursorOrder DEF TypeOK
<1>3. FirstGap(log', o, ReadCursor(cursor[o])) \in 0 .. MaxSeq
    <2>1. FirstGap(log', o, ReadCursor(cursor[o])) \in ReadCursor(cursor[o]) .. MaxSeq
        BY <1>1, <1>2, FirstGapSound
    <2> QED
        BY <1>2, <2>1
<1> DEFINE new == IF o = Source THEN seq ELSE FirstGap(log', o, ReadCursor(cursor[o]))
<1>4. new \in 0 .. MaxSeq /\ (o = Source => new = seq)
    BY <1>3 DEF TypeOK
<1>5. cursor' = [cursor EXCEPT ![o] = SetProgress(@, new)]
    BY <1>1 DEF ApplyEvent
<1> HIDE DEF new
<1>6. /\ SetProgress(cursor[o], new) \in Cursor
      /\ ReadCursor(cursor[o]) <= ReadCursor(SetProgress(cursor[o], new))
      /\ SetProgress(cursor[o], new) = cursor[o] \/ SetProgress(cursor[o], new) = new
    BY <1>2, <1>4, CursorOrder
<1>7. \A p \in Node : cursor[p] \in Cursor /\ ReadCursor(cursor[p]) \in 0 .. MaxSeq
    BY CursorOrder DEF TypeOK
<1>8. cursor' \in [Node -> Cursor]
    BY <1>5, <1>6 DEF TypeOK
<1>9. \A p \in Node : ReadCursor(cursor[p]) <= ReadCursor(cursor'[p])
    BY <1>5, <1>6, <1>7 DEF TypeOK
<1>10. cursor[Source] <= seq => cursor'[Source] <= seq
    BY <1>4, <1>5, <1>6 DEF TypeOK
<1> QED
    BY <1>1, <1>8, <1>9, <1>10

\* A handler that goes on leaves a well-formed session.
LEMMA SessionTypes ==
    ASSUME TypeOK, NEW s \in Session
    PROVE  /\ \A pc \in {"new", "created", "pin", "stream", "done", "left"} :
                 [sess[s] EXCEPT !.pc = pc] \in SessionState
           /\ [sess[s] EXCEPT !.pc = "created", !.status = "STARTED"] \in SessionState
           /\ [sess[s] EXCEPT !.pc = "pin", !.vec = SnapshotVector] \in SessionState
           /\ \A o \in Node : Pinned([sess[s] EXCEPT !.pins[o] = sess[s].vec[o]])
                                 \in SessionState
           /\ \A st \in {"COMPLETED", "ABORTED"} : Finished(st) \in SessionState
<1>1. sess[s] \in SessionState
    BY DEF TypeOK
<1>2. SnapshotVector \in [Node -> Cursor]
    BY DEF SnapshotVector, TypeOK, Cursor, NoRow
<1>3. NoRows \in [Node -> Cursor]
    BY DEF NoRows, Cursor, NoRow
<1>4. ASSUME NEW o \in Node
      PROVE  Pinned([sess[s] EXCEPT !.pins[o] = sess[s].vec[o]]) \in SessionState
    <2>1. [sess[s] EXCEPT !.pins[o] = sess[s].vec[o]] \in SessionState
        BY <1>1 DEF SessionState
    <2> QED
        BY <2>1 DEF Pinned, SessionState
<1> QED
    BY <1>1, <1>2, <1>3, <1>4 DEF SessionState, Finished, NewSession

LEMMA CycleTypes ==
    ASSUME TypeOK
    PROVE  /\ Idle \in CycleState
           /\ [Idle EXCEPT !.pc = "pins", !.wm = OwnWatermarks] \in CycleState
           /\ [gc EXCEPT !.pc = "seed", !.pins = ActiveBootstrapPins] \in CycleState
           /\ GCReadSeed => gc' \in CycleState
           /\ \A o \in Node : /\ [gc EXCEPT !.mark = {o}] \in CycleState
                              /\ [gc EXCEPT !.wm[o] = 0] \in CycleState
                              /\ [gc EXCEPT !.wm[o] = 0, !.mark = {}] \in CycleState
<1>1. gc \in CycleState
    BY DEF TypeOK
<1>2. ZeroVector \in Vector
    BY DEF ZeroVector, Vector
<1>3. OwnWatermarks \in Vector /\ ActiveBootstrapPins \in Vector
    BY OwnVector, PinsVector
<1>4. Idle \in CycleState
    BY <1>2 DEF Idle, CycleState
<1>5. [o \in Node |-> Smaller(gc.wm[o], gc.pins[o])] \in Vector
    BY <1>1 DEF CycleState, Vector, Smaller
<1>6. GCReadSeed => gc' \in CycleState
    BY <1>1, <1>2, <1>5 DEF GCReadSeed, Cycle, CycleState
<1>7. ASSUME NEW o \in Node PROVE [gc.wm EXCEPT ![o] = 0] \in Vector
    BY <1>1 DEF CycleState, Vector
<1> QED
    BY <1>1, <1>3, <1>4, <1>6, <1>7 DEF CycleState
\* The frame of a step of a handler, and of a step of the cycle.
LEMMA HandlerTypes ==
    ASSUME TypeOK, NEW s \in Session, NEW state \in SessionState, Handles(s, state)
    PROVE  TypeOK'
BY DEF Handles, TypeOK, dataVars

LEMMA CyclingTypes ==
    ASSUME TypeOK, NEW state \in CycleState, Cycle(state)
    PROVE  TypeOK'
BY DEF Cycle, TypeOK, dataVars

LEMMA FaultTypes == TypeOK /\ Fault => faults' \in 0 .. MaxFaults
BY DEF TypeOK, Fault

LEMMA PinTypeStep == TypeOK /\ [Next]_vars => TypeOK'
<1> SUFFICES ASSUME TypeOK, [Next]_vars PROVE TypeOK'
    OBVIOUS
<1>1. LocalWrite => TypeOK'
    BY DEF LocalWrite, TypeOK, Event, Seqs
<1>2. ASSUME NEW o \in Node, NEW k \in Seqs PROVE Receive(o, k) => TypeOK'
    BY ApplyTypes DEF Receive, ApplyEvent, TypeOK
<1>3. ASSUME NEW o \in Node, NEW k \in Seqs PROVE Redeliver(o, k) => TypeOK'
    BY ApplyTypes, FaultTypes DEF Redeliver, ApplyEvent, TypeOK
<1>4. Gossip => TypeOK'
    BY DEF Gossip, TypeOK, dataVars
<1>5. ASSUME NEW s \in Session PROVE CreateBootstrap(s) => TypeOK'
    BY SessionTypes, HandlerTypes DEF CreateBootstrap
<1>6. ASSUME NEW s \in Session PROVE TakeSnapshot(s) => TypeOK'
    BY SessionTypes, HandlerTypes DEF TakeSnapshot
<1>7. ASSUME NEW s \in Session, NEW o \in Node PROVE SetBootstrapVector(s, o) => TypeOK'
    BY SessionTypes, HandlerTypes DEF SetBootstrapVector
<1>8. ASSUME NEW s \in Session PROVE CompleteBootstrap(s) => TypeOK'
    BY SessionTypes, HandlerTypes DEF CompleteBootstrap
<1>9. ASSUME NEW s \in Session PROVE AbortBootstrap(s) => TypeOK'
    BY SessionTypes, HandlerTypes DEF AbortBootstrap
<1>10. ASSUME NEW s \in Session PROVE LeaveBootstrap(s) => TypeOK'
    <2> SUFFICES ASSUME LeaveBootstrap(s) PROVE TypeOK'
        OBVIOUS
    <2>1. sess' \in [Session -> SessionState]
        BY SessionTypes DEF LeaveBootstrap, TypeOK
    <2> QED
        BY <2>1, FaultTypes DEF LeaveBootstrap, TypeOK, dataVars
<1>11. GCBegin => TypeOK'
    BY CycleTypes, CyclingTypes DEF GCBegin
<1>12. GCReadPins => TypeOK'
    BY CycleTypes, CyclingTypes DEF GCReadPins
<1>13. GCReadSeed => TypeOK'
    BY CycleTypes DEF GCReadSeed, Cycle, TypeOK, dataVars
<1>14. ASSUME NEW o \in Node PROVE GCDelete(o) => TypeOK'
    <2> SUFFICES ASSUME GCDelete(o) PROVE TypeOK'
        OBVIOUS
    <2> DEFINE rows == DeletedRows(log, o, gc.wm[o], GCLimit)
    <2>1. rows \subseteq Event
        BY DeletesBelow
    <2>2. /\ log' = log \ rows
          /\ deleted' = deleted \cup rows
          /\ gc' = [gc EXCEPT !.mark = {o}] \/ gc' = [gc EXCEPT !.wm[o] = 0]
          /\ UNCHANGED <<seq, cursor, gcThrough, behind, sess, faults>>
        BY DEF GCDelete
    <2> HIDE DEF rows
    <2> QED
        BY <2>1, <2>2, CycleTypes DEF TypeOK
<1>15. ASSUME NEW o \in Node PROVE GCMark(o) => TypeOK'
    <2> SUFFICES ASSUME GCMark(o) PROVE TypeOK'
        OBVIOUS
    <2>1. gcThrough' \in Vector
        BY DEF GCMark, TypeOK, CycleState, Vector
    <2>2. gc' \in CycleState
        BY CycleTypes DEF GCMark
    <2> QED
        BY <2>1, <2>2 DEF GCMark, TypeOK, dataVars
<1>16. GCEnd => TypeOK'
    BY CycleTypes, CyclingTypes DEF GCEnd
<1>17. GCFail => TypeOK'
    BY CycleTypes, FaultTypes DEF GCFail, TypeOK, dataVars
<1>18. Crash => TypeOK'
    <2> SUFFICES ASSUME Crash PROVE TypeOK'
        OBVIOUS
    <2>1. sess' \in [Session -> SessionState]
        BY SessionTypes DEF Crash, TypeOK
    <2> QED
        BY <2>1, CycleTypes, FaultTypes DEF Crash, TypeOK, dataVars
<1>19. UNCHANGED vars => TypeOK'
    BY DEF vars, TypeOK
<1> QED
    BY <1>1, <1>2, <1>3, <1>4, <1>5, <1>6, <1>7, <1>8, <1>9, <1>10, <1>11, <1>12,
       <1>13, <1>14, <1>15, <1>16, <1>17, <1>18, <1>19 DEF Next, Write, Serve, Collect

\* Every state of the source keeps to its tables, whatever seeds and cycles do.
THEOREM PinsTyped == Spec => []TypeOK
<1> QED
    BY PinTypeInit, PinTypeStep, PTL DEF Spec

-----------------------------------------------------------------------------
(* The invariant, by what a step touches.                                  *)

LEMMA PinInvInit == Init => PinInv
<1> SUFFICES ASSUME Init PROVE PinInv
    OBVIOUS
<1>1. TypeOK
    BY PinTypeInit
<1>2. \A o \in Node : Within(o, ReadCursor(cursor[o]))
    BY DEF Init, Within, ReadCursor, NoRows, NoRow, ZeroVector
<1>3. CollectedInv
    BY <1>2 DEF Init, CollectedInv, NoRows, NoRow
<1>4. SessionInv
    BY DEF Init, SessionInv, Protected, NewSession, NoRows
<1>5. CycleInv
    BY DEF Init, CycleInv, Idle
<1> QED
    BY <1>1, <1>3, <1>4, <1>5 DEF PinInv

\* What a session is protected by moves only with a deletion or a mark.
LEMMA WithinGrows ==
    ASSUME TypeOK, NEW o \in Node, NEW j \in 0 .. MaxSeq, NEW k \in 0 .. MaxSeq,
           j <= k, Within(o, j)
    PROVE  Within(o, k)
<1>1. gcThrough[o] \in 0 .. MaxSeq
    BY DEF TypeOK, Vector
<1>2. \A e \in deleted : e[2] \in 1 .. MaxSeq
    BY DEF TypeOK, Event, Seqs
<1> QED
    BY <1>1, <1>2 DEF Within

\* One session changes and no history does: it has to be good by itself.
LEMMA OneSession ==
    ASSUME TypeOK, SessionInv, NEW s \in Session, NEW state \in SessionState,
           sess' = [sess EXCEPT ![s] = state], UNCHANGED <<gcThrough, deleted>>,
           state.pc \in {"new", "created"} => state.pins = NoRows,
           \A o \in Node : state.pins[o] # NoRow => state.pins[o] = state.vec[o],
           \A o \in Node :
               /\ state.pc = "pin" \/ (state.status = "STARTED" /\ state.pins[o] # NoRow)
               /\ state.vec[o] # NoRow
               => Within(o, state.vec[o])
    PROVE  SessionInv'
<1>1. sess'[s] = state /\ \A r \in Session \ {s} : sess'[r] = sess[r]
    BY DEF TypeOK
<1>2. ASSUME NEW r \in Session, NEW o \in Node,
             sess'[r].pc = "pin" \/ (sess'[r].status = "STARTED" /\ sess'[r].pins[o] # NoRow),
             sess'[r].vec[o] # NoRow
      PROVE  Within(o, sess[r].vec[o])'
    <2>1. Within(o, sess'[r].vec[o])
        <3>1. CASE r = s
            BY <1>1, <1>2, <3>1
        <3>2. CASE r # s
            <4>1. o \in Protected(r) /\ sess'[r] = sess[r]
                BY <1>1, <1>2, <3>2 DEF Protected
            <4> QED
                BY <1>2, <4>1 DEF SessionInv
        <3> QED
            BY <3>1, <3>2
    <2> QED
        BY <2>1 DEF Within
<1>3. \A r \in Session : \A o \in Protected(r)' :
          sess'[r].vec[o] # NoRow => Within(o, sess[r].vec[o])'
    BY <1>2 DEF Protected
<1>4. \A r \in Session :
          /\ sess'[r].pc \in {"new", "created"} => sess'[r].pins = NoRows
          /\ \A o \in Node : sess'[r].pins[o] # NoRow => sess'[r].pins[o] = sess'[r].vec[o]
    BY <1>1 DEF SessionInv
<1> QED
    BY <1>3, <1>4 DEF SessionInv

\* A session that goes away or loses its handler keeps a cycle's bounds good.
LEMMA CycleKept ==
    ASSUME TypeOK, CycleInv, UNCHANGED <<gc, cursor, gcThrough>>,
           \A s \in Session : Preparing(s)' => Preparing(s),
           \A s \in Session : sess'[s].status = "STARTED" =>
               sess[s].status = "STARTED" /\ sess'[s].pins = sess[s].pins
    PROVE  CycleInv'
<1>1. \A vector \in Vector : Bounds(vector) => Bounds(vector)'
    BY DEF Bounds, Started
<1>2. \A vector \in Vector : Reaches(vector) => Reaches(vector)'
    BY DEF Reaches
<1>3. gc.wm \in Vector /\ gc.pins \in Vector
    BY DEF TypeOK, CycleState
<1> QED
    BY <1>1, <1>2, <1>3 DEF CycleInv

LEMMA CollectedKept ==
    ASSUME CollectedInv, UNCHANGED <<cursor, seq, gcThrough, deleted>>
    PROVE  CollectedInv'
BY DEF CollectedInv, Within

LEMMA SessionsKept ==
    ASSUME SessionInv, UNCHANGED <<sess, gcThrough, deleted>>
    PROVE  SessionInv'
BY DEF SessionInv, Protected, Within

\* While a session prepares there is no cycle.
LEMMA PreparingAlone ==
    ASSUME CycleInv, NEW s \in Session, Preparing(s), gc' = gc
    PROVE  CycleInv'
BY DEF CycleInv

-----------------------------------------------------------------------------
(* The steps that do more than leave what the invariant reads alone.       *)

\* History grows: a cursor only moves on.
LEMMA ApplyKeeps ==
    ASSUME PinInv, NEW o \in Node, NEW k \in Seqs, ApplyEvent(o, k)
    PROVE  CollectedInv' /\ SessionInv' /\ CycleInv'
<1> USE DEF PinInv
<1>1. /\ cursor' \in [Node -> Cursor]
      /\ \A p \in Node : ReadCursor(cursor[p]) <= ReadCursor(cursor'[p])
      /\ cursor'[Source] <= seq
      /\ UNCHANGED <<seq, gcThrough, deleted, sess, gc>>
    BY ApplyTypes DEF ApplyEvent, CollectedInv
<1>2. \A p \in Node : /\ ReadCursor(cursor[p]) \in 0 .. MaxSeq
                      /\ ReadCursor(cursor'[p]) \in 0 .. MaxSeq
    BY <1>1, CursorOrder DEF TypeOK
<1>3. ASSUME NEW p \in Node PROVE Within(p, ReadCursor(cursor[p]))'
    <2>1. Within(p, ReadCursor(cursor'[p]))
        BY <1>1, <1>2, WithinGrows DEF CollectedInv
    <2> QED
        BY <1>1, <2>1 DEF Within
<1>4. CollectedInv'
    BY <1>1, <1>3 DEF CollectedInv
<1>5. SessionInv'
    BY <1>1, SessionsKept
<1>6. ASSUME gc.pc # "idle", NEW p \in Node PROVE gc.wm[p] <= ReadCursor(cursor'[p])
    <2>1. gc.wm[p] \in 0 .. MaxSeq /\ gc.wm[p] <= ReadCursor(cursor[p])
        BY <1>6 DEF TypeOK, CycleState, Vector, CycleInv
    <2> QED
        BY <1>1, <1>2, <2>1
<1>7. CycleInv'
    BY <1>1, <1>6 DEF CycleInv, Preparing, Bounds, Reaches, Started
<1> QED
    BY <1>4, <1>5, <1>7

\* The snapshot covers what has been collected so far.
LEMMA SnapshotKeeps ==
    ASSUME PinInv, NEW s \in Session, TakeSnapshot(s)
    PROVE  SessionInv' /\ CycleInv'
<1> USE DEF PinInv
<1>1. sess[s].pc = "created" /\ sess[s].pins = NoRows
    BY DEF TakeSnapshot, SessionInv
<1> DEFINE state == [sess[s] EXCEPT !.pc = "pin", !.vec = SnapshotVector]
<1>2. state \in SessionState /\ sess[s] \in SessionState
    BY SessionTypes DEF TypeOK
<1>3. ASSUME NEW o \in Node, SnapshotVector[o] # NoRow
      PROVE  Within(o, SnapshotVector[o])
    <2>1. cursor[o] \in Cursor /\ ReadCursor(cursor[o]) \in 0 .. MaxSeq
        BY CursorOrder DEF TypeOK
    <2>2. CASE o = Source
        <3>1. SnapshotVector[o] = seq /\ seq \in 0 .. MaxSeq
            BY <2>2 DEF SnapshotVector, TypeOK
        <3>2. ReadCursor(cursor[o]) <= seq
            BY <2>1, <2>2, <3>1 DEF CollectedInv, ReadCursor
        <3> QED
            BY <2>1, <3>1, <3>2, WithinGrows DEF CollectedInv
    <2>3. CASE o # Source
        <3>1. SnapshotVector[o] = ReadCursor(cursor[o])
            BY <1>3, <2>3 DEF SnapshotVector, ReadCursor, TypeOK
        <3> QED
            BY <3>1 DEF CollectedInv
    <2> QED
        BY <2>2, <2>3
<1>4. state.pc = "pin" /\ state.vec = SnapshotVector /\ state.pins = NoRows
    BY <1>1, <1>2 DEF SessionState
<1>5. sess' = [sess EXCEPT ![s] = state] /\ UNCHANGED <<gcThrough, deleted, gc>>
    BY DEF TakeSnapshot, Handles
<1> HIDE DEF state
<1>6. SessionInv'
    BY <1>2, <1>3, <1>4, <1>5, OneSession DEF NoRows
<1>7. CycleInv'
    BY <1>1, <1>5, PreparingAlone DEF Preparing
<1> QED
    BY <1>6, <1>7

LEMMA PinKeeps ==
    ASSUME PinInv, NEW s \in Session, NEW o \in Node, SetBootstrapVector(s, o)
    PROVE  SessionInv' /\ CycleInv'
<1> USE DEF PinInv
<1> DEFINE state == Pinned([sess[s] EXCEPT !.pins[o] = sess[s].vec[o]])
<1>1. state \in SessionState /\ sess[s] \in SessionState
    BY SessionTypes DEF TypeOK
<1>2. sess[s].pc = "pin" /\ sess' = [sess EXCEPT ![s] = state]
      /\ UNCHANGED <<gcThrough, deleted, gc>>
    BY DEF SetBootstrapVector, Handles
<1>3. /\ state.pc \in {"pin", "stream"} /\ state.vec = sess[s].vec
      /\ state.pins = [sess[s].pins EXCEPT ![o] = sess[s].vec[o]]
    BY <1>1 DEF Pinned, SessionState
<1>4. \A p \in Node : sess[s].vec[p] # NoRow => Within(p, sess[s].vec[p])
    BY <1>2 DEF SessionInv, Protected
<1>5. \A p \in Node : state.pins[p] # NoRow => state.pins[p] = state.vec[p]
    BY <1>1, <1>3 DEF SessionInv, SessionState
<1> HIDE DEF state
<1>6. SessionInv'
    BY <1>1, <1>2, <1>3, <1>4, <1>5, OneSession
<1>7. CycleInv'
    BY <1>2, PreparingAlone DEF Preparing
<1> QED
    BY <1>6, <1>7

\* A session that ends takes its pins with it, and nothing else.
LEMMA EndKeeps ==
    ASSUME PinInv, NEW s \in Session, NEW st \in {"COMPLETED", "ABORTED"},
           Handles(s, Finished(st))
    PROVE  SessionInv' /\ CycleInv'
<1> USE DEF PinInv
<1>1. Finished(st) \in SessionState
    BY SessionTypes
<1>2. sess' = [sess EXCEPT ![s] = Finished(st)] /\ UNCHANGED <<cursor, gcThrough, deleted, gc>>
    BY DEF Handles, dataVars
<1>3. /\ Finished(st).pc = "done" /\ Finished(st).status # "STARTED"
      /\ \A o \in Node : Finished(st).pins[o] = NoRow
    BY DEF Finished, NewSession, NoRows
<1>4. SessionInv'
    BY <1>1, <1>2, <1>3, OneSession
<1>5. sess'[s] = Finished(st) /\ \A r \in Session \ {s} : sess'[r] = sess[r]
    BY <1>2 DEF TypeOK
<1>6. CycleInv'
    BY <1>2, <1>3, <1>5, CycleKept DEF Preparing
<1> QED
    BY <1>4, <1>6

\* A handler that is cut off leaves its rows as they are.
LEMMA CutKeeps ==
    ASSUME PinInv, UNCHANGED <<gcThrough, deleted>>,
           \A s \in Session :
               sess'[s] = sess[s] \/ sess'[s] = [sess[s] EXCEPT !.pc = "left"]
    PROVE  SessionInv'
<1> USE DEF PinInv
<1>1. \A s \in Session : /\ sess'[s].pc = sess[s].pc \/ sess'[s].pc = "left"
                         /\ sess'[s].vec = sess[s].vec /\ sess'[s].pins = sess[s].pins
                         /\ sess'[s].status = sess[s].status
    <2> SUFFICES ASSUME NEW s \in Session
                 PROVE  /\ sess'[s].pc = sess[s].pc \/ sess'[s].pc = "left"
                        /\ sess'[s].vec = sess[s].vec /\ sess'[s].pins = sess[s].pins
                        /\ sess'[s].status = sess[s].status
        OBVIOUS
    <2>1. sess[s] \in SessionState
        BY DEF TypeOK
    <2>2. CASE sess'[s] = sess[s]
        BY <2>2
    <2>3. CASE sess'[s] = [sess[s] EXCEPT !.pc = "left"]
        BY <2>1, <2>3 DEF SessionState
    <2> QED
        BY <2>2, <2>3
<1>2. \A s \in Session, o \in Node : o \in Protected(s)' => o \in Protected(s)
    BY <1>1 DEF Protected
<1>3. ASSUME NEW s \in Session, NEW o \in Protected(s)', sess'[s].vec[o] # NoRow
      PROVE  Within(o, sess[s].vec[o])'
    <2>1. o \in Node /\ o \in Protected(s)
        BY <1>2, <1>3 DEF Protected
    <2>2. Within(o, sess[s].vec[o])
        BY <1>1, <1>3, <2>1 DEF SessionInv
    <2> QED
        BY <1>1, <2>2 DEF Within
<1>4. \A s \in Session :
          /\ sess'[s].pc \in {"new", "created"} => sess'[s].pins = NoRows
          /\ \A o \in Node : sess'[s].pins[o] # NoRow => sess'[s].pins[o] = sess'[s].vec[o]
    BY <1>1 DEF SessionInv
<1> QED
    BY <1>3, <1>4 DEF SessionInv

\* A cycle reads pins that bound it, and a positive one is still protected.
LEMMA ReadPinsKeeps ==
    ASSUME PinInv, GCReadPins
    PROVE  CycleInv'
<1> USE DEF PinInv
<1>1. gc \in CycleState /\ gc.pc = "pins"
    BY DEF GCReadPins, TypeOK
<1>2. /\ gc' = [gc EXCEPT !.pc = "seed", !.pins = ActiveBootstrapPins]
      /\ UNCHANGED <<cursor, gcThrough, sess>>
    BY DEF GCReadPins, Cycle, dataVars
<1>3. gc'.pc = "seed" /\ gc'.pins = ActiveBootstrapPins /\ gc'.wm = gc.wm /\ gc'.mark = gc.mark
    BY <1>1, <1>2 DEF CycleState
<1>4. Bounds(ActiveBootstrapPins)
    BY PinsVector DEF Bounds
<1>5. ASSUME NEW o \in Node, ActiveBootstrapPins[o] > 0
      PROVE  gcThrough[o] <= ActiveBootstrapPins[o]
    <2>1. PICK s \in Started : sess[s].pins[o] # NoRow
                               /\ ActiveBootstrapPins[o] = sess[s].pins[o]
        BY <1>5, PinsVector
    <2>2. s \in Session /\ o \in Protected(s) /\ sess[s].pins[o] = sess[s].vec[o]
        BY <2>1 DEF Started, Protected, SessionInv
    <2> QED
        BY <2>1, <2>2 DEF SessionInv, Within
<1>6. Bounds(gc.pins)'
    BY <1>2, <1>3, <1>4 DEF Bounds, Started
<1>7. Reaches(gc.pins)'
    BY <1>2, <1>3, <1>5 DEF Reaches
<1>8. Reaches(gc.wm)'
    BY <1>1, <1>2, <1>3 DEF CycleInv, Reaches
<1> QED
    BY <1>1, <1>2, <1>3, <1>6, <1>7, <1>8 DEF CycleInv, Preparing

LEMMA ReadSeedKeeps ==
    ASSUME PinInv, GCReadSeed
    PROVE  CycleInv'
<1> USE DEF PinInv
<1> DEFINE wm == IF Started = {} THEN gc.wm
                 ELSE [o \in Node |-> Smaller(gc.wm[o], gc.pins[o])]
<1>1. gc \in CycleState /\ gc.pc = "seed" /\ gc.mark = {}
    BY DEF GCReadSeed, TypeOK, CycleInv
<1>2. /\ gc' = [gc EXCEPT !.pc = "delete", !.pins = ZeroVector, !.wm = wm]
      /\ UNCHANGED <<cursor, gcThrough, sess>>
    BY DEF GCReadSeed, Cycle, dataVars
<1>3. gc'.pc = "delete" /\ gc'.wm = wm /\ gc'.mark = {}
    BY <1>1, <1>2 DEF CycleState
<1>4. \A o \in Node : /\ gc.wm[o] \in 0 .. MaxSeq /\ gc.pins[o] \in 0 .. MaxSeq
                      /\ gcThrough[o] \in 0 .. MaxSeq
                      /\ ReadCursor(cursor[o]) \in 0 .. MaxSeq
    BY <1>1, CursorOrder DEF CycleState, Vector, TypeOK
<1>5. \A o \in Node : /\ wm[o] = gc.wm[o] \/ wm[o] = gc.pins[o]
                      /\ wm[o] <= gc.wm[o]
                      /\ Started # {} => wm[o] <= gc.pins[o]
    BY <1>4 DEF Smaller
<1> HIDE DEF wm
<1>6. \A o \in Node : wm[o] \in 0 .. MaxSeq
    BY <1>4, <1>5
<1>7. \A o \in Node : wm[o] <= ReadCursor(cursor[o])
    BY <1>1, <1>4, <1>5, <1>6 DEF CycleInv
<1>8. Reaches(wm)
    BY <1>1, <1>4, <1>5, <1>6 DEF CycleInv, Reaches
<1>9. Bounds(wm)
    <2> SUFFICES ASSUME NEW o \in Node, NEW s \in Started, sess[s].pins[o] # NoRow
                 PROVE  wm[o] <= sess[s].pins[o]
        BY DEF Bounds
    <2>1. sess[s].pins[o] \in Cursor /\ gc.pins[o] <= sess[s].pins[o]
        BY <1>1 DEF CycleInv, Bounds, Started, TypeOK, SessionState
    <2> QED
        BY <1>4, <1>5, <1>6, <2>1 DEF Cursor, NoRow
<1>10. Bounds(gc.wm)' /\ Reaches(gc.wm)'
    BY <1>2, <1>3, <1>8, <1>9 DEF Bounds, Reaches, Started
<1> QED
    BY <1>1, <1>2, <1>3, <1>7, <1>10 DEF CycleInv, Preparing

\* What a cycle may delete or mark for an origin is covered by every session.
LEMMA Covered ==
    ASSUME PinInv, NEW o \in Node, gc.pc = "delete"
    PROVE  /\ gc.wm[o] <= ReadCursor(cursor[o])
           /\ \A s \in Session : o \in Protected(s) /\ sess[s].vec[o] # NoRow =>
                 gc.wm[o] <= sess[s].vec[o]
<1> USE DEF PinInv
<1>1. gc.wm[o] <= ReadCursor(cursor[o])
    BY DEF CycleInv
<1>2. ASSUME NEW s \in Session, o \in Protected(s), sess[s].vec[o] # NoRow
      PROVE  gc.wm[o] <= sess[s].vec[o]
    <2>1. s \in Started /\ sess[s].pins[o] # NoRow
        BY <1>2 DEF CycleInv, Preparing, Protected, Started
    <2> QED
        BY <2>1 DEF CycleInv, Bounds, SessionInv, Started
<1> QED
    BY <1>1, <1>2

\* A cycle goes on with wm[o] done, or with o marked, and nothing else moved.
LEMMA CycleGoesOn ==
    ASSUME PinInv, NEW o \in Node, gc.pc = "delete",
           UNCHANGED <<cursor, sess>>,
           \A p \in Node \ {o} : gcThrough'[p] = gcThrough[p],
           \/ gc' = [gc EXCEPT !.mark = {o}] /\ gc.wm[o] > 0 /\ gcThrough' = gcThrough
           \/ gc' = [gc EXCEPT !.wm[o] = 0] /\ gc.mark = {}
           \/ gc' = [gc EXCEPT !.wm[o] = 0, !.mark = {}]
    PROVE  CycleInv'
<1> USE DEF PinInv
<1>1. gc \in CycleState
    BY DEF TypeOK
<1>2. /\ gc'.pc = "delete"
      /\ \/ gc'.wm = gc.wm /\ gc'.mark = {o} /\ gc.wm[o] > 0 /\ gcThrough' = gcThrough
         \/ gc'.wm = [gc.wm EXCEPT ![o] = 0] /\ gc'.mark = {}
    BY <1>1 DEF CycleState
<1>3. \A p \in Node : gc.wm[p] \in 0 .. MaxSeq /\ ReadCursor(cursor[p]) \in 0 .. MaxSeq
    BY <1>1, CursorOrder DEF CycleState, Vector, TypeOK
<1>4. \A p \in Node : gc'.wm[p] = gc.wm[p] \/ (p = o /\ gc'.wm[p] = 0)
    BY <1>1, <1>2 DEF CycleState, Vector
<1>5. \A p \in Node : gc'.wm[p] <= ReadCursor(cursor'[p])
    BY <1>3, <1>4 DEF CycleInv
<1>6. Reaches(gc.wm)'
    <2> SUFFICES ASSUME NEW p \in Node, gc'.wm[p] > 0
                 PROVE  gcThrough'[p] <= gc'.wm[p]
        BY DEF Reaches
    <2>1. gc'.wm[p] = gc.wm[p] /\ gcThrough'[p] = gcThrough[p]
        BY <1>1, <1>2, <1>3, <1>4 DEF CycleState, Vector
    <2> QED
        BY <2>1 DEF CycleInv, Reaches
<1>7. Bounds(gc.wm)'
    <2> SUFFICES ASSUME NEW p \in Node, NEW s \in Started, sess[s].pins[p] # NoRow
                 PROVE  gc'.wm[p] <= sess[s].pins[p]
        BY DEF Bounds, Started
    <2>1. sess[s].pins[p] \in 0 .. MaxSeq /\ gc.wm[p] <= sess[s].pins[p]
        BY DEF CycleInv, Bounds, Started, TypeOK, SessionState, Cursor, NoRow
    <2> QED
        BY <1>3, <1>4, <2>1
<1> QED
    BY <1>2, <1>5, <1>6, <1>7 DEF CycleInv, Preparing

LEMMA DeleteKeeps ==
    ASSUME PinInv, NEW o \in Node, GCDelete(o)
    PROVE  CollectedInv' /\ SessionInv' /\ CycleInv'
<1> USE DEF PinInv
<1> DEFINE rows == DeletedRows(log, o, gc.wm[o], GCLimit)
<1>1. \A e \in rows : e \in Event /\ e[1] = o /\ e[2] <= gc.wm[o]
    BY DeletesBelow
<1>2. /\ gc.pc = "delete" /\ gc.mark = {} /\ gc.wm[o] > 0
      /\ deleted' = deleted \cup rows
      /\ gc' = [gc EXCEPT !.mark = {o}] \/ gc' = [gc EXCEPT !.wm[o] = 0]
      /\ UNCHANGED <<seq, cursor, gcThrough, sess>>
    BY DEF GCDelete
<1> HIDE DEF rows
<1>3. gc.wm[o] \in 0 .. MaxSeq
    BY DEF TypeOK, CycleState, Vector
<1>4. ASSUME NEW p \in Node, NEW k \in 0 .. MaxSeq, Within(p, k),
             p = o => gc.wm[o] <= k
      PROVE  Within(p, k)'
    <2>1. \A e \in rows : e[2] \in 1 .. MaxSeq
        BY <1>1 DEF Event, Seqs
    <2> QED
        BY <1>1, <1>2, <1>3, <1>4, <2>1 DEF Within
<1>5. ASSUME NEW p \in Node PROVE Within(p, ReadCursor(cursor[p]))'
    <2>1. ReadCursor(cursor[p]) \in 0 .. MaxSeq
        BY CursorOrder DEF TypeOK
    <2>2. Within(p, ReadCursor(cursor[p])) /\ (p = o => gc.wm[o] <= ReadCursor(cursor[p]))
        BY <1>2, Covered DEF CollectedInv
    <2> QED
        BY <1>2, <1>4, <2>1, <2>2 DEF Within
<1>6. CollectedInv'
    BY <1>2, <1>5 DEF CollectedInv
<1>7. ASSUME NEW s \in Session, NEW p \in Protected(s), sess[s].vec[p] # NoRow
      PROVE  Within(p, sess[s].vec[p])'
    <2>1. p \in Node /\ sess[s].vec[p] \in 0 .. MaxSeq
        BY <1>7 DEF Protected, TypeOK, SessionState, Cursor, NoRow
    <2>2. Within(p, sess[s].vec[p]) /\ (p = o => gc.wm[o] <= sess[s].vec[p])
        BY <1>2, <1>7, <2>1, Covered DEF SessionInv
    <2> QED
        BY <1>2, <1>4, <2>1, <2>2 DEF Within
<1>8. SessionInv'
    BY <1>2, <1>7 DEF SessionInv, Protected
<1>9. CycleInv'
    BY <1>2, CycleGoesOn
<1> QED
    BY <1>6, <1>8, <1>9

\* The watermark is stored, and it is not below the one it replaces.
LEMMA MarkKeeps ==
    ASSUME PinInv, NEW o \in Node, GCMark(o)
    PROVE  /\ gcThrough'[o] >= gcThrough[o]
           /\ \A p \in Node \ {o} : gcThrough'[p] = gcThrough[p]
           /\ CollectedInv' /\ SessionInv' /\ CycleInv'
<1> USE DEF PinInv
<1>1. /\ gc.pc = "delete" /\ gc.mark = {o}
      /\ gcThrough' = [gcThrough EXCEPT ![o] = gc.wm[o]]
      /\ gc' = [gc EXCEPT !.wm[o] = 0, !.mark = {}]
      /\ UNCHANGED <<seq, cursor, deleted, sess>>
    BY DEF GCMark, dataVars
<1>2. gc.wm[o] \in 0 .. MaxSeq /\ gcThrough[o] \in 0 .. MaxSeq
    BY DEF TypeOK, CycleState, Vector
<1>3. gcThrough'[o] = gc.wm[o] /\ \A p \in Node \ {o} : gcThrough'[p] = gcThrough[p]
    BY <1>1 DEF TypeOK, Vector
<1>4. gcThrough'[o] >= gcThrough[o]
    BY <1>1, <1>2, <1>3 DEF CycleInv, Reaches
<1>5. ASSUME NEW p \in Node, NEW k \in 0 .. MaxSeq, Within(p, k),
             p = o => gc.wm[o] <= k
      PROVE  Within(p, k)'
    BY <1>1, <1>3, <1>5 DEF Within
<1>6. ASSUME NEW p \in Node PROVE Within(p, ReadCursor(cursor[p]))'
    <2>1. ReadCursor(cursor[p]) \in 0 .. MaxSeq
        BY CursorOrder DEF TypeOK
    <2>2. Within(p, ReadCursor(cursor[p])) /\ (p = o => gc.wm[o] <= ReadCursor(cursor[p]))
        BY <1>1, Covered DEF CollectedInv
    <2> QED
        BY <1>1, <1>5, <2>1, <2>2 DEF Within
<1>7. CollectedInv'
    BY <1>1, <1>6 DEF CollectedInv
<1>8. ASSUME NEW s \in Session, NEW p \in Protected(s), sess[s].vec[p] # NoRow
      PROVE  Within(p, sess[s].vec[p])'
    <2>1. p \in Node /\ sess[s].vec[p] \in 0 .. MaxSeq
        BY <1>8 DEF Protected, TypeOK, SessionState, Cursor, NoRow
    <2>2. Within(p, sess[s].vec[p]) /\ (p = o => gc.wm[o] <= sess[s].vec[p])
        BY <1>1, <1>8, <2>1, Covered DEF SessionInv
    <2> QED
        BY <1>1, <1>5, <2>1, <2>2 DEF Within
<1>9. SessionInv'
    BY <1>1, <1>8 DEF SessionInv, Protected
<1>10. CycleInv'
    BY <1>1, <1>3, CycleGoesOn
<1> QED
    BY <1>3, <1>4, <1>7, <1>9, <1>10

-----------------------------------------------------------------------------
(* Together.                                                               *)

LEMMA PinInvStep == PinInv /\ [Next]_vars => PinInv'
<1> SUFFICES ASSUME PinInv, [Next]_vars
             PROVE  CollectedInv' /\ SessionInv' /\ CycleInv'
    BY PinTypeStep DEF PinInv
<1> DEFINE Kept == CollectedInv' /\ SessionInv' /\ CycleInv'
<1>0. TypeOK /\ CollectedInv /\ SessionInv /\ CycleInv
    BY DEF PinInv
<1>1. LocalWrite => Kept
    <2> SUFFICES ASSUME LocalWrite PROVE Kept
        OBVIOUS
    <2>1. CollectedInv'
        BY <1>0 DEF LocalWrite, CollectedInv, Within, TypeOK, Cursor, NoRow
    <2>2. SessionInv'
        BY <1>0, SessionsKept DEF LocalWrite
    <2>3. CycleInv'
        BY <1>0, CycleKept DEF LocalWrite, Preparing
    <2> QED
        BY <2>1, <2>2, <2>3
<1>2. ASSUME NEW o \in Node, NEW k \in Seqs PROVE Receive(o, k) \/ Redeliver(o, k) => Kept
    BY ApplyKeeps DEF Receive, Redeliver
<1>3. Gossip => Kept
    BY <1>0, CollectedKept, SessionsKept DEF Gossip, dataVars, CycleInv
<1>4. ASSUME NEW s \in Session PROVE CreateBootstrap(s) => Kept
    <2> SUFFICES ASSUME CreateBootstrap(s) PROVE Kept
        OBVIOUS
    <2> DEFINE state == [sess[s] EXCEPT !.pc = "created", !.status = "STARTED"]
    <2>1. state \in SessionState /\ sess[s] \in SessionState
        BY <1>0, SessionTypes DEF TypeOK
    <2>2. /\ sess[s].pc = "new" /\ gc.pc = "idle"
          /\ sess' = [sess EXCEPT ![s] = state]
          /\ UNCHANGED <<cursor, seq, gcThrough, deleted, gc>>
        BY DEF CreateBootstrap, Handles, Unlocked, dataVars
    <2>3. state.pc = "created" /\ state.pins = NoRows
        BY <1>0, <2>1, <2>2 DEF SessionState, SessionInv
    <2> HIDE DEF state
    <2>4. SessionInv'
        BY <1>0, <2>1, <2>2, <2>3, OneSession DEF NoRows
    <2> QED
        BY <1>0, <2>2, <2>4, CollectedKept DEF CycleInv
<1>5. ASSUME NEW s \in Session PROVE TakeSnapshot(s) => Kept
    BY <1>0, SnapshotKeeps, CollectedKept DEF TakeSnapshot, Handles, dataVars
<1>6. ASSUME NEW s \in Session, NEW o \in Node PROVE SetBootstrapVector(s, o) => Kept
    BY <1>0, PinKeeps, CollectedKept DEF SetBootstrapVector, Handles, dataVars
<1>7. ASSUME NEW s \in Session PROVE CompleteBootstrap(s) \/ AbortBootstrap(s) => Kept
    <2>1. CompleteBootstrap(s) \/ AbortBootstrap(s)
          => Handles(s, Finished("COMPLETED")) \/ Handles(s, Finished("ABORTED"))
        BY DEF CompleteBootstrap, AbortBootstrap
    <2>2. ASSUME NEW st \in {"COMPLETED", "ABORTED"} PROVE Handles(s, Finished(st)) => Kept
        <3>1. Handles(s, Finished(st)) => UNCHANGED <<cursor, seq, gcThrough, deleted>>
            BY DEF Handles, dataVars
        <3> QED
            BY <1>0, <3>1, EndKeeps, CollectedKept
    <2> QED
        BY <2>1, <2>2
<1>8. ASSUME NEW s \in Session PROVE LeaveBootstrap(s) => Kept
    <2> SUFFICES ASSUME LeaveBootstrap(s) PROVE Kept
        OBVIOUS
    <2>1. /\ sess' = [sess EXCEPT ![s] = [sess[s] EXCEPT !.pc = "left"]]
          /\ UNCHANGED <<cursor, seq, gcThrough, deleted, gc>>
        BY DEF LeaveBootstrap, dataVars
    <2>2. \A r \in Session : sess'[r] = sess[r] \/ sess'[r] = [sess[r] EXCEPT !.pc = "left"]
        BY <1>0, <2>1 DEF TypeOK
    <2>3. SessionInv'
        BY <2>1, <2>2, CutKeeps
    <2>4. \A r \in Session : /\ Preparing(r)' => Preparing(r)
                             /\ sess'[r].status = sess[r].status
                             /\ sess'[r].pins = sess[r].pins
        BY <1>0, <2>1 DEF TypeOK, SessionState, Preparing
    <2> QED
        BY <1>0, <2>1, <2>3, <2>4, CycleKept, CollectedKept
<1>9. GCBegin => Kept
    <2> SUFFICES ASSUME GCBegin PROVE Kept
        OBVIOUS
    <2>1. /\ gc' = [Idle EXCEPT !.pc = "pins", !.wm = OwnWatermarks]
          /\ UNCHANGED <<cursor, seq, gcThrough, deleted, sess>>
          /\ \A s \in Session : ~Preparing(s)
        BY DEF GCBegin, Cycle, Unlocked, dataVars
    <2>2. gc'.pc = "pins" /\ gc'.wm = OwnWatermarks /\ gc'.mark = {}
        BY <2>1 DEF Idle
    <2>3. Reaches(gc.wm)'
        BY <1>0, <2>1, <2>2, OwnVector DEF Reaches, CollectedInv, Within
    <2>4. CycleInv'
        BY <1>0, <2>1, <2>2, <2>3, OwnVector DEF CycleInv, Preparing
    <2> QED
        BY <1>0, <2>1, <2>4, CollectedKept, SessionsKept
<1>10. GCReadPins => Kept
    BY <1>0, ReadPinsKeeps, CollectedKept, SessionsKept DEF GCReadPins, Cycle, dataVars
<1>11. GCReadSeed => Kept
    BY <1>0, ReadSeedKeeps, CollectedKept, SessionsKept DEF GCReadSeed, Cycle, dataVars
<1>12. ASSUME NEW o \in Node PROVE GCDelete(o) \/ GCMark(o) => Kept
    BY DeleteKeeps, MarkKeeps
<1>13. GCEnd \/ GCFail => Kept
    <2>1. GCEnd \/ GCFail => gc' = Idle /\ UNCHANGED <<cursor, seq, gcThrough, deleted, sess>>
        BY DEF GCEnd, GCFail, Cycle, dataVars
    <2>2. gc' = Idle => CycleInv'
        BY DEF CycleInv, Idle
    <2> QED
        BY <1>0, <2>1, <2>2, CollectedKept, SessionsKept
<1>14. Crash => Kept
    <2> SUFFICES ASSUME Crash PROVE Kept
        OBVIOUS
    <2>1. gc' = Idle /\ UNCHANGED <<cursor, seq, gcThrough, deleted>>
        BY DEF Crash, dataVars
    <2>2. \A r \in Session : sess'[r] = sess[r] \/ sess'[r] = [sess[r] EXCEPT !.pc = "left"]
        BY DEF Crash
    <2>3. SessionInv'
        BY <2>1, <2>2, CutKeeps
    <2>4. CycleInv'
        BY <2>1 DEF CycleInv, Idle
    <2> QED
        BY <1>0, <2>1, <2>3, <2>4, CollectedKept
<1>15. UNCHANGED vars => Kept
    BY <1>0, CollectedKept, SessionsKept, CycleKept DEF vars, Preparing
<1> HIDE DEF Kept
<1>16. Kept
    BY <1>1, <1>2, <1>3, <1>4, <1>5, <1>6, <1>7, <1>8, <1>9, <1>10, <1>11, <1>12,
       <1>13, <1>14, <1>15 DEF Next, Write, Serve, Collect
<1> QED
    BY <1>16 DEF Kept

LEMMA PinnedKeptInv == PinInv => PinnedKept
<1> SUFFICES ASSUME PinInv, NEW s \in Started, NEW e \in deleted,
                    sess[s].pins[e[1]] # NoRow
             PROVE  e[2] <= sess[s].vec[e[1]]
    BY DEF PinnedKept
<1>1. e[1] \in Node /\ s \in Session
    BY DEF PinInv, TypeOK, Event, Started
<1>2. sess[s].pins[e[1]] = sess[s].vec[e[1]] /\ e[1] \in Protected(s)
    BY <1>1 DEF PinInv, SessionInv, Started, Protected
<1> QED
    BY <1>1, <1>2 DEF PinInv, SessionInv, Within

\* Only GCMark stores a watermark.
LEMMA MarkStep ==
    PinInv /\ [Next]_vars => [\A o \in Node : gcThrough'[o] >= gcThrough[o]]_vars
<1> SUFFICES ASSUME PinInv, Next, NEW o \in Node PROVE gcThrough'[o] >= gcThrough[o]
    OBVIOUS
<1>1. gcThrough[o] \in 0 .. MaxSeq
    BY DEF PinInv, TypeOK, Vector
<1>2. CASE \E p \in Node : GCMark(p)
    <2>1. PICK p \in Node : GCMark(p)
        BY <1>2
    <2>2. CASE p = o
        BY <2>1, <2>2, MarkKeeps
    <2>3. CASE p # o
        BY <1>1, <2>1, <2>3, MarkKeeps
    <2> QED
        BY <2>2, <2>3
<1>3. CASE ~\E p \in Node : GCMark(p)
    <2>1. gcThrough' = gcThrough
        BY <1>3 DEF Next, Write, LocalWrite, Receive, Redeliver, ApplyEvent, Gossip, Serve,
           CreateBootstrap, TakeSnapshot, SetBootstrapVector, CompleteBootstrap,
           AbortBootstrap, LeaveBootstrap, Handles, Collect, GCBegin, GCReadPins,
           GCReadSeed, GCDelete, GCEnd, Cycle, GCFail, Crash
    <2> QED
        BY <1>1, <2>1
<1> QED
    BY <1>2, <1>3

\* Collection, snapshots and pins stay in step on the source, for any number
\* of concurrent bootstrap sessions (serveSeed, gcLoop, Watermarks).
THEOREM PinInvariant == Spec => []PinInv
<1> QED
    BY PinInvInit, PinInvStep, PTL DEF Spec

\* No history above a pin is collected while its session is STARTED.
THEOREM PinsHold == Spec => []PinnedKept
<1> QED
    BY PinInvariant, PinnedKeptInv, PTL

\* The persisted gc watermark of an origin never moves back.
THEOREM MarksOnlyRise == Spec => MarkMonotone
<1>1. PinInv /\ [Next]_vars => [\A o \in Node : gcThrough'[o] >= gcThrough[o]]_vars
    BY MarkStep
<1> QED
    BY <1>1, PinInvariant, PTL DEF Spec, MarkMonotone
=============================================================================
