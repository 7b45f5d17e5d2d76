-------------------------------- MODULE Mesh --------------------------------
(***************************************************************************)
(* Delta synchronisation of the replication log between the nodes of a     *)
(* mesh: local writes captured by the triggers, symmetric sync sessions    *)
(* over bidirectional streams (sync.Session), unacknowledged broadcasts    *)
(* (sync.Broadcaster, sync.HandleBroadcast), the apply transaction         *)
(* (apply.ApplyBatch) and history collection (gc.Run).                     *)
(*                                                                         *)
(* Each node runs all of these concurrently against one database.  An      *)
(* apply transaction is two steps, its snapshot and its commit, because    *)
(* its SELECTs read the snapshot while its writes meet the latest rows.    *)
(***************************************************************************)
EXTENDS Store, Sequences

CONSTANTS
    Link,           \* <<i, r>>: r is in the peer table of i, i syncs with r
    Writers,        \* the nodes whose application writes
    Broadcasters,   \* the nodes whose broadcast loop runs
    Collectors,     \* the nodes whose gc loop runs
    Active,         \* Active[n]: the nodes that n's table lists as ACTIVE
    SchemaVersion,  \* SchemaVersion[n]: the schema n announces in its HELLO
    BatchMaxEvents, \* events per Batch message
    BroadcastMax,   \* events per Broadcast frame
    GCLimit,        \* rows deleted per origin and gc cycle
    ChanCap,        \* messages a stream direction holds before a write blocks
    MaxFaults       \* bound: stream failures, rollbacks and crashes

ASSUME LinkAssumption == Link \subseteq {l \in Node \X Node : l[1] # l[2]}
ASSUME LoopAssumption ==
    Writers \subseteq Node /\ Broadcasters \subseteq Node /\ Collectors \subseteq Node
ASSUME ActiveAssumption == Active \in [Node -> SUBSET Node]
ASSUME SizeAssumption ==
    /\ BatchMaxEvents \in Nat \ {0}
    /\ BroadcastMax \in Nat \ {0}
    /\ GCLimit \in Nat \ {0}
    /\ ChanCap \in Nat \ {0}
    /\ MaxFaults \in Nat

VARIABLES
    seq,        \* seq[n]: current_seq in replication_local_state
    log,        \* log[n]: the replication_log rows of n
    progress,   \* progress[n][r][o]: n's replication_progress rows
    gcThrough,  \* gcThrough[n][o]: the persisted gc watermark of o at n
    applied,    \* applied[n]: history, the events whose effect committed at n
    ep,         \* ep[e]: one side of a session
    chan,       \* chan[e]: the messages on their way to endpoint e
    lastSent,   \* lastSent[n]: Broadcaster.lastSent, NoRow before its anchor
    casts,      \* the broadcast frames sent and not yet handled
    gc,         \* gc[n]: the collection cycle in progress at n
    faults      \* the faults that have happened

dbVars   == <<seq, log, progress, gcThrough, applied>>
sessVars == <<ep, chan>>
castVars == <<lastSent, casts>>
vars     == <<seq, log, progress, gcThrough, applied, ep, chan, lastSent,
              casts, gc, faults>>

-----------------------------------------------------------------------------
(* Endpoints.  The two sides of the session on a link are the initiator,   *)
(* whose syncWith opened the stream, and the responder, whose serveSync    *)
(* accepted it.                                                            *)

Role == {"init", "resp"}
Endpoint == Link \X Role

Self(e) == IF e[2] = "init" THEN e[1][1] ELSE e[1][2]
Peer(e) == IF e[2] = "init" THEN e[1][2] ELSE e[1][1]
Mate(e) == <<e[1], IF e[2] = "init" THEN "resp" ELSE "init">>

\* A transaction's consistent-read snapshot of the tables it reads.
Snapshot == [log : SUBSET Event, cur : [Node -> Cursor], seq : 0 .. MaxSeq]
NoSnap == [log |-> {}, cur |-> [o \in Node |-> NoRow], seq |-> 0]
TakeSnapshot(n) == [log |-> log[n], cur |-> progress[n][n], seq |-> seq[n]]

\* pc of an endpoint: "hello" waits for the peer's HELLO, "need" is about to
\* validate it and answer with Need, "loop" reads frames, "send" is inside
\* sendRanges, "fetch" is there between the two SELECTs of FetchRange, "apply"
\* is inside the apply transaction, "ack" is about to write the ACK of a
\* committed batch, "closed" has returned.
Phase == {"idle", "hello", "need", "loop", "send", "fetch", "apply", "ack", "closed"}

EndpointState ==
    [pc : Phase, vec : Vector, want : Vector, pending : SUBSET Event,
     todo : SUBSET RangeReq, terminated : BOOLEAN, gotComplete : BOOLEAN,
     gotAck : BOOLEAN, sentBatches : BOOLEAN, snap : Snapshot]

ZeroVector == [o \in Node |-> 0]
Fresh == [pc |-> "idle", vec |-> ZeroVector, want |-> ZeroVector,
          pending |-> {}, todo |-> {}, terminated |-> FALSE,
          gotComplete |-> FALSE, gotAck |-> FALSE, sentBatches |-> FALSE,
          snap |-> NoSnap]

\* The messages of a session (internal/protocol).
HelloMsg == [kind : {"hello"}, vec : Vector]
NeedMsg  == [kind : {"need"}, ranges : SUBSET RangeReq]
BatchMsg == [kind : {"batch"}, events : SUBSET Event, complete : BOOLEAN]
AckMsg   == [kind : {"ack"}, vec : Vector]
ErrorMsg == [kind : {"error"}]
Message  == HelloMsg \cup NeedMsg \cup BatchMsg \cup AckMsg \cup ErrorMsg

Hello(v)    == [kind |-> "hello", vec |-> v]
Need(R)     == [kind |-> "need", ranges |-> R]
Batch(E, c) == [kind |-> "batch", events |-> E, complete |-> c]
Ack(v)      == [kind |-> "ack", vec |-> v]
Error       == [kind |-> "error"]

\* A broadcast frame, and the transaction of the handler that reads it.
Cast == [to : Node, events : SUBSET Event, open : BOOLEAN, snap : Snapshot]

Init ==
    /\ seq = [n \in Node |-> 0]
    /\ log = [n \in Node |-> {}]
    /\ progress = [n \in Node |-> [r \in Node |-> [o \in Node |-> NoRow]]]
    /\ gcThrough = [n \in Node |-> ZeroVector]
    /\ applied = [n \in Node |-> {}]
    /\ ep = [e \in Endpoint |-> Fresh]
    /\ chan = [e \in Endpoint |-> <<>>]
    /\ lastSent = [n \in Node |-> NoRow]
    /\ casts = {}
    /\ gc = [n \in Node |-> [wm |-> ZeroVector, mark |-> FALSE]]
    /\ faults = 0

-----------------------------------------------------------------------------
(* Local writes.  The trigger allocates the next sequence under the row    *)
(* lock of replication_local_state and inserts the log row in the same     *)
(* transaction, so local history is gap-free in commit order.              *)

LocalWrite(n) ==
    /\ seq[n] < MaxSeq
    /\ seq' = [seq EXCEPT ![n] = @ + 1]
    /\ log' = [log EXCEPT ![n] = @ \cup {<<n, seq[n] + 1>>}]
    /\ applied' = [applied EXCEPT ![n] = @ \cup {<<n, seq[n] + 1>>}]
    /\ UNCHANGED <<progress, gcThrough, sessVars, castVars, gc, faults>>

-----------------------------------------------------------------------------
(* The apply transaction of node n over the snapshot snap.                 *)

Origins(E) == {e[1] : e \in E}

\* AdvanceContiguous for one touched origin.  Its reads see the snapshot and
\* the rows this transaction inserted: a row another transaction committed
\* after the snapshot is a duplicate for INSERT IGNORE and stays invisible.
AdvanceContiguous(n, o, E, snap, own) ==
    SetProgress(progress[n][n][o],
        IF o = n THEN own
        ELSE FirstGap(snap.log \cup (E \ log[n]), o, ReadCursor(snap.cur[o])))

AppliedCursors(n, E, snap, own) ==
    [o \in Node |-> IF o \in Origins(E) THEN AdvanceContiguous(n, o, E, snap, own)
                    ELSE progress[n][n][o]]

\* LocalVectorTx inside the transaction: its own writes, else the snapshot.
AppliedVector(n, E, snap, own) ==
    [o \in Node |-> IF o = n THEN own
                    ELSE IF o \in Origins(E) THEN AdvanceContiguous(n, o, E, snap, own)
                    ELSE ReadCursor(snap.cur[o])]

\* The commit.  own is the current_seq it reads: SaveHLC makes the latest
\* local-state row its own when it changes the row, and leaves the snapshot's
\* row visible when the stored clock is already ahead.
ApplyBatch(n, E, snap, own) ==
    /\ own \in {snap.seq, seq[n]}
    /\ log' = [log EXCEPT ![n] = @ \cup E]
    /\ applied' = [applied EXCEPT ![n] = @ \cup E]
    /\ progress' = [progress EXCEPT ![n][n] = AppliedCursors(n, E, snap, own)]
    /\ UNCHANGED <<seq, gcThrough>>

-----------------------------------------------------------------------------
(* Sessions: opening, HELLO, Need.                                         *)

Send(e, m) == [chan EXCEPT ![Mate(e)] = Append(@, m)]
CanWrite(e) == Len(chan[Mate(e)]) < ChanCap
Receive(e) == [chan EXCEPT ![e] = Tail(@)]
Reading(e, kind) == chan[e] # <<>> /\ Head(chan[e]).kind = kind

\* Session returns and its stream is closed; the link is free again once both
\* sides have returned.  What the side has not read is never read.
Return(e, channels) ==
    IF ep[Mate(e)].pc = "closed"
    THEN /\ ep' = [ep EXCEPT ![e] = Fresh, ![Mate(e)] = Fresh]
         /\ chan' = [channels EXCEPT ![e] = <<>>, ![Mate(e)] = <<>>]
    ELSE /\ ep' = [ep EXCEPT ![e] = [Fresh EXCEPT !.pc = "closed"]]
         /\ chan' = channels

\* The loop test after a frame was handled.
Resume(e, state, channels) ==
    IF state.gotComplete /\ state.gotAck /\ state.sentBatches
    THEN Return(e, channels)
    ELSE /\ ep' = [ep EXCEPT ![e] = [state EXCEPT !.pc = "loop"]]
         /\ chan' = channels

\* syncWith: the initiator reads its vector and writes its HELLO first.
Open(l) ==
    LET e == <<l, "init">>
        vec == LocalVector(Self(e), progress[Self(e)][Self(e)], seq[Self(e)])
    IN  /\ ep[e].pc = "idle" /\ ep[Mate(e)].pc = "idle"
        /\ ep' = [ep EXCEPT ![e] = [Fresh EXCEPT !.pc = "hello", !.vec = vec],
                            ![Mate(e)] = [Fresh EXCEPT !.pc = "hello"]]
        /\ chan' = Send(e, Hello(vec))
        /\ UNCHANGED <<dbVars, castVars, gc, faults>>

\* serveSync: the responder reads its vector, reads the HELLO, answers with
\* its own.
AnswerHello(e) ==
    LET vec == LocalVector(Self(e), progress[Self(e)][Self(e)], seq[Self(e)])
    IN  /\ e[2] = "resp" /\ ep[e].pc = "hello" /\ Reading(e, "hello")
        /\ CanWrite(e)
        /\ ep' = [ep EXCEPT ![e] = [Fresh EXCEPT !.pc = "need", !.vec = vec,
                                                 !.want = Head(chan[e]).vec]]
        /\ chan' = [Send(e, Hello(vec)) EXCEPT ![e] = Tail(@)]
        /\ UNCHANGED <<dbVars, castVars, gc, faults>>

ReadHello(e) ==
    /\ e[2] = "init" /\ ep[e].pc = "hello" /\ Reading(e, "hello")
    /\ ep' = [ep EXCEPT ![e].pc = "need", ![e].want = Head(chan[e]).vec]
    /\ chan' = Receive(e)
    /\ UNCHANGED <<dbVars, castVars, gc, faults>>

\* validateHello: on a mismatch the side writes an Error and returns.
HelloValid(e) == SchemaVersion[Peer(e)] = SchemaVersion[Self(e)]

SendNeed(e) ==
    /\ ep[e].pc = "need" /\ CanWrite(e)
    /\ IF HelloValid(e)
       THEN Resume(e, [ep[e] EXCEPT !.want = ZeroVector, !.vec = ZeroVector],
                   Send(e, Need(Missing(ep[e].vec, ep[e].want))))
       ELSE Return(e, Send(e, Error))
    /\ UNCHANGED <<dbVars, castVars, gc, faults>>

-----------------------------------------------------------------------------
(* Sessions: the frame loop.                                               *)

InLoop(e, kind) == ep[e].pc = "loop" /\ Reading(e, kind)

\* KindNeed: enter sendRanges.
ReadNeed(e) ==
    /\ InLoop(e, "need")
    /\ ep' = [ep EXCEPT ![e].pc = "send", ![e].todo = Head(chan[e]).ranges,
                        ![e].terminated = FALSE]
    /\ chan' = Receive(e)
    /\ UNCHANGED <<dbVars, castVars, gc, faults>>

\* The range being served: ranges go in the order of their origin keys.
NextRange(e) ==
    CHOOSE r \in ep[e].todo : \A q \in ep[e].todo : r.origin <= q.origin

Truncated(n, o, from) == from <= gcThrough[n][o]

\* The inner loop of sendRanges runs FetchRange, which first compares the start
\* of the range with the persisted watermark: a truncated history ends the
\* session with an Error.
CheckRange(e) ==
    /\ ep[e].pc = "send" /\ ep[e].todo # {}
    /\ IF Truncated(Self(e), NextRange(e).origin, NextRange(e).from)
       THEN CanWrite(e) /\ Return(e, Send(e, Error))
       ELSE ep' = [ep EXCEPT ![e].pc = "fetch"] /\ UNCHANGED chan
    /\ UNCHANGED <<dbVars, castVars, gc, faults>>

\* Then it selects the rows, which may have been collected since.  An empty fetch
\* gives the range up; a batch that reaches the end of its range is Complete,
\* whatever ranges follow.
SendRange(e) ==
    LET r == NextRange(e)
        events == FetchRange(log[Self(e)], r.origin, r.from, r.to, BatchMaxEvents)
        last == Max({x[2] : x \in events})
        complete == last >= r.to
        rest == ep[e].todo \ {r}
    IN  /\ ep[e].pc = "fetch" /\ ep[e].todo # {}
        /\ \/ /\ events = {}
              /\ ep' = [ep EXCEPT ![e].pc = "send", ![e].todo = rest,
                                  ![e].terminated = FALSE]
              /\ UNCHANGED chan
           \/ /\ events # {} /\ CanWrite(e)
              /\ ep' = [ep EXCEPT
                          ![e].pc = "send",
                          ![e].todo = IF complete THEN rest
                                      ELSE rest \cup {[r EXCEPT !.from = last + 1]},
                          ![e].terminated = complete]
              /\ chan' = Send(e, Batch(events, complete))
        /\ UNCHANGED <<dbVars, castVars, gc, faults>>

MutantEndSend(e) ==    \* no trailing Complete batch
    /\ ep[e].pc = "send" /\ ep[e].todo = {}
    /\ Resume(e, [ep[e] EXCEPT !.sentBatches = TRUE, !.terminated = FALSE], chan)
    /\ UNCHANGED <<dbVars, castVars, gc, faults>>

\* The end of sendRanges: a trailing empty Complete batch unless the last one
\* written was complete.
EndSend(e) ==
    /\ ep[e].pc = "send" /\ ep[e].todo = {}
    /\ ep[e].terminated \/ CanWrite(e)
    /\ Resume(e, [ep[e] EXCEPT !.sentBatches = TRUE, !.terminated = FALSE],
              IF ep[e].terminated THEN chan ELSE Send(e, Batch({}, TRUE)))
    /\ UNCHANGED <<dbVars, castVars, gc, faults>>

\* KindBatch: collect, and on Complete run ApplyBatch on what was collected.
\* An empty batch needs no transaction, only the local vector.
ReadBatch(e) ==
    LET n == Self(e)
        m == Head(chan[e])
        events == ep[e].pending \cup m.events
    IN  /\ InLoop(e, "batch")
        /\ chan' = Receive(e)
        /\ \/ /\ ~m.complete
              /\ ep' = [ep EXCEPT ![e].pending = events]
           \/ /\ m.complete /\ events # {}
              /\ ep' = [ep EXCEPT ![e].pc = "apply", ![e].pending = events,
                                  ![e].snap = TakeSnapshot(n)]
           \/ /\ m.complete /\ events = {}
              /\ ep' = [ep EXCEPT ![e].pc = "ack", ![e].gotComplete = TRUE,
                                  ![e].vec = LocalVector(n, progress[n][n], seq[n])]
        /\ UNCHANGED <<dbVars, castVars, gc, faults>>

\* The commit of the batch; only now is there something to acknowledge.
CommitBatch(e) ==
    LET n == Self(e)
        s == ep[e]
    IN  /\ s.pc = "apply"
        /\ \E own \in {s.snap.seq, seq[n]} :
              /\ ApplyBatch(n, s.pending, s.snap, own)
              /\ ep' = [ep EXCEPT ![e].pc = "ack", ![e].gotComplete = TRUE,
                           ![e].pending = {}, ![e].snap = NoSnap,
                           ![e].vec = AppliedVector(n, s.pending, s.snap, own)]
        /\ UNCHANGED <<chan, castVars, gc, faults>>

SendAck(e) ==
    /\ ep[e].pc = "ack" /\ CanWrite(e)
    /\ Resume(e, [ep[e] EXCEPT !.vec = ZeroVector], Send(e, Ack(ep[e].vec)))
    /\ UNCHANGED <<dbVars, castVars, gc, faults>>

MutantRecordOwn(n, peer, vec, K) ==      \* records the vector of n, not the ACK's
    progress' = [progress EXCEPT ![n][peer] = LocalVector(n, progress[n][n], seq[n])]
MutantRecordUnderSelf(n, peer, vec, K) ==    \* the ACK's vector in the rows of n
    progress' = [progress EXCEPT ![n][n] =
                    [o \in Node |-> SetProgress(@[o], vec[o])]]

\* KindAck: RecordPeerVector stores what the peer says it has, one statement
\* per origin in key order; when one fails the rest is left out and the error
\* is only logged.  A key the vector lacks is read as 0 before and after.
RecordPeerVector(n, peer, vec, K) ==
    progress' = [progress EXCEPT ![n][peer] =
                    [o \in Node |-> IF o \in K THEN SetProgress(@[o], vec[o]) ELSE @[o]]]

ReadAck(e) ==
    /\ InLoop(e, "ack")
    /\ \/ /\ RecordPeerVector(Self(e), Peer(e), Head(chan[e]).vec, Node)
          /\ UNCHANGED faults
       \/ /\ faults < MaxFaults
          /\ faults' = faults + 1
          /\ \E k \in Node : RecordPeerVector(Self(e), Peer(e), Head(chan[e]).vec,
                                              {o \in Node : o < k})
    /\ Resume(e, [ep[e] EXCEPT !.gotAck = TRUE], Receive(e))
    /\ UNCHANGED <<seq, log, gcThrough, applied, castVars, gc>>

\* KindError, or the end of a stream whose other side has returned.
ReadEnd(e) ==
    /\ ep[e].pc \in {"hello", "loop"}
    /\ \/ Reading(e, "error")
       \/ chan[e] = <<>> /\ ep[Mate(e)].pc = "closed"
    /\ Return(e, chan)
    /\ UNCHANGED <<dbVars, castVars, gc, faults>>

-----------------------------------------------------------------------------
(* Broadcasts.                                                             *)

\* broadcastOnce: Collect anchors on its first call; later it fetches what
\* was written since, moves its cursor, and the frame goes to some peers (at
\* most three random ones, of which any send may fail).  The two SELECTs of its
\* FetchRange are one step here.
CollectAnchor(n) ==
    /\ lastSent[n] = NoRow
    /\ lastSent' = [lastSent EXCEPT ![n] = seq[n]]
    /\ UNCHANGED <<dbVars, sessVars, casts, gc, faults>>

PeersOf(n) == {l[2] : l \in {k \in Link : k[1] = n}}

Collect(n) ==
    LET events == FetchRange(log[n], n, lastSent[n] + 1, seq[n], BroadcastMax)
    IN  /\ lastSent[n] # NoRow /\ seq[n] > lastSent[n]
        /\ ~Truncated(n, n, lastSent[n] + 1)
        /\ lastSent' = [lastSent EXCEPT ![n] =
                           IF events = {} THEN seq[n] ELSE Max({x[2] : x \in events})]
        /\ \E P \in SUBSET PeersOf(n) :
              casts' = IF events = {} THEN casts
                       ELSE casts \cup {[to |-> p, events |-> events, open |-> FALSE,
                                         snap |-> NoSnap] : p \in P}
        /\ UNCHANGED <<dbVars, sessVars, gc, faults>>

\* HandleBroadcast at the receiver: the transaction opens, then commits.
HandleBroadcast(c) ==
    /\ ~c.open
    /\ casts' = (casts \ {c}) \cup
                {[c EXCEPT !.open = TRUE, !.snap = TakeSnapshot(c.to)]}
    /\ UNCHANGED <<dbVars, sessVars, lastSent, gc, faults>>

CommitBroadcast(c) ==
    /\ c.open
    /\ \E own \in {c.snap.seq, seq[c.to]} : ApplyBatch(c.to, c.events, c.snap, own)
    /\ casts' = casts \ {c}
    /\ UNCHANGED <<sessVars, lastSent, gc, faults>>

-----------------------------------------------------------------------------
(* History collection: gc.Run computes the watermarks once, then walks the *)
(* origins; per origin the DELETE and the upsert of the persisted          *)
(* watermark are two statements outside any transaction.                   *)

Idle(n) == gc[n].wm = ZeroVector

GCBegin(n) ==
    /\ Idle(n)
    /\ gc' = [gc EXCEPT ![n].wm = Watermarks(progress[n], Active[n])]
    /\ UNCHANGED <<dbVars, sessVars, castVars, faults>>

GCOrigin(n) == Min({o \in Node : gc[n].wm[o] > 0})

\* DeleteThrough, first statement.  A full batch leaves the rest of the range
\* for a later cycle.
GCDelete(n) ==
    LET o == GCOrigin(n)
        rows == DeletedRows(log[n], o, gc[n].wm[o], GCLimit)
        drained == Cardinality(rows) < GCLimit
    IN  /\ ~Idle(n) /\ ~gc[n].mark
        /\ log' = [log EXCEPT ![n] = @ \ rows]
        /\ gc' = IF drained THEN [gc EXCEPT ![n].mark = TRUE]
                 ELSE [gc EXCEPT ![n].wm[o] = 0]
        /\ UNCHANGED <<seq, progress, gcThrough, applied, sessVars, castVars, faults>>

\* setGCWatermark: the stored value is overwritten.
GCMark(n) ==
    LET o == GCOrigin(n)
    IN  /\ gc[n].mark
        /\ gcThrough' = [gcThrough EXCEPT ![n][o] = gc[n].wm[o]]
        /\ gc' = [gc EXCEPT ![n].wm[o] = 0, ![n].mark = FALSE]
        /\ UNCHANGED <<seq, log, progress, applied, sessVars, castVars, faults>>

-----------------------------------------------------------------------------
(* Faults.                                                                 *)

Fault == faults < MaxFaults /\ faults' = faults + 1

\* Session returns an error: the context expired, the stream broke, the
\* transaction was rolled back.
Fail(e) ==
    /\ Fault
    /\ ep[e].pc \notin {"idle", "closed"}
    /\ Return(e, chan)
    /\ UNCHANGED <<dbVars, castVars, gc>>

\* The handler of a broadcast fails, or its frame is lost.
LoseBroadcast(c) ==
    /\ Fault
    /\ casts' = casts \ {c}
    /\ UNCHANGED <<dbVars, sessVars, lastSent, gc>>

\* The process of n dies and starts again.  Its transactions roll back, its
\* connections are gone for both sides, its broadcaster anchors anew.
Touches(e, n) == n \in {Self(e), Peer(e)}

Crash(n) ==
    /\ Fault
    /\ ep' = [e \in Endpoint |-> IF Touches(e, n) THEN Fresh ELSE ep[e]]
    /\ chan' = [e \in Endpoint |-> IF Touches(e, n) THEN <<>> ELSE chan[e]]
    /\ lastSent' = [lastSent EXCEPT ![n] = NoRow]
    /\ casts' = {c \in casts : c.to # n}
    /\ gc' = [gc EXCEPT ![n] = [wm |-> ZeroVector, mark |-> FALSE]]
    /\ UNCHANGED dbVars

-----------------------------------------------------------------------------
SessionStep(e) ==
    \/ AnswerHello(e) \/ ReadHello(e) \/ SendNeed(e) \/ ReadNeed(e)
    \/ CheckRange(e) \/ SendRange(e) \/ EndSend(e) \/ ReadBatch(e)
    \/ CommitBatch(e) \/ SendAck(e) \/ ReadAck(e) \/ ReadEnd(e)

BroadcastStep ==
    \/ \E n \in Broadcasters : CollectAnchor(n) \/ Collect(n)
    \/ \E c \in casts : HandleBroadcast(c) \/ CommitBroadcast(c)

GCStep(n) == GCBegin(n) \/ GCDelete(n) \/ GCMark(n)

FaultStep ==
    \/ \E e \in Endpoint : Fail(e)
    \/ \E c \in casts : LoseBroadcast(c)
    \/ \E n \in Node : Crash(n)

Next ==
    \/ \E n \in Writers : LocalWrite(n)
    \/ \E l \in Link : Open(l)
    \/ \E e \in Endpoint : SessionStep(e)
    \/ BroadcastStep
    \/ \E n \in Collectors : GCStep(n)
    \/ FaultStep

Spec == Init /\ [][Next]_vars

\* Each sync loop keeps opening sessions (its ticker), and a side of a session
\* whose next statement can run does run it (its goroutine).  Nothing is
\* assumed of broadcasts, of collection or of faults.
Fairness ==
    /\ \A l \in Link : WF_vars(Open(l))
    /\ \A e \in Endpoint : WF_vars(SessionStep(e))

FairSpec == Spec /\ Fairness

-----------------------------------------------------------------------------
(* Properties.                                                             *)

\* Every variable keeps to the shape of the table, stream or field it models.
TypeOK ==
    /\ seq \in [Node -> 0 .. MaxSeq]
    /\ log \in [Node -> SUBSET Event]
    /\ progress \in [Node -> [Node -> [Node -> Cursor]]]
    /\ gcThrough \in [Node -> Vector]
    /\ applied \in [Node -> SUBSET Event]
    /\ ep \in [Endpoint -> EndpointState]
    /\ chan \in [Endpoint -> Seq(Message)]
    /\ lastSent \in [Node -> Cursor]
    /\ casts \subseteq Cast
    /\ gc \in [Node -> [wm : Vector, mark : BOOLEAN]]
    /\ faults \in 0 .. MaxFaults

\* The vector a node advertises (Store.LocalVector).
VectorOf(n) == LocalVector(n, progress[n][n], seq[n])

\* "N is the sync cursor: every seq in [1..N] is present": whatever a node
\* advertises in a HELLO or an ACK, it has committed, although transactions
\* with stale snapshots overlap, events arrive out of order and twice, and
\* history is collected underneath (AdvanceContiguous, LocalVectorTx).
CursorSound ==
    \A n, o \in Node : \A s \in 1 .. VectorOf(n)[o] : <<o, s>> \in applied[n]

\* Commit before ACK: what a node has recorded of a peer never exceeds what
\* the peer has committed, across lost ACKs, rollbacks and crashes
\* (Session's KindAck case, RecordPeerVector, the pins of gc.Watermarks).
AckSound ==
    \A n, r, o \in Node : n # r => progress[n][r][o] <= VectorOf(r)[o]

\* What the two properties above rest on: everything that is on its way (an
\* open snapshot, a vector about to be sent, an ACK or a batch on a stream, a
\* broadcast frame) still tells the truth about its sender when it is used.
Below(v, w) == \A o \in Node : v[o] <= w[o]
Held == UNION {applied[n] : n \in Node}

SnapSound(n, snap) ==
    snap.log \subseteq applied[n] /\ Below(snap.cur, progress[n][n]) /\ snap.seq <= seq[n]

EpSound(e, state) ==
    /\ Below(state.vec, VectorOf(Self(e)))
    /\ SnapSound(Self(e), state.snap)
    /\ state.pending \subseteq Held

Truthful(sender) ==
    {m \in Message : /\ m.kind = "ack" => Below(m.vec, VectorOf(sender))
                     /\ m.kind = "batch" => m.events \subseteq Held}

TablesSound ==
    \A n \in Node : log[n] \subseteq applied[n] /\ progress[n][n][n] <= seq[n]
EpsSound(eps) == \A e \in Endpoint : EpSound(e, eps[e])
ChansSound(channels) == \A e \in Endpoint : channels[e] \in Seq(Truthful(Peer(e)))
CastsSound(frames) ==
    \A c \in frames : SnapSound(c.to, c.snap) /\ c.events \subseteq Held

\* The inductive invariant behind CursorSound and AckSound (Session, ApplyBatch
\* and HandleBroadcast between their reads and their use of what was read).
SoundInv ==
    /\ TypeOK /\ CursorSound /\ AckSound /\ TablesSound
    /\ EpsSound(ep) /\ ChansSound(chan) /\ CastsSound(casts)

\* A cursor never moves back, although a transaction that computed it from an
\* older snapshot may commit later (SetProgress).
CursorMonotone ==
    [][\A n, r, o \in Node : progress'[n][r][o] >= progress[n][r][o]]_vars

\* "Nodes converge when they reconnect": once the application stops writing,
\* every node ends up with every event of every origin, through the nodes in
\* between when the mesh is partial (Session, syncLoop).
Convergence == <>[](\A n, o \in Node : VectorOf(n)[o] = seq[o])

\* n lacks the next event of o that m advertises, and m has collected it.
Collected(n, m, o) ==
    VectorOf(m)[o] > VectorOf(n)[o] /\ <<o, VectorOf(n)[o] + 1>> \notin log[m]

\* A node catches up with each node it shares a link with, on every origin, however
\* many ranges its Need has and whatever is collected while they are served.  A
\* range whose start the other node has collected may hold up itself and the
\* ranges behind it (the session ends with an Error, or an empty fetch gives the
\* range up; a seed is the way out), but none before it (sendRanges, FetchRange).
CatchUp ==
    <>[](\A l \in Link : \A n, m \in {l[1], l[2]} : \A o \in Node :
            \/ VectorOf(n)[o] >= VectorOf(m)[o]
            \/ \E p \in Node : p <= o /\ Collected(n, m, p))

\* Both halves of every session return (sync.go: "halves cannot deadlock"): a
\* link is idle again only when both have.
SessionsEnd ==
    \A l \in Link : []<>(ep[<<l, "init">>].pc = "idle")

\* "Events at or below the watermark exist on every node that needs them"
\* (gc.Watermarks, which skips a receiver that has not acknowledged yet).
GCSafe ==
    \A n, o, r \in Node : \A s \in 1 .. gcThrough[n][o] : <<o, s>> \in applied[r]

\* The mesh implements the abstract replicated log: the events a node has
\* applied are what it holds, its progress rows are what it knows.
Abstract == INSTANCE ReplicatedLog
                WITH written <- seq, held <- applied, known <- progress

\* Every step of sessions, broadcasts, transactions, collection and faults is
\* a write, a receipt of events someone holds, or learning of a peer's
\* committed progress, or changes none of these (ApplyBatch, RecordPeerVector).
ImplementsLog == Abstract!Spec
=============================================================================
