----------------------------- MODULE MeshProofs -----------------------------
(***************************************************************************)
(* Proofs about module Mesh, for every set of nodes, every topology, every *)
(* batch size and every bound: type correctness, the soundness of cursors  *)
(* and acknowledgements, the monotonicity of cursors, and the refinement   *)
(* of the abstract replicated log.                                         *)
(*                                                                         *)
(* The argument for soundness: tables only grow (Grows), so whatever was   *)
(* read from them earlier stays below them; with that, the only steps that *)
(* can break it are the commit of a transaction and the recording of an    *)
(* ACK.  The refinement takes ReplicatedLog's guards from soundness: a     *)
(* commit or an ACK is a Receive or a Learn only because what was in       *)
(* flight was still true when it was used.                                 *)
(***************************************************************************)
EXTENDS Mesh, StoreProofs, SequenceTheorems

-----------------------------------------------------------------------------
(* Facts about endpoints, snapshots and channels.                          *)

LEMMA EndpointFacts ==
    ASSUME NEW e \in Endpoint
    PROVE  /\ Self(e) \in Node /\ Peer(e) \in Node /\ Self(e) # Peer(e)
           /\ Mate(e) \in Endpoint /\ Mate(e) # e
           /\ Self(Mate(e)) = Peer(e) /\ Peer(Mate(e)) = Self(e)
<1>1. PICK l \in Link, x \in Role : e = <<l, x>>
    BY DEF Endpoint
<1>2. l \in Node \X Node /\ l[1] # l[2]
    BY <1>1, LinkAssumption
<1>3. x = "init" \/ x = "resp"
    BY <1>1 DEF Role
<1> QED
    BY <1>1, <1>2, <1>3 DEF Self, Peer, Mate, Endpoint, Role

LEMMA ZeroVectorType == ZeroVector \in Vector
BY MaxSeqAssumption DEF ZeroVector, Vector

LEMMA NoSnapType == NoSnap \in Snapshot
BY MaxSeqAssumption DEF NoSnap, Snapshot, Cursor, NoRow

LEMMA FreshType ==
    /\ Fresh \in EndpointState
    /\ [Fresh EXCEPT !.pc = "closed"] \in EndpointState
BY ZeroVectorType, NoSnapType DEF Fresh, EndpointState, Phase

LEMMA LocalVectorType ==
    ASSUME TypeOK, NEW n \in Node
    PROVE  LocalVector(n, progress[n][n], seq[n]) \in Vector
<1>1. \A c \in Cursor : ReadCursor(c) \in 0 .. MaxSeq
    BY MaxSeqAssumption DEF ReadCursor, Cursor, NoRow
<1>2. progress[n][n] \in [Node -> Cursor] /\ seq[n] \in 0 .. MaxSeq
    BY DEF TypeOK
<1> QED
    BY <1>1, <1>2 DEF LocalVector, Vector

LEMMA TakeSnapshotType ==
    ASSUME TypeOK, NEW n \in Node
    PROVE  TakeSnapshot(n) \in Snapshot
BY DEF TypeOK, TakeSnapshot, Snapshot

LEMMA MessageType ==
    /\ \A v \in Vector : Hello(v) \in Message /\ Ack(v) \in Message
    /\ \A R \in SUBSET RangeReq : Need(R) \in Message
    /\ \A E \in SUBSET Event, c \in BOOLEAN : Batch(E, c) \in Message
    /\ Error \in Message
BY DEF Message, HelloMsg, NeedMsg, BatchMsg, AckMsg, ErrorMsg,
       Hello, Need, Batch, Ack, Error

LEMMA HeadType ==
    ASSUME NEW e \in Endpoint, chan \in [Endpoint -> Seq(Message)], chan[e] # <<>>
    PROVE  /\ Head(chan[e]) \in Message
           /\ Tail(chan[e]) \in Seq(Message)
           /\ Head(chan[e]).kind \in {"hello", "ack"} => Head(chan[e]).vec \in Vector
           /\ Head(chan[e]).kind = "need" => Head(chan[e]).ranges \in SUBSET RangeReq
           /\ Head(chan[e]).kind = "batch" =>
                 Head(chan[e]).events \in SUBSET Event /\ Head(chan[e]).complete \in BOOLEAN
<1>1. Head(chan[e]) \in Message /\ Tail(chan[e]) \in Seq(Message)
    OBVIOUS
<1>2. \A m \in Message :
        /\ m.kind \in {"hello", "ack"} => m.vec \in Vector
        /\ m.kind = "need" => m.ranges \in SUBSET RangeReq
        /\ m.kind = "batch" => m.events \in SUBSET Event /\ m.complete \in BOOLEAN
    BY DEF Message, HelloMsg, NeedMsg, BatchMsg, AckMsg, ErrorMsg
<1> QED
    BY <1>1, <1>2

LEMMA SendType ==
    ASSUME NEW e \in Endpoint, chan \in [Endpoint -> Seq(Message)], NEW m \in Message
    PROVE  Send(e, m) \in [Endpoint -> Seq(Message)]
BY EndpointFacts DEF Send

LEMMA ReceiveType ==
    ASSUME NEW e \in Endpoint, chan \in [Endpoint -> Seq(Message)], chan[e] # <<>>
    PROVE  Receive(e) \in [Endpoint -> Seq(Message)]
BY HeadType DEF Receive

\* Session returning, or going round its loop, keeps the shape of both sides.
LEMMA ReturnType ==
    ASSUME NEW e \in Endpoint, ep \in [Endpoint -> EndpointState],
           NEW ch \in [Endpoint -> Seq(Message)], Return(e, ch)
    PROVE  ep' \in [Endpoint -> EndpointState] /\ chan' \in [Endpoint -> Seq(Message)]
<1>1. Mate(e) \in Endpoint /\ <<>> \in Seq(Message)
    BY EndpointFacts
<1>2. CASE ep[Mate(e)].pc = "closed"
    BY <1>1, <1>2, FreshType DEF Return
<1>3. CASE ep[Mate(e)].pc # "closed"
    BY <1>1, <1>3, FreshType DEF Return
<1> QED
    BY <1>2, <1>3

LEMMA ResumeType ==
    ASSUME NEW e \in Endpoint, ep \in [Endpoint -> EndpointState],
           NEW state \in EndpointState,
           NEW ch \in [Endpoint -> Seq(Message)], Resume(e, state, ch)
    PROVE  ep' \in [Endpoint -> EndpointState] /\ chan' \in [Endpoint -> Seq(Message)]
<1>1. CASE Return(e, ch)
    BY <1>1, ReturnType
<1>2. CASE ~Return(e, ch)
    <2>1. [state EXCEPT !.pc = "loop"] \in EndpointState
        BY DEF EndpointState, Phase
    <2> QED
        BY <1>2, <2>1 DEF Resume
<1> QED
    BY <1>1, <1>2

\* The cursor and the vector an apply transaction computes.
LEMMA ReadCursorType == \A c \in Cursor : ReadCursor(c) \in 0 .. MaxSeq
BY MaxSeqAssumption DEF ReadCursor, Cursor, NoRow

LEMMA CursorsRead ==
    ASSUME TypeOK, NEW n \in Node, NEW o \in Node, NEW snap \in Snapshot
    PROVE  /\ snap.cur[o] \in Cursor /\ ReadCursor(snap.cur[o]) \in 0 .. MaxSeq
           /\ progress[n][n][o] \in Cursor
<1>1. snap.cur \in [Node -> Cursor]
    BY DEF Snapshot
<1>2. progress \in [Node -> [Node -> [Node -> Cursor]]]
    BY DEF TypeOK
<1>3. snap.cur[o] \in Cursor /\ progress[n][n][o] \in Cursor
    BY <1>1, <1>2
<1> QED
    BY <1>3, ReadCursorType

LEMMA AdvanceType ==
    ASSUME TypeOK, NEW n \in Node, NEW o \in Node, NEW E \in SUBSET Event,
           NEW snap \in Snapshot, NEW own \in 0 .. MaxSeq
    PROVE  /\ AdvanceContiguous(n, o, E, snap, own) \in 0 .. MaxSeq
           /\ AdvanceContiguous(n, o, E, snap, own) >= progress[n][n][o]
<1> DEFINE c == ReadCursor(snap.cur[o])
           g == FirstGap(snap.log \cup (E \ log[n]), o, c)
<1>1. c \in 0 .. MaxSeq /\ progress[n][n][o] \in Cursor
    BY CursorsRead
<1>2. snap.log \cup (E \ log[n]) \in SUBSET Event
    BY DEF Snapshot
<1>3. g \in c .. MaxSeq
    BY <1>1, <1>2, FirstGapSound
<1>4. (IF o = n THEN own ELSE g) \in 0 .. MaxSeq
    BY <1>1, <1>3, MaxSeqAssumption
<1> HIDE DEF c, g
<1> QED
    BY <1>1, <1>4, MaxSeqAssumption
    DEF AdvanceContiguous, SetProgress, Larger, Cursor, NoRow, c, g

LEMMA ApplyType ==
    ASSUME TypeOK, NEW n \in Node, NEW E \in SUBSET Event, NEW snap \in Snapshot,
           NEW own, own \in {snap.seq, seq[n]}
    PROVE  /\ AppliedCursors(n, E, snap, own) \in [Node -> Cursor]
           /\ AppliedVector(n, E, snap, own) \in Vector
<1>1. own \in 0 .. MaxSeq
    BY DEF TypeOK, Snapshot
<1>2. \A o \in Node : AdvanceContiguous(n, o, E, snap, own) \in 0 .. MaxSeq
    BY <1>1, AdvanceType
<1>3. \A o \in Node : /\ ReadCursor(snap.cur[o]) \in 0 .. MaxSeq
                      /\ progress[n][n][o] \in Cursor
    BY CursorsRead
<1>4. 0 .. MaxSeq \subseteq Cursor
    BY MaxSeqAssumption DEF Cursor, NoRow
<1> QED
    BY <1>1, <1>2, <1>3, <1>4 DEF AppliedCursors, AppliedVector, Vector

\* The commit of an apply transaction keeps the tables well formed.
LEMMA ApplyBatchType ==
    ASSUME TypeOK, NEW n \in Node, NEW E \in SUBSET Event, NEW snap \in Snapshot,
           NEW own, ApplyBatch(n, E, snap, own)
    PROVE  /\ seq' \in [Node -> 0 .. MaxSeq]
           /\ log' \in [Node -> SUBSET Event]
           /\ progress' \in [Node -> [Node -> [Node -> Cursor]]]
           /\ gcThrough' \in [Node -> Vector]
           /\ applied' \in [Node -> SUBSET Event]
<1>1. AppliedCursors(n, E, snap, own) \in [Node -> Cursor]
    BY ApplyType DEF ApplyBatch
<1> QED
    BY <1>1 DEF ApplyBatch, TypeOK

\* What sendRanges fetches, and the range it goes on with.
LEMMA RangeStepType ==
    ASSUME TypeOK, NEW e \in Endpoint, ep[e].todo # {}
    PROVE  LET r == NextRange(e)
               events == FetchRange(log[Self(e)], r.origin, r.from, r.to, BatchMaxEvents)
               last == Max({x[2] : x \in events})
           IN  /\ r \in ep[e].todo /\ r \in RangeReq
               /\ events \in SUBSET Event
               /\ events # {} /\ ~(last >= r.to) =>
                     [r EXCEPT !.from = last + 1] \in RangeReq
<1> DEFINE r == NextRange(e)
           events == FetchRange(log[Self(e)], r.origin, r.from, r.to, BatchMaxEvents)
           S == {x[2] : x \in events}
<1>1. ep[e].todo \subseteq RangeReq
    BY DEF TypeOK, EndpointState
<1>2. r \in ep[e].todo
    BY <1>1, LeastOrigin DEF NextRange
<1>3. r \in RangeReq
    BY <1>1, <1>2
<1>4. log[Self(e)] \in SUBSET Event
    BY EndpointFacts DEF TypeOK
<1>5. /\ events \subseteq log[Self(e)]
      /\ \A x \in events : x[2] \in r.from .. r.to
    BY <1>4, FetchRangeSound
<1>6. ASSUME events # {}, ~(Max(S) >= r.to)
      PROVE  [r EXCEPT !.from = Max(S) + 1] \in RangeReq
    <2>1. S \subseteq Seqs /\ S # {}
        BY <1>4, <1>5, <1>6 DEF Event
    <2>2. Max(S) \in S
        <3>1. S \subseteq 0 .. MaxSeq
            BY <2>1 DEF Seqs
        <3> HIDE DEF S
        <3> QED
            BY <2>1, <3>1, MaxOfNaturals, MaxSeqAssumption
    <2>3. Max(S) + 1 \in Seqs
        <3>1. r.to \in 1 .. MaxSeq
            BY <1>3 DEF RangeReq, Seqs
        <3>2. Max(S) \in 1 .. MaxSeq
            BY <2>1, <2>2 DEF Seqs
        <3>3. ~(Max(S) >= r.to)
            BY <1>6
        <3> HIDE DEF S, r
        <3> QED
            BY <3>1, <3>2, <3>3, MaxSeqAssumption DEF Seqs
    <2> HIDE DEF S, r
    <2> QED
        BY <1>3, <2>3 DEF RangeReq
<1> HIDE DEF r, S
<1> QED
    BY <1>2, <1>3, <1>4, <1>5, <1>6 DEF r, S

-----------------------------------------------------------------------------
(* Type correctness.                                                       *)

LEMMA TypeInit == Init => TypeOK
<1> SUFFICES ASSUME Init PROVE TypeOK
    OBVIOUS
<1>1. /\ seq \in [Node -> 0 .. MaxSeq] /\ log \in [Node -> SUBSET Event]
      /\ applied \in [Node -> SUBSET Event]
      /\ casts \subseteq Cast /\ faults \in 0 .. MaxFaults
    BY MaxSeqAssumption, SizeAssumption DEF Init
<1>2. /\ progress \in [Node -> [Node -> [Node -> Cursor]]]
      /\ lastSent \in [Node -> Cursor]
    BY MaxSeqAssumption DEF Init, Cursor, NoRow
<1>3. /\ gcThrough \in [Node -> Vector]
      /\ gc \in [Node -> [wm : Vector, mark : BOOLEAN]]
    BY ZeroVectorType DEF Init
<1>4. /\ ep \in [Endpoint -> EndpointState]
      /\ chan \in [Endpoint -> Seq(Message)]
    BY FreshType DEF Init
<1> QED
    BY <1>1, <1>2, <1>3, <1>4 DEF TypeOK

\* The part of TypeOK about sessions, and the rest.
SessionsTyped == ep \in [Endpoint -> EndpointState] /\ chan \in [Endpoint -> Seq(Message)]
TablesTyped ==
    /\ seq \in [Node -> 0 .. MaxSeq] /\ log \in [Node -> SUBSET Event]
    /\ progress \in [Node -> [Node -> [Node -> Cursor]]]
    /\ gcThrough \in [Node -> Vector] /\ applied \in [Node -> SUBSET Event]
OthersTyped ==
    /\ lastSent \in [Node -> Cursor] /\ casts \subseteq Cast
    /\ gc \in [Node -> [wm : Vector, mark : BOOLEAN]] /\ faults \in 0 .. MaxFaults

LEMMA TypeSplit == TypeOK <=> SessionsTyped /\ TablesTyped /\ OthersTyped
BY DEF TypeOK, SessionsTyped, TablesTyped, OthersTyped

\* A step of a session other than a commit or an ACK leaves everything but
\* the session alone.
LEMMA SessionOnly ==
    ASSUME TypeOK, UNCHANGED <<dbVars, castVars, gc, faults>>, SessionsTyped'
    PROVE  TypeOK'
BY TypeSplit DEF TypeOK, SessionsTyped, dbVars, castVars

LEMMA TypeLocalWrite ==
    ASSUME TypeOK, NEW n \in Node, LocalWrite(n)
    PROVE  TypeOK'
<1>1. seq[n] + 1 \in 0 .. MaxSeq /\ <<n, seq[n] + 1>> \in Event
    BY MaxSeqAssumption DEF TypeOK, LocalWrite, Event, Seqs
<1> QED
    BY <1>1 DEF TypeOK, LocalWrite, sessVars, castVars

LEMMA TypeOpening ==
    ASSUME TypeOK, NEW l \in Link, Open(l)
    PROVE  TypeOK'
<1> DEFINE e == <<l, "init">>
           vec == LocalVector(Self(e), progress[Self(e)][Self(e)], seq[Self(e)])
<1>1. e \in Endpoint /\ Mate(e) \in Endpoint /\ Self(e) \in Node
    <2>1. e \in Endpoint
        BY DEF Endpoint, Role
    <2> QED
        BY <2>1, EndpointFacts
<1>2. vec \in Vector
    BY <1>1, LocalVectorType
<1> HIDE DEF e, vec
<1>3. Send(e, Hello(vec)) \in [Endpoint -> Seq(Message)]
    BY <1>1, <1>2, MessageType, SendType DEF TypeOK
<1>4. /\ [Fresh EXCEPT !.pc = "hello", !.vec = vec] \in EndpointState
      /\ [Fresh EXCEPT !.pc = "hello"] \in EndpointState
    BY <1>2, FreshType DEF EndpointState, Phase
<1>5. /\ ep' = [ep EXCEPT ![e] = [Fresh EXCEPT !.pc = "hello", !.vec = vec],
                          ![Mate(e)] = [Fresh EXCEPT !.pc = "hello"]]
      /\ chan' = Send(e, Hello(vec))
      /\ UNCHANGED <<dbVars, castVars, gc, faults>>
    BY DEF Open, e, vec
<1> QED
    BY <1>1, <1>3, <1>4, <1>5, SessionOnly DEF SessionsTyped, TypeOK

LEMMA TypeHello ==
    ASSUME TypeOK, NEW e \in Endpoint,
           AnswerHello(e) \/ ReadHello(e) \/ SendNeed(e)
    PROVE  TypeOK'
<1> DEFINE vec == LocalVector(Self(e), progress[Self(e)][Self(e)], seq[Self(e)])
<1>0. Self(e) \in Node /\ Mate(e) \in Endpoint /\ vec \in Vector /\ Mate(e) # e
    BY EndpointFacts, LocalVectorType
<1>1. CASE AnswerHello(e)
    <2> HIDE DEF vec
    <2>1. chan[e] # <<>> /\ Head(chan[e]).vec \in Vector /\ Tail(chan[e]) \in Seq(Message)
        BY <1>1, HeadType DEF AnswerHello, Reading, TypeOK
    <2>2. Send(e, Hello(vec)) \in [Endpoint -> Seq(Message)]
        BY <1>0, MessageType, SendType DEF TypeOK
    <2>3. [Fresh EXCEPT !.pc = "need", !.vec = vec, !.want = Head(chan[e]).vec]
             \in EndpointState
        BY <1>0, <2>1, FreshType DEF EndpointState, Phase
    <2>4. Send(e, Hello(vec))[e] = chan[e]
        BY <1>0 DEF Send, TypeOK
    <2>5. [Send(e, Hello(vec)) EXCEPT ![e] = Tail(@)] \in [Endpoint -> Seq(Message)]
        BY <2>1, <2>2, <2>4
    <2>6. /\ ep' = [ep EXCEPT ![e] = [Fresh EXCEPT !.pc = "need", !.vec = vec,
                                                   !.want = Head(chan[e]).vec]]
          /\ chan' = [Send(e, Hello(vec)) EXCEPT ![e] = Tail(@)]
          /\ UNCHANGED <<dbVars, castVars, gc, faults>>
        BY <1>1 DEF AnswerHello, vec
    <2> QED
        BY <2>3, <2>5, <2>6, SessionOnly DEF SessionsTyped, TypeOK
<1>2. CASE ReadHello(e)
    <2>1. chan[e] # <<>> /\ Head(chan[e]).vec \in Vector
        BY <1>2, HeadType DEF ReadHello, Reading, TypeOK
    <2>2. Receive(e) \in [Endpoint -> Seq(Message)]
        BY <2>1, ReceiveType DEF TypeOK
    <2>3. ep' \in [Endpoint -> EndpointState]
        <3>1. ep' = [ep EXCEPT ![e] = [ep[e] EXCEPT !.pc = "need",
                                                    !.want = Head(chan[e]).vec]]
            BY <1>2 DEF ReadHello, TypeOK
        <3>2. [ep[e] EXCEPT !.pc = "need", !.want = Head(chan[e]).vec] \in EndpointState
            <4>1. ep[e] \in EndpointState
                BY DEF TypeOK
            <4> QED
                BY <2>1, <4>1 DEF EndpointState, Phase
        <3> QED
            BY <3>1, <3>2 DEF TypeOK
    <2> QED
        BY <1>2, <2>2, <2>3, SessionOnly DEF SessionsTyped, ReadHello
<1>3. CASE SendNeed(e)
    <2>1. ep[e] \in EndpointState /\ ep[e].vec \in Vector /\ ep[e].want \in Vector
        BY DEF TypeOK, EndpointState
    <2>2. [ep[e] EXCEPT !.want = ZeroVector, !.vec = ZeroVector] \in EndpointState
        BY <2>1, ZeroVectorType DEF EndpointState
    <2>3. /\ Send(e, Need(Missing(ep[e].vec, ep[e].want))) \in [Endpoint -> Seq(Message)]
          /\ Send(e, Error) \in [Endpoint -> Seq(Message)]
        BY <2>1, MissingType, MessageType, SendType DEF TypeOK
    <2>4. SessionsTyped'
        BY <1>3, <2>2, <2>3, ReturnType, ResumeType DEF SendNeed, SessionsTyped, TypeOK
    <2> QED
        BY <1>3, <2>4, SessionOnly DEF SendNeed
<1> QED
    BY <1>1, <1>2, <1>3

LEMMA TypeSending ==
    ASSUME TypeOK, NEW e \in Endpoint, ReadNeed(e) \/ CheckRange(e) \/ SendRange(e) \/ EndSend(e)
    PROVE  TypeOK'
<1>0. ep[e] \in EndpointState /\ ep[e].todo \in SUBSET RangeReq
    BY DEF TypeOK, EndpointState
<1>1. CASE ReadNeed(e)
    <2>1. chan[e] # <<>> /\ Head(chan[e]).ranges \in SUBSET RangeReq
        BY <1>1, HeadType DEF ReadNeed, InLoop, Reading, TypeOK
    <2>2. Receive(e) \in [Endpoint -> Seq(Message)]
        BY <2>1, ReceiveType DEF TypeOK
    <2>3. ep' = [ep EXCEPT ![e] = [ep[e] EXCEPT !.pc = "send", !.terminated = FALSE,
                                                !.todo = Head(chan[e]).ranges]]
        BY <1>1 DEF ReadNeed, TypeOK, EndpointState
    <2>4. [ep[e] EXCEPT !.pc = "send", !.terminated = FALSE,
                        !.todo = Head(chan[e]).ranges] \in EndpointState
        BY <1>0, <2>1 DEF EndpointState, Phase
    <2> QED
        BY <1>1, <2>2, <2>3, <2>4, SessionOnly DEF SessionsTyped, ReadNeed, TypeOK
<1>2. CASE SendRange(e)
    <2> DEFINE r == NextRange(e)
               events == FetchRange(log[Self(e)], r.origin, r.from, r.to, BatchMaxEvents)
               last == Max({x[2] : x \in events})
               complete == last >= r.to
               rest == ep[e].todo \ {r}
               next == IF complete THEN rest
                       ELSE rest \cup {[r EXCEPT !.from = last + 1]}
    <2>1. ep[e].todo # {}
        BY <1>2 DEF SendRange
    <2>2. /\ events \in SUBSET Event /\ rest \in SUBSET RangeReq
          /\ events # {} => next \in SUBSET RangeReq
        BY <1>0, <2>1, RangeStepType
    <2>3. complete \in BOOLEAN
        OBVIOUS
    <2> HIDE DEF r, events, last, complete, rest, next
    <2>5. CASE /\ ep' = [ep EXCEPT ![e].pc = "send", ![e].todo = rest,
                                   ![e].terminated = FALSE]
               /\ UNCHANGED chan
        <3>1. ep' = [ep EXCEPT ![e] = [ep[e] EXCEPT !.pc = "send", !.todo = rest,
                                                    !.terminated = FALSE]]
            BY <2>5 DEF TypeOK, EndpointState
        <3>2. [ep[e] EXCEPT !.pc = "send", !.todo = rest, !.terminated = FALSE]
                 \in EndpointState
            BY <1>0, <2>2 DEF EndpointState, Phase
        <3> QED
            BY <1>2, <2>5, <3>1, <3>2, SessionOnly DEF SendRange, SessionsTyped, TypeOK
    <2>6. CASE /\ events # {}
               /\ ep' = [ep EXCEPT ![e].pc = "send", ![e].todo = next,
                                   ![e].terminated = complete]
               /\ chan' = Send(e, Batch(events, complete))
        <3>1. ep' = [ep EXCEPT ![e] = [ep[e] EXCEPT !.pc = "send", !.todo = next,
                                                    !.terminated = complete]]
            BY <2>6 DEF TypeOK, EndpointState
        <3>2. [ep[e] EXCEPT !.pc = "send", !.todo = next, !.terminated = complete]
                 \in EndpointState
            BY <1>0, <2>2, <2>3, <2>6 DEF EndpointState, Phase
        <3>3. Batch(events, complete) \in Message
            BY <2>2, <2>3, MessageType
        <3>4. Send(e, Batch(events, complete)) \in [Endpoint -> Seq(Message)]
            BY <3>3, SendType DEF TypeOK
        <3>5. SessionsTyped'
            BY <2>6, <3>1, <3>2, <3>4 DEF SessionsTyped, TypeOK
        <3> QED
            BY <1>2, <3>5, SessionOnly DEF SendRange
    <2> QED
        BY <1>2, <2>5, <2>6 DEF SendRange, r, events, last, complete, rest, next
<1>3. CASE EndSend(e)
    <2>1. [ep[e] EXCEPT !.sentBatches = TRUE, !.terminated = FALSE] \in EndpointState
        BY <1>0 DEF EndpointState
    <2>2. Batch({}, TRUE) \in Message
        BY MessageType
    <2>3. (IF ep[e].terminated THEN chan ELSE Send(e, Batch({}, TRUE)))
             \in [Endpoint -> Seq(Message)]
        BY <2>2, SendType DEF TypeOK
    <2>4. SessionsTyped'
        BY <1>3, <2>1, <2>3, ResumeType DEF EndSend, SessionsTyped, TypeOK
    <2> QED
        BY <1>3, <2>4, SessionOnly DEF EndSend
<1>4. CASE CheckRange(e)
    <2>1. CASE Return(e, Send(e, Error))
        <3>1. Send(e, Error) \in [Endpoint -> Seq(Message)]
            BY MessageType, SendType DEF TypeOK
        <3>2. SessionsTyped'
            BY <2>1, <3>1, ReturnType DEF SessionsTyped, TypeOK
        <3> QED
            BY <1>4, <3>2, SessionOnly DEF CheckRange
    <2>2. CASE ep' = [ep EXCEPT ![e].pc = "fetch"] /\ UNCHANGED chan
        <3>1. [ep[e] EXCEPT !.pc = "fetch"] \in EndpointState
            BY <1>0 DEF EndpointState, Phase
        <3>2. SessionsTyped'
            BY <2>2, <3>1 DEF SessionsTyped, TypeOK
        <3> QED
            BY <1>4, <3>2, SessionOnly DEF CheckRange
    <2> QED
        BY <1>4, <2>1, <2>2 DEF CheckRange
<1> QED
    BY <1>1, <1>2, <1>3, <1>4

LEMMA TypeReadBatch ==
    ASSUME TypeOK, NEW e \in Endpoint, ReadBatch(e)
    PROVE  TypeOK'
<1> DEFINE n == Self(e)
           m == Head(chan[e])
           events == ep[e].pending \cup m.events
           vec == LocalVector(n, progress[n][n], seq[n])
<1>1. /\ ep[e] \in EndpointState /\ n \in Node
      /\ vec \in Vector /\ TakeSnapshot(n) \in Snapshot
    BY EndpointFacts, LocalVectorType, TakeSnapshotType DEF TypeOK
<1>2. chan[e] # <<>> /\ m.events \in SUBSET Event
    BY HeadType DEF ReadBatch, InLoop, Reading, TypeOK
<1>3. events \in SUBSET Event
    BY <1>1, <1>2 DEF EndpointState
<1>4. Receive(e) \in [Endpoint -> Seq(Message)]
    BY <1>2, ReceiveType DEF TypeOK
<1> HIDE DEF n, events, vec
<1>5. \/ ep' = [ep EXCEPT ![e].pending = events]
      \/ ep' = [ep EXCEPT ![e].pc = "apply", ![e].pending = events,
                          ![e].snap = TakeSnapshot(n)]
      \/ ep' = [ep EXCEPT ![e].pc = "ack", ![e].gotComplete = TRUE, ![e].vec = vec]
    BY DEF ReadBatch, n, events, vec
<1>6. ep' \in [Endpoint -> EndpointState]
    <2>1. CASE ep' = [ep EXCEPT ![e].pending = events]
        <3>1. ep' = [ep EXCEPT ![e] = [ep[e] EXCEPT !.pending = events]]
            BY <2>1 DEF TypeOK, EndpointState
        <3>2. [ep[e] EXCEPT !.pending = events] \in EndpointState
            BY <1>1, <1>3 DEF EndpointState
        <3> QED
            BY <3>1, <3>2 DEF TypeOK
    <2>2. CASE ep' = [ep EXCEPT ![e].pc = "apply", ![e].pending = events,
                                ![e].snap = TakeSnapshot(n)]
        <3>1. ep' = [ep EXCEPT ![e] = [ep[e] EXCEPT !.pc = "apply", !.pending = events,
                                                    !.snap = TakeSnapshot(n)]]
            BY <2>2 DEF TypeOK, EndpointState
        <3>2. [ep[e] EXCEPT !.pc = "apply", !.pending = events,
                            !.snap = TakeSnapshot(n)] \in EndpointState
            BY <1>1, <1>3 DEF EndpointState, Phase
        <3> QED
            BY <3>1, <3>2 DEF TypeOK
    <2>3. CASE ep' = [ep EXCEPT ![e].pc = "ack", ![e].gotComplete = TRUE, ![e].vec = vec]
        <3>1. ep' = [ep EXCEPT ![e] = [ep[e] EXCEPT !.pc = "ack", !.gotComplete = TRUE,
                                                    !.vec = vec]]
            BY <2>3 DEF TypeOK, EndpointState
        <3>2. [ep[e] EXCEPT !.pc = "ack", !.gotComplete = TRUE, !.vec = vec]
                 \in EndpointState
            BY <1>1 DEF EndpointState, Phase
        <3> QED
            BY <3>1, <3>2 DEF TypeOK
    <2> QED
        BY <1>5, <2>1, <2>2, <2>3
<1> QED
    BY <1>4, <1>6, SessionOnly DEF ReadBatch, SessionsTyped

LEMMA TypeCommitBatch ==
    ASSUME TypeOK, NEW e \in Endpoint, CommitBatch(e)
    PROVE  TypeOK'
<1> DEFINE n == Self(e)
           s == ep[e]
<1>1. n \in Node /\ s \in EndpointState
    BY EndpointFacts DEF TypeOK
<1>2. s.pending \in SUBSET Event /\ s.snap \in Snapshot
    BY <1>1 DEF EndpointState
<1>3. PICK own \in {s.snap.seq, seq[n]} :
         /\ ApplyBatch(n, s.pending, s.snap, own)
         /\ ep' = [ep EXCEPT ![e].pc = "ack", ![e].gotComplete = TRUE,
                             ![e].pending = {}, ![e].snap = NoSnap,
                             ![e].vec = AppliedVector(n, s.pending, s.snap, own)]
    BY DEF CommitBatch
<1> DEFINE vec == AppliedVector(n, s.pending, s.snap, own)
<1>4. vec \in Vector
    BY <1>1, <1>2, <1>3, ApplyType
<1> HIDE DEF n, s, vec
<1>5. TablesTyped'
    BY <1>1, <1>2, <1>3, ApplyBatchType DEF TablesTyped
<1>6. ep' = [ep EXCEPT ![e] = [ep[e] EXCEPT !.pc = "ack", !.gotComplete = TRUE,
                                            !.pending = {}, !.snap = NoSnap, !.vec = vec]]
    BY <1>3 DEF TypeOK, EndpointState, vec
<1>7. [ep[e] EXCEPT !.pc = "ack", !.gotComplete = TRUE, !.pending = {},
                    !.snap = NoSnap, !.vec = vec] \in EndpointState
    BY <1>1, <1>4, NoSnapType DEF EndpointState, Phase, s
<1>8. SessionsTyped'
    BY <1>6, <1>7 DEF CommitBatch, SessionsTyped, TypeOK
<1>9. OthersTyped'
    BY DEF CommitBatch, OthersTyped, TypeOK, castVars
<1> QED
    BY <1>5, <1>8, <1>9 DEF TypeOK, SessionsTyped, TablesTyped, OthersTyped

LEMMA SetProgressType == \A a, b \in Cursor : SetProgress(a, b) \in Cursor /\ SetProgress(a, b) >= a
BY MaxSeqAssumption DEF SetProgress, Larger, Cursor, NoRow

LEMMA RecordType ==
    ASSUME TypeOK, NEW n \in Node, NEW p \in Node, NEW v \in Vector, NEW K,
           RecordPeerVector(n, p, v, K)
    PROVE  progress' \in [Node -> [Node -> [Node -> Cursor]]]
<1> DEFINE row == [o \in Node |-> IF o \in K THEN SetProgress(progress[n][p][o], v[o])
                                  ELSE progress[n][p][o]]
<1>1. \A o \in Node : v[o] \in Cursor /\ progress[n][p][o] \in Cursor
    BY MaxSeqAssumption DEF Vector, TypeOK, Cursor, NoRow
<1>2. row \in [Node -> Cursor]
    BY <1>1, SetProgressType
<1>3. progress' = [progress EXCEPT ![n] = [progress[n] EXCEPT ![p] = row]]
    BY DEF RecordPeerVector, TypeOK
<1> HIDE DEF row
<1> QED
    BY <1>2, <1>3 DEF TypeOK

LEMMA TypeAcks ==
    ASSUME TypeOK, NEW e \in Endpoint, SendAck(e) \/ ReadAck(e) \/ ReadEnd(e)
    PROVE  TypeOK'
<1>0. ep[e] \in EndpointState
    BY DEF TypeOK
<1>1. CASE SendAck(e)
    <2>1. [ep[e] EXCEPT !.vec = ZeroVector] \in EndpointState
        BY <1>0, ZeroVectorType DEF EndpointState
    <2>2. Send(e, Ack(ep[e].vec)) \in [Endpoint -> Seq(Message)]
        BY <1>0, MessageType, SendType DEF TypeOK, EndpointState
    <2>3. SessionsTyped'
        BY <1>1, <2>1, <2>2, ResumeType DEF SendAck, SessionsTyped, TypeOK
    <2> QED
        BY <1>1, <2>3, SessionOnly DEF SendAck
<1>2. CASE ReadAck(e)
    <2>1. chan[e] # <<>> /\ Head(chan[e]).vec \in Vector
        BY <1>2, HeadType DEF ReadAck, InLoop, Reading, TypeOK
    <2>2. Receive(e) \in [Endpoint -> Seq(Message)]
        BY <2>1, ReceiveType DEF TypeOK
    <2>3. [ep[e] EXCEPT !.gotAck = TRUE] \in EndpointState
        BY <1>0 DEF EndpointState
    <2>4. SessionsTyped'
        BY <1>2, <2>2, <2>3, ResumeType DEF ReadAck, SessionsTyped, TypeOK
    <2>5. progress' \in [Node -> [Node -> [Node -> Cursor]]]
        BY <1>2, <2>1, RecordType, EndpointFacts DEF ReadAck
    <2>6. faults' \in 0 .. MaxFaults
        BY <1>2, SizeAssumption DEF ReadAck, TypeOK
    <2> QED
        BY <1>2, <2>4, <2>5, <2>6 DEF ReadAck, TypeOK, SessionsTyped, castVars
<1>3. CASE ReadEnd(e)
    <2>1. SessionsTyped'
        BY <1>3, ReturnType DEF ReadEnd, SessionsTyped, TypeOK
    <2> QED
        BY <1>3, <2>1, SessionOnly DEF ReadEnd
<1> QED
    BY <1>1, <1>2, <1>3

LEMMA TypeBroadcast ==
    ASSUME TypeOK, BroadcastStep
    PROVE  TypeOK'
<1>1. ASSUME NEW n \in Node, CollectAnchor(n)
      PROVE  TypeOK'
    <2>1. seq[n] \in Cursor
        BY MaxSeqAssumption DEF TypeOK, Cursor, NoRow
    <2> QED
        BY <1>1, <2>1 DEF CollectAnchor, TypeOK, dbVars, sessVars
<1>2. ASSUME NEW n \in Node, Collect(n)
      PROVE  TypeOK'
    <2> DEFINE events == FetchRange(log[n], n, lastSent[n] + 1, seq[n], BroadcastMax)
               S == {x[2] : x \in events}
    <2>1. events \in SUBSET Event
        BY FetchRangeSound DEF TypeOK
    <2>2. events # {} => Max(S) \in Cursor
        <3> SUFFICES ASSUME events # {} PROVE Max(S) \in Cursor
            OBVIOUS
        <3>1. S \subseteq 0 .. MaxSeq /\ S # {}
            BY <2>1, MaxSeqAssumption DEF Event, Seqs
        <3>2. Max(S) \in S
            <4> HIDE DEF S
            <4> QED
                BY <3>1, MaxOfNaturals, MaxSeqAssumption
        <3>3. Max(S) \in 0 .. MaxSeq
            BY <3>1, <3>2
        <3> HIDE DEF S
        <3> QED
            BY <3>3, MaxSeqAssumption DEF Cursor, NoRow
    <2> HIDE DEF S
    <2>3. seq[n] \in Cursor
        BY MaxSeqAssumption DEF TypeOK, Cursor, NoRow
    <2>4. lastSent' \in [Node -> Cursor]
        BY <1>2, <2>2, <2>3 DEF Collect, TypeOK, S
    <2>5. \A p \in PeersOf(n) :
             [to |-> p, events |-> events, open |-> FALSE, snap |-> NoSnap] \in Cast
        BY <2>1, NoSnapType, LinkAssumption DEF Cast, PeersOf
    <2> HIDE DEF events
    <2>6. casts' \subseteq Cast
        BY <1>2, <2>5 DEF Collect, TypeOK, events
    <2> QED
        BY <1>2, <2>4, <2>6 DEF Collect, TypeOK, dbVars, sessVars
<1>3. ASSUME NEW c \in casts, HandleBroadcast(c)
      PROVE  TypeOK'
    <2>1. c \in Cast /\ TakeSnapshot(c.to) \in Snapshot
        BY TakeSnapshotType DEF TypeOK, Cast
    <2>2. [c EXCEPT !.open = TRUE, !.snap = TakeSnapshot(c.to)] \in Cast
        BY <2>1 DEF Cast
    <2> QED
        BY <1>3, <2>2 DEF HandleBroadcast, TypeOK, dbVars, sessVars
<1>4. ASSUME NEW c \in casts, CommitBroadcast(c)
      PROVE  TypeOK'
    <2>1. c.to \in Node /\ c.events \in SUBSET Event /\ c.snap \in Snapshot
        BY DEF TypeOK, Cast
    <2>2. TablesTyped'
        BY <1>4, <2>1, ApplyBatchType DEF CommitBroadcast, TablesTyped
    <2> QED
        BY <1>4, <2>2 DEF CommitBroadcast, TablesTyped, TypeOK, sessVars
<1> QED
    BY <1>1, <1>2, <1>3, <1>4, LoopAssumption DEF BroadcastStep

LEMMA TypeGC ==
    ASSUME TypeOK, NEW n \in Node, GCStep(n)
    PROVE  TypeOK'
<1>1. CASE GCBegin(n)
    <2>1. Watermarks(progress[n], Active[n]) \in Vector
        BY WatermarksType, ActiveAssumption DEF TypeOK
    <2> QED
        BY <1>1, <2>1 DEF GCBegin, TypeOK, dbVars, sessVars, castVars
<1> DEFINE o == GCOrigin(n)
<1>2. ~Idle(n) => o \in Node
    <2> DEFINE S == {p \in Node : gc[n].wm[p] > 0}
    <2> SUFFICES ASSUME ~Idle(n) PROVE o \in Node
        OBVIOUS
    <2>1. gc[n].wm \in Vector
        BY DEF TypeOK
    <2>2. S # {}
        BY <2>1, MaxSeqAssumption DEF Idle, ZeroVector, Vector
    <2>3. S \subseteq Nat
        BY NodeAssumption
    <2>4. Min(S) \in S
        <3> HIDE DEF S
        <3> QED
            BY <2>2, <2>3, MinOfNaturals
    <2> QED
        BY <2>4 DEF GCOrigin
<1> HIDE DEF o
<1>3. gc[n].wm \in Vector /\ [gc[n].wm EXCEPT ![o] = 0] \in Vector
    <2>1. gc[n].wm \in Vector
        BY DEF TypeOK
    <2>2. ASSUME NEW v \in Vector, NEW p
          PROVE  [v EXCEPT ![p] = 0] \in Vector
        <3>1. 0 \in 0 .. MaxSeq
            BY MaxSeqAssumption
        <3> QED
            BY <3>1 DEF Vector
    <2> QED
        BY <2>1, <2>2
<1>4. CASE GCDelete(n)
    <2>1. \/ gc' = [gc EXCEPT ![n].mark = TRUE]
          \/ gc' = [gc EXCEPT ![n].wm[o] = 0]
        BY <1>4 DEF GCDelete, o
    <2>2. \/ gc' = [gc EXCEPT ![n] = [gc[n] EXCEPT !.mark = TRUE]]
          \/ gc' = [gc EXCEPT ![n] = [gc[n] EXCEPT !.wm = [gc[n].wm EXCEPT ![o] = 0]]]
        BY <2>1 DEF TypeOK
    <2>3. gc' \in [Node -> [wm : Vector, mark : BOOLEAN]]
        <3>1. gc \in [Node -> [wm : Vector, mark : BOOLEAN]]
            BY DEF TypeOK
        <3>2. [gc[n] EXCEPT !.mark = TRUE] \in [wm : Vector, mark : BOOLEAN]
            BY <3>1
        <3>3. [gc[n] EXCEPT !.wm = [gc[n].wm EXCEPT ![o] = 0]]
                 \in [wm : Vector, mark : BOOLEAN]
            BY <1>3, <3>1
        <3> QED
            BY <2>2, <3>1, <3>2, <3>3
    <2> QED
        BY <1>4, <2>3 DEF GCDelete, TypeOK, sessVars, castVars
<1>5. CASE GCMark(n)
    <2>1. gc' = [gc EXCEPT ![n].wm[o] = 0, ![n].mark = FALSE]
        BY <1>5 DEF GCMark, o
    <2>2. gc' \in [Node -> [wm : Vector, mark : BOOLEAN]]
        <3>1. gc' = [gc EXCEPT ![n] = [gc[n] EXCEPT !.wm = [gc[n].wm EXCEPT ![o] = 0],
                                                   !.mark = FALSE]]
            BY <2>1 DEF TypeOK
        <3> QED
            BY <1>3, <3>1 DEF TypeOK
    <2>3. gcThrough' = [gcThrough EXCEPT ![n][o] = gc[n].wm[o]]
        BY <1>5 DEF GCMark, o
    <2>4. gcThrough' \in [Node -> Vector]
        BY <1>3, <2>3 DEF TypeOK, Vector
    <2> QED
        BY <1>5, <2>2, <2>4 DEF GCMark, TypeOK, sessVars, castVars
<1> QED
    BY <1>1, <1>4, <1>5 DEF GCStep

LEMMA TypeFaults ==
    ASSUME TypeOK, FaultStep
    PROVE  TypeOK'
<1>0. ASSUME Fault PROVE faults' \in 0 .. MaxFaults
    BY <1>0, SizeAssumption DEF Fault, TypeOK
<1>1. ASSUME NEW e \in Endpoint, Fail(e)
      PROVE  TypeOK'
    <2>1. SessionsTyped'
        BY <1>1, ReturnType DEF Fail, SessionsTyped, TypeOK
    <2> QED
        BY <1>0, <1>1, <2>1 DEF Fail, SessionsTyped, TypeOK, dbVars, castVars
<1>2. ASSUME NEW c \in casts, LoseBroadcast(c)
      PROVE  TypeOK'
    BY <1>0, <1>2 DEF LoseBroadcast, TypeOK, dbVars, sessVars
<1>3. ASSUME NEW n \in Node, Crash(n)
      PROVE  TypeOK'
    <2>1. SessionsTyped'
        BY <1>3, FreshType DEF Crash, SessionsTyped, TypeOK
    <2>2. lastSent' \in [Node -> Cursor] /\ casts' \subseteq Cast
        BY <1>3, MaxSeqAssumption DEF Crash, TypeOK, Cursor, NoRow
    <2>3. gc' \in [Node -> [wm : Vector, mark : BOOLEAN]]
        BY <1>3, ZeroVectorType DEF Crash, TypeOK
    <2> QED
        BY <1>0, <1>3, <2>1, <2>2, <2>3 DEF Crash, SessionsTyped, TypeOK, dbVars
<1> QED
    BY <1>1, <1>2, <1>3 DEF FaultStep

LEMMA TypeStep == TypeOK /\ [Next]_vars => TypeOK'
<1> SUFFICES ASSUME TypeOK, [Next]_vars PROVE TypeOK'
    OBVIOUS
<1>1. ASSUME NEW n \in Writers, LocalWrite(n) PROVE TypeOK'
    BY <1>1, TypeLocalWrite, LoopAssumption
<1>2. ASSUME NEW l \in Link, Open(l) PROVE TypeOK'
    BY <1>2, TypeOpening
<1>3. ASSUME NEW e \in Endpoint, SessionStep(e) PROVE TypeOK'
    BY <1>3, TypeHello, TypeSending, TypeReadBatch, TypeCommitBatch, TypeAcks
    DEF SessionStep
<1>4. CASE BroadcastStep
    BY <1>4, TypeBroadcast
<1>5. ASSUME NEW n \in Collectors, GCStep(n) PROVE TypeOK'
    BY <1>5, TypeGC, LoopAssumption
<1>6. CASE FaultStep
    BY <1>6, TypeFaults
<1>7. CASE UNCHANGED vars
    BY <1>7 DEF vars, TypeOK
<1> QED
    BY <1>1, <1>2, <1>3, <1>4, <1>5, <1>6, <1>7 DEF Next

\* Tables, streams and session fields keep their shape for every topology,
\* every batch size and every interleaving: in particular no cursor, range or
\* acknowledgement ever points past what an origin can have written.
THEOREM TypeCorrect == Spec => []TypeOK
BY TypeInit, TypeStep, PTL DEF Spec

-----------------------------------------------------------------------------
(* Tables only grow.                                                       *)

Grows ==
    \A n \in Node :
        /\ applied[n] \subseteq applied'[n]
        /\ seq[n] <= seq'[n]
        /\ \A r, o \in Node : progress[n][r][o] <= progress'[n][r][o]

LEMMA UnchangedGrows ==
    ASSUME TypeOK, UNCHANGED <<seq, applied, progress>>
    PROVE  Grows
<1>1. \A n, r, o \in Node : progress[n][r][o] \in Int /\ seq[n] \in Int
    BY MaxSeqAssumption DEF TypeOK, Cursor, NoRow
<1> QED
    BY <1>1 DEF Grows

LEMMA ApplyGrows ==
    ASSUME TypeOK, NEW n \in Node, NEW E \in SUBSET Event, NEW snap \in Snapshot,
           NEW own, ApplyBatch(n, E, snap, own)
    PROVE  Grows
<1>1. own \in 0 .. MaxSeq
    BY DEF ApplyBatch, TypeOK, Snapshot
<1>2. \A o \in Node : AppliedCursors(n, E, snap, own)[o] >= progress[n][n][o]
    <2> SUFFICES ASSUME NEW o \in Node
                 PROVE  AppliedCursors(n, E, snap, own)[o] >= progress[n][n][o]
        OBVIOUS
    <2>1. AdvanceContiguous(n, o, E, snap, own) >= progress[n][n][o]
        BY <1>1, AdvanceType
    <2>2. progress[n][n][o] \in Int
        BY MaxSeqAssumption DEF TypeOK, Cursor, NoRow
    <2> QED
        BY <2>1, <2>2 DEF AppliedCursors
<1>3. AppliedCursors(n, E, snap, own) \in [Node -> Cursor]
    BY ApplyType DEF ApplyBatch
<1>4. \A m, r \in Node : progress'[m][r] =
         IF m = n /\ r = n THEN AppliedCursors(n, E, snap, own) ELSE progress[m][r]
    BY DEF ApplyBatch, TypeOK
<1>5. \A m, r, o \in Node : progress[m][r][o] \in Int /\ seq[m] \in Int
    BY MaxSeqAssumption DEF TypeOK, Cursor, NoRow
<1>6. \A o \in Node : AppliedCursors(n, E, snap, own)[o] \in Int
    BY <1>3, MaxSeqAssumption DEF Cursor, NoRow
<1>7. \A m, r, o \in Node : progress[m][r][o] <= progress'[m][r][o]
    BY <1>2, <1>4, <1>5, <1>6
<1>8. \A m \in Node : seq[m] <= seq'[m] /\ applied[m] \subseteq applied'[m]
    BY <1>5 DEF ApplyBatch, TypeOK
<1> QED
    BY <1>7, <1>8 DEF Grows

\* What RecordPeerVector leaves in the row of the peer.
LEMMA RecordEffect ==
    ASSUME TypeOK, NEW n \in Node, NEW p \in Node, NEW v \in Vector, NEW K,
           RecordPeerVector(n, p, v, K)
    PROVE  \A m, r, o \in Node :
             /\ progress[m][r][o] <= progress'[m][r][o]
             /\ m # n \/ r # p => progress'[m][r][o] = progress[m][r][o]
             /\ progress'[m][r][o] \in {progress[m][r][o], v[o]}
<1> DEFINE row == [o \in Node |-> IF o \in K THEN SetProgress(progress[n][p][o], v[o])
                                  ELSE progress[n][p][o]]
<1>1. progress' = [progress EXCEPT ![n] = [progress[n] EXCEPT ![p] = row]]
    BY DEF RecordPeerVector, TypeOK
<1>2. \A m, r, o \in Node : progress[m][r][o] \in Cursor /\ v[o] \in Cursor
    <2>1. 0 .. MaxSeq \subseteq Cursor
        BY MaxSeqAssumption DEF Cursor, NoRow
    <2> QED
        BY <2>1 DEF TypeOK, Vector
<1>3. \A a, b \in Cursor : SetProgress(a, b) \in {a, b} /\ SetProgress(a, b) >= a
    BY MaxSeqAssumption DEF SetProgress, Larger, Cursor, NoRow
<1>4. \A o \in Node : row[o] >= progress[n][p][o] /\ row[o] \in {progress[n][p][o], v[o]}
    BY <1>2, <1>3, MaxSeqAssumption DEF Cursor, NoRow
<1>5. \A m, r \in Node : progress'[m][r] = IF m = n /\ r = p THEN row ELSE progress[m][r]
    <2> HIDE DEF row
    <2> QED
        BY <1>1 DEF TypeOK
<1>6. \A m, r, o \in Node : progress[m][r][o] \in Int /\ v[o] \in Int
    BY <1>2, MaxSeqAssumption DEF Cursor, NoRow
<1> HIDE DEF row
<1> QED
    BY <1>4, <1>5, <1>6

LEMMA StepGrows ==
    ASSUME TypeOK, [Next]_vars
    PROVE  Grows
<1>1. ASSUME NEW n \in Writers, LocalWrite(n) PROVE Grows
    <2>1. \A m, r, o \in Node : progress[m][r][o] \in Int /\ seq[m] \in Int
        BY MaxSeqAssumption DEF TypeOK, Cursor, NoRow
    <2>2. \A m \in Node : seq[m] <= seq'[m] /\ applied[m] \subseteq applied'[m]
        BY <1>1, <2>1 DEF LocalWrite, TypeOK
    <2> QED
        BY <1>1, <2>1, <2>2 DEF LocalWrite, Grows
<1>2. ASSUME NEW e \in Endpoint, CommitBatch(e) PROVE Grows
    <2>1. ep[e].pending \in SUBSET Event /\ ep[e].snap \in Snapshot /\ Self(e) \in Node
        BY EndpointFacts DEF TypeOK, EndpointState
    <2> QED
        BY <1>2, <2>1, ApplyGrows DEF CommitBatch
<1>3. ASSUME NEW e \in Endpoint, ReadAck(e) PROVE Grows
    <2>1. Head(chan[e]).vec \in Vector
        BY <1>3, HeadType DEF ReadAck, InLoop, Reading, TypeOK
    <2>2. \A m, r, o \in Node : progress[m][r][o] <= progress'[m][r][o]
        BY <1>3, <2>1, RecordEffect, EndpointFacts DEF ReadAck
    <2>3. \A n \in Node : seq[n] \in Int
        BY DEF TypeOK
    <2> QED
        BY <1>3, <2>2, <2>3 DEF ReadAck, Grows
<1>4. ASSUME NEW c \in casts, CommitBroadcast(c) PROVE Grows
    <2>1. c.to \in Node /\ c.events \in SUBSET Event /\ c.snap \in Snapshot
        BY DEF TypeOK, Cast
    <2> QED
        BY <1>4, <2>1, ApplyGrows DEF CommitBroadcast
<1>5. CASE UNCHANGED <<seq, applied, progress>>
    BY <1>5, UnchangedGrows
<1>6. ASSUME NEW e \in Endpoint, SessionStep(e), ~CommitBatch(e), ~ReadAck(e)
      PROVE  UNCHANGED <<seq, applied, progress>>
    BY <1>6 DEF SessionStep, AnswerHello, ReadHello, SendNeed, ReadNeed, CheckRange,
                SendRange, EndSend, ReadBatch, SendAck, ReadEnd, dbVars
<1>7. ASSUME NEW l \in Link, Open(l) PROVE UNCHANGED <<seq, applied, progress>>
    BY <1>7 DEF Open, dbVars
<1>8. CASE BroadcastStep
    <2>1. ASSUME NEW n \in Broadcasters, CollectAnchor(n) \/ Collect(n)
          PROVE  UNCHANGED <<seq, applied, progress>>
        BY <2>1 DEF CollectAnchor, Collect, dbVars
    <2>2. ASSUME NEW c \in casts, HandleBroadcast(c)
          PROVE  UNCHANGED <<seq, applied, progress>>
        BY <2>2 DEF HandleBroadcast, dbVars
    <2> QED
        BY <1>8, <1>4, <1>5, <2>1, <2>2 DEF BroadcastStep
<1>9. ASSUME NEW n \in Collectors, GCStep(n) PROVE UNCHANGED <<seq, applied, progress>>
    BY <1>9 DEF GCStep, GCBegin, GCDelete, GCMark, dbVars
<1>10. CASE FaultStep
    BY <1>10, <1>5 DEF FaultStep, Fail, LoseBroadcast, Crash, dbVars
<1>11. CASE UNCHANGED vars
    BY <1>11, <1>5 DEF vars
<1> QED
    BY <1>1, <1>2, <1>3, <1>5, <1>6, <1>7, <1>8, <1>9, <1>10, <1>11 DEF Next

\* No cursor ever moves back, whatever snapshot its new value was computed
\* from (SetProgress, AdvanceContiguous, RecordPeerVector).
THEOREM CursorsNeverMoveBack == Spec => CursorMonotone
<1>1. TypeOK /\ [Next]_vars =>
         [\A n, r, o \in Node : progress'[n][r][o] >= progress[n][r][o]]_vars
    <2> SUFFICES ASSUME TypeOK, [Next]_vars, NEW n \in Node, NEW r \in Node, NEW o \in Node
                 PROVE  progress'[n][r][o] >= progress[n][r][o]
        OBVIOUS
    <2>1. TypeOK' /\ Grows
        BY TypeStep, StepGrows
    <2>2. progress[n][r][o] \in Int /\ progress'[n][r][o] \in Int
        BY <2>1, MaxSeqAssumption DEF TypeOK, Cursor, NoRow
    <2> QED
        BY <2>1, <2>2 DEF Grows
<1> QED
    BY <1>1, TypeCorrect, PTL DEF Spec, CursorMonotone

-----------------------------------------------------------------------------
(* What was read stays true.                                               *)

LEMMA VectorGrows ==
    ASSUME TypeOK, TypeOK', Grows
    PROVE  \A n, o \in Node : /\ VectorOf(n)[o] \in 0 .. MaxSeq
                              /\ VectorOf(n)'[o] \in 0 .. MaxSeq
                              /\ VectorOf(n)[o] <= VectorOf(n)'[o]
<1> SUFFICES ASSUME NEW n \in Node, NEW o \in Node
             PROVE  /\ VectorOf(n)[o] \in 0 .. MaxSeq
                    /\ VectorOf(n)'[o] \in 0 .. MaxSeq
                    /\ VectorOf(n)[o] <= VectorOf(n)'[o]
    OBVIOUS
<1>1. VectorOf(n)[o] = IF o = n THEN seq[n] ELSE ReadCursor(progress[n][n][o])
    BY DEF VectorOf, LocalVector
<1>2. VectorOf(n)'[o] = IF o = n THEN seq'[n] ELSE ReadCursor(progress'[n][n][o])
    BY DEF VectorOf, LocalVector
<1>3. progress[n][n][o] \in Cursor /\ progress'[n][n][o] \in Cursor
    BY DEF TypeOK
<1>4. seq[n] \in 0 .. MaxSeq /\ seq'[n] \in 0 .. MaxSeq
    BY DEF TypeOK
<1>5. seq[n] <= seq'[n] /\ progress[n][n][o] <= progress'[n][n][o]
    BY DEF Grows
<1> QED
    BY <1>1, <1>2, <1>3, <1>4, <1>5, MaxSeqAssumption DEF ReadCursor, Cursor, NoRow

LEMMA HeldGrows ==
    ASSUME Grows
    PROVE  Held \subseteq Held'
BY DEF Held, Grows

LEMMA TruthfulGrows ==
    ASSUME TypeOK, TypeOK', Grows, NEW r \in Node
    PROVE  Truthful(r) \subseteq Truthful(r)'
<1> SUFFICES ASSUME NEW m \in Message,
                    m.kind = "ack" => Below(m.vec, VectorOf(r)),
                    m.kind = "batch" => m.events \subseteq Held
             PROVE  /\ m.kind = "ack" => \A o \in Node : m.vec[o] <= VectorOf(r)'[o]
                    /\ m.kind = "batch" => m.events \subseteq Held'
    BY DEF Truthful, Below
<1>1. m.kind = "ack" => m.vec \in Vector
    BY DEF Message, HelloMsg, NeedMsg, BatchMsg, AckMsg, ErrorMsg
<1>2. m.kind = "ack" => \A o \in Node : m.vec[o] <= VectorOf(r)'[o]
    BY <1>1, VectorGrows, MaxSeqAssumption DEF Below, Vector
<1> QED
    BY <1>2, HeldGrows

\* Once the tables are sound after a step, it is enough that whatever is in
\* flight after the step is sound with respect to the tables before it.
LEMMA InFlightSuffices ==
    ASSUME TypeOK, TypeOK', Grows, TablesSound', CursorSound', AckSound',
           \A e \in Endpoint : EpSound(e, ep'[e]) \/ EpSound(e, ep[e])',
           ChansSound(chan'), CastsSound(casts')
    PROVE  SoundInv'
<1>0. /\ \A n, o \in Node : /\ VectorOf(n)[o] \in Int /\ VectorOf(n)'[o] \in Int
                            /\ VectorOf(n)[o] <= VectorOf(n)'[o]
      /\ \A n, o \in Node : progress[n][n][o] \in Int /\ progress'[n][n][o] \in Int
    <2>1. \A n, o \in Node : /\ VectorOf(n)[o] \in Int /\ VectorOf(n)'[o] \in Int
                              /\ VectorOf(n)[o] <= VectorOf(n)'[o]
        BY VectorGrows, MaxSeqAssumption
    <2>2. \A n, o \in Node : progress[n][n][o] \in Int /\ progress'[n][n][o] \in Int
        BY MaxSeqAssumption DEF TypeOK, Cursor, NoRow
    <2> QED
        BY <2>1, <2>2
<1>1. ASSUME NEW n \in Node, NEW snap \in Snapshot, SnapSound(n, snap)
      PROVE  /\ snap.log \subseteq applied'[n]
             /\ \A o \in Node : snap.cur[o] <= progress'[n][n][o]
             /\ snap.seq <= seq'[n]
    <2>1. \A o \in Node : snap.cur[o] \in Int /\ snap.seq \in Int
        BY MaxSeqAssumption DEF Snapshot, Cursor, NoRow
    <2>2. seq[n] \in Int /\ seq'[n] \in Int
        BY DEF TypeOK
    <2>3. snap.log \subseteq applied'[n]
        BY <1>1 DEF SnapSound, Grows
    <2>4. \A o \in Node : snap.cur[o] <= progress'[n][n][o]
        BY <1>0, <1>1, <2>1 DEF SnapSound, Below, Grows
    <2> QED
        BY <1>1, <2>1, <2>2, <2>3, <2>4 DEF SnapSound, Grows
<1>2. (EpsSound(ep))'
    <2> SUFFICES ASSUME NEW e \in Endpoint
                 PROVE  /\ \A o \in Node : ep'[e].vec[o] <= VectorOf(Self(e))'[o]
                        /\ ep'[e].snap.log \subseteq applied'[Self(e)]
                        /\ \A o \in Node : ep'[e].snap.cur[o] <= progress'[Self(e)][Self(e)][o]
                        /\ ep'[e].snap.seq <= seq'[Self(e)]
                        /\ ep'[e].pending \subseteq Held'
        BY DEF EpsSound, EpSound, SnapSound, Below
    <2>1. ep'[e].vec \in Vector /\ ep'[e].snap \in Snapshot /\ Self(e) \in Node
        BY EndpointFacts DEF TypeOK, EndpointState
    <2>2. CASE EpSound(e, ep'[e])
        <3>1. /\ Below(ep'[e].vec, VectorOf(Self(e)))
              /\ SnapSound(Self(e), ep'[e].snap) /\ ep'[e].pending \subseteq Held
            BY <2>2 DEF EpSound
        <3>2. \A o \in Node : ep'[e].vec[o] \in Int
            BY <2>1 DEF Vector
        <3>3. \A o \in Node : ep'[e].vec[o] <= VectorOf(Self(e))'[o]
            BY <1>0, <2>1, <3>1, <3>2 DEF Below
        <3> QED
            BY <1>1, <2>1, <3>1, <3>3, HeldGrows
    <2>3. CASE EpSound(e, ep[e])'
        BY <2>3 DEF EpSound, SnapSound, Below
    <2> QED
        BY <2>2, <2>3
<1>3. (ChansSound(chan))'
    <2> SUFFICES ASSUME NEW e \in Endpoint
                 PROVE  chan'[e] \in Seq(Truthful(Peer(e))')
        BY DEF ChansSound
    <2>1. Truthful(Peer(e)) \subseteq Truthful(Peer(e))'
        BY TruthfulGrows, EndpointFacts
    <2>2. chan'[e] \in Seq(Truthful(Peer(e)))
        BY DEF ChansSound
    <2> QED
        BY <2>1, <2>2, SeqMonotonic
<1>4. (CastsSound(casts))'
    <2> SUFFICES ASSUME NEW c \in casts'
                 PROVE  /\ c.snap.log \subseteq applied'[c.to]
                        /\ \A o \in Node : c.snap.cur[o] <= progress'[c.to][c.to][o]
                        /\ c.snap.seq <= seq'[c.to]
                        /\ c.events \subseteq Held'
        BY DEF CastsSound, SnapSound, Below
    <2>1. c.to \in Node /\ c.snap \in Snapshot
        BY DEF TypeOK, Cast
    <2>2. SnapSound(c.to, c.snap) /\ c.events \subseteq Held
        BY DEF CastsSound
    <2> QED
        BY <1>1, <2>1, <2>2, HeldGrows
<1> QED
    BY <1>2, <1>3, <1>4 DEF SoundInv

-----------------------------------------------------------------------------
(* The commit of an apply transaction.                                     *)

\* Whatever snapshot the scan started from, the new cursor covers only what
\* the node has committed, or commits now.
LEMMA AdvanceSound ==
    ASSUME SoundInv, NEW n \in Node, NEW o \in Node, o # n, NEW E \in SUBSET Event,
           NEW snap \in Snapshot, SnapSound(n, snap), NEW own \in 0 .. MaxSeq
    PROVE  \A s \in 1 .. AdvanceContiguous(n, o, E, snap, own) :
              <<o, s>> \in applied[n] \cup E
<1> DEFINE c == ReadCursor(snap.cur[o])
           seen == snap.log \cup (E \ log[n])
           g == FirstGap(seen, o, c)
           p == progress[n][n][o]
<1>1. TypeOK
    BY DEF SoundInv
<1>2. c \in 0 .. MaxSeq /\ p \in Cursor /\ snap.cur[o] \in Cursor
    BY <1>1, CursorsRead
<1>3. g \in c .. MaxSeq /\ \A s \in c + 1 .. g : <<o, s>> \in seen
    BY <1>2, FirstGapSound DEF Snapshot
<1>4. seen \subseteq applied[n] \cup E
    BY DEF SnapSound
<1>5. \A s \in 1 .. ReadCursor(p) : <<o, s>> \in applied[n]
    BY DEF SoundInv, CursorSound, VectorOf, LocalVector
<1>6. c <= ReadCursor(p)
    <2>1. snap.cur[o] <= p
        BY DEF SnapSound, Below
    <2> HIDE DEF p
    <2> QED
        BY <1>2, <2>1, MaxSeqAssumption DEF ReadCursor, Cursor, NoRow
<1>7. AdvanceContiguous(n, o, E, snap, own) = IF p >= g THEN p ELSE g
    BY DEF AdvanceContiguous, SetProgress, Larger
<1>8. SUFFICES ASSUME NEW s \in 1 .. (IF p >= g THEN p ELSE g)
               PROVE  <<o, s>> \in applied[n] \cup E
    BY <1>7
<1> HIDE DEF c, g, p, seen
<1>9. s \in 1 .. ReadCursor(p) \/ s \in c + 1 .. g
    BY <1>2, <1>3, <1>6, MaxSeqAssumption DEF ReadCursor, Cursor, NoRow
<1> QED
    BY <1>3, <1>4, <1>5, <1>9

LEMMA ApplySound ==
    ASSUME SoundInv, TypeOK', Grows, NEW n \in Node, NEW E \in SUBSET Event,
           NEW snap \in Snapshot, SnapSound(n, snap),
           NEW own, ApplyBatch(n, E, snap, own)
    PROVE  /\ TablesSound' /\ CursorSound' /\ AckSound'
           /\ \A o \in Node : AppliedVector(n, E, snap, own)[o] <= VectorOf(n)'[o]
<1>1. TypeOK
    BY DEF SoundInv
<1>2. own \in 0 .. MaxSeq /\ own <= seq[n]
    BY <1>1 DEF ApplyBatch, TypeOK, Snapshot, SnapSound
<1>3. \A m, r \in Node : progress'[m][r] =
         IF m = n /\ r = n THEN AppliedCursors(n, E, snap, own) ELSE progress[m][r]
    BY <1>1 DEF ApplyBatch, TypeOK
<1>4. /\ seq' = seq
      /\ \A m \in Node : applied'[m] = IF m = n THEN applied[m] \cup E ELSE applied[m]
      /\ \A m \in Node : log'[m] = IF m = n THEN log[m] \cup E ELSE log[m]
    BY <1>1 DEF ApplyBatch, TypeOK
<1>5. \A o \in Node : AppliedCursors(n, E, snap, own)[o] =
         IF o \in Origins(E) THEN AdvanceContiguous(n, o, E, snap, own) ELSE progress[n][n][o]
    BY DEF AppliedCursors
<1>6. \A o \in Node : AdvanceContiguous(n, o, E, snap, own) \in 0 .. MaxSeq
    BY <1>1, <1>2, AdvanceType
<1>7. TablesSound'
    <2> SUFFICES ASSUME NEW m \in Node
                 PROVE  log'[m] \subseteq applied'[m] /\ progress'[m][m][m] <= seq'[m]
        BY DEF TablesSound
    <2>1. log[m] \subseteq applied[m] /\ progress[m][m][m] <= seq[m]
        BY DEF SoundInv, TablesSound
    <2>2. AdvanceContiguous(n, n, E, snap, own) =
             IF progress[n][n][n] >= own THEN progress[n][n][n] ELSE own
        BY DEF AdvanceContiguous, SetProgress, Larger
    <2> QED
        BY <1>2, <1>3, <1>4, <1>5, <2>1, <2>2
<1>8. CursorSound'
    <2> SUFFICES ASSUME NEW m \in Node, NEW o \in Node, NEW s \in 1 .. VectorOf(m)'[o]
                 PROVE  <<o, s>> \in applied'[m]
        BY DEF CursorSound
    <2>1. \A t \in 1 .. VectorOf(m)[o] : <<o, t>> \in applied[m]
        BY DEF SoundInv, CursorSound
    <2>2. VectorOf(m)'[o] = IF o = m THEN seq'[m] ELSE ReadCursor(progress'[m][m][o])
        BY DEF VectorOf, LocalVector
    <2>3. VectorOf(m)[o] = IF o = m THEN seq[m] ELSE ReadCursor(progress[m][m][o])
        BY DEF VectorOf, LocalVector
    <2>4. CASE m = n /\ o # n /\ o \in Origins(E)
        <3>1. VectorOf(m)'[o] = ReadCursor(AdvanceContiguous(n, o, E, snap, own))
            BY <1>3, <1>5, <2>2, <2>4
        <3>2. VectorOf(m)'[o] = AdvanceContiguous(n, o, E, snap, own)
            BY <1>6, <3>1 DEF ReadCursor, NoRow
        <3>3. <<o, s>> \in applied[n] \cup E
            BY <1>2, <2>4, <3>2, AdvanceSound
        <3> QED
            BY <1>4, <2>4, <3>3
    <2>5. CASE ~(m = n /\ o # n /\ o \in Origins(E))
        <3>1. VectorOf(m)'[o] = VectorOf(m)[o]
            BY <1>3, <1>4, <1>5, <2>2, <2>3, <2>5
        <3> QED
            BY <1>4, <2>1, <3>1
    <2> QED
        BY <2>4, <2>5
<1>9. AckSound'
    <2> SUFFICES ASSUME NEW m \in Node, NEW r \in Node, NEW o \in Node, m # r
                 PROVE  progress'[m][r][o] <= VectorOf(r)'[o]
        BY DEF AckSound
    <2>1. progress'[m][r][o] = progress[m][r][o]
        BY <1>3
    <2>2. progress[m][r][o] <= VectorOf(r)[o]
        BY DEF SoundInv, AckSound
    <2>3. progress[m][r][o] \in Int
        BY <1>1, MaxSeqAssumption DEF TypeOK, Cursor, NoRow
    <2> QED
        BY <1>1, <2>1, <2>2, <2>3, VectorGrows
<1>10. ASSUME NEW o \in Node
       PROVE  AppliedVector(n, E, snap, own)[o] <= VectorOf(n)'[o]
    <2>1. VectorOf(n)'[o] = IF o = n THEN seq'[n] ELSE ReadCursor(progress'[n][n][o])
        BY DEF VectorOf, LocalVector
    <2>2. AppliedVector(n, E, snap, own)[o] =
             IF o = n THEN own
             ELSE IF o \in Origins(E) THEN AdvanceContiguous(n, o, E, snap, own)
             ELSE ReadCursor(snap.cur[o])
        BY DEF AppliedVector
    <2>3. snap.cur[o] <= progress[n][n][o] /\ snap.cur[o] \in Cursor /\ progress[n][n][o] \in Cursor
        BY <1>1 DEF SnapSound, Below, Snapshot, TypeOK
    <2>4. CASE o = n
        BY <1>2, <1>4, <2>1, <2>2, <2>4
    <2>5. CASE o # n /\ o \in Origins(E)
        <3>1. VectorOf(n)'[o] = ReadCursor(AdvanceContiguous(n, o, E, snap, own))
            BY <1>3, <1>5, <2>1, <2>5
        <3> QED
            BY <1>6, <2>2, <2>5, <3>1, MaxSeqAssumption DEF ReadCursor, NoRow
    <2>6. CASE o # n /\ o \notin Origins(E)
        <3>1. VectorOf(n)'[o] = ReadCursor(progress[n][n][o])
            BY <1>3, <1>5, <2>1, <2>6
        <3> QED
            BY <2>2, <2>3, <2>6, <3>1, MaxSeqAssumption DEF ReadCursor, Cursor, NoRow
    <2> QED
        BY <2>4, <2>5, <2>6
<1> QED
    BY <1>7, <1>8, <1>9, <1>10

-----------------------------------------------------------------------------
(* Steps that leave the tables alone.                                      *)

LEMMA SteadyTables ==
    ASSUME SoundInv, TypeOK', UNCHANGED <<seq, progress, applied>>,
           \A n \in Node : log'[n] \subseteq log[n],
           EpsSound(ep'), ChansSound(chan'), CastsSound(casts')
    PROVE  SoundInv'
<1>1. TypeOK /\ Grows
    BY UnchangedGrows DEF SoundInv
<1>2. \A n \in Node : VectorOf(n)' = VectorOf(n)
    BY DEF VectorOf, LocalVector
<1>3. TablesSound'
    BY DEF SoundInv, TablesSound
<1>4. CursorSound' /\ AckSound'
    BY <1>2 DEF SoundInv, CursorSound, AckSound
<1> QED
    BY <1>1, <1>3, <1>4, InFlightSuffices DEF EpsSound

LEMMA SessionSteady ==
    ASSUME SoundInv, TypeOK', UNCHANGED <<dbVars, castVars, gc, faults>>,
           EpsSound(ep'), ChansSound(chan')
    PROVE  SoundInv'
BY SteadyTables DEF SoundInv, dbVars, castVars

LEMMA FreshSound ==
    ASSUME TypeOK, NEW n \in Node
    PROVE  /\ Below(ZeroVector, VectorOf(n)) /\ SnapSound(n, NoSnap)
           /\ \A e \in Endpoint : /\ EpSound(e, Fresh)
                                 /\ EpSound(e, [Fresh EXCEPT !.pc = "closed"])
<1>1. ASSUME NEW m \in Node
      PROVE  Below(ZeroVector, VectorOf(m)) /\ SnapSound(m, NoSnap)
    <2>1. VectorOf(m) \in Vector
        BY LocalVectorType DEF VectorOf
    <2>2. Below(ZeroVector, VectorOf(m))
        BY <2>1, MaxSeqAssumption DEF Below, ZeroVector, Vector
    <2>3. progress[m][m] \in [Node -> Cursor] /\ seq[m] \in 0 .. MaxSeq
        BY DEF TypeOK
    <2>4. Below(NoSnap.cur, progress[m][m])
        BY <2>3, MaxSeqAssumption DEF Below, NoSnap, Cursor, NoRow
    <2>5. NoSnap.log = {} /\ NoSnap.seq <= seq[m]
        BY <2>3, MaxSeqAssumption DEF NoSnap
    <2> QED
        BY <2>2, <2>4, <2>5 DEF SnapSound
<1>2. /\ Fresh.vec = ZeroVector /\ Fresh.snap = NoSnap /\ Fresh.pending = {}
      /\ [Fresh EXCEPT !.pc = "closed"].vec = ZeroVector
      /\ [Fresh EXCEPT !.pc = "closed"].snap = NoSnap
      /\ [Fresh EXCEPT !.pc = "closed"].pending = {}
    BY DEF Fresh
<1> QED
    BY <1>1, <1>2, EndpointFacts DEF EpSound

\* A snapshot of the tables, and the vector read from them, are sound.
LEMMA ReadingSound ==
    ASSUME SoundInv, NEW n \in Node
    PROVE  /\ SnapSound(n, TakeSnapshot(n))
           /\ Below(LocalVector(n, progress[n][n], seq[n]), VectorOf(n))
<1>1. \A o \in Node : progress[n][n][o] \in Int /\ seq[n] \in Int
    BY MaxSeqAssumption DEF SoundInv, TypeOK, Cursor, NoRow
<1>2. VectorOf(n) \in Vector
    BY LocalVectorType DEF SoundInv, VectorOf
<1>3. \A o \in Node : VectorOf(n)[o] \in Int
    BY <1>2, MaxSeqAssumption DEF Vector
<1>4. Below(VectorOf(n), VectorOf(n))
    BY <1>3 DEF Below
<1>5. log[n] \subseteq applied[n]
    BY DEF SoundInv, TablesSound
<1> QED
    BY <1>1, <1>4, <1>5 DEF SnapSound, TakeSnapshot, Below, VectorOf

LEMMA TruthfulMessages ==
    ASSUME NEW r \in Node
    PROVE  /\ \A v \in Vector : Hello(v) \in Truthful(r)
           /\ \A v \in Vector : Below(v, VectorOf(r)) => Ack(v) \in Truthful(r)
           /\ \A R \in SUBSET RangeReq : Need(R) \in Truthful(r)
           /\ \A E \in SUBSET Event, c \in BOOLEAN :
                 E \subseteq Held => Batch(E, c) \in Truthful(r)
           /\ Error \in Truthful(r)
BY MessageType DEF Truthful, Hello, Ack, Need, Batch, Error

LEMMA SendSound ==
    ASSUME SoundInv, NEW e \in Endpoint, NEW m \in Truthful(Self(e))
    PROVE  ChansSound(Send(e, m))
<1>1. chan \in [Endpoint -> Seq(Message)] /\ Mate(e) \in Endpoint /\ Peer(Mate(e)) = Self(e)
    BY EndpointFacts DEF SoundInv, TypeOK
<1>2. \A x \in Endpoint : chan[x] \in Seq(Truthful(Peer(x)))
    BY DEF SoundInv, ChansSound
<1>3. Append(chan[Mate(e)], m) \in Seq(Truthful(Self(e)))
    BY <1>1, <1>2, AppendProperties
<1> QED
    BY <1>1, <1>2, <1>3 DEF ChansSound, Send

LEMMA ReceiveSound ==
    ASSUME SoundInv, NEW e \in Endpoint, chan[e] # <<>>
    PROVE  /\ ChansSound(Receive(e))
           /\ Head(chan[e]) \in Truthful(Peer(e))
           /\ Tail(chan[e]) \in Seq(Truthful(Peer(e)))
<1>1. chan \in [Endpoint -> Seq(Message)]
    BY DEF SoundInv, TypeOK
<1>2. \A x \in Endpoint : chan[x] \in Seq(Truthful(Peer(x)))
    BY DEF SoundInv, ChansSound
<1>3. Head(chan[e]) \in Truthful(Peer(e)) /\ Tail(chan[e]) \in Seq(Truthful(Peer(e)))
    BY <1>2, HeadTailProperties
<1> QED
    BY <1>1, <1>2, <1>3 DEF ChansSound, Receive

LEMMA UpdateSound ==
    ASSUME SoundInv, NEW e \in Endpoint, NEW state, EpSound(e, state),
           ep' = [ep EXCEPT ![e] = state]
    PROVE  EpsSound(ep')
BY DEF SoundInv, TypeOK, EpsSound

LEMMA ReturnSound ==
    ASSUME SoundInv, NEW e \in Endpoint, NEW ch \in [Endpoint -> Seq(Message)],
           ChansSound(ch), Return(e, ch)
    PROVE  EpsSound(ep') /\ ChansSound(chan')
<1>1. Mate(e) \in Endpoint /\ Self(e) \in Node /\ TypeOK
    BY EndpointFacts DEF SoundInv
<1>2. \A x \in Endpoint : /\ EpSound(x, Fresh) /\ EpSound(x, [Fresh EXCEPT !.pc = "closed"])
                           /\ EpSound(x, ep[x])
    BY <1>1, FreshSound DEF SoundInv, EpsSound
<1>3. \A x \in Endpoint : <<>> \in Seq(Truthful(Peer(x)))
    OBVIOUS
<1>4. CASE ep[Mate(e)].pc = "closed"
    <2>1. /\ ep' = [ep EXCEPT ![e] = Fresh, ![Mate(e)] = Fresh]
          /\ chan' = [ch EXCEPT ![e] = <<>>, ![Mate(e)] = <<>>]
        BY <1>4 DEF Return
    <2>2. EpsSound(ep')
        BY <1>1, <1>2, <2>1 DEF TypeOK, EpsSound
    <2> QED
        BY <1>1, <1>3, <2>1, <2>2 DEF ChansSound
<1>5. CASE ep[Mate(e)].pc # "closed"
    <2>1. ep' = [ep EXCEPT ![e] = [Fresh EXCEPT !.pc = "closed"]] /\ chan' = ch
        BY <1>5 DEF Return
    <2> QED
        BY <1>2, <2>1, UpdateSound
<1> QED
    BY <1>4, <1>5

LEMMA ResumeSound ==
    ASSUME SoundInv, NEW e \in Endpoint, NEW state \in EndpointState, EpSound(e, state),
           NEW ch \in [Endpoint -> Seq(Message)], ChansSound(ch), Resume(e, state, ch)
    PROVE  EpsSound(ep') /\ ChansSound(chan')
<1>1. CASE Return(e, ch)
    BY <1>1, ReturnSound
<1>2. CASE ep' = [ep EXCEPT ![e] = [state EXCEPT !.pc = "loop"]] /\ chan' = ch
    <2>1. EpSound(e, [state EXCEPT !.pc = "loop"])
        BY DEF EpSound, EndpointState
    <2> QED
        BY <1>2, <2>1, UpdateSound
<1> QED
    BY <1>1, <1>2 DEF Resume

\* A step of e that touches none of the fields soundness is about.
LEMMA NeutralSound ==
    ASSUME SoundInv, NEW e \in Endpoint, \A x \in Endpoint : x # e => ep'[x] = ep[x],
           ep'[e].vec = ep[e].vec, ep'[e].snap = ep[e].snap,
           ep'[e].pending = ep[e].pending
    PROVE  EpsSound(ep')
BY DEF SoundInv, EpsSound, EpSound

-----------------------------------------------------------------------------
(* One lemma per group of actions.                                         *)

LEMMA SoundInit == Init => SoundInv
<1> SUFFICES ASSUME Init PROVE SoundInv
    OBVIOUS
<1>1. TypeOK
    BY TypeInit
<1>2. \A n, o \in Node : VectorOf(n)[o] = 0
    BY DEF Init, VectorOf, LocalVector, ReadCursor
<1>3. CursorSound /\ AckSound /\ TablesSound
    BY <1>2 DEF Init, CursorSound, AckSound, TablesSound, NoRow
<1>4. EpsSound(ep)
    BY <1>1, FreshSound, EndpointFacts DEF Init, EpsSound
<1>5. ChansSound(chan) /\ CastsSound(casts)
    BY DEF Init, ChansSound, CastsSound
<1> QED
    BY <1>1, <1>3, <1>4, <1>5 DEF SoundInv

LEMMA SoundLocalWrite ==
    ASSUME SoundInv, TypeOK', Grows, NEW n \in Node, LocalWrite(n)
    PROVE  SoundInv'
<1>1. TypeOK
    BY DEF SoundInv
<1>2. /\ progress' = progress
      /\ \A m \in Node : seq'[m] = IF m = n THEN seq[n] + 1 ELSE seq[m]
      /\ \A m \in Node : log'[m] = IF m = n THEN log[n] \cup {<<n, seq[n] + 1>>} ELSE log[m]
      /\ \A m \in Node : applied'[m] = IF m = n THEN applied[n] \cup {<<n, seq[n] + 1>>}
                                        ELSE applied[m]
    BY <1>1 DEF LocalWrite, TypeOK
<1>3. \A m, o \in Node : progress[m][m][o] \in Int /\ seq[m] \in Nat
    BY <1>1, MaxSeqAssumption DEF TypeOK, Cursor, NoRow
<1>4. TablesSound'
    BY <1>2, <1>3 DEF SoundInv, TablesSound
<1>5. CursorSound'
    <2> SUFFICES ASSUME NEW m \in Node, NEW o \in Node, NEW s \in 1 .. VectorOf(m)'[o]
                 PROVE  <<o, s>> \in applied'[m]
        BY DEF CursorSound
    <2>1. \A t \in 1 .. VectorOf(m)[o] : <<o, t>> \in applied[m]
        BY DEF SoundInv, CursorSound
    <2>2. VectorOf(m)'[o] = IF o = m THEN seq'[m] ELSE ReadCursor(progress[m][m][o])
        BY <1>2 DEF VectorOf, LocalVector
    <2>3. VectorOf(m)[o] = IF o = m THEN seq[m] ELSE ReadCursor(progress[m][m][o])
        BY DEF VectorOf, LocalVector
    <2>4. CASE m = n /\ o = n /\ s = seq[n] + 1
        BY <1>2, <2>4
    <2>5. CASE ~(m = n /\ o = n /\ s = seq[n] + 1)
        <3>1. s \in 1 .. VectorOf(m)[o]
            BY <1>2, <1>3, <2>2, <2>3, <2>5
        <3> QED
            BY <1>2, <2>1, <3>1
    <2> QED
        BY <2>4, <2>5
<1>6. AckSound'
    <2> SUFFICES ASSUME NEW m \in Node, NEW r \in Node, NEW o \in Node, m # r
                 PROVE  progress'[m][r][o] <= VectorOf(r)'[o]
        BY DEF AckSound
    <2>1. progress[m][r][o] <= VectorOf(r)[o] /\ progress[m][r][o] \in Int
        BY <1>1, MaxSeqAssumption DEF SoundInv, AckSound, TypeOK, Cursor, NoRow
    <2> QED
        BY <1>1, <1>2, <2>1, VectorGrows
<1>7. EpsSound(ep') /\ ChansSound(chan') /\ CastsSound(casts')
    BY DEF LocalWrite, sessVars, castVars, SoundInv
<1> QED
    BY <1>1, <1>4, <1>5, <1>6, <1>7, InFlightSuffices DEF EpsSound

LEMMA SoundOpening ==
    ASSUME SoundInv, TypeOK', NEW l \in Link, Open(l)
    PROVE  SoundInv'
<1> DEFINE e == <<l, "init">>
           vec == LocalVector(Self(e), progress[Self(e)][Self(e)], seq[Self(e)])
<1>1. e \in Endpoint /\ TypeOK
    BY DEF Endpoint, Role, SoundInv
<1>2. Mate(e) \in Endpoint /\ Self(e) \in Node
    BY <1>1, EndpointFacts
<1>3. vec \in Vector /\ Below(vec, VectorOf(Self(e)))
    BY <1>1, <1>2, LocalVectorType, ReadingSound
<1> HIDE DEF e, vec
<1>4. /\ ep' = [ep EXCEPT ![e] = [Fresh EXCEPT !.pc = "hello", !.vec = vec],
                          ![Mate(e)] = [Fresh EXCEPT !.pc = "hello"]]
      /\ chan' = Send(e, Hello(vec))
      /\ UNCHANGED <<dbVars, castVars, gc, faults>>
    BY DEF Open, e, vec
<1>5. ChansSound(chan')
    BY <1>1, <1>2, <1>3, <1>4, TruthfulMessages, SendSound
<1>6. /\ EpSound(e, [Fresh EXCEPT !.pc = "hello", !.vec = vec])
      /\ EpSound(Mate(e), [Fresh EXCEPT !.pc = "hello"])
    <2>1. EpSound(e, Fresh) /\ EpSound(Mate(e), Fresh)
        BY <1>1, <1>2, FreshSound
    <2> QED
        BY <1>3, <2>1 DEF EpSound, Fresh
<1>7. EpsSound(ep')
    BY <1>1, <1>2, <1>4, <1>6 DEF SoundInv, EpsSound, TypeOK
<1> QED
    BY <1>4, <1>5, <1>7, SessionSteady

LEMMA SoundHello ==
    ASSUME SoundInv, TypeOK', NEW e \in Endpoint,
           AnswerHello(e) \/ ReadHello(e) \/ SendNeed(e)
    PROVE  SoundInv'
<1> DEFINE vec == LocalVector(Self(e), progress[Self(e)][Self(e)], seq[Self(e)])
<1>1. /\ TypeOK /\ Self(e) \in Node /\ Peer(e) \in Node
      /\ Mate(e) \in Endpoint /\ Mate(e) # e
    BY EndpointFacts DEF SoundInv
<1>2. vec \in Vector /\ Below(vec, VectorOf(Self(e)))
    BY <1>1, LocalVectorType, ReadingSound
<1>3. EpSound(e, Fresh)
    BY <1>1, FreshSound
<1>4. CASE AnswerHello(e)
    <2> HIDE DEF vec
    <2>1. /\ ep' = [ep EXCEPT ![e] = [Fresh EXCEPT !.pc = "need", !.vec = vec,
                                                   !.want = Head(chan[e]).vec]]
          /\ chan' = [Send(e, Hello(vec)) EXCEPT ![e] = Tail(@)]
          /\ UNCHANGED <<dbVars, castVars, gc, faults>>
          /\ chan[e] # <<>>
        BY <1>4 DEF AnswerHello, vec, Reading
    <2>2. EpSound(e, [Fresh EXCEPT !.pc = "need", !.vec = vec, !.want = Head(chan[e]).vec])
        BY <1>2, <1>3 DEF EpSound, Fresh
    <2>3. EpsSound(ep')
        BY <2>1, <2>2, UpdateSound
    <2>4. Send(e, Hello(vec)) \in [Endpoint -> Seq(Message)]
        BY <1>1, <1>2, MessageType, SendType DEF TypeOK
    <2>5. ChansSound(Send(e, Hello(vec)))
        BY <1>1, <1>2, TruthfulMessages, SendSound
    <2>6. Send(e, Hello(vec))[e] = chan[e]
        BY <1>1 DEF Send, TypeOK
    <2>7. Tail(chan[e]) \in Seq(Truthful(Peer(e)))
        BY <2>1, ReceiveSound
    <2>8. ChansSound(chan')
        BY <2>1, <2>4, <2>5, <2>6, <2>7 DEF ChansSound
    <2> QED
        BY <2>1, <2>3, <2>8, SessionSteady
<1>5. CASE ReadHello(e)
    <2>1. ChansSound(chan')
        BY <1>5, ReceiveSound DEF ReadHello, Reading
    <2>2. EpsSound(ep')
        BY <1>1, <1>5, NeutralSound DEF ReadHello, TypeOK, EndpointState
    <2> QED
        BY <1>5, <2>1, <2>2, SessionSteady DEF ReadHello
<1>6. CASE SendNeed(e)
    <2>1. ep[e] \in EndpointState /\ ep[e].vec \in Vector /\ ep[e].want \in Vector
        BY <1>1 DEF TypeOK, EndpointState
    <2>2. [ep[e] EXCEPT !.want = ZeroVector, !.vec = ZeroVector] \in EndpointState
        BY <2>1, ZeroVectorType DEF EndpointState
    <2>3. EpSound(e, [ep[e] EXCEPT !.want = ZeroVector, !.vec = ZeroVector])
        <3>1. EpSound(e, ep[e]) /\ Below(ZeroVector, VectorOf(Self(e)))
            BY <1>1, FreshSound DEF SoundInv, EpsSound
        <3> QED
            BY <2>1, <3>1 DEF EpSound, EndpointState
    <2>4. Missing(ep[e].vec, ep[e].want) \in SUBSET RangeReq
        BY <2>1, MissingType
    <2>5. /\ Need(Missing(ep[e].vec, ep[e].want)) \in Truthful(Self(e))
          /\ Error \in Truthful(Self(e))
        BY <1>1, <2>4, TruthfulMessages
    <2>6. /\ ChansSound(Send(e, Need(Missing(ep[e].vec, ep[e].want))))
          /\ ChansSound(Send(e, Error))
        BY <2>5, SendSound
    <2>7. /\ Send(e, Need(Missing(ep[e].vec, ep[e].want))) \in [Endpoint -> Seq(Message)]
          /\ Send(e, Error) \in [Endpoint -> Seq(Message)]
        BY <1>1, <2>4, MessageType, SendType DEF TypeOK
    <2>8. EpsSound(ep') /\ ChansSound(chan')
        BY <1>6, <2>2, <2>3, <2>6, <2>7, ReturnSound, ResumeSound DEF SendNeed
    <2> QED
        BY <1>6, <2>8, SessionSteady DEF SendNeed
<1> QED
    BY <1>4, <1>5, <1>6

LEMMA LogHeld ==
    ASSUME SoundInv, NEW n \in Node
    PROVE  log[n] \subseteq Held
BY DEF SoundInv, TablesSound, Held

LEMMA SoundSending ==
    ASSUME SoundInv, TypeOK', NEW e \in Endpoint, ReadNeed(e) \/ CheckRange(e) \/ SendRange(e) \/ EndSend(e)
    PROVE  SoundInv'
<1>1. /\ TypeOK /\ Self(e) \in Node /\ ep[e] \in EndpointState
      /\ EpSound(e, ep[e]) /\ ChansSound(chan)
      /\ ep \in [Endpoint -> EndpointState] /\ chan \in [Endpoint -> Seq(Message)]
    BY EndpointFacts DEF SoundInv, TypeOK, EpsSound
<1>2. CASE ReadNeed(e)
    <2>1. ChansSound(chan')
        BY <1>2, ReceiveSound DEF ReadNeed, InLoop, Reading
    <2>2. EpsSound(ep')
        BY <1>1, <1>2, NeutralSound DEF ReadNeed, EndpointState
    <2> QED
        BY <1>2, <2>1, <2>2, SessionSteady DEF ReadNeed
<1>3. CASE SendRange(e)
    <2> DEFINE r == NextRange(e)
               events == FetchRange(log[Self(e)], r.origin, r.from, r.to, BatchMaxEvents)
               last == Max({x[2] : x \in events})
               complete == last >= r.to
               rest == ep[e].todo \ {r}
               next == IF complete THEN rest
                       ELSE rest \cup {[r EXCEPT !.from = last + 1]}
    <2>1. ep[e].todo # {}
        BY <1>3 DEF SendRange
    <2>2. events \in SUBSET Event /\ events \subseteq Held
        <3>1. log[Self(e)] \in SUBSET Event /\ r \in RangeReq
            BY <1>1, <2>1, RangeStepType DEF TypeOK
        <3>2. events \subseteq log[Self(e)]
            BY <3>1, FetchRangeSound
        <3> QED
            BY <1>1, <3>1, <3>2, LogHeld
    <2>3. complete \in BOOLEAN
        OBVIOUS
    <2> HIDE DEF r, events, last, complete, rest, next
    <2>5. CASE /\ ep' = [ep EXCEPT ![e].pc = "send", ![e].todo = rest,
                                   ![e].terminated = FALSE]
               /\ UNCHANGED chan
        <3>1. EpsSound(ep')
            BY <1>1, <2>5, NeutralSound DEF EndpointState
        <3> QED
            BY <1>1, <1>3, <2>5, <3>1, SessionSteady DEF SendRange
    <2>6. CASE /\ ep' = [ep EXCEPT ![e].pc = "send", ![e].todo = next,
                                   ![e].terminated = complete]
               /\ chan' = Send(e, Batch(events, complete))
        <3>1. EpsSound(ep')
            BY <1>1, <2>6, NeutralSound DEF EndpointState
        <3>2. Batch(events, complete) \in Truthful(Self(e))
            BY <1>1, <2>2, <2>3, TruthfulMessages
        <3>3. ChansSound(chan')
            BY <2>6, <3>2, SendSound
        <3> QED
            BY <1>3, <3>1, <3>3, SessionSteady DEF SendRange
    <2> QED
        BY <1>3, <2>5, <2>6
           DEF SendRange, r, events, last, complete, rest, next
<1>4. CASE EndSend(e)
    <2> DEFINE state == [ep[e] EXCEPT !.sentBatches = TRUE, !.terminated = FALSE]
               ch == IF ep[e].terminated THEN chan ELSE Send(e, Batch({}, TRUE))
    <2>1. state \in EndpointState /\ EpSound(e, state)
        BY <1>1 DEF EndpointState, EpSound
    <2>2. ChansSound(ch) /\ ch \in [Endpoint -> Seq(Message)]
        <3>1. Batch({}, TRUE) \in Truthful(Self(e)) /\ Batch({}, TRUE) \in Message
            BY <1>1, TruthfulMessages, MessageType
        <3>2. ChansSound(Send(e, Batch({}, TRUE)))
            BY <3>1, SendSound
        <3>3. Send(e, Batch({}, TRUE)) \in [Endpoint -> Seq(Message)]
            BY <1>1, <3>1, SendType
        <3> QED
            BY <1>1, <3>2, <3>3
    <2>3. Resume(e, state, ch)
        BY <1>4 DEF EndSend
    <2> HIDE DEF state, ch
    <2>4. EpsSound(ep') /\ ChansSound(chan')
        BY <2>1, <2>2, <2>3, ResumeSound
    <2> QED
        BY <1>4, <2>4, SessionSteady DEF EndSend
<1>5. CASE CheckRange(e)
    <2>1. CASE Return(e, Send(e, Error))
        <3>1. Send(e, Error) \in [Endpoint -> Seq(Message)] /\ ChansSound(Send(e, Error))
            BY <1>1, MessageType, SendType, TruthfulMessages, SendSound
        <3>2. EpsSound(ep') /\ ChansSound(chan')
            BY <2>1, <3>1, ReturnSound
        <3> QED
            BY <1>5, <3>2, SessionSteady DEF CheckRange
    <2>2. CASE ep' = [ep EXCEPT ![e].pc = "fetch"] /\ UNCHANGED chan
        <3>1. EpsSound(ep')
            BY <1>1, <2>2, NeutralSound DEF EndpointState
        <3> QED
            BY <1>1, <1>5, <2>2, <3>1, SessionSteady DEF CheckRange
    <2> QED
        BY <1>5, <2>1, <2>2 DEF CheckRange
<1> QED
    BY <1>2, <1>3, <1>4, <1>5

LEMMA SoundReadBatch ==
    ASSUME SoundInv, TypeOK', NEW e \in Endpoint, ReadBatch(e)
    PROVE  SoundInv'
<1> DEFINE n == Self(e)
           m == Head(chan[e])
           events == ep[e].pending \cup m.events
           vec == LocalVector(n, progress[n][n], seq[n])
<1>1. /\ TypeOK /\ n \in Node /\ ep[e] \in EndpointState /\ EpSound(e, ep[e])
      /\ ep \in [Endpoint -> EndpointState]
    BY EndpointFacts DEF SoundInv, TypeOK, EpsSound
<1>2. chan[e] # <<>> /\ m.kind = "batch"
    BY DEF ReadBatch, InLoop, Reading
<1>3. ChansSound(chan') /\ m \in Truthful(Peer(e))
    BY <1>2, ReceiveSound DEF ReadBatch
<1>4. events \subseteq Held
    BY <1>1, <1>2, <1>3 DEF Truthful, EpSound
<1>5. SnapSound(n, TakeSnapshot(n)) /\ Below(vec, VectorOf(n))
    BY <1>1, ReadingSound
<1>6. \/ ep' = [ep EXCEPT ![e].pending = events]
      \/ ep' = [ep EXCEPT ![e].pc = "apply", ![e].pending = events,
                          ![e].snap = TakeSnapshot(n)]
      \/ ep' = [ep EXCEPT ![e].pc = "ack", ![e].gotComplete = TRUE, ![e].vec = vec]
    BY DEF ReadBatch
<1> DEFINE a == [ep[e] EXCEPT !.pending = events]
           b == [ep[e] EXCEPT !.pc = "apply", !.pending = events, !.snap = TakeSnapshot(n)]
           c == [ep[e] EXCEPT !.pc = "ack", !.gotComplete = TRUE, !.vec = vec]
<1> HIDE DEF events, vec, m
<1>7. EpSound(e, a) /\ EpSound(e, b) /\ EpSound(e, c)
    BY <1>1, <1>4, <1>5 DEF EpSound, EndpointState
<1>8. \/ ep' = [ep EXCEPT ![e] = a]
      \/ ep' = [ep EXCEPT ![e] = b]
      \/ ep' = [ep EXCEPT ![e] = c]
    BY <1>1, <1>6 DEF EndpointState
<1> HIDE DEF a, b, c
<1>9. EpsSound(ep')
    BY <1>7, <1>8, UpdateSound
<1> QED
    BY <1>3, <1>9, SessionSteady DEF ReadBatch

LEMMA SoundCommitBatch ==
    ASSUME SoundInv, TypeOK', Grows, NEW e \in Endpoint, CommitBatch(e)
    PROVE  SoundInv'
<1> DEFINE n == Self(e)
           s == ep[e]
<1>1. /\ TypeOK /\ n \in Node /\ ep \in [Endpoint -> EndpointState]
      /\ s.pending \in SUBSET Event /\ s.snap \in Snapshot /\ SnapSound(n, s.snap)
    BY EndpointFacts DEF SoundInv, TypeOK, EndpointState, EpsSound, EpSound
<1>2. PICK own : /\ ApplyBatch(n, s.pending, s.snap, own)
                 /\ ep' = [ep EXCEPT ![e].pc = "ack", ![e].gotComplete = TRUE,
                              ![e].pending = {}, ![e].snap = NoSnap,
                              ![e].vec = AppliedVector(n, s.pending, s.snap, own)]
    BY DEF CommitBatch
<1>3. /\ TablesSound' /\ CursorSound' /\ AckSound'
      /\ \A o \in Node : AppliedVector(n, s.pending, s.snap, own)[o] <= VectorOf(n)'[o]
    BY <1>1, <1>2, ApplySound
<1>4. /\ ep'[e].vec = AppliedVector(n, s.pending, s.snap, own)
      /\ ep'[e].snap = NoSnap /\ ep'[e].pending = {}
      /\ \A x \in Endpoint : x # e => ep'[x] = ep[x]
    BY <1>1, <1>2 DEF EndpointState
<1>5. EpSound(e, ep[e])'
    <2>1. SnapSound(n, NoSnap)'
        <3>1. progress'[n][n] \in [Node -> Cursor] /\ seq'[n] \in 0 .. MaxSeq
            BY <1>1 DEF TypeOK
        <3>2. \A o \in Node : NoSnap.cur[o] <= progress'[n][n][o]
            BY <3>1, MaxSeqAssumption DEF NoSnap, Cursor, NoRow
        <3>3. NoSnap.log = {} /\ NoSnap.seq <= seq'[n]
            BY <3>1, MaxSeqAssumption DEF NoSnap
        <3> QED
            BY <3>2, <3>3 DEF SnapSound, Below
    <2> QED
        BY <1>3, <1>4, <2>1 DEF EpSound, Below
<1>6. \A x \in Endpoint : EpSound(x, ep'[x]) \/ EpSound(x, ep[x])'
    BY <1>4, <1>5 DEF SoundInv, EpsSound
<1>7. ChansSound(chan') /\ CastsSound(casts')
    BY DEF SoundInv, CommitBatch, castVars
<1> QED
    BY <1>1, <1>3, <1>6, <1>7, InFlightSuffices

LEMMA SoundAcks ==
    ASSUME SoundInv, TypeOK', Grows, NEW e \in Endpoint,
           SendAck(e) \/ ReadAck(e) \/ ReadEnd(e)
    PROVE  SoundInv'
<1>1. /\ TypeOK /\ Self(e) \in Node /\ Peer(e) \in Node /\ Self(e) # Peer(e)
      /\ ep[e] \in EndpointState
      /\ EpSound(e, ep[e]) /\ ChansSound(chan) /\ chan \in [Endpoint -> Seq(Message)]
    BY EndpointFacts DEF SoundInv, TypeOK, EpsSound
<1>2. CASE SendAck(e)
    <2> DEFINE state == [ep[e] EXCEPT !.vec = ZeroVector]
    <2>1. ep[e].vec \in Vector /\ Below(ep[e].vec, VectorOf(Self(e)))
        BY <1>1 DEF EndpointState, EpSound
    <2>2. ChansSound(Send(e, Ack(ep[e].vec)))
        BY <1>1, <2>1, TruthfulMessages, SendSound
    <2>3. Send(e, Ack(ep[e].vec)) \in [Endpoint -> Seq(Message)]
        BY <1>1, <2>1, MessageType, SendType
    <2>4. state \in EndpointState
        BY <1>1, ZeroVectorType DEF EndpointState
    <2>5. EpSound(e, state)
        <3>1. Below(ZeroVector, VectorOf(Self(e)))
            BY <1>1, FreshSound
        <3> QED
            BY <1>1, <3>1 DEF EpSound, EndpointState
    <2> HIDE DEF state
    <2>6. EpsSound(ep') /\ ChansSound(chan')
        BY <1>2, <2>2, <2>3, <2>4, <2>5, ResumeSound DEF SendAck, state
    <2> QED
        BY <1>2, <2>6, SessionSteady DEF SendAck
<1>3. CASE ReadAck(e)
    <2> DEFINE v == Head(chan[e]).vec
               state == [ep[e] EXCEPT !.gotAck = TRUE]
    <2>1. chan[e] # <<>> /\ Head(chan[e]).kind = "ack"
        BY <1>3 DEF ReadAck, InLoop, Reading
    <2>2. ChansSound(Receive(e)) /\ Head(chan[e]) \in Truthful(Peer(e))
        BY <2>1, ReceiveSound
    <2>3. v \in Vector /\ Below(v, VectorOf(Peer(e)))
        BY <1>1, <2>1, <2>2, HeadType DEF Truthful
    <2>4. Receive(e) \in [Endpoint -> Seq(Message)]
        BY <1>1, <2>1, ReceiveType
    <2>5. state \in EndpointState /\ EpSound(e, state)
        BY <1>1 DEF EndpointState, EpSound
    <2>6. EpsSound(ep') /\ ChansSound(chan')
        BY <1>3, <2>2, <2>4, <2>5, ResumeSound DEF ReadAck
    <2>7. \A m, r, o \in Node :
             /\ m # Self(e) \/ r # Peer(e) => progress'[m][r][o] = progress[m][r][o]
             /\ progress'[m][r][o] \in {progress[m][r][o], v[o]}
        <3>1. PICK K : RecordPeerVector(Self(e), Peer(e), v, K)
            BY <1>3 DEF ReadAck
        <3> HIDE DEF v
        <3> QED
            BY <1>1, <2>3, <3>1, RecordEffect
    <2>8. UNCHANGED <<seq, log, applied, casts>>
        BY <1>3 DEF ReadAck, castVars
    <2>9. \A n, o \in Node : /\ VectorOf(n)'[o] = VectorOf(n)[o]
                             /\ progress'[n][n][o] = progress[n][n][o]
        <3> SUFFICES ASSUME NEW n \in Node, NEW o \in Node
                     PROVE  VectorOf(n)'[o] = VectorOf(n)[o] /\
                            progress'[n][n][o] = progress[n][n][o]
            OBVIOUS
        <3>1. progress'[n][n][o] = progress[n][n][o]
            BY <1>1, <2>7
        <3> QED
            BY <2>8, <3>1 DEF VectorOf, LocalVector
    <2>10. TablesSound' /\ CursorSound'
        BY <2>8, <2>9 DEF SoundInv, TablesSound, CursorSound
    <2>11. AckSound'
        BY <2>3, <2>7, <2>9 DEF SoundInv, AckSound, Below
    <2>12. CastsSound(casts')
        BY <2>8 DEF SoundInv
    <2> QED
        BY <1>1, <2>6, <2>10, <2>11, <2>12, InFlightSuffices DEF EpsSound
<1>4. CASE ReadEnd(e)
    <2>1. EpsSound(ep') /\ ChansSound(chan')
        BY <1>1, <1>4, ReturnSound DEF ReadEnd
    <2> QED
        BY <1>4, <2>1, SessionSteady DEF ReadEnd
<1> QED
    BY <1>2, <1>3, <1>4

LEMMA SoundBroadcast ==
    ASSUME SoundInv, TypeOK', Grows, BroadcastStep
    PROVE  SoundInv'
<1>1. TypeOK /\ EpsSound(ep) /\ ChansSound(chan) /\ CastsSound(casts)
    BY DEF SoundInv
<1>2. ASSUME NEW n \in Node, CollectAnchor(n)
      PROVE  SoundInv'
    BY <1>1, <1>2, SteadyTables DEF CollectAnchor, dbVars, sessVars
<1>3. ASSUME NEW n \in Node, Collect(n)
      PROVE  SoundInv'
    <2> DEFINE events == FetchRange(log[n], n, lastSent[n] + 1, seq[n], BroadcastMax)
    <2>1. events \subseteq Held
        <3>1. events \subseteq log[n]
            BY DEF FetchRange
        <3> QED
            BY <3>1, LogHeld
    <2>2. PICK P \in SUBSET PeersOf(n) :
              casts' = IF events = {} THEN casts
                       ELSE casts \cup {[to |-> p, events |-> events, open |-> FALSE,
                                         snap |-> NoSnap] : p \in P}
        BY <1>3 DEF Collect
    <2>3. \A p \in P : p \in Node
        BY LinkAssumption DEF PeersOf
    <2> HIDE DEF events
    <2>4. CastsSound(casts')
        <3> SUFFICES ASSUME NEW c \in casts'
                     PROVE  SnapSound(c.to, c.snap) /\ c.events \subseteq Held
            BY DEF CastsSound
        <3>1. CASE c \in casts
            BY <1>1, <3>1 DEF CastsSound
        <3>2. CASE c \notin casts
            <4>1. PICK p \in P : c = [to |-> p, events |-> events, open |-> FALSE,
                                      snap |-> NoSnap]
                BY <2>2, <3>2
            <4>2. SnapSound(p, NoSnap)
                BY <1>1, <2>3, FreshSound
            <4> QED
                BY <2>1, <4>1, <4>2
        <3> QED
            BY <3>1, <3>2
    <2> QED
        BY <1>1, <1>3, <2>4, SteadyTables DEF Collect, dbVars, sessVars
<1>4. ASSUME NEW c \in casts, HandleBroadcast(c)
      PROVE  SoundInv'
    <2>1. c \in Cast /\ c.to \in Node
        BY <1>1 DEF TypeOK, Cast
    <2>2. CastsSound(casts')
        <3> DEFINE d == [c EXCEPT !.open = TRUE, !.snap = TakeSnapshot(c.to)]
        <3>1. d.to = c.to /\ d.events = c.events /\ d.snap = TakeSnapshot(c.to)
            BY <2>1 DEF Cast
        <3>2. SnapSound(d.to, d.snap) /\ d.events \subseteq Held
            BY <1>1, <2>1, <3>1, ReadingSound DEF CastsSound
        <3>3. casts' = (casts \ {c}) \cup {d}
            BY <1>4 DEF HandleBroadcast
        <3> HIDE DEF d
        <3> QED
            BY <1>1, <3>2, <3>3 DEF CastsSound
    <2> QED
        BY <1>1, <1>4, <2>2, SteadyTables DEF HandleBroadcast, dbVars, sessVars
<1>5. ASSUME NEW c \in casts, CommitBroadcast(c)
      PROVE  SoundInv'
    <2>1. /\ c.to \in Node /\ c.events \in SUBSET Event /\ c.snap \in Snapshot
          /\ SnapSound(c.to, c.snap)
        BY <1>1 DEF TypeOK, Cast, CastsSound
    <2>2. PICK own : ApplyBatch(c.to, c.events, c.snap, own)
        BY <1>5 DEF CommitBroadcast
    <2>3. TablesSound' /\ CursorSound' /\ AckSound'
        BY <2>1, <2>2, ApplySound
    <2>4. EpsSound(ep') /\ ChansSound(chan') /\ CastsSound(casts')
        BY <1>1, <1>5 DEF CommitBroadcast, sessVars, CastsSound
    <2> QED
        BY <1>1, <2>3, <2>4, InFlightSuffices DEF EpsSound
<1> QED
    BY <1>2, <1>3, <1>4, <1>5, LoopAssumption DEF BroadcastStep

LEMMA SoundGC ==
    ASSUME SoundInv, TypeOK', NEW n \in Node, GCStep(n)
    PROVE  SoundInv'
<1>1. TypeOK /\ EpsSound(ep) /\ ChansSound(chan) /\ CastsSound(casts)
    BY DEF SoundInv
<1>2. UNCHANGED <<seq, progress, applied, ep, chan, casts>>
    BY DEF GCStep, GCBegin, GCDelete, GCMark, dbVars, sessVars, castVars
<1>3. \A m \in Node : log'[m] \subseteq log[m]
    BY <1>1 DEF GCStep, GCBegin, GCDelete, GCMark, dbVars, TypeOK
<1> QED
    BY <1>1, <1>2, <1>3, SteadyTables

LEMMA SoundFaults ==
    ASSUME SoundInv, TypeOK', FaultStep
    PROVE  SoundInv'
<1>1. TypeOK /\ EpsSound(ep) /\ ChansSound(chan) /\ CastsSound(casts)
    BY DEF SoundInv
<1>2. UNCHANGED <<seq, log, progress, applied>>
    BY DEF FaultStep, Fail, LoseBroadcast, Crash, dbVars
<1>3. EpsSound(ep') /\ ChansSound(chan') /\ CastsSound(casts')
    <2>1. ASSUME NEW e \in Endpoint, Fail(e)
          PROVE  EpsSound(ep') /\ ChansSound(chan') /\ CastsSound(casts')
        <3>1. chan \in [Endpoint -> Seq(Message)]
            BY <1>1 DEF TypeOK
        <3>2. EpsSound(ep') /\ ChansSound(chan')
            BY <1>1, <2>1, <3>1, ReturnSound DEF Fail
        <3> QED
            BY <1>1, <2>1, <3>2 DEF Fail, castVars
    <2>2. ASSUME NEW c \in casts, LoseBroadcast(c)
          PROVE  EpsSound(ep') /\ ChansSound(chan') /\ CastsSound(casts')
        BY <1>1, <2>2 DEF LoseBroadcast, sessVars, CastsSound
    <2>3. ASSUME NEW n \in Node, Crash(n)
          PROVE  EpsSound(ep') /\ ChansSound(chan') /\ CastsSound(casts')
        <3>1. EpsSound(ep')
            BY <1>1, <2>3, FreshSound DEF Crash, EpsSound
        <3>2. ChansSound(chan')
            BY <1>1, <2>3 DEF Crash, ChansSound
        <3> QED
            BY <1>1, <2>3, <3>1, <3>2 DEF Crash, CastsSound
    <2> QED
        BY <2>1, <2>2, <2>3 DEF FaultStep
<1> QED
    BY <1>1, <1>2, <1>3, SteadyTables

LEMMA SoundStep ==
    ASSUME SoundInv, [Next]_vars
    PROVE  SoundInv'
<1>1. TypeOK /\ TypeOK' /\ Grows
    BY TypeStep, StepGrows DEF SoundInv
<1>2. ASSUME NEW n \in Writers, LocalWrite(n) PROVE SoundInv'
    BY <1>1, <1>2, SoundLocalWrite, LoopAssumption
<1>3. ASSUME NEW l \in Link, Open(l) PROVE SoundInv'
    BY <1>1, <1>3, SoundOpening
<1>4. ASSUME NEW e \in Endpoint, SessionStep(e) PROVE SoundInv'
    BY <1>1, <1>4, SoundHello, SoundSending, SoundReadBatch, SoundCommitBatch, SoundAcks
       DEF SessionStep
<1>5. CASE BroadcastStep
    BY <1>1, <1>5, SoundBroadcast
<1>6. ASSUME NEW n \in Collectors, GCStep(n) PROVE SoundInv'
    BY <1>1, <1>6, SoundGC, LoopAssumption
<1>7. CASE FaultStep
    BY <1>1, <1>7, SoundFaults
<1>8. CASE UNCHANGED vars
    BY <1>1, <1>8, SteadyTables DEF vars, SoundInv
<1> QED
    BY <1>2, <1>3, <1>4, <1>5, <1>6, <1>7, <1>8 DEF Next

\* Whatever a node advertises it has committed, whatever a node has recorded
\* of a peer the peer has committed, and everything in flight is truthful
\* (AdvanceContiguous, Session, RecordPeerVector), in every mesh.
THEOREM Soundness == Spec => []SoundInv
<1>1. Init => SoundInv
    BY SoundInit
<1>2. SoundInv /\ [Next]_vars => SoundInv'
    BY SoundStep
<1> QED
    BY <1>1, <1>2, PTL DEF Spec

\* The sync cursor covers only committed events (AdvanceContiguous).
THEOREM CursorsSound == Spec => []CursorSound
<1>1. SoundInv => CursorSound
    BY DEF SoundInv
<1> QED
    BY <1>1, Soundness, PTL

\* Commit before ACK: peer rows never exceed the peer (RecordPeerVector).
THEOREM AcksSound == Spec => []AckSound
<1>1. SoundInv => AckSound
    BY DEF SoundInv
<1> QED
    BY <1>1, Soundness, PTL

-----------------------------------------------------------------------------
(* The abstract log.                                                       *)

\* A commit of events somebody holds is a Receive.
LEMMA ApplyIsReceive ==
    ASSUME TypeOK, SoundInv', Grows, NEW n \in Node, NEW E \in SUBSET Event,
           E \subseteq Held, NEW snap, NEW own, ApplyBatch(n, E, snap, own)
    PROVE  Abstract!Receive(n)
<1>1. /\ applied' = [applied EXCEPT ![n] = applied[n] \cup E]
      /\ progress' = [progress EXCEPT ![n][n] = AppliedCursors(n, E, snap, own)]
      /\ seq' = seq
    BY DEF ApplyBatch
<1>2. applied' = [applied EXCEPT ![n] = applied'[n]]
    BY <1>1 DEF TypeOK
<1>3. applied[n] \subseteq applied'[n] /\ applied'[n] \subseteq Held
    BY <1>1 DEF TypeOK, Held
<1>4. progress' = [progress EXCEPT ![n][n] = progress'[n][n]]
    BY <1>1 DEF TypeOK
<1>5. Abstract!Advances(progress[n][n], progress'[n][n])
    BY DEF Grows, Abstract!Advances
<1>6. Abstract!Covers(applied'[n], progress'[n][n])
    <2> SUFFICES ASSUME NEW o \in Node, NEW s \in 1 .. progress'[n][n][o]
                 PROVE  <<o, s>> \in applied'[n]
        BY DEF Abstract!Covers
    <2>1. progress'[n][n][o] \in Cursor /\ seq'[n] \in 0 .. MaxSeq
        BY DEF SoundInv, TypeOK
    <2>2. VectorOf(n)'[o] = IF o = n THEN seq'[n] ELSE ReadCursor(progress'[n][n][o])
        BY DEF VectorOf, LocalVector
    <2>3. o = n => progress'[n][n][o] <= seq'[n]
        BY DEF SoundInv, TablesSound
    <2>4. s \in 1 .. VectorOf(n)'[o]
        BY <2>1, <2>2, <2>3, MaxSeqAssumption DEF ReadCursor, Cursor, NoRow
    <2> QED
        BY <2>4 DEF SoundInv, CursorSound
<1> QED
    BY <1>1, <1>2, <1>3, <1>4, <1>5, <1>6 DEF Abstract!Receive, Abstract!Everything, Held

\* The recording of an ACK is a Learn.
LEMMA AckIsLearn ==
    ASSUME TypeOK, SoundInv', Grows, NEW e \in Endpoint, ReadAck(e)
    PROVE  Abstract!Learn(Self(e), Peer(e))
<1> DEFINE n == Self(e)
           r == Peer(e)
<1>1. n \in Node /\ r \in Node /\ n # r
    BY EndpointFacts
<1>2. PICK K : RecordPeerVector(n, r, Head(chan[e]).vec, K)
    BY DEF ReadAck
<1>3. progress' = [progress EXCEPT ![n][r] = progress'[n][r]]
    BY <1>1, <1>2 DEF RecordPeerVector, TypeOK
<1>4. UNCHANGED <<seq, applied>>
    BY DEF ReadAck
<1>5. Abstract!Advances(progress[n][r], progress'[n][r])
    BY <1>1 DEF Grows, Abstract!Advances
<1>6. Abstract!Covers(applied[r], progress'[n][r])
    <2> SUFFICES ASSUME NEW o \in Node, NEW s \in 1 .. progress'[n][r][o]
                 PROVE  <<o, s>> \in applied[r]
        BY DEF Abstract!Covers
    <2>1. progress'[n][r][o] <= VectorOf(r)'[o]
        BY <1>1 DEF SoundInv, AckSound
    <2>2. progress'[n][r][o] \in Int /\ VectorOf(r)'[o] \in Int
        <3>1. progress'[n][r][o] \in Cursor
            BY <1>1 DEF SoundInv, TypeOK
        <3>2. VectorOf(r)'[o] \in 0 .. MaxSeq
            BY <1>1, VectorGrows DEF SoundInv
        <3> QED
            BY <3>1, <3>2, MaxSeqAssumption DEF Cursor, NoRow
    <2>3. s \in 1 .. VectorOf(r)'[o]
        BY <2>1, <2>2
    <2> QED
        BY <1>1, <1>4, <2>3 DEF SoundInv, CursorSound
<1> QED
    BY <1>1, <1>3, <1>4, <1>5, <1>6 DEF Abstract!Learn

LEMMA RefinementStep ==
    ASSUME SoundInv, [Next]_vars
    PROVE  [Abstract!Next]_(Abstract!vars)
<1>1. TypeOK /\ SoundInv' /\ Grows
    BY SoundStep, StepGrows DEF SoundInv
<1>2. ASSUME NEW n \in Writers, LocalWrite(n) PROVE Abstract!Next
    BY <1>2, LoopAssumption DEF LocalWrite, Abstract!Next, Abstract!Write
<1>3. ASSUME NEW e \in Endpoint, CommitBatch(e) PROVE Abstract!Next
    <2>1. /\ ep[e].pending \in SUBSET Event /\ Self(e) \in Node
          /\ ep[e].pending \subseteq Held
        BY EndpointFacts DEF SoundInv, TypeOK, EndpointState, EpsSound, EpSound
    <2> QED
        BY <1>1, <1>3, <2>1, ApplyIsReceive DEF CommitBatch, Abstract!Next
<1>4. ASSUME NEW e \in Endpoint, ReadAck(e) PROVE Abstract!Next
    BY <1>1, <1>4, AckIsLearn, EndpointFacts DEF Abstract!Next
<1>5. ASSUME NEW c \in casts, CommitBroadcast(c) PROVE Abstract!Next
    <2>1. c.events \in SUBSET Event /\ c.to \in Node /\ c.events \subseteq Held
        BY DEF SoundInv, TypeOK, Cast, CastsSound
    <2> QED
        BY <1>1, <1>5, <2>1, ApplyIsReceive DEF CommitBroadcast, Abstract!Next
<1>6. CASE UNCHANGED <<seq, applied, progress>>
    BY <1>6 DEF Abstract!vars
<1>7. ASSUME NEW e \in Endpoint, SessionStep(e), ~CommitBatch(e), ~ReadAck(e)
      PROVE  UNCHANGED <<seq, applied, progress>>
    BY <1>7 DEF SessionStep, AnswerHello, ReadHello, SendNeed, ReadNeed, CheckRange,
                SendRange, EndSend, ReadBatch, SendAck, ReadEnd, dbVars
<1>8. ASSUME NEW l \in Link, Open(l) PROVE UNCHANGED <<seq, applied, progress>>
    BY <1>8 DEF Open, dbVars
<1>9. CASE BroadcastStep
    <2>1. ASSUME NEW n \in Broadcasters, CollectAnchor(n) \/ Collect(n)
          PROVE  UNCHANGED <<seq, applied, progress>>
        BY <2>1 DEF CollectAnchor, Collect, dbVars
    <2>2. ASSUME NEW c \in casts, HandleBroadcast(c)
          PROVE  UNCHANGED <<seq, applied, progress>>
        BY <2>2 DEF HandleBroadcast, dbVars
    <2> QED
        BY <1>5, <1>6, <1>9, <2>1, <2>2 DEF BroadcastStep
<1>10. ASSUME NEW n \in Collectors, GCStep(n) PROVE UNCHANGED <<seq, applied, progress>>
    BY <1>10 DEF GCStep, GCBegin, GCDelete, GCMark, dbVars
<1>11. CASE FaultStep
    BY <1>6, <1>11 DEF FaultStep, Fail, LoseBroadcast, Crash, dbVars
<1>12. CASE UNCHANGED vars
    BY <1>6, <1>12 DEF vars
<1> QED
    BY <1>2, <1>3, <1>4, <1>6, <1>7, <1>8, <1>9, <1>10, <1>11, <1>12 DEF Next

\* The mesh implements the replicated log: every step is a write, a receipt
\* of events someone holds, or learning of a peer's committed progress, or
\* changes none of these (LocalWrite, ApplyBatch, RecordPeerVector).
THEOREM Refinement == Spec => ImplementsLog
<1>1. Init => Abstract!Init
    BY DEF Init, Abstract!Init, Abstract!Unknown, NoRow
<1>2. SoundInv /\ [Next]_vars => [Abstract!Next]_(Abstract!vars)
    BY RefinementStep
<1> QED
    BY <1>1, <1>2, Soundness, PTL DEF Spec, ImplementsLog, Abstract!Spec
=============================================================================
