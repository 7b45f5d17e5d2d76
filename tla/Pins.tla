-------------------------------- MODULE Pins --------------------------------
(***************************************************************************)
(* Retention pins: the source side of seeding (replication.serveSeed,      *)
(* seed.Source.Prepare and Stream) against history collection on the same  *)
(* node (gc.Watermarks, gc.Run).                                           *)
(*                                                                         *)
(* The source collects as an ACTIVE node.  No node ever lists another one  *)
(* as ACTIVE (Membership!ActivationLocal), so the progress rows of other   *)
(* receivers take no part in its watermarks and are left out; a source     *)
(* that is not ACTIVE itself collects nothing.                             *)
(*                                                                         *)
(* seedMu is not a variable: it is held by the session that is inside      *)
(* Prepare or by the collection cycle, and Unlocked says that there is     *)
(* neither.                                                                *)
(***************************************************************************)
EXTENDS Store

CONSTANTS
    Source,     \* the node that serves seeds
    Session,    \* the bootstrap sessions, each with a bootstrap_id of its own
    GCLimit,    \* rows deleted per origin and gc cycle
    MaxFaults   \* bound: late duplicates, failed statements and crashes

ASSUME PinsAssumption ==
    /\ Source \in Node
    /\ GCLimit \in Nat \ {0}
    /\ MaxFaults \in Nat

VARIABLES
    seq,        \* current_seq of the source
    log,        \* its replication_log rows
    cursor,     \* cursor[o]: its own replication_progress rows
    gcThrough,  \* gcThrough[o]: the persisted gc watermark
    deleted,    \* history: the events that collection has removed
    behind,     \* some member row carries an epoch above the local one
    sess,       \* sess[s]: the bootstrap rows of s and its handler
    gc,         \* the collection cycle in progress
    faults      \* the faults that have happened

dataVars == <<seq, log, cursor>>
vars == <<seq, log, cursor, gcThrough, deleted, behind, sess, gc, faults>>

-----------------------------------------------------------------------------
\* pc of the handler: "created" has inserted the bootstrap row, "pin" has its
\* snapshot and is writing the pins, "stream" has released seedMu, "done" has
\* returned, "left" was cut off before it could end its session.  vec is the
\* vector of the snapshot, with NoRow for an origin the source does not know;
\* pins are the replication_bootstrap_vector rows.
SessionState ==
    [pc : {"new", "created", "pin", "stream", "done", "left"},
     status : {"NONE", "STARTED", "COMPLETED", "ABORTED"},
     vec : [Node -> Cursor], pins : [Node -> Cursor]]

NoRows == [o \in Node |-> NoRow]
NewSession == [pc |-> "new", status |-> "NONE", vec |-> NoRows, pins |-> NoRows]

\* The cycle: "pins" has read the members and the progress rows, "seed" the
\* pins as well, "delete" walks the origins whose wm is not 0, and mark is the
\* origin whose rows are deleted and whose watermark is about to be stored.
CycleState ==
    [pc : {"idle", "pins", "seed", "delete"}, wm : Vector, pins : Vector,
     mark : SUBSET Node]

ZeroVector == [o \in Node |-> 0]
Idle == [pc |-> "idle", wm |-> ZeroVector, pins |-> ZeroVector, mark |-> {}]

Preparing(s) == sess[s].pc \in {"created", "pin"}
Unlocked == gc.pc = "idle" /\ \A s \in Session : ~Preparing(s)

Init ==
    /\ seq = 0
    /\ log = {}
    /\ cursor = NoRows
    /\ gcThrough = ZeroVector
    /\ deleted = {}
    /\ behind = FALSE
    /\ sess = [s \in Session |-> NewSession]
    /\ gc = Idle
    /\ faults = 0

Fault == faults < MaxFaults /\ faults' = faults + 1

-----------------------------------------------------------------------------
(* The history of the source grows underneath.                             *)

LocalWrite ==
    /\ seq < MaxSeq
    /\ seq' = seq + 1
    /\ log' = log \cup {<<Source, seq + 1>>}
    /\ UNCHANGED <<cursor, gcThrough, deleted, behind, sess, gc, faults>>

\* An apply transaction with one event, from a session or a broadcast, in any
\* order (Mesh has the batches).  An event of the source itself has come back.
ApplyEvent(o, k) ==
    LET rows == log \cup {<<o, k>>}
    IN  /\ o = Source => k <= seq
        /\ log' = rows
        /\ cursor' = [cursor EXCEPT ![o] =
               SetProgress(@, IF o = Source THEN seq
                              ELSE FirstGap(rows, o, ReadCursor(@)))]
        /\ UNCHANGED <<seq, gcThrough, deleted, behind, sess, gc>>

Receive(o, k) ==
    <<o, k>> \notin deleted /\ ApplyEvent(o, k) /\ UNCHANGED faults

\* A late duplicate of a collected event is inserted again.
Redeliver(o, k) ==
    <<o, k>> \in deleted /\ ApplyEvent(o, k) /\ Fault

\* Gossip files a member under a newer epoch, or the node adopts it.  Only the
\* start of a cycle looks at it, so changes during a cycle can wait for its end.
Gossip ==
    /\ gc.pc = "idle"
    /\ behind' = ~behind
    /\ UNCHANGED <<dataVars, gcThrough, deleted, sess, gc, faults>>

-----------------------------------------------------------------------------
(* serveSeed: Prepare under seedMu, then Stream.  A request that Prepare   *)
(* refuses (schema, identity, RETIRED, ACTIVE) changes nothing and is left *)
(* out.                                                                    *)

Handles(s, state) ==
    /\ sess' = [sess EXCEPT ![s] = state]
    /\ UNCHANGED <<dataVars, gcThrough, deleted, behind, gc, faults>>

MutantCreateBootstrap(s) ==             \* seedMu is not taken
    /\ sess[s].pc = "new"
    /\ Handles(s, [sess[s] EXCEPT !.pc = "created", !.status = "STARTED"])
CreateBootstrap(s) ==
    /\ sess[s].pc = "new" /\ Unlocked
    /\ Handles(s, [sess[s] EXCEPT !.pc = "created", !.status = "STARTED"])

\* The first SELECT of the REPEATABLE READ transaction fixes its view.
SnapshotVector == [cursor EXCEPT ![Source] = seq]

TakeSnapshot(s) ==
    /\ sess[s].pc = "created"
    /\ Handles(s, [sess[s] EXCEPT !.pc = "pin", !.vec = SnapshotVector])

\* One autocommitted row per origin of the vector; seedMu is released with the
\* last one, so no reader of the pins sees the order they are written in.
Unpinned(state) == {o \in Node : state.vec[o] # NoRow /\ state.pins[o] = NoRow}
Pinned(state) == [state EXCEPT !.pc = IF Unpinned(state) = {} THEN "stream" ELSE "pin"]

MutantSetBootstrapVector(s, o) ==        \* also keeps the last event seeded
    /\ sess[s].pc = "pin" /\ o \in Unpinned(sess[s])
    /\ Handles(s, Pinned([sess[s] EXCEPT !.pins[o] = Larger(sess[s].vec[o] - 1, 0)]))
SetBootstrapVector(s, o) ==
    /\ sess[s].pc = "pin" /\ o \in Unpinned(sess[s])
    /\ Handles(s, Pinned([sess[s] EXCEPT !.pins[o] = sess[s].vec[o]]))

\* FinishBootstrap.  The rows of a session that is not STARTED any more are
\* never read again and are forgotten here.
Finished(status) == [NewSession EXCEPT !.pc = "done", !.status = status]

\* The joining node has acknowledged the whole stream.
CompleteBootstrap(s) ==
    sess[s].pc = "stream" /\ Handles(s, Finished("COMPLETED"))

\* A statement, the stream or the joining node fails.
Running(s) == sess[s].pc \in {"created", "pin", "stream"}

MutantAbortBootstrap(s) ==              \* the row is left as it is
    Running(s) /\ Handles(s, [sess[s] EXCEPT !.pc = "done"])
AbortBootstrap(s) ==
    Running(s) /\ Handles(s, Finished("ABORTED"))

\* The same, and the UPDATE to ABORTED fails too: it runs under the context
\* that has just been cancelled, and its error is dropped.
LeaveBootstrap(s) ==
    /\ Running(s) /\ Fault
    /\ sess' = [sess EXCEPT ![s].pc = "left"]
    /\ UNCHANGED <<dataVars, gcThrough, deleted, behind, gc>>

-----------------------------------------------------------------------------
(* gc.Run under seedMu: Watermarks is a series of single SELECTs, and per  *)
(* origin the DELETE and the upsert of the watermark are two statements.   *)

Started == {s \in Session : sess[s].status = "STARTED"}

\* Only the source itself counts as a receiver, once it has progress rows.
OwnWatermarks ==
    [o \in Node |-> IF \E p \in Node : cursor[p] # NoRow
                    THEN ReadCursor(cursor[o]) ELSE 0]

\* MIN(seed_seq) over the STARTED sessions that have a row for the origin.
PinsOf(o) == {sess[s].pins[o] : s \in Started} \ {NoRow}
MutantActiveBootstrapPins ==             \* the newest session wins
    [o \in Node |-> IF PinsOf(o) = {} THEN 0 ELSE Max(PinsOf(o))]
ActiveBootstrapPins ==
    [o \in Node |-> IF PinsOf(o) = {} THEN 0 ELSE Min(PinsOf(o))]

Cycle(state) ==
    /\ gc' = state
    /\ UNCHANGED <<dataVars, gcThrough, deleted, behind, sess, faults>>

\* Under a stale epoch the cycle is skipped.
GCBegin ==
    /\ Unlocked /\ ~behind
    /\ Cycle([Idle EXCEPT !.pc = "pins", !.wm = OwnWatermarks])

GCReadPins ==
    gc.pc = "pins" /\ Cycle([gc EXCEPT !.pc = "seed", !.pins = ActiveBootstrapPins])

\* HasActiveBootstrap: any STARTED session is one more receiver, which holds
\* nothing of an origin that no session has a row for.
Smaller(a, b) == IF a <= b THEN a ELSE b
GCReadSeed ==
    /\ gc.pc = "seed"
    /\ Cycle([gc EXCEPT !.pc = "delete", !.pins = ZeroVector,
                  !.wm = IF Started = {} THEN @
                         ELSE [o \in Node |-> Smaller(@[o], gc.pins[o])]])

GCDelete(o) ==
    LET rows == DeletedRows(log, o, gc.wm[o], GCLimit)
        drained == Cardinality(rows) < GCLimit
    IN  /\ gc.pc = "delete" /\ gc.mark = {} /\ gc.wm[o] > 0
        /\ log' = log \ rows
        /\ deleted' = deleted \cup rows
        /\ gc' = IF drained THEN [gc EXCEPT !.mark = {o}] ELSE [gc EXCEPT !.wm[o] = 0]
        /\ UNCHANGED <<seq, cursor, gcThrough, behind, sess, faults>>

GCMark(o) ==
    /\ gc.pc = "delete" /\ gc.mark = {o}
    /\ gcThrough' = [gcThrough EXCEPT ![o] = gc.wm[o]]
    /\ gc' = [gc EXCEPT !.wm[o] = 0, !.mark = {}]
    /\ UNCHANGED <<dataVars, deleted, behind, sess, faults>>

GCEnd == gc.pc = "delete" /\ gc.wm = ZeroVector /\ Cycle(Idle)

\* A statement of the cycle fails: gc.Run returns.
GCFail ==
    /\ gc.pc # "idle" /\ Fault
    /\ gc' = Idle
    /\ UNCHANGED <<dataVars, gcThrough, deleted, behind, sess>>

\* The process dies and starts again; nothing revisits the bootstrap rows.
Crash ==
    /\ Fault
    /\ gc' = Idle
    /\ sess' = [s \in Session |->
                   IF Running(s) THEN [sess[s] EXCEPT !.pc = "left"] ELSE sess[s]]
    /\ UNCHANGED <<dataVars, gcThrough, deleted, behind>>

-----------------------------------------------------------------------------
Write == LocalWrite \/ \E o \in Node, k \in Seqs : Receive(o, k) \/ Redeliver(o, k)

Serve(s) ==
    \/ CreateBootstrap(s) \/ TakeSnapshot(s)
    \/ \E o \in Node : SetBootstrapVector(s, o)
    \/ CompleteBootstrap(s) \/ AbortBootstrap(s)

Collect ==
    \/ GCBegin \/ GCReadPins \/ GCReadSeed
    \/ \E o \in Node : GCDelete(o) \/ GCMark(o)
    \/ GCEnd

Next ==
    \/ Write \/ Gossip
    \/ \E s \in Session : Serve(s) \/ LeaveBootstrap(s)
    \/ Collect \/ GCFail \/ Crash

Spec == Init /\ [][Next]_vars

\* A handler that has begun runs on, and its stream ends, by an ACK or by an
\* error; the gc loop keeps ticking.
Fairness ==
    /\ \A s \in Session : WF_vars(sess[s].pc # "new" /\ Serve(s))
    /\ WF_vars(Collect)

FairSpec == Spec /\ Fairness

-----------------------------------------------------------------------------
(* Properties.                                                             *)

\* Every variable keeps to the shape of the table, row or local it models.
TypeOK ==
    /\ seq \in 0 .. MaxSeq
    /\ log \subseteq Event
    /\ cursor \in [Node -> Cursor]
    /\ gcThrough \in Vector
    /\ deleted \subseteq Event
    /\ behind \in BOOLEAN
    /\ sess \in [Session -> SessionState]
    /\ gc \in CycleState
    /\ faults \in 0 .. MaxFaults

\* "after the pins persist, GC and seeding proceed concurrently": as long as a
\* session is STARTED, nothing above a pin of it has been collected, whatever
\* else began, ended or crashed meanwhile (Prepare, ActiveBootstrapPins).
PinnedKept ==
    \A s \in Started, e \in deleted :
        sess[s].pins[e[1]] # NoRow => e[2] <= sess[s].vec[e[1]]

\* The watermark that FetchRange compares requests with never moves back,
\* although sessions come and go between the cycles that store it and it is
\* stored without a GREATEST (DeleteThrough, setGCWatermark).
MarkMonotone == [][\A o \in Node : gcThrough'[o] >= gcThrough[o]]_vars

\* What PinnedKept and MarkMonotone rest on, as seedMu keeps collection and
\* Prepare apart (serveSeed, gcLoop).  Within(o, k): of the history of o, only
\* what k covers has been deleted or marked as collected.
Within(o, k) == gcThrough[o] <= k /\ \A e \in deleted : e[1] = o => e[2] <= k

\* Only what the source itself has received is ever collected.
CollectedInv ==
    /\ cursor[Source] <= seq
    /\ \A o \in Node : Within(o, ReadCursor(cursor[o]))

\* A snapshot vector is protected while its pins are being written, and each
\* pin from then on until the session ends.
Protected(s) ==
    {o \in Node : \/ sess[s].pc = "pin"
                  \/ sess[s].status = "STARTED" /\ sess[s].pins[o] # NoRow}
SessionInv ==
    \A s \in Session :
        /\ sess[s].pc \in {"new", "created"} => sess[s].pins = NoRows
        /\ \A o \in Node : sess[s].pins[o] # NoRow => sess[s].pins[o] = sess[s].vec[o]
        /\ \A o \in Protected(s) : sess[s].vec[o] # NoRow => Within(o, sess[s].vec[o])

\* What a cycle has read stays good to its end: pins can only go away.
Bounds(vector) ==
    \A o \in Node, s \in Started : sess[s].pins[o] # NoRow => vector[o] <= sess[s].pins[o]
Reaches(vector) == \A o \in Node : vector[o] > 0 => gcThrough[o] <= vector[o]
CycleInv ==
    gc.pc # "idle" =>
        /\ \A s \in Session : ~Preparing(s)
        /\ \A o \in Node : gc.wm[o] <= ReadCursor(cursor[o])
        /\ Reaches(gc.wm)
        /\ gc.pc = "seed" => Bounds(gc.pins) /\ Reaches(gc.pins)
        /\ gc.pc = "delete" => Bounds(gc.wm)
        /\ gc.mark # {} => gc.pc = "delete" /\ \A o \in gc.mark : gc.wm[o] > 0

PinInv == TypeOK /\ CollectedInv /\ SessionInv /\ CycleInv

\* "seeding never stalls cleanup": once seeds end, everything the source has
\* received without a gap is collected, unless a handler was cut off
\* (FinishBootstrap on every way out of Stream).
Stuck == \E s \in Session : sess[s].pc = "left"
Reclaimed == \A e \in log : e[2] > ReadCursor(cursor[e[1]])
CleanupResumes == <>[]~behind => (<>Stuck \/ <>[]Reclaimed)
=============================================================================
