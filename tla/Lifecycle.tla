----------------------------- MODULE Lifecycle -----------------------------
(***************************************************************************)
(* One process: Start and Close of the replicator, the loops they start    *)
(* and stop, the listener with its accepted connections (quic.Server) and  *)
(* the cache of outgoing connections (quic.Transport), which the loops,    *)
(* their workers and the application share.                                *)
(*                                                                         *)
(* There is one peer address, so the map of the cache is one slot or none. *)
(* A step under Replicator.mu or Transport.mu is atomic; the mutex of a    *)
(* slot is held across a dial and is part of the state.                    *)
(***************************************************************************)
EXTENDS Naturals, Sequences, FiniteSets

CONSTANTS
    Closer,     \* the callers of Close
    Worker,     \* the goroutines that syncAll starts
    App,        \* the application's own calls (Connect, BeginSeed)
    Inbound,    \* the connections that peers open to this node
    MaxCalls,   \* bound: calls into the transport
    MaxDials,   \* bound: dials that succeed
    MaxEvents   \* bound: peers that connect, calls of RemovePeer, and
                \* connections that die by themselves, all together

ASSUME LifecycleAssumption ==
    {MaxCalls, MaxDials, MaxEvents} \subseteq Nat

VARIABLES
    started, closed,  \* the flags of the Replicator
    ctx,              \* its context, a child of Start's: "none", "live", "done"
    start,            \* where Start is
    server,           \* the field r.server is set
    transport,        \* the field r.transport is set
    listener,         \* "none", "open", "closed"
    running,          \* the loops counted in r.wg
    shut,             \* shut[a]: where the shutdown of a is
    orderly,          \* history: Start had returned when Close was called
    slot,             \* the slot in the map of the cache, None if there is none
    slots,            \* slots[k]: all slots made so far
    live,             \* the outgoing connections that are up
    dials,            \* the number of dials that succeeded
    appConns,         \* history: the connections that application calls dialled
    call,             \* call[u]: the call of u into the transport
    drop,             \* the slot RemovePeer is about to close
    dropped,          \* history: the slots RemovePeer has taken out
    inb,              \* inb[c]: an accepted connection
    calls, events

flagVars == <<started, closed, ctx, start, server, transport, listener, orderly>>
connVars == <<slot, slots, live, dials, appConns, drop, dropped>>
vars == <<flagVars, running, shut, connVars, call, inb, calls, events>>

None == 0
Free == "free"
User == Worker \cup App \cup {"heartbeat"}
Shutter == Closer \cup {"start"}

ASSUME NamesAssumption == Free \notin User /\ "start" \notin Closer

NoCall == [pc |-> "idle", slot |-> None, retried |-> FALSE]
NoShut == [pc |-> "idle", server |-> FALSE, transport |-> FALSE, slot |-> None]
\* An inbound connection: up, tracked while its three readers run, with a
\* stream handler at work (onUni, onBi).
Away == [seen |-> FALSE, open |-> FALSE, tracked |-> FALSE, stream |-> FALSE]

Init ==
    /\ started = FALSE /\ closed = FALSE
    /\ ctx = "none"
    /\ start = "new"
    /\ server = FALSE /\ transport = FALSE
    /\ listener = "none"
    /\ running = {}
    /\ shut = [a \in Shutter |-> NoShut]
    /\ orderly = FALSE
    /\ slot = None /\ slots = <<>>
    /\ live = {} /\ dials = 0 /\ appConns = {}
    /\ call = [u \in User |-> NoCall]
    /\ drop = None /\ dropped = {}
    /\ inb = [c \in Inbound |-> Away]
    /\ calls = 0 /\ events = 0

-----------------------------------------------------------------------------
(* Start.  The lock is released after the flags are set: everything below  *)
(* overlaps with Close.                                                    *)

StartLock ==
    /\ start = "new"
    /\ IF closed THEN start' = "returned" /\ UNCHANGED <<started, ctx>>
       ELSE start' = "init" /\ started' = TRUE /\ ctx' = "live"
    /\ UNCHANGED <<closed, server, transport, listener, orderly, running, shut,
                   connVars, call, inb, calls, events>>

\* EnsureLocalState, LoadEpoch, EnsureSelf; then the transport is made.
StartInit ==
    /\ start = "init" /\ ctx = "live"
    /\ start' = "listen" /\ transport' = TRUE
    /\ UNCHANGED <<started, closed, ctx, server, listener, orderly, running, shut,
                   connVars, call, inb, calls, events>>

\* The field r.server is assigned without the lock.
StartListen ==
    /\ start = "listen"
    /\ listener' = "open" /\ server' = TRUE
    /\ start' = "spawn"
    /\ UNCHANGED <<started, closed, ctx, transport, orderly, running, shut,
                   connVars, call, inb, calls, events>>

\* The loops are counted in r.wg and started, Serve first.
StartServe ==
    /\ start = "spawn"
    /\ running' = running \cup {"serve"}
    /\ start' = "loops"
    /\ UNCHANGED <<started, closed, ctx, server, transport, listener, orderly, shut,
                   connVars, call, inb, calls, events>>

StartLoops ==
    /\ start = "loops"
    /\ running' = running \cup {"sync", "heartbeat"}
    /\ start' = "returned"
    /\ UNCHANGED <<started, closed, ctx, server, transport, listener, orderly, shut,
                   connVars, call, inb, calls, events>>

\* A statement or Listen fails, or the context is done: Start shuts down what
\* there is.  started stays set, so Start cannot be called again.
StartFail ==
    /\ start \in {"init", "listen"}
    /\ start' = "failed"
    /\ shut' = [shut EXCEPT !["start"] = [NoShut EXCEPT !.pc = "read"]]
    /\ UNCHANGED <<started, closed, ctx, server, transport, listener, orderly,
                   running, connVars, call, inb, calls, events>>

-----------------------------------------------------------------------------
(* Close and shutdown.                                                     *)

\* A second Close returns at once.
Close(a) ==
    /\ a \in Closer /\ shut[a].pc = "idle"
    /\ closed' = TRUE
    /\ orderly' = IF closed THEN orderly ELSE start = "returned"
    /\ shut' = [shut EXCEPT ![a].pc = IF closed THEN "second" ELSE "read"]
    /\ UNCHANGED <<started, ctx, start, server, transport, listener, running,
                   connVars, call, inb, calls, events>>

\* The fields are copied under the lock.
ReadFields(a) ==
    /\ shut[a].pc = "read"
    /\ shut' = [shut EXCEPT ![a] = [pc |-> "cancel", server |-> server,
                                    transport |-> transport, slot |-> None]]
    /\ UNCHANGED <<flagVars, running, connVars, call, inb, calls, events>>

\* The context is cancelled and the listener closed.
Cancel(a) ==
    /\ shut[a].pc = "cancel"
    /\ ctx' = IF ctx = "live" THEN "done" ELSE ctx
    /\ listener' = IF shut[a].server THEN "closed" ELSE listener
    /\ shut' = [shut EXCEPT ![a].pc = "wait"]
    /\ UNCHANGED <<started, closed, start, server, transport, orderly, running,
                   connVars, call, inb, calls, events>>

\* The context given to Start ends.
ParentEnds ==
    /\ ctx = "live" /\ ctx' = "done"
    /\ UNCHANGED <<started, closed, start, server, transport, listener, orderly,
                   running, shut, connVars, call, inb, calls, events>>

\* The counter of r.wg is zero.
MutantAwait(a) ==            \* does not wait
    /\ shut[a].pc = "wait"
    /\ shut' = [shut EXCEPT ![a].pc = IF shut[a].transport THEN "transport" ELSE "returned"]
    /\ UNCHANGED <<flagVars, running, connVars, call, inb, calls, events>>
Await(a) ==
    /\ shut[a].pc = "wait" /\ running = {}
    /\ shut' = [shut EXCEPT ![a].pc = IF shut[a].transport THEN "transport" ELSE "returned"]
    /\ UNCHANGED <<flagVars, running, connVars, call, inb, calls, events>>

\* Transport.Close empties the map, then closes the slots it held.
ForgetSlots(a) ==
    /\ shut[a].pc = "transport"
    /\ shut' = [shut EXCEPT ![a].slot = slot,
                            ![a].pc = IF slot = None THEN "returned" ELSE "slots"]
    /\ slot' = None
    /\ UNCHANGED <<flagVars, running, slots, live, dials, appConns, drop, dropped,
                   call, inb, calls, events>>

\* The connection in slot k is closed under the mutex of the slot.
ClosesSlot(k) ==
    /\ slots[k].lock = Free
    /\ live' = live \ {slots[k].conn}
    /\ slots' = [slots EXCEPT ![k].conn = None]

CloseSlots(a) ==
    /\ shut[a].pc = "slots" /\ ClosesSlot(shut[a].slot)
    /\ shut' = [shut EXCEPT ![a].pc = "returned"]
    /\ UNCHANGED <<flagVars, running, slot, dials, appConns, drop, dropped, call, inb,
                   calls, events>>

-----------------------------------------------------------------------------
(* The loops return when they find the context done.  syncAll returns on a *)
(* done context without waiting for the workers it has started; the        *)
(* heartbeat and broadcast loops call the transport themselves.            *)

LoopReturns(l) ==
    /\ running' = running \ {l}
    /\ UNCHANGED <<flagVars, shut, connVars, call, calls, events>>

SyncReturns ==
    "sync" \in running /\ ctx = "done" /\ LoopReturns("sync") /\ UNCHANGED inb

HeartbeatReturns ==
    /\ "heartbeat" \in running /\ ctx = "done" /\ call["heartbeat"].pc = "idle"
    /\ LoopReturns("heartbeat") /\ UNCHANGED inb

\* A goroutine of Serve closes the listener when the context is done; it
\* runs as soon as Serve has been started, and nobody waits for it.
MutantServeCloses ==          \* leaves that to Close
    FALSE /\ UNCHANGED vars
ServeCloses ==
    /\ listener = "open" /\ start # "spawn" /\ ctx = "done"
    /\ listener' = "closed"
    /\ UNCHANGED <<started, closed, ctx, start, server, transport, orderly, running,
                   shut, connVars, call, inb, calls, events>>

Event == events < MaxEvents /\ events' = events + 1

Inbounds(c, state) ==
    /\ inb' = [inb EXCEPT ![c] = state]
    /\ UNCHANGED <<flagVars, running, shut, connVars, call, calls>>

\* The accept loop tracks a connection and starts its three readers.
Accept(c) ==
    /\ "serve" \in running /\ listener = "open" /\ ~inb[c].seen
    /\ Event /\ Inbounds(c, [seen |-> TRUE, open |-> TRUE, tracked |-> TRUE, stream |-> FALSE])

\* A reader accepts a stream, also while the context is ending.
StreamOpens(c) ==
    /\ inb[c].open /\ inb[c].tracked /\ ~inb[c].stream
    /\ Inbounds(c, [inb[c] EXCEPT !.stream = TRUE]) /\ UNCHANGED events

\* The session ends, or fails with its connection; a done context does not
\* interrupt a read.
StreamEnds(c) ==
    inb[c].stream /\ Inbounds(c, [inb[c] EXCEPT !.stream = FALSE]) /\ UNCHANGED events

\* The peer goes away.
PeerCloses(c) ==
    inb[c].open /\ Inbounds(c, [inb[c] EXCEPT !.open = FALSE]) /\ UNCHANGED events

\* The readers return, on a closed connection or a done context, and the
\* connection is untracked; its stream handlers may still be at work.
ReadersReturn(c) ==
    /\ inb[c].tracked /\ (~inb[c].open \/ ctx = "done")
    /\ Inbounds(c, [inb[c] EXCEPT !.tracked = FALSE]) /\ UNCHANGED events

\* drain: after all handlers, or after five seconds, the connections that are
\* still tracked are closed, and Serve returns.
MutantDrained(c) == inb[c]     \* closes nothing
Drained(c) == IF inb[c].tracked THEN [inb[c] EXCEPT !.open = FALSE] ELSE inb[c]
ServeReturns ==
    /\ "serve" \in running /\ ctx = "done"
    /\ inb' = [c \in Inbound |-> Drained(c)]
    /\ LoopReturns("serve")

-----------------------------------------------------------------------------
(* Calls into the transport: SendDatagram, SendUni, OpenBI.                *)

\* The caller's context has ended.  Workers and loops use the replicator's.
Cancelled(u) == u \notin App /\ ctx = "done"

\* A tick of a loop, a worker of syncAll, or the application after Start.
MayCall(u) ==
    IF u \in App THEN start = "returned" /\ started /\ ~closed
    ELSE IF u \in Worker THEN "sync" \in running ELSE u \in running

Call(u, state) == call' = [call EXCEPT ![u] = state]

BeginCall(u) ==
    /\ call[u].pc = "idle" /\ MayCall(u) /\ calls < MaxCalls
    /\ Call(u, [NoCall EXCEPT !.pc = "connect"])
    /\ calls' = calls + 1
    /\ UNCHANGED <<flagVars, running, shut, connVars, inb, events>>

\* entry: the slot of the address, made when there is none.
GetSlot(u, from, to) ==
    /\ call[u].pc = from
    /\ IF slot # None THEN UNCHANGED <<slot, slots>> /\ Call(u, [call[u] EXCEPT !.pc = to, !.slot = slot])
       ELSE /\ slots' = Append(slots, [conn |-> None, lock |-> Free])
            /\ slot' = Len(slots) + 1
            /\ Call(u, [call[u] EXCEPT !.pc = to, !.slot = Len(slots) + 1])
    /\ UNCHANGED <<flagVars, running, shut, live, dials, appConns, drop, dropped, inb,
                   calls, events>>

Connect(u) == GetSlot(u, "connect", "lock")
Reconnect(u) == GetSlot(u, "reconnect", "relock")

\* Under the mutex of the slot a healthy connection is reused, else a dial
\* begins, with the mutex held.
MutantLockSlot(u) ==           \* the mutex is not held across the dial
    LET k == call[u].slot
    IN  /\ call[u].pc = "lock" /\ slots[k].lock = Free
        /\ IF slots[k].conn \in live
           THEN UNCHANGED slots /\ Call(u, [call[u] EXCEPT !.pc = "use", !.slot = None])
           ELSE /\ UNCHANGED slots
                /\ Call(u, [call[u] EXCEPT !.pc = IF Cancelled(u) THEN "doomed" ELSE "dial"])
        /\ UNCHANGED <<flagVars, running, shut, slot, live, dials, appConns, drop, dropped,
                       inb, calls, events>>
LockSlot(u) ==
    LET k == call[u].slot
    IN  /\ call[u].pc = "lock" /\ slots[k].lock = Free
        /\ IF slots[k].conn \in live
           THEN UNCHANGED slots /\ Call(u, [call[u] EXCEPT !.pc = "use", !.slot = None])
           ELSE /\ slots' = [slots EXCEPT ![k] = [conn |-> None, lock |-> u]]
                /\ Call(u, [call[u] EXCEPT !.pc = IF Cancelled(u) THEN "doomed" ELSE "dial"])
        /\ UNCHANGED <<flagVars, running, shut, slot, live, dials, appConns, drop, dropped,
                       inb, calls, events>>

\* A dial that begins under a cancelled context does not succeed; one that is
\* cancelled on its way may still win the race.
DialOk(u) ==
    LET c == dials + 1
    IN  /\ call[u].pc = "dial" /\ c <= MaxDials
        /\ dials' = c
        /\ appConns' = appConns \cup {d \in {c} : u \in App}
        /\ live' = live \cup {c}
        /\ slots' = [slots EXCEPT ![call[u].slot] = [conn |-> c, lock |-> Free]]
        /\ Call(u, [call[u] EXCEPT !.pc = "use", !.slot = None])
        /\ UNCHANGED <<flagVars, running, shut, slot, drop, dropped, inb, calls, events>>

MutantDialFail(u) ==           \* the mutex is not released
    /\ call[u].pc \in {"dial", "doomed"}
    /\ Call(u, NoCall)
    /\ UNCHANGED <<flagVars, running, shut, connVars, inb, calls, events>>
DialFail(u) ==
    /\ call[u].pc \in {"dial", "doomed"}
    /\ slots' = [slots EXCEPT ![call[u].slot].lock = Free]
    /\ Call(u, NoCall)
    /\ UNCHANGED <<flagVars, running, shut, slot, live, dials, appConns, drop, dropped,
                   inb, calls, events>>

\* The datagram, the frame or the session on the stream is over.
UseOk(u) ==
    /\ call[u].pc = "use"
    /\ Call(u, NoCall)
    /\ UNCHANGED <<flagVars, running, shut, connVars, inb, calls, events>>

\* The stream cannot be opened, because the connection is gone or because the
\* caller's context ended first: one reconnect, then the call fails.
UseFail(u) ==
    /\ call[u].pc = "use"
    /\ Call(u, IF call[u].retried THEN NoCall
               ELSE [call[u] EXCEPT !.pc = "reconnect", !.retried = TRUE])
    /\ UNCHANGED <<flagVars, running, shut, connVars, inb, calls, events>>

\* reconnect closes whatever connection the slot has by now.
CloseCached(u) ==
    /\ call[u].pc = "relock" /\ ClosesSlot(call[u].slot)
    /\ Call(u, [call[u] EXCEPT !.pc = "connect", !.slot = None])
    /\ UNCHANGED <<flagVars, running, shut, slot, dials, appConns, drop, dropped, inb,
                   calls, events>>

\* RemovePeer and Transport.Drop: out of the map first, then closed.
Drop ==
    /\ Event /\ drop = None /\ slot # None
    /\ drop' = slot /\ dropped' = dropped \cup {slot} /\ slot' = None
    /\ UNCHANGED <<flagVars, running, shut, slots, live, dials, appConns, call, inb, calls>>

DropClose ==
    /\ drop # None /\ ClosesSlot(drop)
    /\ drop' = None
    /\ UNCHANGED <<flagVars, running, shut, slot, dials, appConns, dropped, call, inb,
                   calls, events>>

\* A connection dies: the peer restarts, the path is lost.
ConnDies(c) ==
    /\ Event /\ c \in live /\ live' = live \ {c}
    /\ UNCHANGED <<flagVars, running, shut, slot, slots, dials, appConns, drop, dropped,
                   call, inb, calls>>

-----------------------------------------------------------------------------
StartStep ==
    StartLock \/ StartInit \/ StartListen \/ StartServe \/ StartLoops \/ StartFail
Shutdown(a) ==
    \/ ReadFields(a) \/ Cancel(a) \/ Await(a)
    \/ ForgetSlots(a) \/ CloseSlots(a)
LoopStep == SyncReturns \/ HeartbeatReturns \/ ServeCloses \/ ServeReturns
            \/ \E c \in Inbound : ReadersReturn(c)
CallStep(u) ==
    \/ Connect(u) \/ LockSlot(u) \/ DialOk(u) \/ DialFail(u) \/ UseOk(u)
    \/ UseFail(u) \/ Reconnect(u) \/ CloseCached(u)

Next ==
    \/ StartStep \/ ParentEnds \/ LoopStep \/ Drop \/ DropClose
    \/ \E a \in Shutter : Close(a) \/ Shutdown(a)
    \/ \E c \in Inbound : Accept(c) \/ PeerCloses(c) \/ StreamOpens(c) \/ StreamEnds(c)
    \/ \E u \in User : BeginCall(u) \/ CallStep(u)
    \/ \E c \in 1 .. MaxDials : ConnDies(c)

Spec == Init /\ [][Next]_vars

\* Some goroutine that can go on does: dials have a timeout, sessions end, the
\* mutexes are fair.  As the bounds leave each caller finitely many calls, that
\* is all the fairness it takes.
Progress ==
    \/ (start # "new" /\ StartStep) \/ LoopStep \/ DropClose
    \/ \E a \in Shutter : Shutdown(a)
    \/ \E u \in User : CallStep(u)

FairSpec == Spec /\ WF_vars(Progress)

-----------------------------------------------------------------------------
(* Properties.                                                             *)

\* Every field, local and slot keeps to its shape; n slots have been made.
ShutPc == {"idle", "second", "read", "cancel", "wait", "transport", "slots", "returned"}
ShutState(n) == [pc : ShutPc, server : BOOLEAN, transport : BOOLEAN, slot : 0 .. n]
CallPc == {"idle", "connect", "reconnect", "lock", "relock", "dial", "doomed", "use"}
CallState(n) == [pc : CallPc, slot : 0 .. n, retried : BOOLEAN]
SlotState == [conn : 0 .. MaxDials, lock : User \cup {Free}]
InboundState == [seen : BOOLEAN, open : BOOLEAN, tracked : BOOLEAN, stream : BOOLEAN]

TypeOK ==
    /\ server \in BOOLEAN /\ transport \in BOOLEAN
    /\ ctx \in {"none", "live", "done"}
    /\ start \in {"new", "init", "listen", "spawn", "loops", "returned", "failed"}
    /\ listener \in {"none", "open", "closed"}
    /\ running \subseteq {"serve", "sync", "heartbeat"}
    /\ shut \in [Shutter -> ShutState(Len(slots))]
    /\ slots \in Seq(SlotState)
    /\ slot \in 0 .. Len(slots)
    /\ dials \in 0 .. MaxDials
    /\ live \subseteq 1 .. dials
    /\ call \in [User -> CallState(Len(slots))]
    /\ drop \in 0 .. Len(slots)
    /\ dropped \subseteq 1 .. Len(slots)
    /\ inb \in [Inbound -> InboundState]

Quiet == running = {} /\ listener # "open"

\* "Close stops all loops and the listener": when the Close that does the work
\* returns, and Start had returned before it was called, no loop is left, the
\* listener is closed and so is every outgoing connection, although workers
\* that nobody waits for may still be in the transport.  Excepted are the
\* connections of the application's own calls and those that were dialled into
\* a slot RemovePeer had just taken out of the map (shutdown, Transport.Close).
Orphan(c) == \E k \in dropped : slots[k].conn = c
CloseComplete ==
    \A a \in Closer :
        shut[a].pc = "returned" /\ orderly =>
            Quiet /\ \A c \in live : c \in appConns \/ Orphan(c)

\* "ctx is the parent lifetime; Close terminates everything regardless": also
\* a Close that overlaps with Start, whose listener and loops it does not see
\* (Serve and the loops end by the context).
EventuallyQuiet == <>[](closed \/ ctx = "done" => Quiet)

\* Close returns, and so does a failing Start (wg.Wait, the slot mutexes).
CloseReturns ==
    []<>(\A a \in Shutter : shut[a].pc \in {"idle", "second", "returned"})

\* "one cached long-lived connection per peer address": a connection that is up
\* is the one of some slot, whatever dials, reconnects and drops overlap; none
\* is replaced without being closed (connect, reconnect).
NoneLost == \A c \in live : \E k \in DOMAIN slots : slots[k].conn = c

\* What they rest on.  A slot that somebody is about to lock or close has been
\* made, and a dial owns its slot, which is empty until the dial ends.
DialInv ==
    /\ \A a \in Shutter : shut[a].pc = "slots" => shut[a].slot # None
    /\ \A u \in User : call[u].pc \in {"lock", "relock", "dial", "doomed"} => call[u].slot # None
    /\ \A u \in User : call[u].pc \in {"dial", "doomed"} =>
          slots[call[u].slot] = [conn |-> None, lock |-> u]

\* Without the lock, Start has still set the fields before it returns nil.
StartInv ==
    /\ started => ctx # "none"
    /\ start \in {"init", "listen", "spawn", "loops"} => started
    /\ start \in {"listen", "spawn", "loops"} => transport
    /\ start \in {"spawn", "loops"} => server
    /\ start = "returned" => closed \/ (started /\ server /\ transport)
    /\ shut["start"].pc # "idle" => start = "failed"
    /\ orderly => closed /\ started /\ start = "returned" /\ server /\ transport

\* One Close does the work.
Past(a, stages) == shut[a].pc \in stages
CloserInv ==
    /\ \A a \in Closer : shut[a].pc # "idle" => closed
    /\ \A a, b \in Closer : ~Past(a, {"idle", "second"}) /\ ~Past(b, {"idle", "second"}) => a = b

\* Until the cache is emptied, a slot is in the map or was taken out of it.
CacheInv ==
    (\A a \in Shutter : ~Past(a, {"slots", "returned"})) =>
        \A k \in DOMAIN slots : k = slot \/ k \in dropped

\* What an orderly Close has achieved by now.  While it closes the last slot,
\* that one may still be dialled and hold a connection.
Closing(a, k) == shut[a].pc = "slots" /\ shut[a].slot = k
Excused(a, c) ==
    \/ c \in appConns \/ Orphan(c)
    \/ \E k \in DOMAIN slots : Closing(a, k) /\ slots[k].conn = c
Orderly(a) ==
    /\ Past(a, {"cancel", "wait", "transport", "slots", "returned"}) =>
          shut[a].server /\ shut[a].transport
    /\ Past(a, {"wait", "transport", "slots", "returned"}) => ctx = "done" /\ listener = "closed"
    /\ Past(a, {"transport", "slots", "returned"}) => running = {}
    /\ Past(a, {"slots", "returned"}) =>
          /\ \A c \in live : Excused(a, c)
          /\ \A u \in User \ App : call[u].pc = "dial" =>
                call[u].slot \in dropped \/ Closing(a, call[u].slot)
OrderlyInv == orderly => \A a \in Closer : Orderly(a)

\* No connection is both up and read from, unless Serve will drain it.
InboundInv == "serve" \notin running => \A c \in Inbound : ~(inb[c].open /\ inb[c].tracked)

LifeInv ==
    /\ TypeOK /\ DialInv /\ NoneLost /\ StartInv /\ CloserInv /\ CacheInv
    /\ OrderlyInv /\ InboundInv

\* "let handlers drain briefly, then close": once Serve has returned, no peer
\* can begin a session here, even if the five seconds ended first (drain,
\* untrack).  A session that had begun may go on: its connection is no longer
\* tracked when drain looks.
ServeReturned == ctx = "done" /\ "serve" \notin running /\ start \in {"returned", "failed"}
NoLateSession ==
    [][ServeReturned => \A c \in Inbound : inb'[c].stream => inb[c].stream]_vars
=============================================================================
