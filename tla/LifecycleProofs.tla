--------------------------- MODULE LifecycleProofs ---------------------------
(***************************************************************************)
(* Shutdown and the connection cache, for any number of callers of Close,  *)
(* workers, application calls, inbound connections and dials.              *)
(***************************************************************************)
EXTENDS Lifecycle, SequenceTheorems, TLAPS

USE LifecycleAssumption, NamesAssumption

-----------------------------------------------------------------------------
(* Types.                                                                  *)

LEMMA LifeTypeInit == Init => TypeOK
<1> SUFFICES ASSUME Init PROVE TypeOK
    OBVIOUS
<1>1. slots = <<>> /\ Len(slots) = 0 /\ slots \in Seq(SlotState)
    BY DEF Init
<1>2. NoShut \in ShutState(0) /\ NoCall \in CallState(0) /\ Away \in InboundState
    BY DEF NoShut, NoCall, Away, ShutState, CallState, InboundState, ShutPc, CallPc, None
<1>3. /\ shut \in [Shutter -> ShutState(Len(slots))] /\ call \in [User -> CallState(Len(slots))]
      /\ inb \in [Inbound -> InboundState]
    BY <1>1, <1>2 DEF Init
<1>4. dials \in 0 .. MaxDials /\ live \subseteq 1 .. dials
    BY DEF Init
<1>5. /\ slot \in 0 .. Len(slots) /\ drop \in 0 .. Len(slots)
      /\ dropped \subseteq 1 .. Len(slots)
    BY <1>1 DEF Init, None
<1>6. server \in BOOLEAN /\ transport \in BOOLEAN
    BY DEF Init
<1> QED
    BY <1>1, <1>3, <1>4, <1>5, <1>6 DEF Init, TypeOK

\* A slot that is made leaves what refers to the slots so far well-formed.
LEMMA MoreSlots ==
    ASSUME NEW n \in Nat
    PROVE  ShutState(n) \subseteq ShutState(n + 1) /\ CallState(n) \subseteq CallState(n + 1)
BY DEF ShutState, CallState

LEMMA ShutFields ==
    ASSUME NEW n \in Nat, NEW s \in ShutState(n), NEW pc \in ShutPc, NEW k \in 0 .. n
    PROVE  /\ [s EXCEPT !.pc = pc] \in ShutState(n)
           /\ [s EXCEPT !.pc = pc].pc = pc
           /\ [s EXCEPT !.pc = pc].server = s.server
           /\ [s EXCEPT !.pc = pc].transport = s.transport
           /\ [s EXCEPT !.pc = pc].slot = s.slot
           /\ [s EXCEPT !.slot = k, !.pc = pc] \in ShutState(n)
           /\ [s EXCEPT !.slot = k, !.pc = pc].pc = pc
           /\ [s EXCEPT !.slot = k, !.pc = pc].server = s.server
           /\ [s EXCEPT !.slot = k, !.pc = pc].transport = s.transport
           /\ [s EXCEPT !.slot = k, !.pc = pc].slot = k
BY DEF ShutState

LEMMA CallFields ==
    ASSUME NEW n \in Nat, NEW s \in CallState(n), NEW pc \in CallPc, NEW k \in 0 .. n
    PROVE  /\ [s EXCEPT !.pc = pc] \in CallState(n)
           /\ [s EXCEPT !.pc = pc].pc = pc
           /\ [s EXCEPT !.pc = pc].slot = s.slot
           /\ [s EXCEPT !.pc = pc, !.slot = k] \in CallState(n)
           /\ [s EXCEPT !.pc = pc, !.slot = k].pc = pc
           /\ [s EXCEPT !.pc = pc, !.slot = k].slot = k
           /\ [s EXCEPT !.pc = pc, !.retried = TRUE] \in CallState(n)
           /\ [s EXCEPT !.pc = pc, !.retried = TRUE].pc = pc
           /\ [s EXCEPT !.pc = pc, !.retried = TRUE].slot = s.slot
BY DEF CallState

LEMMA FreshFields ==
    ASSUME NEW n \in Nat
    PROVE  /\ NoShut \in ShutState(n) /\ NoShut.pc = "idle"
           /\ NoCall \in CallState(n) /\ NoCall.pc = "idle" /\ NoCall.slot = None
           /\ Away \in InboundState
BY DEF NoShut, NoCall, Away, ShutState, CallState, InboundState, ShutPc, CallPc, None

\* One shutdown, call or slot goes on, the others stay where they are.
LEMMA ShutMoves ==
    ASSUME TypeOK, NEW a \in Shutter, NEW s \in ShutState(Len(slots)),
           shut' = [shut EXCEPT ![a] = s]
    PROVE  /\ shut' \in [Shutter -> ShutState(Len(slots))]
           /\ shut'[a] = s
           /\ \A b \in Shutter : b # a => shut'[b] = shut[b]
BY DEF TypeOK

LEMMA CallMoves ==
    ASSUME TypeOK, NEW u \in User, NEW s \in CallState(Len(slots)),
           call' = [call EXCEPT ![u] = s]
    PROVE  /\ call' \in [User -> CallState(Len(slots))]
           /\ call'[u] = s
           /\ \A v \in User : v # u => call'[v] = call[v]
BY DEF TypeOK

LEMMA SlotMoves ==
    ASSUME TypeOK, NEW k \in 1 .. Len(slots), NEW s \in SlotState,
           slots' = [slots EXCEPT ![k] = s]
    PROVE  /\ slots' \in Seq(SlotState) /\ Len(slots') = Len(slots)
           /\ DOMAIN slots' = DOMAIN slots
           /\ slots'[k] = s
           /\ \A j \in DOMAIN slots : j # k => slots'[j] = slots[j]
BY DEF TypeOK

LEMMA StartTypes ==
    ASSUME TypeOK, StartStep \/ ParentEnds
    PROVE  TypeOK'
<1> USE DEF TypeOK, connVars
<1>1. CASE StartLock
    BY <1>1 DEF StartLock
<1>2. CASE StartInit
    BY <1>2 DEF StartInit
<1>3. CASE StartListen
    BY <1>3 DEF StartListen
<1>4. CASE StartServe
    BY <1>4 DEF StartServe
<1>5. CASE StartLoops
    BY <1>5 DEF StartLoops
<1>6. CASE StartFail
    <2>1. "start" \in Shutter /\ Len(slots) \in Nat
        BY DEF Shutter
    <2>2. [NoShut EXCEPT !.pc = "read"] \in ShutState(Len(slots))
        BY <2>1, FreshFields, ShutFields DEF ShutPc
    <2> QED
        BY <1>6, <2>1, <2>2, ShutMoves DEF StartFail
<1>7. CASE ParentEnds
    BY <1>7 DEF ParentEnds
<1> QED
    BY <1>1, <1>2, <1>3, <1>4, <1>5, <1>6, <1>7 DEF StartStep

\* What the steps of a shutdown do to its locals.
LEMMA ShutSteps ==
    ASSUME TypeOK, NEW a \in Shutter
    PROVE  /\ Close(a) => shut' = [shut EXCEPT ![a] =
                 [shut[a] EXCEPT !.pc = IF closed THEN "second" ELSE "read"]]
           /\ Cancel(a) => shut' = [shut EXCEPT ![a] = [shut[a] EXCEPT !.pc = "wait"]]
           /\ Await(a) => shut' = [shut EXCEPT ![a] = [shut[a] EXCEPT
                 !.pc = IF shut[a].transport THEN "transport" ELSE "returned"]]
           /\ ForgetSlots(a) => shut' = [shut EXCEPT ![a] = [shut[a] EXCEPT
                 !.slot = slot, !.pc = IF slot = None THEN "returned" ELSE "slots"]]
           /\ CloseSlots(a) => shut' = [shut EXCEPT ![a] = [shut[a] EXCEPT !.pc = "returned"]]
BY DEF Close, Cancel, Await, ForgetSlots, CloseSlots, TypeOK

LEMMA ClosesTypes ==
    ASSUME TypeOK, NEW k \in 1 .. Len(slots), ClosesSlot(k)
    PROVE  /\ slots' = [slots EXCEPT ![k] = [conn |-> None, lock |-> Free]]
           /\ slots' \in Seq(SlotState) /\ Len(slots') = Len(slots)
           /\ DOMAIN slots' = DOMAIN slots
           /\ slots'[k] = [conn |-> None, lock |-> Free]
           /\ \A j \in DOMAIN slots : j # k => slots'[j] = slots[j]
           /\ live' = live \ {slots[k].conn}
<1>1. slots[k] \in SlotState
    BY DEF TypeOK
<1>2. [slots[k] EXCEPT !.conn = None] = [conn |-> None, lock |-> Free]
    BY <1>1 DEF ClosesSlot, SlotState
<1>3. slots' = [slots EXCEPT ![k] = [slots[k] EXCEPT !.conn = None]]
    BY DEF ClosesSlot, TypeOK
<1>4. [conn |-> None, lock |-> Free] \in SlotState
    BY DEF SlotState, None
<1> QED
    BY <1>2, <1>3, <1>4, SlotMoves DEF ClosesSlot

LEMMA ShutTypes ==
    ASSUME TypeOK, DialInv, NEW a \in Shutter, Close(a) \/ Shutdown(a)
    PROVE  TypeOK'
<1>1. shut[a] \in ShutState(Len(slots)) /\ Len(slots) \in Nat /\ slot \in 0 .. Len(slots)
    BY DEF TypeOK
<1>2. \A pc \in ShutPc : /\ [shut[a] EXCEPT !.pc = pc] \in ShutState(Len(slots))
                         /\ [shut[a] EXCEPT !.slot = slot, !.pc = pc] \in ShutState(Len(slots))
    BY <1>1, ShutFields
<1>3. {"second", "read", "wait", "transport", "returned", "slots"} \subseteq ShutPc
    BY DEF ShutPc
<1>4. CASE Close(a)
    <2>1. shut' \in [Shutter -> ShutState(Len(slots))]
        BY <1>2, <1>3, <1>4, ShutSteps, ShutMoves
    <2> QED
        BY <1>4, <2>1 DEF Close, TypeOK, connVars
<1>5. CASE ReadFields(a)
    <2> DEFINE read == [pc |-> "cancel", server |-> server, transport |-> transport,
                        slot |-> None]
    <2>1. read \in ShutState(Len(slots))
        BY <1>1 DEF TypeOK, ShutState, ShutPc, None
    <2>2. shut' \in [Shutter -> ShutState(Len(slots))]
        BY <1>5, <2>1, ShutMoves DEF ReadFields
    <2> QED
        BY <1>5, <2>2 DEF ReadFields, TypeOK, flagVars, connVars
<1>6. CASE Cancel(a)
    <2>1. shut' \in [Shutter -> ShutState(Len(slots))]
        BY <1>2, <1>3, <1>6, ShutSteps, ShutMoves
    <2> QED
        BY <1>6, <2>1 DEF Cancel, TypeOK, connVars
<1>7. CASE Await(a)
    <2>1. shut' \in [Shutter -> ShutState(Len(slots))]
        BY <1>2, <1>3, <1>7, ShutSteps, ShutMoves
    <2> QED
        BY <1>7, <2>1 DEF Await, TypeOK, flagVars, connVars
<1>8. CASE ForgetSlots(a)
    <2>1. shut' \in [Shutter -> ShutState(Len(slots))]
        BY <1>2, <1>3, <1>8, ShutSteps, ShutMoves
    <2> QED
        BY <1>8, <2>1 DEF ForgetSlots, TypeOK, flagVars, None
<1>9. CASE CloseSlots(a)
    <2>1. shut' \in [Shutter -> ShutState(Len(slots))]
        BY <1>2, <1>3, <1>9, ShutSteps, ShutMoves
    <2>2. shut[a].slot \in 1 .. Len(slots)
        BY <1>1, <1>9 DEF CloseSlots, DialInv, ShutState, None
    <2>3. slots' \in Seq(SlotState) /\ Len(slots') = Len(slots) /\ live' \subseteq live
        BY <1>9, <2>2, ClosesTypes DEF CloseSlots
    <2> QED
        BY <1>9, <2>1, <2>3 DEF CloseSlots, TypeOK, flagVars
<1> QED
    BY <1>4, <1>5, <1>6, <1>7, <1>8, <1>9 DEF Shutdown

LEMMA LoopTypes ==
    ASSUME TypeOK,
           LoopStep \/ \E c \in Inbound : Accept(c) \/ PeerCloses(c) \/ StreamOpens(c) \/ StreamEnds(c)
    PROVE  TypeOK'
<1> USE DEF TypeOK, flagVars, connVars
<1>1. \A c \in Inbound : inb[c] \in InboundState /\ Drained(c) \in InboundState
    BY DEF Drained, InboundState
<1>2. CASE SyncReturns \/ HeartbeatReturns \/ ServeCloses
    BY <1>2 DEF SyncReturns, HeartbeatReturns, ServeCloses, LoopReturns
<1>3. CASE ServeReturns
    BY <1>1, <1>3 DEF ServeReturns, LoopReturns
<1>4. ASSUME NEW c \in Inbound, NEW s \in InboundState, Inbounds(c, s)
      PROVE  TypeOK'
    BY <1>4 DEF Inbounds
<1>5. ASSUME NEW c \in Inbound,
             Accept(c) \/ PeerCloses(c) \/ StreamOpens(c) \/ StreamEnds(c) \/ ReadersReturn(c)
      PROVE  \E s \in InboundState : Inbounds(c, s)
    <2>1. inb[c] \in InboundState
        OBVIOUS
    <2>2. /\ [inb[c] EXCEPT !.open = FALSE] \in InboundState
          /\ [inb[c] EXCEPT !.stream = FALSE] \in InboundState
          /\ [inb[c] EXCEPT !.stream = TRUE] \in InboundState
          /\ [inb[c] EXCEPT !.tracked = FALSE] \in InboundState
          /\ [seen |-> TRUE, open |-> TRUE, tracked |-> TRUE, stream |-> FALSE] \in InboundState
        BY <2>1 DEF InboundState
    <2> QED
        BY <1>5, <2>2 DEF Accept, PeerCloses, StreamOpens, StreamEnds, ReadersReturn
<1> QED
    BY <1>2, <1>3, <1>4, <1>5 DEF LoopStep

\* What the steps of a call do to its locals.
LEMMA CallTypes ==
    ASSUME TypeOK, NEW u \in User
    PROVE  /\ call[u] \in CallState(Len(slots)) /\ Len(slots) \in Nat
           /\ NoCall \in CallState(Len(slots))
           /\ \A pc \in CallPc, k \in 0 .. Len(slots) :
                 /\ [call[u] EXCEPT !.pc = pc] \in CallState(Len(slots))
                 /\ [call[u] EXCEPT !.pc = pc, !.slot = k] \in CallState(Len(slots))
                 /\ [call[u] EXCEPT !.pc = pc, !.retried = TRUE] \in CallState(Len(slots))
                 /\ [NoCall EXCEPT !.pc = pc] \in CallState(Len(slots))
<1>1. call[u] \in CallState(Len(slots)) /\ Len(slots) \in Nat
    BY DEF TypeOK
<1>2. NoCall \in CallState(Len(slots))
    BY <1>1, FreshFields
<1> QED
    BY <1>1, <1>2, CallFields

\* The call moves on, and slots stay as they are.
LEMMA SameSlots ==
    ASSUME TypeOK, NEW u \in User, NEW s \in CallState(Len(slots)), Call(u, s),
           UNCHANGED <<flagVars, running, shut, connVars, inb>>
    PROVE  TypeOK'
BY CallMoves DEF TypeOK, Call, flagVars, connVars

\* The call moves on, and its slot k with it.
LEMMA OneSlot ==
    ASSUME TypeOK, NEW u \in User, NEW s \in CallState(Len(slots)), Call(u, s),
           NEW k \in 1 .. Len(slots), NEW t \in SlotState, slots' = [slots EXCEPT ![k] = t],
           dials' \in 0 .. MaxDials, live' \subseteq 1 .. dials',
           UNCHANGED <<flagVars, running, shut, slot, drop, dropped, inb>>
    PROVE  TypeOK'
<1>1. slots' \in Seq(SlotState) /\ Len(slots') = Len(slots)
    BY SlotMoves
<1>2. call' \in [User -> CallState(Len(slots))]
    BY CallMoves DEF Call
<1> QED
    BY <1>1, <1>2 DEF TypeOK, flagVars

LEMMA GetSlotTypes ==
    ASSUME TypeOK, NEW u \in User, NEW from,
           NEW to \in {"lock", "relock"}, GetSlot(u, from, to)
    PROVE  TypeOK'
<1>1. to \in CallPc /\ Len(slots) \in Nat /\ slot \in 0 .. Len(slots)
    BY DEF CallPc, TypeOK
<1>2. CASE slot # None
    <2>1. Call(u, [call[u] EXCEPT !.pc = to, !.slot = slot])
        BY <1>2 DEF GetSlot
    <2>2. UNCHANGED <<flagVars, running, shut, connVars, inb>>
        BY <1>2 DEF GetSlot, connVars
    <2> QED
        BY <1>1, <2>1, <2>2, CallTypes, SameSlots
<1>3. CASE slot = None
    <2> DEFINE new == [conn |-> None, lock |-> Free]
               n == Len(slots) + 1
               state == [call[u] EXCEPT !.pc = to, !.slot = n]
    <2>1. /\ slots' = Append(slots, new) /\ slot' = n /\ call' = [call EXCEPT ![u] = state]
          /\ UNCHANGED <<flagVars, running, shut, live, dials, drop, dropped, inb>>
        BY <1>3 DEF GetSlot, Call
    <2>2. new \in SlotState
        BY DEF SlotState, None
    <2>3. slots' \in Seq(SlotState) /\ Len(slots') = n /\ n \in Nat /\ n \in 0 .. n
        BY <1>1, <2>1, <2>2 DEF TypeOK
    <2>4. /\ CallState(Len(slots)) \subseteq CallState(n)
          /\ ShutState(Len(slots)) \subseteq ShutState(n)
        BY <1>1, MoreSlots
    <2>5. state \in CallState(n)
        <3>1. call[u] \in CallState(n)
            BY <2>4, CallTypes
        <3> QED
            BY <1>1, <2>3, <3>1, CallFields
    <2>6. call' \in [User -> CallState(Len(slots'))]
        <3> HIDE DEF state, n
        <3> QED
            BY <2>1, <2>3, <2>4, <2>5 DEF TypeOK
    <2>7. shut' \in [Shutter -> ShutState(Len(slots'))]
        BY <2>1, <2>3, <2>4 DEF TypeOK
    <2> QED
        BY <1>1, <2>1, <2>3, <2>6, <2>7 DEF TypeOK, flagVars
<1> QED
    BY <1>2, <1>3

LEMMA CallStepTypes ==
    ASSUME TypeOK, DialInv, NEW u \in User, BeginCall(u) \/ CallStep(u)
    PROVE  TypeOK'
<1> DEFINE k == call[u].slot
<1>1. CallPc = {"idle", "connect", "reconnect", "lock", "relock", "dial", "doomed", "use"}
    BY DEF CallPc
<1>2. call[u] \in CallState(Len(slots)) /\ Len(slots) \in Nat /\ None \in 0 .. Len(slots)
    <2>1. call[u] \in CallState(Len(slots)) /\ Len(slots) \in Nat
        BY CallTypes
    <2> QED
        BY <2>1 DEF None
<1>3. call[u].pc \in {"lock", "relock", "dial", "doomed"} => k \in 1 .. Len(slots)
    BY <1>2 DEF DialInv, CallState, None
<1>4. \A j \in 1 .. Len(slots) : slots[j] \in SlotState
    BY DEF TypeOK
<1>5. dials \in 0 .. MaxDials /\ live \subseteq 1 .. dials
    BY DEF TypeOK
<1>6. CASE BeginCall(u)
    <2>1. [NoCall EXCEPT !.pc = "connect"] \in CallState(Len(slots))
        BY <1>1, <1>2, CallTypes
    <2> QED
        BY <1>6, <2>1, SameSlots DEF BeginCall
<1>7. CASE Connect(u)
    BY <1>7, GetSlotTypes DEF Connect
<1>8. CASE Reconnect(u)
    BY <1>8, GetSlotTypes DEF Reconnect
<1>9. CASE LockSlot(u)
    <2>1. CASE slots[k].conn \in live
        <3>1. Call(u, [call[u] EXCEPT !.pc = "use", !.slot = None])
            BY <1>9, <2>1 DEF LockSlot
        <3>2. UNCHANGED <<flagVars, running, shut, connVars, inb>>
            BY <1>9, <2>1 DEF LockSlot, connVars
        <3> QED
            BY <1>1, <1>2, <3>1, <3>2, CallTypes, SameSlots
    <2>2. CASE slots[k].conn \notin live
        <3> DEFINE pc == IF Cancelled(u) THEN "doomed" ELSE "dial"
        <3>1. Call(u, [call[u] EXCEPT !.pc = pc])
            BY <1>9, <2>2 DEF LockSlot
        <3>2. slots' = [slots EXCEPT ![k] = [conn |-> None, lock |-> u]]
            BY <1>9, <2>2 DEF LockSlot
        <3>3. [conn |-> None, lock |-> u] \in SlotState
            BY DEF SlotState, None
        <3>4. k \in 1 .. Len(slots)
            BY <1>3, <1>9 DEF LockSlot
        <3>5. UNCHANGED <<dials, live, flagVars, running, shut, slot, drop, dropped, inb>>
            BY <1>9 DEF LockSlot
        <3>6. [call[u] EXCEPT !.pc = pc] \in CallState(Len(slots))
            BY <1>1, <1>2, CallTypes
        <3> QED
            BY <1>5, <3>1, <3>2, <3>3, <3>4, <3>5, <3>6, OneSlot
    <2> QED
        BY <2>1, <2>2
<1>10. CASE DialOk(u)
    <2> DEFINE c == dials + 1
    <2>1. Call(u, [call[u] EXCEPT !.pc = "use", !.slot = None])
        BY <1>10 DEF DialOk
    <2>2. slots' = [slots EXCEPT ![k] = [conn |-> c, lock |-> Free]]
        BY <1>10 DEF DialOk
    <2>3. [conn |-> c, lock |-> Free] \in SlotState
        BY <1>5, <1>10 DEF SlotState, DialOk
    <2>4. k \in 1 .. Len(slots)
        BY <1>3, <1>10 DEF DialOk
    <2>5. dials' \in 0 .. MaxDials /\ live' \subseteq 1 .. dials'
        BY <1>5, <1>10 DEF DialOk
    <2>6. UNCHANGED <<flagVars, running, shut, slot, drop, dropped, inb>>
        BY <1>10 DEF DialOk
    <2>7. [call[u] EXCEPT !.pc = "use", !.slot = None] \in CallState(Len(slots))
        BY <1>1, <1>2, CallTypes
    <2> QED
        BY <2>1, <2>2, <2>3, <2>4, <2>5, <2>6, <2>7, OneSlot
<1>11. CASE DialFail(u)
    <2>1. k \in 1 .. Len(slots) /\ slots[k] \in SlotState
        BY <1>3, <1>4, <1>11 DEF DialFail
    <2>2. [slots[k] EXCEPT !.lock = Free] \in SlotState
        BY <2>1 DEF SlotState
    <2>3. slots' = [slots EXCEPT ![k] = [slots[k] EXCEPT !.lock = Free]]
        BY <1>11, <2>1 DEF DialFail, TypeOK
    <2>4. Call(u, NoCall) /\ UNCHANGED <<dials, live, flagVars, running, shut, slot, drop, dropped, inb>>
        BY <1>11 DEF DialFail
    <2> QED
        BY <1>5, <2>1, <2>2, <2>3, <2>4, CallTypes, OneSlot
<1>12. CASE UseOk(u) \/ UseFail(u)
    <2> DEFINE again == [call[u] EXCEPT !.pc = "reconnect", !.retried = TRUE]
    <2>1. NoCall \in CallState(Len(slots)) /\ again \in CallState(Len(slots))
        BY <1>1, <1>2, CallTypes
    <2>2. Call(u, NoCall) \/ Call(u, again)
        BY <1>12 DEF UseOk, UseFail
    <2> QED
        BY <1>12, <2>1, <2>2, SameSlots DEF UseOk, UseFail
<1>13. CASE CloseCached(u)
    <2>1. k \in 1 .. Len(slots) /\ ClosesSlot(k)
        BY <1>3, <1>13 DEF CloseCached
    <2>2. [conn |-> None, lock |-> Free] \in SlotState
        BY DEF SlotState, None
    <2>3. slots' = [slots EXCEPT ![k] = [conn |-> None, lock |-> Free]] /\ live' \subseteq live
        BY <2>1, ClosesTypes
    <2>4. /\ Call(u, [call[u] EXCEPT !.pc = "connect", !.slot = None])
          /\ UNCHANGED <<dials, flagVars, running, shut, slot, drop, dropped, inb>>
        BY <1>13 DEF CloseCached
    <2>5. [call[u] EXCEPT !.pc = "connect", !.slot = None] \in CallState(Len(slots))
        BY <1>1, <1>2, CallTypes
    <2> QED
        BY <1>5, <2>1, <2>2, <2>3, <2>4, <2>5, OneSlot
<1> QED
    BY <1>6, <1>7, <1>8, <1>9, <1>10, <1>11, <1>12, <1>13 DEF CallStep

LEMMA DropTypes ==
    ASSUME TypeOK, Drop \/ DropClose \/ \E c \in 1 .. MaxDials : ConnDies(c)
    PROVE  TypeOK'
<1>1. CASE Drop
    BY <1>1 DEF Drop, Event, TypeOK, flagVars, None
<1>2. CASE DropClose
    <2>1. drop \in 1 .. Len(slots)
        BY <1>2 DEF DropClose, TypeOK, None
    <2>2. slots' \in Seq(SlotState) /\ Len(slots') = Len(slots) /\ live' \subseteq live
        BY <1>2, <2>1, ClosesTypes DEF DropClose
    <2> QED
        BY <1>2, <2>2 DEF DropClose, TypeOK, flagVars, None
<1>3. CASE \E c \in 1 .. MaxDials : ConnDies(c)
    BY <1>3 DEF ConnDies, Event, TypeOK, flagVars
<1> QED
    BY <1>1, <1>2, <1>3

LEMMA LifeTypeStep == TypeOK /\ DialInv /\ [Next]_vars => TypeOK'
<1> SUFFICES ASSUME TypeOK, DialInv, [Next]_vars PROVE TypeOK'
    OBVIOUS
<1>1. CASE Next
    BY <1>1, StartTypes, ShutTypes, LoopTypes, CallStepTypes, DropTypes DEF Next
<1>2. CASE UNCHANGED vars
    BY <1>2 DEF vars, flagVars, connVars, TypeOK
<1> QED
    BY <1>1, <1>2

-----------------------------------------------------------------------------
(* The effect of a step, field by field.                                   *)

LEMMA ShutEffects ==
    ASSUME TypeOK, NEW a \in Shutter
    PROVE  /\ Close(a) \/ Shutdown(a) => \A b \in Shutter : b # a => shut'[b] = shut[b]
           /\ Close(a) => shut'[a].pc = IF closed THEN "second" ELSE "read"
           /\ ReadFields(a) => /\ shut'[a].pc = "cancel" /\ shut'[a].server = server
                               /\ shut'[a].transport = transport
           /\ Cancel(a) => /\ shut'[a].pc = "wait" /\ shut'[a].server = shut[a].server
                           /\ shut'[a].transport = shut[a].transport
           /\ Await(a) => /\ shut'[a].pc = IF shut[a].transport THEN "transport" ELSE "returned"
                          /\ shut'[a].server = shut[a].server
                          /\ shut'[a].transport = shut[a].transport
           /\ ForgetSlots(a) => /\ shut'[a].pc = IF slot = None THEN "returned" ELSE "slots"
                                /\ shut'[a].slot = slot
                                /\ shut'[a].server = shut[a].server
                                /\ shut'[a].transport = shut[a].transport
           /\ CloseSlots(a) => /\ shut'[a].pc = "returned" /\ shut'[a].server = shut[a].server
                               /\ shut'[a].transport = shut[a].transport
<1>1. shut[a] \in ShutState(Len(slots)) /\ Len(slots) \in Nat /\ slot \in 0 .. Len(slots)
    BY DEF TypeOK
<1>2. {"second", "read", "wait", "transport", "returned", "slots"} \subseteq ShutPc
    BY DEF ShutPc
<1> DEFINE move(pc) == [shut[a] EXCEPT !.pc = pc]
           take(pc) == [shut[a] EXCEPT !.slot = slot, !.pc = pc]
<1>3. \A pc \in ShutPc :
         /\ move(pc) \in ShutState(Len(slots)) /\ move(pc).pc = pc
         /\ move(pc).server = shut[a].server /\ move(pc).transport = shut[a].transport
         /\ take(pc) \in ShutState(Len(slots)) /\ take(pc).pc = pc /\ take(pc).slot = slot
         /\ take(pc).server = shut[a].server /\ take(pc).transport = shut[a].transport
    BY <1>1 DEF ShutState
<1>4. ASSUME NEW s \in ShutState(Len(slots)), shut' = [shut EXCEPT ![a] = s]
      PROVE  shut'[a] = s /\ \A b \in Shutter : b # a => shut'[b] = shut[b]
    BY <1>4, ShutMoves
<1>5. /\ Close(a) => shut' = [shut EXCEPT ![a] = move(IF closed THEN "second" ELSE "read")]
      /\ Cancel(a) => shut' = [shut EXCEPT ![a] = move("wait")]
      /\ Await(a) => shut' = [shut EXCEPT ![a] =
            move(IF shut[a].transport THEN "transport" ELSE "returned")]
      /\ ForgetSlots(a) => shut' = [shut EXCEPT ![a] =
            take(IF slot = None THEN "returned" ELSE "slots")]
      /\ CloseSlots(a) => shut' = [shut EXCEPT ![a] = move("returned")]
    BY ShutSteps
<1>6. ReadFields(a) => /\ shut'[a].pc = "cancel" /\ shut'[a].server = server
                       /\ shut'[a].transport = transport
                       /\ \A b \in Shutter : b # a => shut'[b] = shut[b]
    BY DEF ReadFields, TypeOK
<1> HIDE DEF move, take
<1>7. Close(a) => /\ shut'[a].pc = IF closed THEN "second" ELSE "read"
                  /\ \A b \in Shutter : b # a => shut'[b] = shut[b]
    BY <1>2, <1>3, <1>4, <1>5
<1>8. Cancel(a) => /\ shut'[a].pc = "wait" /\ shut'[a].server = shut[a].server
                   /\ shut'[a].transport = shut[a].transport
                   /\ \A b \in Shutter : b # a => shut'[b] = shut[b]
    BY <1>2, <1>3, <1>4, <1>5
<1>9. Await(a) => /\ shut'[a].pc = IF shut[a].transport THEN "transport" ELSE "returned"
                  /\ shut'[a].server = shut[a].server
                  /\ shut'[a].transport = shut[a].transport
                  /\ \A b \in Shutter : b # a => shut'[b] = shut[b]
    BY <1>2, <1>3, <1>4, <1>5
<1>10. ForgetSlots(a) => /\ shut'[a].pc = IF slot = None THEN "returned" ELSE "slots"
                         /\ shut'[a].slot = slot
                         /\ shut'[a].server = shut[a].server
                         /\ shut'[a].transport = shut[a].transport
                         /\ \A b \in Shutter : b # a => shut'[b] = shut[b]
    BY <1>2, <1>3, <1>4, <1>5
<1>11. CloseSlots(a) => /\ shut'[a].pc = "returned" /\ shut'[a].server = shut[a].server
                        /\ shut'[a].transport = shut[a].transport
                        /\ \A b \in Shutter : b # a => shut'[b] = shut[b]
    BY <1>2, <1>3, <1>4, <1>5
<1> QED
    BY <1>6, <1>7, <1>8, <1>9, <1>10, <1>11 DEF Shutdown

\* A slot is made when the map has none.
LEMMA GetSlotEffects ==
    ASSUME TypeOK, NEW u \in User, NEW from,
           NEW to \in {"lock", "relock"}, GetSlot(u, from, to)
    PROVE  /\ call[u].pc = from
           /\ call'[u].pc = to /\ call'[u].slot = slot'
           /\ \A v \in User : v # u => call'[v] = call[v]
           /\ slot' \in 1 .. Len(slots')
           /\ slot # None => slot' = slot /\ slots' = slots
           /\ DOMAIN slots' = DOMAIN slots \cup {slot'}
           /\ \A j \in DOMAIN slots : slots'[j] = slots[j]
<1>1. to \in CallPc /\ Len(slots) \in Nat /\ slot \in 0 .. Len(slots)
    BY DEF CallPc, TypeOK
<1>2. call[u] \in CallState(Len(slots)) /\ call \in [User -> CallState(Len(slots))]
    BY DEF TypeOK
<1>3. CASE slot # None
    <2> DEFINE state == [call[u] EXCEPT !.pc = to, !.slot = slot]
    <2>1. /\ call' = [call EXCEPT ![u] = state] /\ slots' = slots /\ slot' = slot
          /\ call[u].pc = from
        BY <1>3 DEF GetSlot, Call
    <2>2. state \in CallState(Len(slots)) /\ state.pc = to /\ state.slot = slot
        BY <1>1, <1>2 DEF CallState
    <2> HIDE DEF state
    <2>3. call'[u] = state /\ \A v \in User : v # u => call'[v] = call[v]
        BY <2>1, <2>2, CallMoves
    <2>4. slot \in 1 .. Len(slots) /\ DOMAIN slots = 1 .. Len(slots)
        BY <1>1, <1>3 DEF None, TypeOK
    <2> QED
        BY <2>1, <2>2, <2>3, <2>4
<1>4. CASE slot = None
    <2> DEFINE n == Len(slots) + 1
               state == [call[u] EXCEPT !.pc = to, !.slot = n]
               new == [conn |-> None, lock |-> Free]
    <2>1. /\ call' = [call EXCEPT ![u] = state] /\ slots' = Append(slots, new) /\ slot' = n
          /\ call[u].pc = from
        BY <1>4 DEF GetSlot, Call
    <2>2. n \in Nat /\ n \in 0 .. n
        BY <1>1
    <2>3. call[u] \in CallState(n)
        BY <1>1, <1>2, MoreSlots
    <2>4. state.pc = to /\ state.slot = n
        BY <1>1, <2>2, <2>3 DEF CallState
    <2>5. /\ DOMAIN slots' = 1 .. n /\ Len(slots') = n /\ DOMAIN slots = 1 .. Len(slots)
          /\ \A j \in 1 .. Len(slots) : slots'[j] = slots[j]
        <3> HIDE DEF new, state
        <3>1. slots \in Seq(SlotState) /\ slots' = Append(slots, new)
            BY <2>1 DEF TypeOK
        <3>2. new \in SlotState
            BY DEF SlotState, None, new
        <3> QED
            BY <3>1, <3>2
    <2> HIDE DEF state
    <2>6. call'[u] = state /\ \A v \in User : v # u => call'[v] = call[v]
        BY <2>1, <1>2
    <2> QED
        BY <1>1, <1>4, <2>1, <2>2, <2>4, <2>5, <2>6
<1> QED
    BY <1>3, <1>4

LEMMA CallEffects ==
    ASSUME TypeOK, DialInv, NEW u \in User
    PROVE  LET k == call[u].slot IN
           /\ call[u].pc \in {"lock", "relock", "dial", "doomed"} => k \in DOMAIN slots
           /\ BeginCall(u) \/ UseOk(u) \/ UseFail(u) =>
                 /\ call'[u].pc \in {"idle", "connect", "reconnect"}
                 /\ \A v \in User : v # u => call'[v] = call[v]
           /\ LockSlot(u) =>
                 /\ call'[u].pc \in {"use", "dial", "doomed"}
                 /\ \A v \in User : v # u => call'[v] = call[v]
                 /\ slots[k].conn \in live => call'[u].pc = "use" /\ slots' = slots
                 /\ slots[k].conn \notin live =>
                       /\ call'[u].pc = IF Cancelled(u) THEN "doomed" ELSE "dial"
                       /\ call'[u].slot = k
                       /\ DOMAIN slots' = DOMAIN slots
                       /\ slots'[k] = [conn |-> None, lock |-> u]
                       /\ \A j \in DOMAIN slots : j # k => slots'[j] = slots[j]
           /\ DialOk(u) =>
                 /\ call'[u].pc = "use"
                 /\ \A v \in User : v # u => call'[v] = call[v]
                 /\ DOMAIN slots' = DOMAIN slots
                 /\ slots'[k] = [conn |-> dials + 1, lock |-> Free]
                 /\ \A j \in DOMAIN slots : j # k => slots'[j] = slots[j]
           /\ DialFail(u) =>
                 /\ call'[u].pc = "idle"
                 /\ \A v \in User : v # u => call'[v] = call[v]
                 /\ DOMAIN slots' = DOMAIN slots
                 /\ slots'[k] = [conn |-> None, lock |-> Free]
                 /\ \A j \in DOMAIN slots : j # k => slots'[j] = slots[j]
           /\ CloseCached(u) =>
                 /\ call'[u].pc = "connect"
                 /\ \A v \in User : v # u => call'[v] = call[v]
<1> DEFINE k == call[u].slot
           other == \A v \in User : v # u => call'[v] = call[v]
<1>1. /\ call[u] \in CallState(Len(slots)) /\ call \in [User -> CallState(Len(slots))]
      /\ Len(slots) \in Nat /\ DOMAIN slots = 1 .. Len(slots) /\ None \in 0 .. Len(slots)
    BY DEF TypeOK, None
<1>2. call[u].pc \in {"lock", "relock", "dial", "doomed"} => k \in DOMAIN slots
    BY <1>1 DEF DialInv, CallState, None
<1>3. ASSUME NEW s, Call(u, s) PROVE call'[u] = s /\ other
    BY <1>1, <1>3 DEF Call
<1>4. /\ NoCall.pc = "idle" /\ [NoCall EXCEPT !.pc = "connect"].pc = "connect"
      /\ [call[u] EXCEPT !.pc = "reconnect", !.retried = TRUE].pc = "reconnect"
      /\ [call[u] EXCEPT !.pc = "use", !.slot = None].pc = "use"
      /\ [call[u] EXCEPT !.pc = "connect", !.slot = None].pc = "connect"
    BY <1>1 DEF CallState, NoCall
<1>5. \A pc \in CallPc : /\ [call[u] EXCEPT !.pc = pc].pc = pc
                         /\ [call[u] EXCEPT !.pc = pc].slot = k
    BY <1>1 DEF CallState
<1>6. BeginCall(u) \/ UseOk(u) \/ UseFail(u) =>
         call'[u].pc \in {"idle", "connect", "reconnect"} /\ other
    BY <1>3, <1>4 DEF BeginCall, UseOk, UseFail
<1>7. ASSUME LockSlot(u)
      PROVE  /\ call'[u].pc \in {"use", "dial", "doomed"} /\ other
             /\ slots[k].conn \in live => call'[u].pc = "use" /\ slots' = slots
             /\ slots[k].conn \notin live =>
                   /\ call'[u].pc = IF Cancelled(u) THEN "doomed" ELSE "dial"
                   /\ call'[u].slot = k
                   /\ DOMAIN slots' = DOMAIN slots
                   /\ slots'[k] = [conn |-> None, lock |-> u]
                   /\ \A j \in DOMAIN slots : j # k => slots'[j] = slots[j]
    <2>1. CASE slots[k].conn \in live
        <3>1. Call(u, [call[u] EXCEPT !.pc = "use", !.slot = None]) /\ slots' = slots
            BY <1>7, <2>1 DEF LockSlot
        <3> QED
            BY <1>3, <1>4, <2>1, <3>1
    <2>2. CASE slots[k].conn \notin live
        <3> DEFINE pc == IF Cancelled(u) THEN "doomed" ELSE "dial"
        <3>1. /\ Call(u, [call[u] EXCEPT !.pc = pc])
              /\ slots' = [slots EXCEPT ![k] = [conn |-> None, lock |-> u]]
            BY <1>7, <2>2 DEF LockSlot
        <3>2. /\ k \in DOMAIN slots /\ slots \in Seq(SlotState)
            BY <1>2, <1>7 DEF LockSlot, TypeOK
        <3>3. /\ DOMAIN slots' = DOMAIN slots /\ slots'[k] = [conn |-> None, lock |-> u]
              /\ \A j \in DOMAIN slots : j # k => slots'[j] = slots[j]
            BY <3>1, <3>2
        <3>4. pc \in CallPc
            BY DEF CallPc
        <3>5. call'[u] = [call[u] EXCEPT !.pc = pc] /\ other
            BY <1>3, <3>1
        <3>6. call'[u].pc = pc /\ call'[u].slot = k
            BY <1>5, <3>4, <3>5
        <3> QED
            BY <2>2, <3>3, <3>5, <3>6
    <2> QED
        BY <2>1, <2>2
<1>8. ASSUME DialOk(u)
      PROVE  /\ call'[u].pc = "use" /\ other /\ DOMAIN slots' = DOMAIN slots
             /\ slots'[k] = [conn |-> dials + 1, lock |-> Free]
             /\ \A j \in DOMAIN slots : j # k => slots'[j] = slots[j]
    <2>1. /\ Call(u, [call[u] EXCEPT !.pc = "use", !.slot = None])
          /\ slots' = [slots EXCEPT ![k] = [conn |-> dials + 1, lock |-> Free]]
        BY <1>8 DEF DialOk
    <2>2. k \in DOMAIN slots /\ slots \in Seq(SlotState)
        BY <1>2, <1>8 DEF DialOk, TypeOK
    <2> QED
        BY <1>3, <1>4, <2>1, <2>2
<1>9. ASSUME DialFail(u)
      PROVE  /\ call'[u].pc = "idle" /\ other /\ DOMAIN slots' = DOMAIN slots
             /\ slots'[k] = [conn |-> None, lock |-> Free]
             /\ \A j \in DOMAIN slots : j # k => slots'[j] = slots[j]
    <2>1. k \in DOMAIN slots /\ slots \in Seq(SlotState)
        BY <1>2, <1>9 DEF DialFail, TypeOK
    <2>2. slots' = [slots EXCEPT ![k] = [slots[k] EXCEPT !.lock = Free]] /\ Call(u, NoCall)
        BY <1>9, <2>1 DEF DialFail
    <2>3. slots[k] = [conn |-> None, lock |-> u]
        BY <1>9 DEF DialFail, DialInv
    <2>4. [slots[k] EXCEPT !.lock = Free] = [conn |-> None, lock |-> Free]
        BY <2>3
    <2> QED
        BY <1>3, <1>4, <2>1, <2>2, <2>4
<1>10. CloseCached(u) => call'[u].pc = "connect" /\ other
    BY <1>3, <1>4 DEF CloseCached
<1> QED
    BY <1>2, <1>6, <1>7, <1>8, <1>9, <1>10

\* A closed slot: nobody dialled into it.
LEMMA ClosesEffects ==
    ASSUME TypeOK, DialInv, NEW k \in 1 .. Len(slots), ClosesSlot(k)
    PROVE  /\ DOMAIN slots' = DOMAIN slots /\ k \in DOMAIN slots
           /\ live' = live \ {slots[k].conn}
           /\ slots'[k].conn = None
           /\ \A j \in DOMAIN slots : j # k => slots'[j] = slots[j]
           /\ \A u \in User : call[u].pc \in {"dial", "doomed"} => call[u].slot # k
<1>1. /\ DOMAIN slots' = DOMAIN slots /\ k \in DOMAIN slots
      /\ live' = live \ {slots[k].conn} /\ slots'[k] = [conn |-> None, lock |-> Free]
      /\ \A j \in DOMAIN slots : j # k => slots'[j] = slots[j]
    BY ClosesTypes DEF TypeOK
<1>2. slots[k].lock = Free
    BY DEF ClosesSlot
<1>3. ASSUME NEW u \in User, call[u].pc \in {"dial", "doomed"}
      PROVE  slots[call[u].slot].lock = u
    <2>1. slots[call[u].slot] = [conn |-> None, lock |-> u]
        BY <1>3 DEF DialInv
    <2> QED
        BY <2>1
<1> QED
    BY <1>1, <1>2, <1>3

\* Start and the loops leave the cache and the calls alone.
LEMMA Aside ==
    ASSUME TypeOK,
           \/ StartStep \/ ParentEnds \/ LoopStep
           \/ \E c \in Inbound : Accept(c) \/ PeerCloses(c) \/ StreamOpens(c) \/ StreamEnds(c)
    PROVE  /\ UNCHANGED <<connVars, call>>
           /\ \A a \in Shutter : \/ shut'[a] = shut[a]
                                 \/ a = "start" /\ StartFail /\ shut'[a].pc = "read"
<1>1. UNCHANGED <<connVars, call>>
    BY DEF StartStep, StartLock, StartInit, StartListen, StartServe, StartLoops, StartFail,
           ParentEnds, LoopStep, SyncReturns, HeartbeatReturns, ServeCloses, ServeReturns,
           LoopReturns, ReadersReturn, Inbounds, Accept, PeerCloses, StreamOpens, StreamEnds
<1>2. StartFail \/ shut' = shut
    BY DEF StartStep, StartLock, StartInit, StartListen, StartServe, StartLoops,
           ParentEnds, LoopStep, SyncReturns, HeartbeatReturns, ServeCloses, ServeReturns,
           LoopReturns, ReadersReturn, Inbounds, Accept, PeerCloses, StreamOpens, StreamEnds
<1>3. [NoShut EXCEPT !.pc = "read"].pc = "read"
    BY DEF NoShut
<1>4. CASE StartFail
    <2>1. shut' = [shut EXCEPT !["start"] = [NoShut EXCEPT !.pc = "read"]]
        BY <1>4 DEF StartFail
    <2>2. \A a \in Shutter : shut'[a] = shut[a] \/ (a = "start" /\ shut'[a].pc = "read")
        BY <1>3, <2>1 DEF TypeOK
    <2> QED
        BY <1>1, <1>4, <2>2
<1> QED
    BY <1>1, <1>2, <1>4

-----------------------------------------------------------------------------
(* Slots, dials and connections.                                           *)

LEMMA DialInit == Init => DialInv /\ NoneLost
BY DEF Init, DialInv, NoneLost, NoShut, NoCall

\* Closing a slot takes out the connection it empties.
LEMMA ClosesKeeps ==
    ASSUME TypeOK, DialInv, NoneLost, NEW k \in 1 .. Len(slots), ClosesSlot(k)
    PROVE  NoneLost'
BY ClosesEffects DEF NoneLost

LEMMA ShutKeeps ==
    ASSUME TypeOK, DialInv, NoneLost, NEW a \in Shutter, Close(a) \/ Shutdown(a)
    PROVE  DialInv' /\ NoneLost'
<1>1. call' = call
    BY DEF Close, Shutdown, ReadFields, Cancel, Await, ForgetSlots, CloseSlots
<1>2. \A b \in Shutter : b # a => shut'[b] = shut[b]
    BY ShutEffects
<1>3. CASE CloseSlots(a)
    <2> DEFINE k == shut[a].slot
    <2>1. k \in 1 .. Len(slots) /\ ClosesSlot(k)
        BY <1>3 DEF CloseSlots, TypeOK, DialInv, ShutState, None
    <2>2. /\ \A j \in DOMAIN slots : j # k => slots'[j] = slots[j]
          /\ \A u \in User : call[u].pc \in {"dial", "doomed"} => call[u].slot # k
        BY <2>1, ClosesEffects
    <2>3. shut'[a].pc = "returned"
        BY <1>3, ShutEffects
    <2>4. \A u \in User : call[u].pc \in {"dial", "doomed"} => call[u].slot \in DOMAIN slots
        BY CallEffects
    <2>5. DialInv'
        <3> HIDE DEF k
        <3> QED
            BY <1>1, <1>2, <2>2, <2>3, <2>4 DEF DialInv
    <2> QED
        BY <2>1, <2>5, ClosesKeeps
<1>4. CASE ~CloseSlots(a)
    <2>1. slots' = slots /\ live' = live
        BY <1>4 DEF Close, Shutdown, ReadFields, Cancel, Await, ForgetSlots, connVars
    <2>2. shut'[a].pc = "slots" => shut'[a].slot # None
        BY <1>4, ShutEffects DEF Shutdown
    <2> QED
        BY <1>1, <1>2, <2>1, <2>2 DEF DialInv, NoneLost
<1> QED
    BY <1>3, <1>4

LEMMA CallKeeps ==
    ASSUME TypeOK, DialInv, NoneLost, NEW u \in User, BeginCall(u) \/ CallStep(u)
    PROVE  DialInv' /\ NoneLost'
<1> DEFINE k == call[u].slot
<1>1. shut' = shut
    BY DEF BeginCall, CallStep, Connect, Reconnect, GetSlot, LockSlot, DialOk, DialFail,
           UseOk, UseFail, CloseCached
<1>2. \A v \in User : call[v].pc \in {"dial", "doomed"} =>
          /\ call[v].slot \in DOMAIN slots
          /\ slots[call[v].slot] = [conn |-> None, lock |-> v]
          /\ slots[call[v].slot].lock = v /\ slots[call[v].slot].conn = None
    <2> TAKE v \in User
    <2> HAVE call[v].pc \in {"dial", "doomed"}
    <2>1. call[v].slot \in DOMAIN slots
        BY CallEffects
    <2>2. slots[call[v].slot] = [conn |-> None, lock |-> v]
        BY DEF DialInv
    <2> QED
        BY <2>1, <2>2
<1>3. \A c \in live : c # None /\ c # dials + 1
    BY DEF TypeOK, None
<1>4. CASE BeginCall(u) \/ UseOk(u) \/ UseFail(u)
    <2>1. UNCHANGED connVars
        BY <1>4 DEF BeginCall, UseOk, UseFail
    <2>2. /\ call'[u].pc \in {"idle", "connect", "reconnect"}
          /\ \A v \in User : v # u => call'[v] = call[v]
        BY <1>4, CallEffects
    <2> QED
        BY <1>1, <2>1, <2>2 DEF DialInv, NoneLost, connVars
<1>5. ASSUME NEW from, NEW to \in {"lock", "relock"}, GetSlot(u, from, to)
      PROVE  DialInv' /\ NoneLost'
    <2>1. /\ call'[u].pc = to /\ call'[u].slot = slot'
          /\ \A v \in User : v # u => call'[v] = call[v]
          /\ slot' \in 1 .. Len(slots')
          /\ DOMAIN slots' = DOMAIN slots \cup {slot'}
          /\ \A j \in DOMAIN slots : slots'[j] = slots[j]
        BY <1>5, GetSlotEffects
    <2>2. live' = live /\ slot' # None
        BY <1>5, <2>1 DEF GetSlot, None
    <2> QED
        BY <1>1, <1>2, <2>1, <2>2 DEF DialInv, NoneLost
<1>6. CASE Connect(u) \/ Reconnect(u)
    BY <1>5, <1>6 DEF Connect, Reconnect
<1>7. CASE LockSlot(u)
    <2>1. call[u].pc = "lock" /\ slots[k].lock = Free /\ live' = live
        BY <1>7 DEF LockSlot
    <2>2. k \in DOMAIN slots /\ k # None
        BY <2>1, CallEffects DEF DialInv
    <2>3. CASE slots[k].conn \in live
        <3>1. /\ call'[u].pc = "use" /\ slots' = slots
              /\ \A v \in User : v # u => call'[v] = call[v]
            BY <1>7, <2>3, CallEffects
        <3> QED
            BY <1>1, <2>1, <3>1 DEF DialInv, NoneLost
    <2>4. CASE slots[k].conn \notin live
        <3>1. /\ call'[u].slot = k /\ \A v \in User : v # u => call'[v] = call[v]
              /\ DOMAIN slots' = DOMAIN slots
              /\ slots'[k] = [conn |-> None, lock |-> u]
              /\ \A j \in DOMAIN slots : j # k => slots'[j] = slots[j]
            BY <1>7, <2>4, CallEffects
        <3> HIDE DEF k
        <3>2. DialInv'
            BY <1>1, <1>2, <2>1, <2>2, <3>1 DEF DialInv
        <3>3. NoneLost'
            BY <2>1, <2>2, <2>4, <3>1 DEF NoneLost
        <3> QED
            BY <3>2, <3>3
    <2> QED
        BY <2>3, <2>4
<1>8. CASE DialOk(u)
    <2>1. /\ call[u].pc = "dial" /\ live' = live \cup {dials + 1}
        BY <1>8 DEF DialOk
    <2>2. /\ call'[u].pc = "use" /\ \A v \in User : v # u => call'[v] = call[v]
          /\ DOMAIN slots' = DOMAIN slots
          /\ slots'[k] = [conn |-> dials + 1, lock |-> Free]
          /\ \A j \in DOMAIN slots : j # k => slots'[j] = slots[j]
        BY <1>8, CallEffects
    <2>3. k \in DOMAIN slots /\ slots[k].lock = u /\ slots[k].conn = None
        BY <1>2, <2>1
    <2> HIDE DEF k
    <2>4. DialInv'
        BY <1>1, <1>2, <2>2, <2>3 DEF DialInv
    <2>5. slots'[k].conn = dials + 1
        BY <2>2
    <2>6. NoneLost'
        BY <1>3, <2>1, <2>2, <2>3, <2>5 DEF NoneLost
    <2> QED
        BY <2>4, <2>6
<1>9. CASE DialFail(u)
    <2>1. call[u].pc \in {"dial", "doomed"} /\ live' = live
        BY <1>9 DEF DialFail
    <2>2. /\ call'[u].pc = "idle" /\ \A v \in User : v # u => call'[v] = call[v]
          /\ DOMAIN slots' = DOMAIN slots
          /\ \A j \in DOMAIN slots : j # k => slots'[j] = slots[j]
        BY <1>9, CallEffects
    <2>3. k \in DOMAIN slots /\ slots[k].lock = u /\ slots[k].conn = None
        BY <1>2, <2>1
    <2> HIDE DEF k
    <2>4. DialInv'
        BY <1>1, <1>2, <2>2, <2>3 DEF DialInv
    <2>5. NoneLost'
        BY <1>3, <2>1, <2>2, <2>3 DEF NoneLost
    <2> QED
        BY <2>4, <2>5
<1>10. CASE CloseCached(u)
    <2>1. k \in 1 .. Len(slots) /\ ClosesSlot(k)
        <3>1. call[u].pc = "relock" /\ ClosesSlot(k)
            BY <1>10 DEF CloseCached
        <3>2. k \in DOMAIN slots
            BY <3>1, CallEffects
        <3> QED
            BY <3>1, <3>2 DEF TypeOK
    <2>2. /\ call'[u].pc = "connect" /\ \A v \in User : v # u => call'[v] = call[v]
        BY <1>10, CallEffects
    <2>3. /\ \A j \in DOMAIN slots : j # k => slots'[j] = slots[j]
          /\ \A v \in User : call[v].pc \in {"dial", "doomed"} => call[v].slot # k
        BY <2>1, ClosesEffects
    <2> HIDE DEF k
    <2>4. DialInv'
        BY <1>1, <1>2, <2>2, <2>3 DEF DialInv
    <2> QED
        BY <2>1, <2>4, ClosesKeeps
<1> QED
    BY <1>4, <1>6, <1>7, <1>8, <1>9, <1>10 DEF CallStep

LEMMA DropKeeps ==
    ASSUME TypeOK, DialInv, NoneLost,
           Drop \/ DropClose \/ \E c \in 1 .. MaxDials : ConnDies(c)
    PROVE  DialInv' /\ NoneLost'
<1>1. CASE Drop \/ \E c \in 1 .. MaxDials : ConnDies(c)
    BY <1>1 DEF Drop, ConnDies, DialInv, NoneLost
<1>2. CASE DropClose
    <2>1. drop \in 1 .. Len(slots) /\ ClosesSlot(drop) /\ UNCHANGED <<shut, call>>
        BY <1>2 DEF DropClose, TypeOK, None
    <2>2. /\ \A j \in DOMAIN slots : j # drop => slots'[j] = slots[j]
          /\ \A u \in User : call[u].pc \in {"dial", "doomed"} => call[u].slot # drop
        BY <2>1, ClosesEffects
    <2>3. \A u \in User : call[u].pc \in {"dial", "doomed"} => call[u].slot \in DOMAIN slots
        BY CallEffects
    <2>4. DialInv'
        BY <2>1, <2>2, <2>3 DEF DialInv
    <2> QED
        BY <2>1, <2>4, ClosesKeeps
<1> QED
    BY <1>1, <1>2

LEMMA DialStep == TypeOK /\ DialInv /\ NoneLost /\ [Next]_vars => DialInv' /\ NoneLost'
<1> SUFFICES ASSUME TypeOK, DialInv, NoneLost, [Next]_vars PROVE DialInv' /\ NoneLost'
    OBVIOUS
<1>1. CASE UNCHANGED vars
    BY <1>1 DEF vars, connVars, DialInv, NoneLost
<1>2. CASE \/ StartStep \/ ParentEnds \/ LoopStep
           \/ \E c \in Inbound : Accept(c) \/ PeerCloses(c) \/ StreamOpens(c) \/ StreamEnds(c)
    <2>1. UNCHANGED <<connVars, call>>
        BY <1>2, Aside
    <2>2. \A a \in Shutter : shut'[a] = shut[a] \/ shut'[a].pc = "read"
        BY <1>2, Aside
    <2> QED
        BY <2>1, <2>2 DEF DialInv, NoneLost, connVars
<1> QED
    BY <1>1, <1>2, ShutKeeps, CallKeeps, DropKeeps DEF Next

-----------------------------------------------------------------------------
(* Start and Close.                                                        *)

LEMMA StartInit0 == Init => StartInv /\ CloserInv /\ CacheInv /\ InboundInv /\ OrderlyInv
BY DEF Init, StartInv, CloserInv, CacheInv, InboundInv, OrderlyInv, Past, NoShut, Away, Shutter

\* Calls, drops and connections leave the flags, the loops and the shutdowns alone.
LEMMA CallsAside ==
    ASSUME \/ Drop \/ DropClose
           \/ \E u \in User : BeginCall(u) \/ CallStep(u)
           \/ \E c \in 1 .. MaxDials : ConnDies(c)
    PROVE  UNCHANGED <<flagVars, running, shut, inb>>
BY DEF Drop, DropClose, BeginCall, CallStep, Connect, Reconnect, GetSlot, LockSlot, DialOk,
       DialFail, UseOk, UseFail, CloseCached, ConnDies

\* So do the loops and the inbound connections, but for the listener.
LEMMA LoopsAside ==
    ASSUME \/ LoopStep
           \/ \E c \in Inbound : Accept(c) \/ PeerCloses(c) \/ StreamOpens(c) \/ StreamEnds(c)
    PROVE  /\ UNCHANGED <<started, closed, ctx, start, server, transport, orderly, shut>>
           /\ listener' \in {listener, "closed"}
           /\ running' \subseteq running
BY DEF LoopStep, SyncReturns, HeartbeatReturns, ServeCloses, ServeReturns,
       LoopReturns, ReadersReturn, Inbounds, Accept, PeerCloses, StreamOpens, StreamEnds,
       flagVars

LEMMA StartShuts ==
    ASSUME TypeOK, StartStep \/ ParentEnds
    PROVE  /\ shut["start"]' = shut["start"] \/ StartFail
           /\ \A a \in Closer : shut'[a] = shut[a]
BY Aside DEF Shutter

LEMMA StartInvStep ==
    ASSUME TypeOK, StartInv, [Next]_vars
    PROVE  StartInv'
<1>1. CASE UNCHANGED vars
    BY <1>1 DEF vars, flagVars, StartInv
<1>2. CASE \/ Drop \/ DropClose
           \/ \E u \in User : BeginCall(u) \/ CallStep(u)
           \/ \E c \in 1 .. MaxDials : ConnDies(c)
    BY <1>2, CallsAside DEF flagVars, StartInv
<1>3. CASE \/ LoopStep
           \/ \E c \in Inbound : Accept(c) \/ PeerCloses(c) \/ StreamOpens(c) \/ StreamEnds(c)
    BY <1>3, LoopsAside DEF StartInv
<1>4. CASE StartStep \/ ParentEnds
    <2>1. shut["start"]' = shut["start"] \/ StartFail
        BY <1>4, StartShuts
    <2>2. CASE StartLock
        BY <1>4, <2>1, <2>2 DEF StartLock, StartFail, StartInv
    <2>3. CASE StartInit
        BY <2>1, <2>3 DEF StartInit, StartFail, StartInv
    <2>4. CASE StartListen
        BY <2>1, <2>4 DEF StartListen, StartFail, StartInv
    <2>5. CASE StartServe
        BY <2>1, <2>5 DEF StartServe, StartFail, StartInv
    <2>6. CASE StartLoops
        BY <2>1, <2>6 DEF StartLoops, StartFail, StartInv
    <2>7. CASE StartFail
        BY <2>7 DEF StartFail, StartInv
    <2>8. CASE ParentEnds
        BY <2>1, <2>8 DEF ParentEnds, StartFail, StartInv
    <2> QED
        BY <1>4, <2>2, <2>3, <2>4, <2>5, <2>6, <2>7, <2>8 DEF StartStep
<1>5. ASSUME NEW a \in Shutter, Close(a)
      PROVE  StartInv'
    <2>1. shut'["start"] = shut["start"]
        BY <1>5, ShutEffects DEF Close, Shutter
    <2> QED
        BY <1>5, <2>1 DEF Close, StartInv
<1>6. ASSUME NEW a \in Shutter, Shutdown(a)
      PROVE  StartInv'
    <2>1. shut[a].pc # "idle" /\ \A b \in Shutter : b # a => shut'[b] = shut[b]
        BY <1>6, ShutEffects DEF Shutdown, ReadFields, Cancel, Await, ForgetSlots, CloseSlots
    <2>2. shut'["start"].pc # "idle" => shut["start"].pc # "idle"
        BY <2>1 DEF Shutter
    <2>3. /\ UNCHANGED <<started, closed, start, server, transport, orderly>>
          /\ ctx' # "none" \/ ctx' = ctx
        BY <1>6 DEF Shutdown, ReadFields, Cancel, Await, ForgetSlots, CloseSlots, flagVars
    <2> QED
        BY <2>2, <2>3 DEF StartInv
<1> QED
    BY <1>1, <1>2, <1>3, <1>4, <1>5, <1>6 DEF Next

LEMMA CloserInvStep ==
    ASSUME TypeOK, CloserInv, [Next]_vars
    PROVE  CloserInv'
<1>1. CASE UNCHANGED <<shut, closed>>
    BY <1>1 DEF CloserInv, Past
<1>2. CASE StartStep \/ ParentEnds
    <2>1. closed' = closed /\ \A a \in Closer : shut'[a] = shut[a]
        BY <1>2, StartShuts DEF StartStep, StartLock, StartInit, StartListen, StartServe,
           StartLoops, StartFail, ParentEnds
    <2> QED
        BY <2>1 DEF CloserInv, Past
<1>3. ASSUME NEW a \in Shutter, Close(a)
      PROVE  CloserInv'
    <2>1. /\ closed' = TRUE /\ a \in Closer
          /\ \A b \in Closer : b # a => shut'[b] = shut[b]
          /\ shut'[a].pc = IF closed THEN "second" ELSE "read"
        BY <1>3, ShutEffects DEF Close, Shutter
    <2> QED
        BY <2>1 DEF CloserInv, Past
<1>4. ASSUME NEW a \in Shutter, Shutdown(a)
      PROVE  CloserInv'
    <2>1. /\ shut[a].pc \notin {"idle", "second"} /\ closed' = closed
          /\ \A b \in Closer : b # a => shut'[b] = shut[b]
        BY <1>4, ShutEffects DEF Shutdown, ReadFields, Cancel, Await, ForgetSlots, CloseSlots,
           flagVars, Shutter
    <2> QED
        BY <2>1 DEF CloserInv, Past
<1> QED
    BY <1>1, <1>2, <1>3, <1>4, CallsAside, LoopsAside DEF Next, vars, flagVars

LEMMA InboundInvStep ==
    ASSUME TypeOK, InboundInv, [Next]_vars
    PROVE  InboundInv'
<1>1. CASE inb' = inb /\ ("serve" \in running => "serve" \in running')
    BY <1>1 DEF InboundInv
<1>2. CASE ServeReturns
    <2>1. ASSUME NEW c \in Inbound PROVE ~(inb'[c].open /\ inb'[c].tracked)
        <3>1. inb'[c] = Drained(c) /\ inb[c] \in InboundState
            BY <1>2 DEF ServeReturns, TypeOK
        <3>2. CASE inb[c].tracked
            <4>1. inb'[c] = [inb[c] EXCEPT !.open = FALSE]
                BY <3>1, <3>2 DEF Drained
            <4>2. inb'[c].open = FALSE
                BY <3>1, <4>1 DEF InboundState
            <4> QED
                BY <4>2
        <3>3. CASE ~inb[c].tracked
            BY <3>1, <3>3 DEF Drained
        <3> QED
            BY <3>2, <3>3
    <2> QED
        BY <2>1 DEF InboundInv
<1>3. ASSUME NEW c \in Inbound, Accept(c)
      PROVE  InboundInv'
    BY <1>3 DEF Accept, Inbounds, InboundInv
<1>4. ASSUME NEW c \in Inbound,
             PeerCloses(c) \/ StreamOpens(c) \/ StreamEnds(c) \/ ReadersReturn(c)
      PROVE  InboundInv'
    <2>1. /\ running' = running
          /\ \/ inb' = [inb EXCEPT ![c] = [inb[c] EXCEPT !.open = FALSE]]
             \/ inb' = [inb EXCEPT ![c] = [inb[c] EXCEPT !.stream = TRUE]]
             \/ inb' = [inb EXCEPT ![c] = [inb[c] EXCEPT !.stream = FALSE]]
             \/ inb' = [inb EXCEPT ![c] = [inb[c] EXCEPT !.tracked = FALSE]]
        BY <1>4 DEF PeerCloses, StreamOpens, StreamEnds, ReadersReturn, Inbounds
    <2>2. inb[c] \in InboundState /\ inb \in [Inbound -> InboundState]
        BY DEF TypeOK
    <2>3. \A d \in Inbound : inb'[d].open /\ inb'[d].tracked => inb[d].open /\ inb[d].tracked
        BY <2>1, <2>2 DEF InboundState
    <2> QED
        BY <2>1, <2>3 DEF InboundInv
<1>5. CASE StartStep \/ ParentEnds \/ SyncReturns \/ HeartbeatReturns \/ ServeCloses
    <2>1. inb' = inb /\ ("serve" \in running => "serve" \in running')
        BY <1>5 DEF StartStep, StartLock, StartInit, StartListen, StartServe, StartLoops,
           StartFail, ParentEnds, SyncReturns, HeartbeatReturns, ServeCloses, LoopReturns
    <2> QED
        BY <1>1, <2>1
<1>6. ASSUME NEW a \in Shutter, Close(a) \/ Shutdown(a)
      PROVE  InboundInv'
    <2>1. inb' = inb /\ running' = running
        BY <1>6 DEF Close, Shutdown, ReadFields, Cancel, Await, ForgetSlots, CloseSlots
    <2> QED
        BY <1>1, <2>1
<1>7. CASE UNCHANGED vars
    BY <1>1, <1>7 DEF vars
<1> QED
    BY <1>1, <1>2, <1>3, <1>4, <1>5, <1>6, <1>7, CallsAside DEF Next, LoopStep

\* A shutdown that has emptied the cache stays past that point.
LEMMA PastStays ==
    ASSUME TypeOK, [Next]_vars, NEW a \in Shutter, Past(a, {"slots", "returned"})
    PROVE  Past(a, {"slots", "returned"})' \/ StartFail
<1>1. CASE shut'[a] = shut[a]
    BY <1>1 DEF Past
<1>2. ASSUME NEW b \in Shutter, Close(b) \/ Shutdown(b)
      PROVE  Past(a, {"slots", "returned"})'
    <2>1. CASE b # a
        <3>1. shut'[a] = shut[a]
            BY <1>2, <2>1, ShutEffects
        <3> QED
            BY <3>1 DEF Past
    <2>2. CASE b = a
        <3>1. CloseSlots(a)
            BY <1>2, <2>2 DEF Past, Close, Shutdown, ReadFields, Cancel, Await, ForgetSlots
        <3> QED
            BY <3>1, ShutEffects DEF Past
    <2> QED
        BY <2>1, <2>2
<1> QED
    BY <1>1, <1>2, Aside, CallsAside DEF Next, vars

LEMMA CacheInvStep ==
    ASSUME TypeOK, DialInv, StartInv, CacheInv, [Next]_vars
    PROVE  CacheInv'
<1> SUFFICES ASSUME \A a \in Shutter : ~Past(a, {"slots", "returned"})',
                    NEW k \in DOMAIN slots'
             PROVE  k = slot' \/ k \in dropped'
    BY DEF CacheInv
<1>1. \A a \in Shutter : ~Past(a, {"slots", "returned"})
    <2>1. CASE StartFail
        <3>1. \A a \in Closer : shut'[a] = shut[a]
            BY <2>1, StartShuts DEF StartStep
        <3>2. shut["start"].pc = "idle"
            BY <2>1 DEF StartFail, StartInv
        <3> QED
            BY <3>1, <3>2 DEF Past, Shutter
    <2> QED
        BY <2>1, PastStays
<1>2. \A j \in DOMAIN slots : j = slot \/ j \in dropped
    BY <1>1 DEF CacheInv
<1>3. CASE DOMAIN slots' = DOMAIN slots /\ slot' = slot /\ dropped \subseteq dropped'
    BY <1>2, <1>3
<1>4. ASSUME NEW u \in User, BeginCall(u) \/ CallStep(u)
      PROVE  k = slot' \/ k \in dropped'
    <2>1. ASSUME NEW from, NEW to \in {"lock", "relock"}, GetSlot(u, from, to)
          PROVE  k = slot' \/ k \in dropped'
        <3>1. /\ slot # None => slot' = slot /\ slots' = slots
              /\ DOMAIN slots' = DOMAIN slots \cup {slot'}
            BY <2>1, GetSlotEffects
        <3>2. dropped' = dropped
            BY <2>1 DEF GetSlot
        <3>3. DOMAIN slots = 1 .. Len(slots) /\ Len(slots) \in Nat
            BY DEF TypeOK
        <3>4. None \notin DOMAIN slots
            BY <3>3 DEF None
        <3> QED
            BY <1>2, <3>1, <3>2, <3>4
    <2>2. CASE Connect(u) \/ Reconnect(u)
        BY <2>1, <2>2 DEF Connect, Reconnect
    <2>3. CASE BeginCall(u) \/ UseOk(u) \/ UseFail(u)
        BY <1>3, <2>3 DEF BeginCall, UseOk, UseFail, connVars
    <2>4. CASE LockSlot(u) \/ DialOk(u) \/ DialFail(u)
        <3>1. DOMAIN slots' = DOMAIN slots
            BY <2>4, CallEffects
        <3> QED
            BY <1>3, <2>4, <3>1 DEF LockSlot, DialOk, DialFail
    <2>5. CASE CloseCached(u)
        <3>1. ClosesSlot(call[u].slot) /\ UNCHANGED <<slot, dropped>> /\ call[u].pc = "relock"
            BY <2>5 DEF CloseCached
        <3>2. call[u].slot \in DOMAIN slots
            BY <3>1, CallEffects
        <3>3. DOMAIN slots = 1 .. Len(slots)
            BY DEF TypeOK
        <3> QED
            BY <1>3, <3>1, <3>2, <3>3, ClosesEffects
    <2> QED
        BY <1>4, <2>2, <2>3, <2>4, <2>5 DEF CallStep
<1>5. CASE Drop
    BY <1>2, <1>5 DEF Drop
<1>6. CASE DropClose
    <2>1. drop \in 1 .. Len(slots) /\ ClosesSlot(drop) /\ UNCHANGED <<slot, dropped>>
        BY <1>6 DEF DropClose, TypeOK, None
    <2> QED
        BY <1>3, <2>1, ClosesEffects
<1>7. ASSUME NEW c \in 1 .. MaxDials, ConnDies(c)
      PROVE  k = slot' \/ k \in dropped'
    BY <1>3, <1>7 DEF ConnDies
<1>8. ASSUME NEW a \in Shutter, Close(a) \/ Shutdown(a)
      PROVE  k = slot' \/ k \in dropped'
    <2>1. ~ForgetSlots(a) /\ ~CloseSlots(a)
        BY ShutEffects DEF Past
    <2>2. UNCHANGED connVars
        BY <1>8, <2>1 DEF Close, Shutdown, ReadFields, Cancel, Await
    <2> QED
        BY <1>3, <2>2 DEF connVars
<1> QED
    BY <1>3, <1>4, <1>5, <1>6, <1>7, <1>8, Aside DEF Next, vars, connVars

-----------------------------------------------------------------------------
(* An orderly Close.                                                       *)

LEMMA ExcusedStays ==
    ASSUME TypeOK, NEW a \in Closer, NEW c, Excused(a, c),
           shut'[a] = shut[a], appConns \subseteq appConns', dropped \subseteq dropped',
           DOMAIN slots \subseteq DOMAIN slots',
           \A k \in DOMAIN slots : slots[k].conn = c => slots'[k].conn = c
    PROVE  Excused(a, c)'
<1>1. dropped \subseteq DOMAIN slots
    BY DEF TypeOK
<1>2. CASE c \in appConns
    BY <1>2 DEF Excused
<1>3. CASE Orphan(c)
    BY <1>1, <1>3 DEF Excused, Orphan
<1>4. CASE \E k \in DOMAIN slots : Closing(a, k) /\ slots[k].conn = c
    BY <1>4 DEF Excused, Closing
<1> QED
    BY <1>2, <1>3, <1>4 DEF Excused

\* One Close is at work, and no failing Start.
LEMMA OneShutdown ==
    ASSUME StartInv, CloserInv, orderly, NEW a \in Shutter, shut[a].pc \notin {"idle", "second"}
    PROVE  /\ a \in Closer /\ start = "returned" /\ started /\ server /\ transport
           /\ \A b \in Closer : b # a => shut[b].pc \in {"idle", "second"}
           /\ shut["start"].pc = "idle"
<1>1. start = "returned" /\ started /\ server /\ transport /\ shut["start"].pc = "idle"
    BY DEF StartInv
<1>2. a \in Closer
    BY <1>1 DEF Shutter
<1> QED
    BY <1>1, <1>2 DEF CloserInv, Past

LEMMA ShutOrderly ==
    ASSUME LifeInv, orderly, NEW a \in Shutter, Shutdown(a), NEW b \in Closer
    PROVE  Orderly(b)'
<1> USE DEF LifeInv
<1>1. shut[a].pc \notin {"idle", "second"}
    BY DEF Shutdown, ReadFields, Cancel, Await, ForgetSlots, CloseSlots
<1>2. /\ a \in Closer /\ start = "returned" /\ started /\ server /\ transport
      /\ \A d \in Closer : d # a => shut[d].pc \in {"idle", "second"}
      /\ shut["start"].pc = "idle"
    BY <1>1, OneShutdown
<1>3. CASE b # a
    <2>1. shut'[b].pc \in {"idle", "second"}
        BY <1>2, <1>3, ShutEffects DEF Shutter
    <2> QED
        BY <2>1 DEF Orderly, Past
<1>4. CASE b = a
    <2>1. Orderly(a)
        BY <1>2 DEF OrderlyInv
    <2>2. CASE ReadFields(a)
        <3>1. shut'[a].pc = "cancel" /\ shut'[a].server /\ shut'[a].transport
            BY <1>2, <2>2, ShutEffects
        <3> QED
            BY <1>4, <3>1 DEF Orderly, Past
    <2>3. CASE Cancel(a)
        <3>1. shut[a].server /\ shut[a].transport
            BY <2>1, <2>3 DEF Orderly, Past, Cancel
        <3>2. shut'[a].pc = "wait" /\ shut'[a].server /\ shut'[a].transport
            BY <2>3, <3>1, ShutEffects
        <3>3. ctx' = "done" /\ listener' = "closed"
            BY <1>2, <2>3, <3>1 DEF Cancel, StartInv, TypeOK
        <3> QED
            BY <1>4, <3>2, <3>3 DEF Orderly, Past
    <2>4. CASE Await(a)
        <3>1. shut[a].server /\ shut[a].transport /\ ctx = "done" /\ listener = "closed"
            BY <2>1, <2>4 DEF Orderly, Past, Await
        <3>2. shut'[a].pc = "transport" /\ shut'[a].server /\ shut'[a].transport
            BY <2>4, <3>1, ShutEffects
        <3>3. ctx' = "done" /\ listener' = "closed" /\ running' = {}
            BY <2>4, <3>1 DEF Await, flagVars
        <3> QED
            BY <1>4, <3>2, <3>3 DEF Orderly, Past
    <2>5. CASE ForgetSlots(a)
        <3>1. /\ shut[a].server /\ shut[a].transport /\ ctx = "done" /\ listener = "closed"
              /\ running = {}
            BY <2>1, <2>5 DEF Orderly, Past, ForgetSlots
        <3>2. /\ shut'[a].pc = IF slot = None THEN "returned" ELSE "slots"
              /\ shut'[a].slot = slot /\ shut'[a].server /\ shut'[a].transport
            BY <2>5, <3>1, ShutEffects
        <3>3. /\ ctx' = "done" /\ listener' = "closed" /\ running' = {}
              /\ UNCHANGED <<slots, live, appConns, dropped, call>>
            BY <2>5, <3>1 DEF ForgetSlots, flagVars
        <3>4. \A d \in Shutter : ~Past(d, {"slots", "returned"})
            BY <1>2, <2>5 DEF Past, Shutter, ForgetSlots
        <3>5. \A k \in DOMAIN slots : k = slot \/ k \in dropped
            BY <3>4 DEF CacheInv
        <3>6. DOMAIN slots = 1 .. Len(slots) /\ None \notin DOMAIN slots
            BY DEF TypeOK, None
        <3>7. \A k \in DOMAIN slots : k \in dropped' \/ Closing(a, k)'
            BY <3>2, <3>3, <3>5, <3>6 DEF Closing
        <3>8. \A c \in live' : Excused(a, c)'
            BY <3>3, <3>7 DEF Excused, Orphan, NoneLost
        <3>9. \A u \in User : call[u].pc = "dial" => call[u].slot \in DOMAIN slots
            BY CallEffects
        <3>10. \A u \in User \ App : call'[u].pc = "dial" =>
                  call'[u].slot \in dropped' \/ Closing(a, call[u].slot)'
            BY <3>3, <3>7, <3>9
        <3> QED
            BY <1>4, <3>2, <3>3, <3>8, <3>10 DEF Orderly
    <2>6. CASE CloseSlots(a)
        <3> DEFINE k == shut[a].slot
        <3>1. /\ shut[a].pc = "slots" /\ ClosesSlot(k)
              /\ UNCHANGED <<flagVars, running, appConns, dropped, call>>
            BY <2>6 DEF CloseSlots
        <3>2. /\ shut[a].server /\ shut[a].transport /\ ctx = "done" /\ listener = "closed"
              /\ running = {} /\ \A c \in live : Excused(a, c)
              /\ \A u \in User \ App : call[u].pc = "dial" =>
                    call[u].slot \in dropped \/ Closing(a, call[u].slot)
            BY <2>1, <3>1 DEF Orderly, Past
        <3>3. shut'[a].pc = "returned" /\ shut'[a].server /\ shut'[a].transport
            BY <2>6, <3>2, ShutEffects
        <3>4. k \in 1 .. Len(slots) /\ dropped \subseteq DOMAIN slots
            BY <3>1 DEF TypeOK, DialInv, ShutState, None
        <3>5. /\ live' = live \ {slots[k].conn} /\ DOMAIN slots' = DOMAIN slots
              /\ \A j \in DOMAIN slots : j # k => slots'[j] = slots[j]
              /\ \A u \in User : call[u].pc \in {"dial", "doomed"} => call[u].slot # k
            BY <3>1, <3>4, ClosesEffects
        <3>6. \A j : Closing(a, j) => j = k
            BY DEF Closing
        <3> HIDE DEF k
        <3>7. \A c \in live' : Excused(a, c)'
            BY <3>1, <3>2, <3>4, <3>5, <3>6 DEF Excused, Orphan
        <3>8. ASSUME NEW u \in User \ App, call'[u].pc = "dial"
              PROVE  call'[u].slot \in dropped'
            <4>1. call[u].pc = "dial" /\ call'[u] = call[u] /\ dropped' = dropped
                BY <3>1, <3>8
            <4>2. call[u].slot # k
                BY <3>5, <4>1
            <4> QED
                BY <3>2, <3>6, <4>1, <4>2
        <3>9. ctx' = "done" /\ listener' = "closed" /\ running' = {}
            BY <3>1, <3>2 DEF flagVars
        <3> QED
            BY <1>4, <3>3, <3>7, <3>8, <3>9 DEF Orderly
    <2> QED
        BY <2>2, <2>3, <2>4, <2>5, <2>6 DEF Shutdown
<1> QED
    BY <1>3, <1>4

\* Calls meet a done context: a worker that comes late does not dial, and a
\* dial on its way ends in a slot that is accounted for.
LEMMA CallOrderly ==
    ASSUME LifeInv, orderly, NEW b \in Closer, Orderly(b),
           NEW u \in User, BeginCall(u) \/ CallStep(u)
    PROVE  Orderly(b)'
<1> USE DEF LifeInv
<1> DEFINE k == call[u].slot
<1>1. UNCHANGED <<flagVars, running, shut, inb>>
    BY CallsAside
<1>2. ctx' = ctx /\ listener' = listener /\ running' = running /\ shut'[b] = shut[b]
    BY <1>1 DEF flagVars
<1>3. dropped' = dropped /\ appConns \subseteq appConns'
    BY DEF BeginCall, CallStep, Connect, Reconnect, GetSlot, LockSlot, DialOk, DialFail,
           UseOk, UseFail, CloseCached, connVars
<1>4. \A v \in User : v # u => call'[v] = call[v]
    <2>1. CASE Connect(u) \/ Reconnect(u)
        BY <2>1, GetSlotEffects DEF Connect, Reconnect
    <2> QED
        BY <2>1, CallEffects DEF CallStep
<1>5. SUFFICES ASSUME Past(b, {"slots", "returned"})
               PROVE  /\ \A c \in live' : Excused(b, c)'
                      /\ call'[u].pc = "dial" /\ u \notin App =>
                            call'[u].slot \in dropped' \/ Closing(b, call[u].slot)'
    BY <1>2, <1>3, <1>4 DEF Orderly, Past, Closing
<1>6. ctx = "done" /\ \A c \in live : Excused(b, c)
    BY <1>5 DEF Orderly, Past
<1>7. \A v \in User \ App : call[v].pc = "dial" =>
         call[v].slot \in dropped \/ Closing(b, call[v].slot)
    BY <1>5 DEF Orderly
<1>8. ASSUME live' \subseteq live, DOMAIN slots \subseteq DOMAIN slots',
             \A c \in live' : \A j \in DOMAIN slots : slots[j].conn = c => slots'[j].conn = c
      PROVE  \A c \in live' : Excused(b, c)'
    BY <1>2, <1>3, <1>6, <1>8, ExcusedStays
<1>9. \A c \in live : c # None
    BY DEF TypeOK, None
<1>10. CASE BeginCall(u) \/ UseOk(u) \/ UseFail(u)
    <2>1. UNCHANGED connVars
        BY <1>10 DEF BeginCall, UseOk, UseFail
    <2>2. call'[u].pc # "dial"
        BY <1>10, CallEffects
    <2> QED
        BY <1>8, <2>1, <2>2 DEF connVars
<1>11. ASSUME NEW from, NEW to \in {"lock", "relock"}, GetSlot(u, from, to)
       PROVE  (\A c \in live' : Excused(b, c)') /\ call'[u].pc # "dial"
    <2>1. /\ call'[u].pc = to /\ DOMAIN slots \subseteq DOMAIN slots'
          /\ \A j \in DOMAIN slots : slots'[j] = slots[j]
        BY <1>11, GetSlotEffects
    <2>2. live' = live
        BY <1>11 DEF GetSlot
    <2> QED
        BY <1>8, <2>1, <2>2
<1>12. CASE Connect(u) \/ Reconnect(u)
    BY <1>11, <1>12 DEF Connect, Reconnect
<1>13. CASE LockSlot(u)
    <2>1. live' = live
        BY <1>13 DEF LockSlot
    <2>2. CASE slots[k].conn \in live
        <3>1. call'[u].pc = "use" /\ slots' = slots
            BY <1>13, <2>2, CallEffects
        <3> QED
            BY <1>8, <2>1, <3>1
    <2>3. CASE slots[k].conn \notin live
        <3>1. /\ call'[u].pc = IF Cancelled(u) THEN "doomed" ELSE "dial"
              /\ DOMAIN slots' = DOMAIN slots
              /\ \A j \in DOMAIN slots : j # k => slots'[j] = slots[j]
            BY <1>13, <2>3, CallEffects
        <3>2. call'[u].pc = "dial" => u \in App
            BY <1>6, <3>1 DEF Cancelled
        <3> QED
            BY <1>8, <2>1, <2>3, <3>1, <3>2
    <2> QED
        BY <2>2, <2>3
<1>14. CASE DialOk(u)
    <2> DEFINE d == dials + 1
    <2>1. /\ call[u].pc = "dial" /\ live' = live \cup {d}
          /\ appConns' = appConns \cup {e \in {d} : u \in App}
        BY <1>14 DEF DialOk
    <2>2. /\ call'[u].pc = "use" /\ DOMAIN slots' = DOMAIN slots
          /\ slots'[k] = [conn |-> d, lock |-> Free]
          /\ \A j \in DOMAIN slots : j # k => slots'[j] = slots[j]
        BY <1>14, CallEffects
    <2>3. slots[k] = [conn |-> None, lock |-> u]
        BY <2>1 DEF DialInv
    <2>4. slots[k].conn = None /\ slots'[k].conn = d
        BY <2>2, <2>3
    <2>5. k \in DOMAIN slots
        BY <2>1, CallEffects
    <2> HIDE DEF k, d
    <2>6. ASSUME NEW c \in live PROVE Excused(b, c)'
        <3>1. \A j \in DOMAIN slots : slots[j].conn = c => slots'[j].conn = c
            BY <1>9, <2>2, <2>4
        <3> QED
            BY <1>2, <1>3, <1>6, <2>2, <3>1, ExcusedStays
    <2>7. ASSUME NEW c, c = d PROVE Excused(b, c)'
        <3>1. CASE u \in App
            BY <2>1, <2>7, <3>1 DEF Excused
        <3>2. CASE u \notin App
            <4>1. PICK j : j = k
                OBVIOUS
            <4>2. j \in dropped \/ Closing(b, j)
                BY <1>7, <2>1, <3>2, <4>1 DEF k
            <4>3. j \in DOMAIN slots' /\ slots'[j].conn = c
                BY <2>2, <2>4, <2>5, <2>7, <4>1
            <4>4. CASE j \in dropped
                BY <1>3, <4>3, <4>4 DEF Excused, Orphan
            <4>5. CASE Closing(b, j)
                <5>1. Closing(b, j)'
                    BY <1>2, <4>5 DEF Closing
                <5> QED
                    BY <4>3, <5>1 DEF Excused
            <4> QED
                BY <4>2, <4>4, <4>5
        <3> QED
            BY <3>1, <3>2
    <2> QED
        BY <2>1, <2>2, <2>6, <2>7
<1>15. CASE DialFail(u)
    <2>1. call[u].pc \in {"dial", "doomed"} /\ live' = live
        BY <1>15 DEF DialFail
    <2>2. /\ call'[u].pc = "idle" /\ DOMAIN slots' = DOMAIN slots
          /\ \A j \in DOMAIN slots : j # k => slots'[j] = slots[j]
        BY <1>15, CallEffects
    <2>3. slots[k] = [conn |-> None, lock |-> u]
        BY <2>1 DEF DialInv
    <2>4. slots[k].conn = None
        BY <2>3
    <2> QED
        BY <1>8, <1>9, <2>1, <2>2, <2>4
<1>16. CASE CloseCached(u)
    <2>1. call[u].pc = "relock" /\ ClosesSlot(k)
        BY <1>16 DEF CloseCached
    <2>2. k \in DOMAIN slots /\ call'[u].pc = "connect"
        BY <1>16, <2>1, CallEffects
    <2>3. k \in 1 .. Len(slots)
        BY <2>2 DEF TypeOK
    <2>4. /\ live' = live \ {slots[k].conn} /\ DOMAIN slots' = DOMAIN slots
          /\ \A j \in DOMAIN slots : j # k => slots'[j] = slots[j]
        BY <2>1, <2>3, ClosesEffects
    <2> QED
        BY <1>8, <2>2, <2>4
<1> QED
    BY <1>10, <1>12, <1>13, <1>14, <1>15, <1>16, <1>11 DEF CallStep

LEMMA DropOrderly ==
    ASSUME LifeInv, orderly, NEW b \in Closer, Orderly(b),
           Drop \/ DropClose \/ \E c \in 1 .. MaxDials : ConnDies(c)
    PROVE  Orderly(b)'
<1> USE DEF LifeInv
<1>1. UNCHANGED <<flagVars, running, shut, inb>>
    BY CallsAside
<1>2. /\ ctx' = ctx /\ listener' = listener /\ running' = running /\ shut'[b] = shut[b]
      /\ call' = call /\ appConns' = appConns /\ dropped \subseteq dropped'
    BY <1>1 DEF flagVars, Drop, DropClose, ConnDies
<1>3. SUFFICES ASSUME Past(b, {"slots", "returned"})
               PROVE  \A c \in live' : Excused(b, c)'
    BY <1>2 DEF Orderly, Past, Closing
<1>4. \A c \in live : Excused(b, c)
    BY <1>3 DEF Orderly
<1>5. ASSUME live' \subseteq live, DOMAIN slots \subseteq DOMAIN slots',
             \A c \in live' : \A j \in DOMAIN slots : slots[j].conn = c => slots'[j].conn = c
      PROVE  \A c \in live' : Excused(b, c)'
    BY <1>2, <1>4, <1>5, ExcusedStays
<1>6. CASE Drop \/ \E c \in 1 .. MaxDials : ConnDies(c)
    <2>1. slots' = slots /\ live' \subseteq live
        BY <1>6 DEF Drop, ConnDies
    <2> QED
        BY <1>5, <2>1
<1>7. CASE DropClose
    <2>1. drop \in 1 .. Len(slots) /\ ClosesSlot(drop)
        BY <1>7 DEF DropClose, TypeOK, None
    <2>2. /\ live' = live \ {slots[drop].conn} /\ DOMAIN slots' = DOMAIN slots
          /\ \A j \in DOMAIN slots : j # drop => slots'[j] = slots[j]
        BY <2>1, ClosesEffects
    <2> QED
        BY <1>5, <2>2
<1> QED
    BY <1>6, <1>7

LEMMA OrderlyInvStep ==
    ASSUME LifeInv, [Next]_vars
    PROVE  OrderlyInv'
<1> USE DEF LifeInv
<1> SUFFICES ASSUME orderly', NEW b \in Closer PROVE Orderly(b)'
    BY DEF OrderlyInv
<1>1. ASSUME NEW a \in Shutter, Close(a)
      PROVE  Orderly(b)'
    <2>1. /\ a \in Closer /\ \A d \in Closer : d # a => shut'[d] = shut[d]
          /\ shut'[a].pc = IF closed THEN "second" ELSE "read"
        BY <1>1, ShutEffects DEF Close, Shutter
    <2>2. CASE closed
        <3>1. orderly /\ UNCHANGED <<ctx, listener, running, connVars, call>>
            BY <1>1, <2>2 DEF Close
        <3>2. Orderly(b)
            BY <3>1 DEF OrderlyInv
        <3>3. CASE b = a
            BY <2>1, <2>2, <3>3 DEF Orderly, Past
        <3>4. CASE b # a
            BY <2>1, <3>1, <3>2, <3>4 DEF Orderly, Past, Excused, Orphan, Closing, connVars
        <3> QED
            BY <3>3, <3>4
    <2>3. CASE ~closed
        <3>1. shut'[b].pc \in {"idle", "read"}
            BY <2>1, <2>3 DEF CloserInv
        <3> QED
            BY <3>1 DEF Orderly, Past
    <2> QED
        BY <2>2, <2>3
<1>2. ASSUME ~\E a \in Shutter : Close(a)
      PROVE  orderly /\ Orderly(b)
    <2>1. orderly
        BY <1>2, CallsAside, LoopsAside DEF Next, vars, flagVars, Shutdown, ReadFields, Cancel,
           Await, ForgetSlots, CloseSlots, StartStep, StartLock, StartInit, StartListen,
           StartServe, StartLoops, StartFail, ParentEnds
    <2> QED
        BY <2>1 DEF OrderlyInv
<1>3. SUFFICES ASSUME orderly, Orderly(b), ~\E a \in Shutter : Close(a)
               PROVE  Orderly(b)'
    BY <1>1, <1>2
<1>4. CASE UNCHANGED vars
    BY <1>3, <1>4 DEF vars, flagVars, connVars, Orderly, Past, Excused, Orphan, Closing
<1>5. CASE ParentEnds \/ LoopStep
           \/ \E c \in Inbound : Accept(c) \/ PeerCloses(c) \/ StreamOpens(c) \/ StreamEnds(c)
    <2>1. /\ UNCHANGED <<connVars, call, shut>>
          /\ ctx' \in {ctx, "done"} /\ listener' \in {listener, "closed"}
          /\ running' \subseteq running
        BY <1>5, Aside, LoopsAside DEF ParentEnds
    <2> QED
        BY <1>3, <2>1 DEF Orderly, Past, Excused, Orphan, Closing, connVars
<1>6. ~StartStep
    <2>1. start = "returned"
        BY <1>3 DEF StartInv
    <2> QED
        BY <2>1 DEF StartStep, StartLock, StartInit, StartListen, StartServe, StartLoops, StartFail
<1> QED
    BY <1>3, <1>4, <1>5, <1>6, ShutOrderly, CallOrderly, DropOrderly DEF Next

-----------------------------------------------------------------------------
(* The theorems.                                                           *)

\* The inductive invariant of a process, from Start to Close.
THEOREM LifeInvariant == Spec => []LifeInv
<1>1. Init => LifeInv
    BY LifeTypeInit, DialInit, StartInit0 DEF LifeInv
<1>2. LifeInv /\ [Next]_vars => LifeInv'
    <2> SUFFICES ASSUME LifeInv, [Next]_vars PROVE LifeInv'
        OBVIOUS
    <2>1. TypeOK' /\ DialInv' /\ NoneLost'
        BY LifeTypeStep, DialStep DEF LifeInv
    <2>2. StartInv' /\ CloserInv' /\ CacheInv' /\ InboundInv'
        BY StartInvStep, CloserInvStep, CacheInvStep, InboundInvStep DEF LifeInv
    <2>3. OrderlyInv'
        BY OrderlyInvStep
    <2> QED
        BY <2>1, <2>2, <2>3 DEF LifeInv
<1> QED
    BY <1>1, <1>2, PTL DEF Spec

\* Every outgoing connection that is up sits in a slot of the cache, whatever
\* dials, reconnects, drops and shutdowns overlap: none is replaced unclosed.
THEOREM ConnectionsKept == Spec => []NoneLost
<1>1. LifeInv => NoneLost
    BY DEF LifeInv
<1> QED
    BY <1>1, LifeInvariant, PTL

\* When an orderly Close returns, the loops, the listener and the outgoing
\* connections are gone, but for those of the application's own calls and those
\* dialled into a slot that RemovePeer had taken out.
THEOREM CloseIsComplete == Spec => []CloseComplete
<1>1. LifeInv => CloseComplete
    <2> SUFFICES ASSUME LifeInv, NEW a \in Closer, shut[a].pc = "returned", orderly
                 PROVE  Quiet /\ \A c \in live : c \in appConns \/ Orphan(c)
        BY DEF CloseComplete
    <2>1. Orderly(a)
        BY DEF LifeInv, OrderlyInv
    <2>2. Quiet
        BY <2>1 DEF Orderly, Past, Quiet
    <2>3. \A c \in live : Excused(a, c)
        BY <2>1 DEF Orderly, Past
    <2> QED
        BY <2>2, <2>3 DEF Excused, Closing
<1> QED
    BY <1>1, LifeInvariant, PTL

\* Once Serve has returned no peer can begin a session, however drain ended.
THEOREM NoSessionAfterServe == Spec => NoLateSession
<1> DEFINE Late == ServeReturned => \A c \in Inbound : inb'[c].stream => inb[c].stream
<1>1. LifeInv /\ [Next]_vars => [Late]_vars
    <2> SUFFICES ASSUME LifeInv, Next, ServeReturned, NEW c \in Inbound, inb'[c].stream
                 PROVE  inb[c].stream
        BY DEF Late
    <2>1. inb \in [Inbound -> InboundState] /\ "serve" \notin running
        BY DEF LifeInv, TypeOK, ServeReturned
    <2>2. ~(inb[c].open /\ inb[c].tracked)
        BY <2>1 DEF LifeInv, InboundInv
    <2>3. CASE inb' = inb
        BY <2>3
    <2>4. ASSUME NEW d \in Inbound,
                 Accept(d) \/ PeerCloses(d) \/ StreamOpens(d) \/ StreamEnds(d) \/ ReadersReturn(d)
          PROVE  inb[c].stream
        <3>1. CASE d # c
            BY <2>1, <2>4, <3>1 DEF Accept, PeerCloses, StreamOpens, StreamEnds, ReadersReturn,
               Inbounds
        <3>2. CASE d = c
            <4>1. ~Accept(c) /\ ~StreamOpens(c)
                BY <2>1, <2>2 DEF Accept, StreamOpens
            <4>2. \/ inb' = [inb EXCEPT ![c] = [inb[c] EXCEPT !.open = FALSE]]
                  \/ inb' = [inb EXCEPT ![c] = [inb[c] EXCEPT !.stream = FALSE]]
                  \/ inb' = [inb EXCEPT ![c] = [inb[c] EXCEPT !.tracked = FALSE]]
                BY <2>4, <3>2, <4>1 DEF PeerCloses, StreamEnds, ReadersReturn, Inbounds
            <4> QED
                BY <2>1, <4>2 DEF InboundState
        <3> QED
            BY <3>1, <3>2
    <2>5. ~ServeReturns
        BY <2>1 DEF ServeReturns
    <2>6. StartStep \/ ParentEnds \/ SyncReturns \/ HeartbeatReturns \/ ServeCloses => inb' = inb
        BY DEF StartStep, StartLock, StartInit, StartListen, StartServe, StartLoops,
           StartFail, ParentEnds, SyncReturns, HeartbeatReturns, ServeCloses, LoopReturns
    <2>7. \A a \in Shutter : Close(a) \/ Shutdown(a) => inb' = inb
        BY DEF Close, Shutdown, ReadFields, Cancel, Await, ForgetSlots, CloseSlots
    <2> QED
        BY <2>3, <2>4, <2>5, <2>6, <2>7, CallsAside DEF Next, LoopStep
<1> QED
    BY <1>1, LifeInvariant, PTL DEF Spec, NoLateSession
=============================================================================
