---------------------------- MODULE ClockProofs ----------------------------
(***************************************************************************)
(* Facts about timestamps, and what the timestamps of local writes keep of *)
(* the order of events, on any number of connections.                      *)
(***************************************************************************)
EXTENDS Clock, SequenceTheorems, TLAPS

\* After is a strict total order on timestamps.
LEMMA AfterOrder ==
    /\ \A a, b \in HLC : a = b \/ After(a, b) \/ After(b, a)
    /\ \A a, b \in HLC : After(a, b) => ~After(b, a)
    /\ \A a, b, c \in HLC : AtLeast(a, b) /\ AtLeast(b, c) => AtLeast(a, c)
    /\ \A a, b, c \in HLC : After(a, b) /\ AtLeast(b, c) => After(a, c)
BY DEF After, AtLeast, HLC

\* A trigger's timestamp is newer than the clock it has read.
LEMMA StampNewer ==
    ASSUME NEW read \in HLC, NEW now \in Nat
    PROVE  /\ Stamp(read, now) \in HLC /\ After(Stamp(read, now), read)
           /\ Stamp(read, now).p >= read.p
BY DEF Stamp, HLC, After

\* Clock.Update leaves the clock newer than both itself and the observed
\* timestamp: what SaveHLC then does not keep.
LEMMA UpdateNewer ==
    ASSUME NEW c \in HLC, NEW h \in HLC, NEW now \in Nat
    PROVE  /\ Update(c, h, now) \in HLC
           /\ After(Update(c, h, now), c) /\ After(Update(c, h, now), h)
BY DEF Update, HLC, After

\* SaveHLC never moves the stored clock back, and reaches the millisecond of
\* what it saves.
LEMMA SaveForward ==
    ASSUME NEW s \in HLC, NEW h \in HLC
    PROVE  /\ SaveHLC(s, h) \in HLC /\ AtLeast(SaveHLC(s, h), s)
           /\ SaveHLC(s, h).p >= s.p /\ SaveHLC(s, h).p >= h.p
BY DEF SaveHLC, HLC, After, AtLeast

\* Clock.Restore never moves the in-memory clock back and reaches what it is given.
LEMMA RestoreForward ==
    ASSUME NEW c \in HLC, NEW h \in HLC
    PROVE  /\ Restore(c, h) \in HLC /\ Restore(c, h).p >= h.p
           /\ AtLeast(Restore(c, h), h)
BY DEF Restore, HLC, After, AtLeast

LEMMA ClockInit == Init => ClockInv
<1> SUFFICES ASSUME Init PROVE ClockInv
    OBVIOUS
<1>1. ZeroHLC \in HLC /\ Len(stamps) = 0
    BY DEF Init, ZeroHLC, HLC
<1>2. Quiet \in [on : BOOLEAN, read : HLC, now : 0 .. MaxWall, seen : Nat, past : SUBSET Remote]
    BY <1>1, BoundAssumption DEF Quiet
<1>3. TypeOK
    BY <1>1, <1>2, BoundAssumption DEF Init, TypeOK
<1>4. \A c \in Conn : ~trig[c].on
    BY DEF Init, Quiet
<1> QED
    BY <1>1, <1>3, <1>4 DEF Init, ClockInv, StampsIncrease, CausalMillisecond, UpTo

\* A transaction that saves the clock m for the remote timestamp h.
LEMMA CommitStep ==
    ASSUME ClockInv, NEW h \in Remote, NEW m \in HLC, m.p >= h.p, Commit(h, m)
    PROVE  ClockInv'
<1>1. TypeOK /\ stored \in HLC /\ stamps \in Seq(LocalEvent) /\ h \in HLC
    BY RemoteAssumption DEF ClockInv, TypeOK
<1>2. stored' \in HLC /\ AtLeast(stored', stored) /\ stored'.p >= stored.p /\ stored'.p >= m.p
    BY <1>1, SaveForward DEF Commit
<1>3. TypeOK'
    BY <1>1, <1>2 DEF TypeOK, Commit
<1>4. Len(stamps) \in 1 .. Len(stamps) => stamps[Len(stamps)].hlc \in HLC
    <2>1. Len(stamps) \in 1 .. Len(stamps) => stamps[Len(stamps)] \in LocalEvent
        BY <1>1
    <2>2. \A x \in LocalEvent : x.hlc \in HLC
        BY DEF LocalEvent
    <2> QED
        BY <2>1, <2>2
<1>5. AtLeast(stored, stamps[Len(stamps)].hlc) /\ Len(stamps) \in 1 .. Len(stamps)
      => AtLeast(stored', stamps[Len(stamps)].hlc)
    BY <1>1, <1>2, <1>4, AfterOrder
<1>6. \A k \in known \cup {h} : stored'.p >= k.p
    <2>1. \A k \in known \cup {h} : k \in HLC /\ k.p \in Nat
        BY <1>1, RemoteAssumption DEF TypeOK, HLC
    <2>2. stored'.p \in Nat /\ stored.p \in Nat /\ m.p \in Nat
        BY <1>1, <1>2 DEF HLC
    <2> QED
        BY <1>2, <2>1, <2>2 DEF ClockInv, UpTo
<1>7. stamps' = stamps /\ trig' = trig /\ known' = known \cup {h}
    BY DEF Commit
<1>8. UpTo(stored, Len(stamps), known)'
    BY <1>5, <1>6, <1>7 DEF ClockInv, UpTo
<1> QED
    BY <1>3, <1>7, <1>8 DEF ClockInv, StampsIncrease, CausalMillisecond, UpTo

LEMMA WriteStep ==
    ASSUME ClockInv, NEW c \in Conn, WriteClock(c)
    PROVE  ClockInv'
<1> DEFINE t == trig[c]
           stamp == Stamp(t.read, t.now)
           e == [hlc |-> stamp, seen |-> t.seen, past |-> t.past]
           n == Len(stamps)
<1>1. /\ TypeOK /\ stamps \in Seq(LocalEvent) /\ n \in Nat
      /\ t.on /\ t.read \in HLC /\ t.now \in Nat /\ t.seen \in Nat /\ t.past \subseteq Remote
    BY BoundAssumption DEF ClockInv, TypeOK, WriteClock
<1>2. stamp \in HLC /\ After(stamp, t.read) /\ stamp.p >= t.read.p
    BY <1>1, StampNewer
<1>3. UpTo(t.read, t.seen, t.past)
    BY <1>1 DEF ClockInv
<1>4. /\ stored' = stamp /\ stamps' = Append(stamps, e) /\ known' = t.past
      /\ trig' = [trig EXCEPT ![c] = Quiet]
      /\ UNCHANGED <<mem, observed, rollbacks>>
    BY DEF WriteClock
<1> HIDE DEF stamp
<1>5. e \in LocalEvent /\ e.hlc = stamp /\ e.seen = t.seen /\ e.past = t.past
    BY <1>1, <1>2 DEF LocalEvent
<1>6. /\ stamps' \in Seq(LocalEvent) /\ Len(stamps') = n + 1
      /\ \A i \in 1 .. n : stamps'[i] = stamps[i]
      /\ stamps'[n + 1] = e
    BY <1>1, <1>4, <1>5, AppendProperties
<1>7. \A i \in 1 .. n : stamps[i] \in LocalEvent /\ stamps[i].hlc \in HLC
    <2>1. \A i \in 1 .. n : stamps[i] \in LocalEvent
        BY <1>1
    <2>2. \A x \in LocalEvent : x.hlc \in HLC
        BY DEF LocalEvent
    <2> QED
        BY <2>1, <2>2
<1> HIDE DEF e, n
<1>8. t.seen = 0 \/ (t.seen \in 1 .. n /\ After(stamp, stamps[t.seen].hlc))
    <2>1. t.seen = 0 \/ (t.seen \in 1 .. n /\ AtLeast(t.read, stamps[t.seen].hlc))
        BY <1>3 DEF UpTo, n
    <2> QED
        BY <1>1, <1>2, <1>7, <2>1, AfterOrder
<1>9. \A k \in t.past : stamp.p >= k.p
    <2>1. \A k \in t.past : k.p \in Nat /\ t.read.p >= k.p
        BY <1>1, <1>3, RemoteAssumption DEF UpTo, HLC
    <2>2. stamp.p \in Nat /\ t.read.p \in Nat
        BY <1>1, <1>2 DEF HLC
    <2> QED
        BY <1>2, <2>1, <2>2
<1>10. \A j \in 1 .. n + 1 : j \in 1 .. n \/ j = n + 1
    BY <1>1
<1>11. StampsIncrease'
    <2> SUFFICES ASSUME NEW j \in 1 .. n + 1
                 PROVE  \/ stamps'[j].seen = 0
                        \/ /\ stamps'[j].seen \in 1 .. j - 1
                           /\ After(stamps'[j].hlc, stamps'[stamps'[j].seen].hlc)
        BY <1>6 DEF StampsIncrease
    <2>1. CASE j \in 1 .. n
        <3>1. \/ stamps[j].seen = 0
              \/ stamps[j].seen \in 1 .. j - 1 /\ After(stamps[j].hlc, stamps[stamps[j].seen].hlc)
            BY <2>1 DEF ClockInv, StampsIncrease, n
        <3>2. stamps[j].seen \in 1 .. j - 1 => stamps[j].seen \in 1 .. n
            BY <1>1, <2>1
        <3> QED
            BY <1>6, <2>1, <3>1, <3>2
    <2>2. CASE j = n + 1
        <3>1. stamps'[j] = e /\ j - 1 = n
            BY <1>1, <1>6, <2>2
        <3> QED
            BY <1>5, <1>6, <1>8, <3>1
    <2> QED
        BY <1>10, <2>1, <2>2
<1>12. CausalMillisecond'
    <2> SUFFICES ASSUME NEW j \in 1 .. n + 1
                 PROVE  \A h \in stamps'[j].past : stamps'[j].hlc.p >= h.p
        BY <1>6 DEF CausalMillisecond
    <2>1. CASE j \in 1 .. n
        BY <1>6, <2>1 DEF ClockInv, CausalMillisecond, n
    <2>2. CASE j = n + 1
        BY <1>5, <1>6, <1>9, <2>2
    <2> QED
        BY <1>10, <2>1, <2>2
<1>13. UpTo(stored, Len(stamps), known)'
    <2>1. AtLeast(stamp, stamp)
        BY <1>2, AfterOrder DEF AtLeast
    <2>2. n + 1 \in 1 .. n + 1
        BY <1>1
    <2> QED
        BY <1>4, <1>5, <1>6, <1>9, <2>1, <2>2 DEF UpTo
<1>14. ASSUME NEW d \in Conn, trig'[d].on
       PROVE  UpTo(trig[d].read, trig[d].seen, trig[d].past)'
    <2>1. Quiet.on = FALSE
        BY DEF Quiet
    <2>2. d # c /\ trig'[d] = trig[d]
        BY <1>1, <1>4, <1>14, <2>1 DEF TypeOK
    <2>3. UpTo(trig[d].read, trig[d].seen, trig[d].past)
        BY <1>14, <2>2 DEF ClockInv
    <2>4. trig[d].seen \in 1 .. n => trig[d].seen \in 1 .. n + 1
        BY <1>1
    <2> QED
        BY <1>6, <2>2, <2>3, <2>4 DEF UpTo, n
<1>15. TypeOK'
    <2>1. Quiet \in [on : BOOLEAN, read : HLC, now : 0 .. MaxWall, seen : Nat, past : SUBSET Remote]
        BY BoundAssumption DEF Quiet, ZeroHLC, HLC
    <2> QED
        BY <1>1, <1>2, <1>4, <1>6, <2>1 DEF TypeOK
<1> QED
    BY <1>11, <1>12, <1>13, <1>14, <1>15 DEF ClockInv

LEMMA ClockStep ==
    ASSUME ClockInv, [Next]_vars
    PROVE  ClockInv'
<1>1. TypeOK /\ stored \in HLC /\ mem \in HLC /\ Remote \subseteq HLC
      /\ stamps \in Seq(LocalEvent) /\ known \subseteq Remote
    BY RemoteAssumption DEF ClockInv, TypeOK
<1>2. \A now \in 0 .. MaxWall : now \in Nat
    BY BoundAssumption
<1>3. ASSUME NEW c \in Conn, NEW now \in 0 .. MaxWall, ReadClock(c, now) PROVE ClockInv'
    <2>1. TypeOK'
        BY <1>1, <1>3 DEF TypeOK, ReadClock
    <2>2. stamps' = stamps /\ stored' = stored /\ known' = known
        BY <1>3 DEF ReadClock
    <2>3. ASSUME NEW d \in Conn, trig'[d].on
          PROVE  UpTo(trig[d].read, trig[d].seen, trig[d].past)'
        <3>1. CASE d = c
            <4>1. trig'[d].read = stored /\ trig'[d].seen = Len(stamps) /\ trig'[d].past = known
                BY <1>1, <1>3, <3>1 DEF ReadClock, TypeOK
            <4> QED
                BY <2>2, <4>1 DEF ClockInv, UpTo
        <3>2. CASE d # c
            <4>1. trig'[d] = trig[d]
                BY <1>1, <1>3, <3>2 DEF ReadClock, TypeOK
            <4> QED
                BY <2>2, <2>3, <4>1 DEF ClockInv, UpTo
        <3> QED
            BY <3>1, <3>2
    <2> QED
        BY <2>1, <2>2, <2>3 DEF ClockInv, StampsIncrease, CausalMillisecond, UpTo
<1>4. ASSUME NEW c \in Conn, WriteClock(c) PROVE ClockInv'
    BY <1>4, WriteStep
<1>5. ASSUME NEW h \in Remote, NEW now \in 0 .. MaxWall, Apply(h, now) PROVE ClockInv'
    <2>1. Update(mem, h, now) \in HLC /\ After(Update(mem, h, now), h) /\ h \in HLC
        BY <1>1, <1>2, UpdateNewer
    <2>2. Update(mem, h, now).p >= h.p
        BY <2>1 DEF After, HLC
    <2> QED
        BY <1>5, <2>1, <2>2, CommitStep DEF Apply
<1>6. ASSUME NEW h \in Remote, FinishSeed(h) PROVE ClockInv'
    BY <1>1, <1>6, RestoreForward, CommitStep DEF FinishSeed
<1>7. ASSUME mem' \in HLC, rollbacks' \in 0 .. MaxRollback,
             UNCHANGED <<stored, stamps, observed, known, trig>>
      PROVE  ClockInv'
    <2>1. TypeOK'
        BY <1>1, <1>7 DEF TypeOK
    <2> QED
        BY <1>7, <2>1 DEF ClockInv, StampsIncrease, CausalMillisecond, UpTo
<1>8. ASSUME NEW h \in Remote, NEW now \in 0 .. MaxWall, RollbackApply(h, now) PROVE ClockInv'
    <2>1. mem' \in HLC
        BY <1>1, <1>2, <1>8, UpdateNewer DEF RollbackApply
    <2>2. rollbacks' \in 0 .. MaxRollback
        BY <1>1, <1>8, BoundAssumption DEF TypeOK, RollbackApply
    <2> QED
        BY <1>7, <1>8, <2>1, <2>2 DEF RollbackApply
<1>9. CASE Restart
    <2>1. mem' \in HLC
        BY <1>1, <1>9 DEF Restart, Restore, ZeroHLC, HLC
    <2> QED
        BY <1>1, <1>7, <1>9, <2>1 DEF Restart, TypeOK
<1>10. CASE UNCHANGED vars
    BY <1>1, <1>7, <1>10 DEF vars, TypeOK
<1> QED
    BY <1>3, <1>4, <1>5, <1>6, <1>8, <1>9, <1>10 DEF Next

\* On any number of connections, neither the stored clock nor what an open
\* trigger has read of it is behind what was committed at the time, whatever
\* overlapping triggers, remote events, seeds and restarts do (allocSequenceSQL,
\* SaveHLC).
THEOREM ClockInvariant == Spec => []ClockInv
<1>1. Init => ClockInv
    BY ClockInit
<1>2. ClockInv /\ [Next]_vars => ClockInv'
    BY ClockStep
<1> QED
    BY <1>1, <1>2, PTL DEF Spec

\* A local write is newer than the last one committed before its trigger began,
\* on whatever connections (allocSequenceSQL).
THEOREM LocalOrder == Spec => []StampsIncrease
<1>1. ClockInv => StampsIncrease
    BY DEF ClockInv
<1> QED
    BY <1>1, ClockInvariant, PTL

\* A local write is stamped in no earlier millisecond than a remote event the
\* stored clock knew of when its trigger began (SaveHLC, finish).
THEOREM RemoteOrder == Spec => []CausalMillisecond
<1>1. ClockInv => CausalMillisecond
    BY DEF ClockInv
<1> QED
    BY <1>1, ClockInvariant, PTL
============================================================================
