------------------------------- MODULE Clock -------------------------------
(***************************************************************************)
(* The clock of one node: the row of replication_local_state that the      *)
(* triggers stamp local writes from, and the in-memory Clock that applied  *)
(* events advance and that the apply transaction persists (SaveHLC).       *)
(*                                                                         *)
(* A trigger reads the stored clock with a plain SELECT, a consistent read *)
(* that takes no lock, and writes it back with an UPDATE of the same       *)
(* transaction: the two are separate steps here.                           *)
(***************************************************************************)
EXTENDS Version, Sequences

CONSTANTS
    Conn,        \* the connections the application writes on
    Remote,      \* the timestamps of the remote events that arrive
    MaxWall,     \* bound: the wall clock shows 0 .. MaxWall
    MaxSeq,      \* bound: local writes
    MaxRollback  \* bound: apply transactions that roll back

ASSUME RemoteAssumption == Remote \subseteq HLC
ASSUME BoundAssumption ==
    MaxWall \in Nat /\ MaxSeq \in Nat /\ MaxRollback \in Nat

VARIABLES
    stored,    \* hlc_physical and hlc_logical of replication_local_state
    mem,       \* the in-memory Clock
    stamps,    \* stamps[s]: the local event with sequence s
    observed,  \* the timestamps of the remote events that have committed
    known,     \* history: those the stored clock has taken in and not lost since
    trig,      \* trig[c]: the trigger in progress on connection c
    rollbacks

vars == <<stored, mem, stamps, observed, known, trig, rollbacks>>

\* A local event: its timestamp and, as history, how many local events had
\* committed and which remote timestamps were known at its trigger's SELECT.
LocalEvent == [hlc : HLC, seen : Nat, past : SUBSET Remote]

Quiet == [on |-> FALSE, read |-> ZeroHLC, now |-> 0, seen |-> 0, past |-> {}]

Init ==
    /\ stored = ZeroHLC
    /\ mem = ZeroHLC
    /\ stamps = <<>>
    /\ observed = {}
    /\ known = {}
    /\ trig = [c \in Conn |-> Quiet]
    /\ rollbacks = 0

\* The trigger body up to its SELECT.  now is what the wall clock shows, which
\* may be set back at any time.
ReadClock(c, now) ==
    /\ ~trig[c].on /\ Len(stamps) < MaxSeq
    /\ trig' = [trig EXCEPT ![c] = [on |-> TRUE, read |-> stored, now |-> now,
                                    seen |-> Len(stamps), past |-> known]]
    /\ UNCHANGED <<stored, mem, stamps, observed, known, rollbacks>>

\* Its UPDATE, the INSERT of the log row, and the commit.  The row lock makes
\* the sequence numbers follow the order of these steps.  The UPDATE overwrites
\* what others have stored since the SELECT.
WriteClock(c) ==
    LET stamp == Stamp(trig[c].read, trig[c].now)
    IN  /\ trig[c].on /\ Len(stamps) < MaxSeq
        /\ stored' = stamp
        /\ stamps' = Append(stamps, [hlc |-> stamp, seen |-> trig[c].seen,
                                     past |-> trig[c].past])
        /\ known' = trig[c].past
        /\ trig' = [trig EXCEPT ![c] = Quiet]
        /\ UNCHANGED <<mem, observed, rollbacks>>

\* The in-memory clock has become m, and the transaction that brought the
\* remote timestamp h saves it.
Commit(h, m) ==
    /\ h \notin observed
    /\ mem' = m
    /\ stored' = SaveHLC(stored, m)
    /\ observed' = observed \cup {h}
    /\ known' = known \cup {h}
    /\ UNCHANGED <<stamps, trig, rollbacks>>

\* ApplyBatch: the clock observes the event.
Apply(h, now) == Commit(h, Update(mem, h, now))

\* finish: h is the newest version or tombstone of a seed.
FinishSeed(h) == Commit(h, Restore(mem, h))

\* The transaction rolls back; the in-memory clock does not.
RollbackApply(h, now) ==
    /\ rollbacks < MaxRollback
    /\ rollbacks' = rollbacks + 1
    /\ mem' = Update(mem, h, now)
    /\ UNCHANGED <<stored, stamps, observed, known, trig>>

\* The process starts again: Restore on a new Clock.  The connections of the
\* application to the database are its own and survive.
Restart ==
    /\ mem' = Restore(ZeroHLC, stored)
    /\ UNCHANGED <<stored, stamps, observed, known, trig, rollbacks>>

Next ==
    \/ Restart
    \/ \E c \in Conn : WriteClock(c) \/ \E now \in 0 .. MaxWall : ReadClock(c, now)
    \/ \E h \in Remote :
          FinishSeed(h) \/ \E now \in 0 .. MaxWall : Apply(h, now) \/ RollbackApply(h, now)

Spec == Init /\ [][Next]_vars

-----------------------------------------------------------------------------
(* Properties.                                                             *)

\* Every variable keeps to the shape of the column or field it models.
TypeOK ==
    /\ stored \in HLC /\ mem \in HLC
    /\ stamps \in Seq(LocalEvent)
    /\ observed \subseteq Remote /\ known \subseteq Remote
    /\ trig \in [Conn -> [on : BOOLEAN, read : HLC, now : 0 .. MaxWall,
                          seen : Nat, past : SUBSET Remote]]
    /\ rollbacks \in 0 .. MaxRollback

\* A local write is newer than the last one that had committed when its trigger
\* read the clock (allocSequenceSQL), on whatever connections the two ran,
\* although triggers that overlap overwrite each other's clock, the wall clock
\* is set back, remote events move the stored clock between a trigger's read
\* and its write, and the process restarts.
StampsIncrease ==
    \A j \in 1 .. Len(stamps) :
        LET i == stamps[j].seen
        IN  i = 0 \/ (i \in 1 .. j - 1 /\ After(stamps[j].hlc, stamps[i].hlc))

\* A local write is stamped in no earlier millisecond than any remote event that
\* had committed when its trigger read the clock, unless an overlapping trigger
\* has overwritten the clock since (SaveHLC, allocSequenceSQL).  The counter
\* within the millisecond is not kept.
CausalMillisecond ==
    \A j \in 1 .. Len(stamps) : \A h \in stamps[j].past : stamps[j].hlc.p >= h.p

\* What the two rest on: the stored clock is neither older than the last local
\* event nor behind a known remote one, and the same held of a trigger's reading
\* of it at the time (ReadClock, SaveHLC).
AtLeast(a, b) == ~After(b, a)
UpTo(h, s, K) ==
    /\ s = 0 \/ (s \in 1 .. Len(stamps) /\ AtLeast(h, stamps[s].hlc))
    /\ \A k \in K : h.p >= k.p
ClockInv ==
    /\ TypeOK /\ StampsIncrease /\ CausalMillisecond
    /\ UpTo(stored, Len(stamps), known)
    /\ \A c \in Conn : trig[c].on => UpTo(trig[c].read, trig[c].seen, trig[c].past)
=============================================================================
