------------------------------ MODULE Version ------------------------------
(***************************************************************************)
(* Hybrid logical clock timestamps and row versions (internal/clock,       *)
(* internal/conflict), and every place that computes one: the Go clock,    *)
(* the SQL of the triggers and the SQL that persists the clock.            *)
(***************************************************************************)
EXTENDS Integers

\* A timestamp: wall-clock milliseconds and a counter within one.
HLC == [p : Nat, l : Nat]
ZeroHLC == [p |-> 0, l |-> 0]

After(a, b) == a.p > b.p \/ (a.p = b.p /\ a.l > b.l)

\* The version of a write: its timestamp, the node it comes from and its
\* sequence there.  Node identifiers compare like the numbers here.
Version == [hlc : HLC, origin : Nat, seq : Nat]

MutantWins(a, b) ==      \* no tie-break between origins
    After(a.hlc, b.hlc)
Wins(a, b) ==
    \/ After(a.hlc, b.hlc)
    \/ a.hlc = b.hlc /\ a.origin > b.origin
    \/ a.hlc = b.hlc /\ a.origin = b.origin /\ a.seq > b.seq

\* Clock.Update: observe a remote timestamp.
Update(c, remote, wall) ==
    IF wall > c.p /\ wall > remote.p THEN [p |-> wall, l |-> 0]
    ELSE IF c.p > remote.p THEN [c EXCEPT !.l = @ + 1]
    ELSE IF remote.p > c.p THEN [remote EXCEPT !.l = @ + 1]
    ELSE [c EXCEPT !.l = (IF remote.l > @ THEN remote.l ELSE @) + 1]

\* Clock.Restore.
Restore(c, h) == IF After(h, c) THEN h ELSE c

\* The UPDATE of SaveHLC on the stored clock: when the physical part advances
\* the logical part starts at 0, whatever h has there.
MutantSaveHLC(stored, h) ==    \* the physical part is left as it was
    IF h.p >= stored.p THEN [stored EXCEPT !.l = IF h.l > @ THEN h.l ELSE @] ELSE stored
SaveHLC(stored, h) ==
    IF h.p > stored.p THEN [p |-> h.p, l |-> 0]
    ELSE IF h.p = stored.p THEN [stored EXCEPT !.l = IF h.l > @ THEN h.l ELSE @]
    ELSE stored

\* The trigger's timestamp, from the stored clock it has read.
MutantStamp(read, now) ==    \* resets the counter within the same millisecond
    IF read.p > now THEN [read EXCEPT !.l = @ + 1] ELSE [p |-> now, l |-> 0]
Stamp(read, now) ==
    IF read.p >= now THEN [read EXCEPT !.l = @ + 1] ELSE [p |-> now, l |-> 0]
=============================================================================
