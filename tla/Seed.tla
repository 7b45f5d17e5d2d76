-------------------------------- MODULE Seed --------------------------------
(***************************************************************************)
(* Seeding a joining node (replication.BeginSeed and Join, seed.Source,    *)
(* seed.Target): a consistent snapshot of the source is streamed in chunks *)
(* into the joiner, whose sync loop and broadcast handlers run all the     *)
(* while.  Retention pins and collection are in module Pins.               *)
(*                                                                         *)
(* A row has one replicated column.  Its value, its field version and its  *)
(* tombstone are the timestamps of the events they come from, None where   *)
(* there is none.  The events are numbered in the order they are written   *)
(* and the number stands for the HLC, as if all clocks agreed; the clocks  *)
(* themselves are in module Clock.  Apply transactions take one event and  *)
(* one step; batches are in Mesh and overlapping transactions in Replica.  *)
(***************************************************************************)
EXTENDS Naturals, Sequences, FiniteSets, FiniteSetsExt, Functions

CONSTANTS
    Source,     \* the node that serves the seed
    Remote,     \* the other writing nodes; the joiner writes nothing
    Writers,    \* the nodes whose application writes and deletes
    Tables,     \* the registered tables in order, each its row ids in order
    MaxEvents,  \* bound: events written on all nodes together
    MaxTries,   \* bound: calls of BeginSeed that pass requireEmpty
    MaxFaults   \* bound: streams that break

Row == UNION {Range(Tables[t]) : t \in DOMAIN Tables}
Origin == Remote \cup {Source}
None == 0
Stamps == 1 .. MaxEvents

ASSUME SeedAssumption ==
    /\ Source \notin Remote /\ Writers \subseteq Origin
    /\ MaxEvents \in Nat /\ MaxTries \in Nat /\ MaxFaults \in Nat
ASSUME TablesAssumption == Len(Tables) \in Nat /\ DOMAIN Tables = 1 .. Len(Tables)

VARIABLES
    events,   \* events[i]: what was written with timestamp i
    src,      \* the tables of the source
    dst,      \* the tables of the joiner
    load,     \* the call of BeginSeed in progress at the joiner
    base,     \* history: the events inside the snapshots loaded completely
    whole,    \* history: the latest snapshot was loaded to the end and nothing was
              \* applied meanwhile
    active,   \* the joiner is ACTIVE
    tries, faults

vars == <<events, src, dst, load, base, whole, active, tries, faults>>

\* The business rows, field versions and tombstones, the replication_log rows
\* (by timestamp) and the progress rows of a node.
Empty == [val |-> [r \in Row |-> None], fv |-> [r \in Row |-> None],
          tomb |-> [r \in Row |-> None], log |-> {}, cursor |-> [o \in Origin |-> 0]]

\* A call of BeginSeed: the snapshot that is streamed and the chunks to come.
NoLoad == [pc |-> "idle", snap |-> Empty, todo |-> {}]

Init ==
    /\ events = <<>>
    /\ src = Empty
    /\ dst = Empty
    /\ load = NoLoad
    /\ base = {}
    /\ whole = FALSE
    /\ active = FALSE
    /\ tries = 0
    /\ faults = 0

-----------------------------------------------------------------------------
(* Writes and deliveries.                                                  *)

Of(o) == {i \in DOMAIN events : events[i].origin = o}
OriginSeq(i) == events[i].seq

\* The cursor of an origin over the log, from where it stands to the first gap.
Advance(log, o, cursor) ==
    Max({k \in cursor .. Cardinality(Of(o)) :
            \A s \in cursor + 1 .. k : \E i \in log \cap Of(o) : OriginSeq(i) = s})

\* A trigger logs a write of the row or, with del, its deletion.  At the source
\* the row changes as well; triggers store no field version and no tombstone.
Write(n, r, del) ==
    LET i == Len(events) + 1
    IN  /\ i <= MaxEvents
        /\ del => IF n = Source THEN src.val[r] # None
                  ELSE \E j \in DOMAIN events : events[j].row = r
        /\ events' = Append(events, [origin |-> n, row |-> r, del |-> del,
                                     seq |-> Cardinality(Of(n)) + 1])
        /\ src' = IF n # Source THEN src
                  ELSE [src EXCEPT !.val[r] = IF del THEN None ELSE i,
                                   !.log = @ \cup {i}, !.cursor[n] = @ + 1]
        /\ UNCHANGED <<dst, load, base, whole, active, tries, faults>>

\* applyRow on the tables d of a node.
Resolve(d, i) ==
    LET r == events[i].row
    IN  IF i <= d.tomb[r] \/ (~events[i].del /\ i <= d.fv[r]) THEN d
        ELSE IF events[i].del THEN [d EXCEPT !.val[r] = None, !.tomb[r] = i]
        ELSE [d EXCEPT !.val[r] = i, !.fv[r] = i, !.tomb[r] = None]

ApplyEvent(d, i) ==
    LET o == events[i].origin
    IN  [Resolve(d, i) EXCEPT
            !.log = @ \cup {i}, !.cursor[o] = Advance(d.log \cup {i}, o, @)]

SourceApply(i) ==
    /\ i \notin src.log
    /\ src' = ApplyEvent(src, i)
    /\ UNCHANGED <<events, dst, load, base, whole, active, tries, faults>>

\* A session or a broadcast brings an event to the joiner.  It is a duplicate
\* only when the log has it: seeded history is not in the log.
JoinerApply(i) ==
    /\ i \notin dst.log
    /\ dst' = ApplyEvent(dst, i)
    /\ UNCHANGED <<events, src, load, base, whole, active, tries, faults>>

-----------------------------------------------------------------------------
(* The stream: per table its rows, field versions and tombstones, in       *)
(* chunks of one.  An item is known by its place: the table, the section   *)
(* and the index of the row.                                               *)

RowSection == 1
VersionSection == 2
TombstoneSection == 3
Places == [t \in DOMAIN Tables |-> {t} \X (1 .. 3) \X DOMAIN Tables[t]]
RowAt(p) == Tables[p[1]][p[3]]
Column(d, section) ==
    CASE section = RowSection       -> d.val
      [] section = VersionSection   -> d.fv
      [] section = TombstoneSection -> d.tomb

Before(p, q) ==
    \/ p[1] < q[1]
    \/ p[1] = q[1] /\ (p[2] < q[2] \/ (p[2] = q[2] /\ p[3] < q[3]))

MutantTableItems(snap, t) ==      \* the versions do not travel
    {p \in Places[t] : p[2] # VersionSection /\ Column(snap, p[2])[RowAt(p)] # None}
MutantTombItems(snap, t) ==       \* the tombstones do not travel
    {p \in Places[t] : p[2] # TombstoneSection /\ Column(snap, p[2])[RowAt(p)] # None}
TableItems(snap, t) == {p \in Places[t] : Column(snap, p[2])[RowAt(p)] # None}
Stream(snap) == UNION {TableItems(snap, t) : t \in DOMAIN Tables}

\* The calls that feed a digest: the vector, a header per table, the items.
\* The source makes them in the order of their places; the target feeds every
\* header with SeedStart, before the first item.  Both feed the items in the
\* order of the stream, so a digest is what came before each of the other calls.
Marks == {<<0, 0, 0>>} \cup {<<t, 0, 0>> : t \in DOMAIN Tables}
Calls(snap) == Marks \cup Stream(snap)
AtTarget(c) == IF c[2] = 0 /\ c[1] # 0 THEN <<0, 1, c[1]>> ELSE c

SourceSum(snap) ==
    LET calls == Calls(snap) IN [m \in Marks |-> {c \in calls : Before(c, m)}]
MutantTargetSum(snap) ==          \* the target does not feed the vector
    LET calls == Calls(snap) \ {<<0, 0, 0>>}
    IN  [m \in Marks |-> {c \in calls : Before(AtTarget(c), AtTarget(m))}]
TargetSum(snap) ==
    LET calls == Calls(snap)
    IN  [m \in Marks |-> {c \in calls : Before(AtTarget(c), AtTarget(m))}]

-----------------------------------------------------------------------------
(* BeginSeed.                                                              *)

\* requireEmpty, and the request.  The progress rows are not looked at.
RequireEmpty == [dst EXCEPT !.cursor = Empty.cursor] = Empty

Loading == load.pc # "idle"

BeginSeed ==
    /\ ~Loading /\ ~active /\ tries < MaxTries
    /\ RequireEmpty
    /\ load' = [NoLoad EXCEPT !.pc = "request"]
    /\ whole' = FALSE
    /\ tries' = tries + 1
    /\ UNCHANGED <<events, src, dst, base, active, faults>>

\* The snapshot transaction sees one state of all tables, with the vector.
StartLoad(snap) ==
    /\ load.pc = "request"
    /\ load' = [pc |-> "load", snap |-> snap, todo |-> Stream(snap)]
    /\ UNCHANGED <<events, src, dst, base, whole, active, tries, faults>>

MutantPrepare ==            \* the vector counts events past a gap
    StartLoad([src EXCEPT !.cursor = [o \in Origin |->
        Max({0} \cup {OriginSeq(i) : i \in src.log \cap Of(o)})]])
Prepare == StartLoad(src)

\* A chunk is written as it comes, in a transaction of its own.
Loaded(d, snap, p) ==
    LET r == RowAt(p)
    IN  CASE p[2] = RowSection       -> [d EXCEPT !.val[r] = snap.val[r]]
          [] p[2] = VersionSection   -> [d EXCEPT !.fv[r] = snap.fv[r]]
          [] p[2] = TombstoneSection -> [d EXCEPT !.tomb[r] = snap.tomb[r]]

MutantLoadChunk ==          \* the chunk is read again
    /\ load.pc = "load"
    /\ \E p \in load.todo : dst' = Loaded(dst, load.snap, p)
    /\ UNCHANGED <<events, src, load, base, whole, active, tries, faults>>
LoadChunk ==
    /\ load.pc = "load"
    /\ \E p \in load.todo :
          /\ \A q \in load.todo \ {p} : Before(p, q)
          /\ dst' = Loaded(dst, load.snap, p)
          /\ load' = [load EXCEPT !.todo = @ \ {p}]
    /\ UNCHANGED <<events, src, base, whole, active, tries, faults>>

\* SeedEnd: the digests are compared, then one transaction stores the vector.
\* The clock it stores with it is FinishSeed in module Clock.
AtEnd == load.pc = "load" /\ load.todo = {}
Matches == SourceSum(load.snap) = TargetSum(load.snap)

Finish ==
    /\ AtEnd /\ load' = [load EXCEPT !.pc = "ack"]
    /\ Matches
    /\ dst' = [dst EXCEPT !.cursor =
                  [o \in Origin |-> Max({@[o], load.snap.cursor[o]})]]
    /\ base' = base \cup load.snap.log
    /\ whole' = (dst.log = {})
    /\ UNCHANGED <<events, src, active, tries, faults>>

\* The ACK is written, Fetch returns and Join activates the node.
Activate ==
    /\ load.pc = "ack"
    /\ load' = NoLoad
    /\ active' = TRUE
    /\ UNCHANGED <<events, src, dst, base, whole, tries, faults>>

\* Fetch returns an error and leaves what it has written.
Return ==
    /\ load' = NoLoad
    /\ UNCHANGED <<events, src, dst, base, whole, active, tries>>
Mismatch == AtEnd /\ Return /\ ~Matches /\ UNCHANGED faults
Break == Loading /\ faults < MaxFaults /\ faults' = faults + 1 /\ Return

-----------------------------------------------------------------------------
Fetch == Prepare \/ LoadChunk \/ Finish \/ Activate \/ Mismatch

Next ==
    \/ \E n \in Writers, r \in Row, del \in BOOLEAN : Write(n, r, del)
    \/ \E i \in DOMAIN events : SourceApply(i) \/ JoinerApply(i)
    \/ BeginSeed \/ Fetch \/ Break

Spec == Init /\ [][Next]_vars

\* The handler of the source and the call of the joiner run on.
FairSpec == Spec /\ WF_vars(Fetch)

-----------------------------------------------------------------------------
(* Properties.                                                             *)

\* What the joiner holds: the snapshots it has loaded and what it applied.
Reflected == base \cup dst.log
OfRow(r) == {i \in Reflected : events[i].row = r}

\* The vector the joiner advertises covers only events that it has applied or
\* that are inside a snapshot it has loaded to the end, although deliveries,
\* broken streams and retries fall anywhere in between (LocalVectorTx in the
\* snapshot, finish, AdvanceContiguous).
CursorTrue ==
    \A i \in DOMAIN events :
        OriginSeq(i) <= dst.cursor[events[i].origin] => i \in Reflected

\* "Field versions and tombstones travel with the rows so later deltas resolve
\* correctly against seeded state": a row that no delete has reached shows the
\* newest write the joiner holds, in whatever order older and newer deltas
\* follow the seed (streamVersions, applyRow).
Newest(r) ==
    (\A i \in OfRow(r) : ~events[i].del) => dst.val[r] = Max({None} \cup OfRow(r))
SeededNewest == active => \A r \in Row : Newest(r)

\* S has no write of row r by the application of the source: the triggers that
\* log one store no field version and no tombstone, so there is none to travel.
Foreign(r, S) == \A i \in S : events[i].row = r => events[i].origin # Source

\* The same as far as it holds: from the end of a load during which nothing was
\* applied, for the rows that the snapshot has from other nodes only, whoever
\* writes them later.
SeededNewestAlone ==
    whole => \A r \in Row : Foreign(r, base) => Newest(r)

\* Such a row stays away when its newest event is a delete: an older write that
\* follows the seed does not bring it back (streamTombstones, applyRow).
LastDeletes(r) == OfRow(r) # {} /\ events[Max(OfRow(r))].del
SeededDeleteSticks ==
    whole =>
        \A r \in Row : Foreign(r, base) /\ LastDeletes(r) => dst.val[r] = None

\* What they rest on.  The shape of the state, with the sequence numbers of an
\* origin counting its events.
Tabled ==
    [val : [Row -> 0 .. MaxEvents], fv : [Row -> 0 .. MaxEvents],
     tomb : [Row -> 0 .. MaxEvents], log : SUBSET Stamps, cursor : [Origin -> Nat]]
TypeOK ==
    /\ events \in Seq([origin : Origin, row : Row, del : BOOLEAN, seq : Nat])
    /\ Len(events) <= MaxEvents
    /\ src \in Tabled /\ dst \in Tabled
    /\ load \in [pc : {"idle", "request", "load", "ack"}, snap : Tabled,
                todo : SUBSET UNION Range(Places)]
    /\ base \subseteq Stamps
Numbered ==
    /\ \A i \in DOMAIN events : OriginSeq(i) \in 1 .. Cardinality(Of(events[i].origin))
    /\ \A i, j \in DOMAIN events :
          events[i].origin = events[j].origin /\ OriginSeq(i) = OriginSeq(j) => i = j
    /\ Of(Source) \subseteq src.log

\* The cursors of tables d cover only the events in S.
Covers(d, S) ==
    /\ S \subseteq DOMAIN events
    /\ \A o \in Origin : d.cursor[o] <= Cardinality(Of(o))
    /\ \A i \in DOMAIN events : OriginSeq(i) <= d.cursor[events[i].origin] => i \in S
CursorInv ==
    /\ TypeOK /\ Numbered
    /\ Covers(src, src.log) /\ Covers(load.snap, load.snap.log) /\ Covers(dst, Reflected)

\* The tables d tell of the events of row r in S: each is at or below the version
\* or the tombstone of the row, which are themselves events of the row, and the
\* row is there, with the value of its version, when it has no tombstone.
Wrote(S, r, i, del) == i \in S /\ events[i].row = r /\ events[i].del = del
TellsOf(r, d, S) ==
    /\ \A i \in S : events[i].row = r => i <= d.fv[r] \/ i <= d.tomb[r]
    /\ d.fv[r] = None \/ Wrote(S, r, d.fv[r], FALSE)
    /\ d.tomb[r] = None \/ Wrote(S, r, d.tomb[r], TRUE)
    /\ d.val[r] = IF d.tomb[r] = None THEN d.fv[r] ELSE None

\* They tell of every row that the source has not written in B.
Tells(d, S, B) == \A r \in Row : Foreign(r, B) => TellsOf(r, d, S)

\* Column c of the joiner has what the snapshot has, or its item is to come.
Arrives(c, from, section) ==
    \A r \in Row : \/ c[r] = from[r]
                   \/ c[r] = None /\ \E p \in load.todo : p[2] = section /\ RowAt(p) = r
LoadInv ==
    /\ load.pc \in {"request", "load"} => ~whole
    /\ load.pc = "request" /\ dst.log = {} =>
          \A r \in Row : dst.val[r] = None /\ dst.fv[r] = None /\ dst.tomb[r] = None
    /\ load.pc = "load" /\ dst.log = {} =>
          /\ Arrives(dst.val, load.snap.val, RowSection)
          /\ Arrives(dst.fv, load.snap.fv, VersionSection)
          /\ Arrives(dst.tomb, load.snap.tomb, TombstoneSection)

\* Snapshots only grow: a load that follows an earlier one, which requireEmpty
\* lets pass when it left no row, has everything the earlier one had.
Growing ==
    /\ base \subseteq src.log /\ load.snap.log \subseteq src.log
    /\ load.pc = "load" => base \subseteq load.snap.log
SeedInv ==
    /\ CursorInv /\ Growing
    /\ Tells(src, src.log, src.log) /\ Tells(load.snap, load.snap.log, load.snap.log)
    /\ LoadInv /\ (whole => Tells(dst, Reflected, base))

\* A call of BeginSeed returns, with or without an error: as long as the source
\* goes on, neither a chunk nor the digest nor the ACK leaves it waiting (Fetch).
SeedReturns == []<>~Loading

\* It returns with an ACTIVE node unless its stream breaks, as far as the digests
\* agree: the target feeds all table headers before any content, so they differ
\* as soon as a table other than the last one has any (Fetch, Stream, Checksum:
\* "must agree on Sum").
OnlyLast(snap) == \A t \in 1 .. Len(Tables) - 1 : TableItems(snap, t) = {}
Completes ==
    Loading /\ ~Loading' /\ OnlyLast(load.snap) => active' \/ faults' > faults
SeedActivates == [][Completes]_vars
=============================================================================
