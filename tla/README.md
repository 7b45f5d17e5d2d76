# mariamesh: TLA+ specification

mariamesh is an embeddable Go package for multi-primary replication between
MariaDB databases. Every node takes local writes, captured by triggers; nodes
exchange the missing history pairwise, resolve conflicts column by column,
gossip membership, seed new members and collect history that everybody has.
This directory holds TLA+ modules of that machinery, the TLC configurations that
check them on small instances, and TLAPS proofs of the main safety properties
for every value of the constants. `PROJECT.json` maps every definition to the
source lines it models and lists runs, mutants, findings, hazards and theorems.

## 1. The system

| component | state it keeps | operations | talks to |
|---|---|---|---|
| change capture (`internal/schema`) | `replication_local_state` (current sequence, stored clock), `replication_log` | insert, update and delete triggers | the application, inside its transaction |
| clock (`internal/clock`, `SaveHLC`) | in-memory hybrid logical clock; its stored copy | `Update`, `Restore`, `SaveHLC`; the triggers stamp from the stored copy | apply, triggers, seed |
| store (`internal/store`, `internal/changelog`) | log, progress rows, persisted gc watermark, field versions, tombstones, node table, bootstrap rows, metadata | `FetchRange`, `AdvanceContiguous`, `SetProgress`, `LocalVector`, `DeleteThrough`, `SetBootstrapVector` | everything below |
| apply (`internal/apply`, `internal/conflict`) | one transaction per batch | `ApplyBatch`, `applyRow` | store, clock |
| sync (`internal/sync`) | per session: vectors, pending events, three flags; per node: the broadcaster's cursor | `Session`, `sendRanges`, `HandleBroadcast`, `Collect` | peer over a stream, apply |
| gc (`internal/gc`) | none between cycles | `Watermarks`, `Run` | store, seed (pins) |
| membership (`internal/membership`) | node table, epoch in memory and in the database | `AddNode`, `RetireNode`, `Activate`, `Heartbeat`, `HandleHeartbeat` | peers over datagrams, gc (stale epoch), sync (`CheckPeer`) |
| seed (`internal/seed`) | bootstrap rows that pin gc; the call in progress | `Prepare`, `Stream` at the source; `Fetch` with `requireEmpty`, chunks, `finish` at the target | gc, apply, clock |
| lifecycle and loops (`replication.go`) | started, closed, context, wait group, peer table | `Start`, `Close`, `RemovePeer`, `Connect`, `BeginSeed`, the sync, broadcast, heartbeat and gc loops | all |
| transport (`internal/quic`) | cache of outgoing connections, listener, tracked inbound connections | `connect`, `reconnect`, `Drop`, `Close`; `Serve`, `drain` | peers |

A node runs its loops, its inbound handlers and the application concurrently
against one database. What is hard, and what correctness means there:

- *Overlapping transactions.* A session and a broadcast handler apply to the
  same node at once. Reads see the transaction's snapshot, writes meet the latest
  rows. The sync cursor must still only cover contiguous committed history.
- *Acknowledgement.* ACKs are sent after the commit; rollbacks, lost streams,
  crashes and half-recorded ACKs must never make a peer believe too much, as
  gc trusts what was recorded.
- *Termination.* The two halves of a session run one symmetric state machine;
  both must return, whatever ranges are empty, truncated or have holes.
- *Partial meshes and loss.* Everything written must reach every node.
- *Conflicts.* Writes and deletes of one row arrive in any order, repeatedly,
  next to local writes, and in transactions that overlap.
- *Clocks.* A local timestamp must be newer than earlier ones, although the
  wall clock is set back, triggers of several connections overlap and the stored
  clock is shared with apply.
- *Membership.* Merges, administrative transactions and the two copies of the
  epoch interleave; retirement must prevail.
- *Seeding against collection.* The history that follows a snapshot must survive
  until the joiner can ask for it, while gc runs, other seeds begin and end,
  statements fail and the process restarts; and cleanup must resume afterwards.
- *Seeding against deltas.* The joiner applies broadcasts and sync ranges while
  snapshot chunks overwrite its tables; what it advertises must be true.
- *Shutdown.* `Close` may meet `Start`, dials, reconnects, `RemovePeer` and
  handlers at any point; it must return, and leave nothing running.

## 2. The modules

| module | models | extends |
|---|---|---|
| `Store` | table contents and queries as operators, no state | |
| `Mesh` | local writes, sync sessions, broadcasts, the apply transaction at the level of events and cursors, collection, faults | `Store` |
| `ReplicatedLog` | abstract: each node holds a set of events, receives events somebody holds, learns of a peer's contiguous prefix | |
| `Pins` | the source side of seeding against collection on the same node | `Store` |
| `Seed` | one seed: snapshot, stream, load, digest, vector, retry, against running deltas and a source that writes | |
| `Version` | timestamps, versions and every computation on them | |
| `Clock` | one node's stored and in-memory clock | `Version` |
| `Replica` | one row on every node: triggers, field versions, tombstone, `applyRow` | `Version` |
| `Membership` | node tables, epochs, gossip and administration | |
| `Lifecycle` | one process: `Start`, `Close`, the loops, the listener and the connection cache | |
| `MCMesh`, `MCClock`, `MCReplica`, `MCMembership`, `MCSeed`, `MCLifecycle` | constants for TLC | the module they name |
| `StoreProofs`, `MeshProofs`, `PinsProofs`, `SeedProofs`, `ClockProofs`, `ReplicaProofs`, `MembershipProofs`, `LifecycleProofs` | theorems | the module they are about |

### Mesh

An event is `(origin, sequence)`; its contents are module `Replica`'s business.
`seq`, `log`, `progress` and `gcThrough` are the tables. `applied` is history:
the events whose effect has committed at a node, whether or not the log still
has the row. `ep[e]` is one half of a session: its `pc` names the statement the
goroutine of `Session` has reached, its other fields are that function's
locals. `chan` is a stream direction: first in first out, with room for
`ChanCap` messages, after which a write blocks, as QUIC flow control does.

- `Open`, `AnswerHello`, `ReadHello`, `SendNeed`: `syncWith`, `serveSync` and the
  head of `Session`. The vector in the HELLO is read once and may be stale.
- `ReadNeed`, `CheckRange`, `SendRange`, `EndSend`: `sendRanges`. One iteration of
  its inner loop is two steps, the two SELECTs of `FetchRange`: `CheckRange`
  compares with the persisted watermark and ends the session if the range is
  truncated; `SendRange` reads the rows, which may have been collected since,
  writes them, and sets `Complete` at the end of each range. The half reads
  nothing while it sends. (`Collect` also calls `FetchRange`, for events the node
  has just written itself; there the two are one step.)
- `ReadBatch`, `CommitBatch`, `SendAck`: the snapshot of `ApplyBatch`, its commit
  and the ACK. The committing transaction sees its snapshot plus the rows it
  inserted itself; a row that another transaction committed in between is a
  duplicate for `INSERT IGNORE` and stays invisible. `current_seq` is read from
  the snapshot or from the latest row, depending on whether `SaveHLC` changed the
  row, so both are possible.
- `ReadAck`: one statement per origin; the fault case stops half way, and the
  session goes on, as the code only logs the error.
- `CollectAnchor`, `Collect`, `HandleBroadcast`, `CommitBroadcast`: unacknowledged
  broadcasts to some of the peers, applied by a transaction of their own.
- `GCBegin`, `GCDelete`, `GCMark`: one cycle computes the watermarks once; per
  origin the DELETE and the upsert of the watermark are separate statements, and
  the second only happens when the DELETE removed less than its limit.
- `Fail`, `LoseBroadcast`, `Crash`: errors of a session, losses, restarts.

### Pins

The state is one source: its log, its own cursors, the persisted watermark, the
bootstrap rows of every session (`sess[s]`, with the handler's `pc`) and the
collection cycle in progress (`gc`). `CreateBootstrap`, `TakeSnapshot` and
`SetBootstrapVector` are `Prepare` under `seedMu`, `CompleteBootstrap` and
`AbortBootstrap` the ends of `Stream`, `LeaveBootstrap` the end whose UPDATE to
ABORTED fails because it runs under the cancelled context. A cycle reads the
progress rows (`GCBegin`), the pins (`GCReadPins`) and whether any session is
STARTED (`GCReadSeed`) in separate SELECTs, then deletes and marks. `seedMu` is not
a variable: `Unlocked` says that neither a `Prepare` nor a cycle is under way.
`Write` is the rest of the node: local writes, and apply transactions of one
event in any order, duplicates of collected events included. `deleted` is
history. The progress rows of other receivers are left out, as no node ever lists
another one as ACTIVE (`ActivationLocal` of `Membership`).

### Seed

`src` and `dst` are the tables of the source and of the joiner: the row, its
field version, its tombstone, the log and the cursors. Events are numbered in the
order they are written and the number stands for the timestamp. `BeginSeed` is
`requireEmpty` and the request, `Prepare` the snapshot transaction, `LoadChunk`
one chunk in its own transaction, `Finish` the comparison of the digests and the
transaction that stores the vector (the clock it stores with it is `FinishSeed`
of `Clock`), `Activate` the ACK and `Join`. `Mismatch` and `Break` are the
errors: what has been written stays. The joiner applies deltas at any time
(`JoinerApply`), and the source writes like any other node. `base` and `whole`
are history: what the snapshots loaded to the end contain, and whether the latest
load was undisturbed. The stream is the set of the items' places (table, section,
row), read from the least place up. The calls that feed a digest are the items,
which both sides feed in the order of the stream, a header per table and the
vector; a digest is what came before each of the latter, so `SourceSum =
TargetSum` says that both sides made the same calls in one order.

### Lifecycle

`start` is the statement `Start` has reached after it has released its lock,
`shut[a]` that of a shutdown (each caller of `Close`, and a failing `Start`), with
the fields it copied. `running` is the wait group. The loops are represented by
`serve`, `sync` (which starts workers nobody waits for) and `heartbeat` (which
calls the transport itself, as the broadcast loop does; the gc loop is like
`sync` without workers). `slot`, `slots` and `live` are the connection cache: the
map, the slots with their mutex, and the connections that are up; `call[u]` is a
call of `SendDatagram`, `SendUni` or `OpenBI`, with the one reconnect on failure.
`inb[c]` is an accepted connection with its readers and a stream handler. One
peer address is enough: slots of different addresses share nothing but the
map, which is only touched under its mutex.

### Clock and Replica

`Clock` separates a trigger's SELECT of the stored clock (`ReadClock`) from its
UPDATE (`WriteClock`), since the SELECT takes no lock: triggers of different
connections overlap. The wall clock shows anything at any step, transactions
roll back (the in-memory clock does not), a seed ends (`FinishSeed`), and the
process restarts. Every stamped event records, as history, how many local events
had committed and which remote timestamps were `known` when its trigger read the
clock; `known` are those the stored clock has taken in and that no overlapping
trigger has overwritten.

`Replica` follows one row: `Insert`, `UpdateRow` and `Delete` are the triggers,
which touch neither field versions nor tombstones; `BeginApply` and `CommitApply`
are an apply transaction with its snapshot. `Worker[n]` are the sessions and
broadcast handlers of a node, and their transactions overlap. `overlapped[n]` is
history: the events of those that did. A column's value is the version of the
write it comes from, so a row shows which write won. Any logged event may be
delivered to any node at any time, any number of times.

### Membership

`row[n][m]` is a row of `replication_node`, `memEpoch` and `dbEpoch` the two
copies of the epoch. `Begin`, `bumpEpoch`, `Commit`, `Rollback` are an
administrative transaction: it reads a snapshot, publishes the new epoch in
memory, and commits later. A heartbeat on a connection goes through `Heartbeat`
(rows are read), `SendBeat` (the epoch is read), `HandleHeartbeat` (the
compare-and-swap), `setEpoch` (the database write), and then `ReadMember` and
`WriteMember` for every record: `mergeMember` is a SELECT and a later write
without a transaction. There is one handler per connection, as `datagramLoop`
has it, and `Conn` may list several connections of a pair.

### Assumptions about the database

MariaDB at REPEATABLE READ with `innodb_snapshot_isolation` off (the default of
the versions the code targets): consistent reads see the first SELECT's
snapshot, writes see the latest committed rows. The SELECT in a trigger is a
consistent read, as it is with row-based or no binary logging.

## 3. The runs

Each run is `tlc -config <run>.cfg <module>`, with the module `PROJECT.json` names.

| run | expects | checks |
|---|---|---|
| `MeshFaults` | pass | `TypeOK`, `CursorSound`, `AckSound`, `SoundInv`, `CursorMonotone`, `ImplementsLog`, `Convergence` and `SessionsEnd` (liveness) |
| `MeshLine` | pass | `AckSound`, `CatchUp` and `SessionsEnd` (liveness) |
| `Pins` | pass | `TypeOK`, `PinInv`, `PinnedKept`, `MarkMonotone`, `CleanupResumes` (liveness) |
| `Seed` | pass | `CursorTrue`, `SeededNewestAlone`, `SeededDeleteSticks`, `SeedInv`, `SeedActivates`, `SeedReturns` (liveness) |
| `Lifecycle` | pass | `CloseComplete`, `NoneLost`, `LifeInv`, `NoLateSession`, `EventuallyQuiet` and `CloseReturns` (liveness) |
| `Clock` | pass | `StampsIncrease`, `CausalMillisecond`, `ClockInv` |
| `Replica` | pass | `NewestWins`, `DeletesStick`, `RowInv` |
| `Membership` | pass | `TypeOK`, `ActivationLocal`, `RetirementSticks`, `MemberInv`, `EpochsAgree` (liveness) |
| `MeshGCSafe` | violation | `GCSafe` |
| `SeedStale` | violation | `SeededNewest` |
| `ReplicaLocal` | violation | `AllConverge` |
| `MembershipRetire` | violation | `RetirementWins` |

*What the passing runs say, where it takes a careful reading.*

- `StampsIncrease`: a local write is newer than the last one that had committed
  when its trigger read the clock. It does not order writes whose triggers
  overlap (see below).
- `CausalMillisecond`: a local write is in no earlier millisecond than the remote
  and seeded events its node had taken in. Within the millisecond it may be
  older (see below).
- `NewestWins`, `DeletesStick`: on a node that only receives. The row shows an
  applied write at least as new as all those whose transaction overlapped with
  no other, and a newest delete applied without an overlap is not undone, in
  any order of delivery and whatever overlaps among the others. Of events that
  overlapped, the last to commit decides (see below).
- `RetirementSticks`: nothing undoes a retirement but a merge that had read the
  row before it; that exception (`StaleReader`) is real (see below).
- `CatchUp`: a node catches up with a peer on every origin, unless the peer has
  collected the next event it needs of that origin or of one that comes earlier
  in the Need. In `MeshLine` the peer collects, so both cases occur, and a
  session meets a truncated range, and a range whose rows are gone although the
  watermark it was compared with lets it pass.
- `EpochsAgree` has one connection each way: two heartbeats of one node that
  overtake each other are not in the run.
- `PinnedKept`: as long as a session is STARTED, nothing above a pin of it has been
  collected. An origin the session has no row for is not covered (see below).
- `CleanupResumes`: once the epoch is settled and the seeds are over, everything
  received without a gap is collected, *unless* a handler was cut off (`Stuck`):
  nothing ever ends a bootstrap row that its handler left STARTED.
- `CursorTrue`: the vector a joiner advertises covers only what it has applied or
  what is inside a snapshot it has loaded to the end, whatever was delivered
  during the load and however often it was retried.
- `SeededNewestAlone`, `SeededDeleteSticks`: the newest write shows and deletes
  stick after a load during which nothing was applied, for the rows that the
  snapshot has from other nodes than the source; later writes may be anybody's.
  `SeedStale` shows why the first condition is needed, the observations below
  why the second is.
- `SeedReturns`, `SeedActivates`: a call returns, and returns with an ACTIVE node
  unless the stream broke, if only the last registered table has content (see
  below).
- `CloseComplete`: excepts the connections of the application's own calls and those
  dialled into a slot that `RemovePeer` had just taken out of the map, and speaks
  of a `Close` called after `Start` had returned. `EventuallyQuiet` covers the rest.
- `NoLateSession`: after `Serve` has returned no session begins; one that had begun
  may go on.

*Bounds.* Two events of one origin are what a gap, an out-of-order broadcast and
a range of two batches need; `BatchMaxEvents` 1 makes every range several
batches, and `GCLimit` 1 in `Pins` every collection several cycles. One fault
suffices for each single point of failure, and the sound cursor after it is an
inductive invariant, proved for any number. `MeshLine` starts after node 3 has
written and node 2 has received everything (`AfterSync`, a state that `Mesh`
reaches in one session); node 3 is offline from then on, so its events reach node
1 through node 2 only. Node 2 writes itself, so a Need of node 1 has two ranges,
and collects with `GCLimit` 1, so the rows of a range go one by one and the
watermark follows later. `Pins` has two sessions, so that one begins, ends or is
left behind while the other holds a pin, and two origins, of which one may be
unknown to a session. `Seed` has the source and one other writer, two tables of
one row, three events (write, delete, and a write before or after them), two
calls of `BeginSeed` and one broken stream. `Lifecycle` has one worker, one
application call and the heartbeat loop as users of one address, two calls, two
successful dials, one inbound connection, and one event among a connecting peer,
`RemovePeer` and a dying connection: a dial, a reconnect and a drop overlap in
pairs, which is where the slot mutex and the two-step removals matter. `Replica`
has two writers, of which the second hears of the first, and one receiver with
two workers, two columns (interchangeable, as are the two workers, hence the
symmetry), one wall clock reading, so that timestamps advance by the counter and
tie between origins, and three writes, which are enough for write, delete and
write again from different origins. `ReplicaLocal` has two wall clock readings,
so that the clocks of the nodes differ. `Clock` has two connections, three wall
clock readings, three local writes and one rollback, with one remote timestamp
level with the wall clock and one ahead of it. `Membership` has two
administrative calls, so that a retirement meets a later epoch, and two
incarnations. A stream holds 8 messages; no run of the small instances sends more
in one direction before the other side reads.

*Fairness.* `Mesh` assumes weak fairness of `Open` per link (the ticker of
`syncLoop`) and of each half of a session (a goroutine whose next statement can
run runs it). Nothing is assumed of collection, broadcasts or faults.
`Membership` assumes weak fairness of each connection's heartbeat (the ticker of
`heartbeatLoop` and the handler's goroutine) and of an open transaction. `Pins`
assumes it of a handler that has begun (its stream ends by an ACK or an error)
and of the collection loop; nobody is bound to ask for a seed. `Seed` assumes it
of the call in progress. `Lifecycle` assumes it of the disjunction of all steps a
goroutine can take by itself: dials have a timeout and the bounds leave each
caller finitely many calls, so no goroutine can be overtaken for ever; peers, the
application and the caller of `Close` are under no obligation. Faults are bounded
by a constant, so "eventually" means after the faults have stopped.

*Deadlock* is checked where the system cannot stop. `Seed` and `Lifecycle` really
come to an end, and their configurations say so.

*What the violations show* (details and quotations under "findings"):

- `MeshGCSafe`: gossip never makes a remote node ACTIVE (`ActivationLocal`), so a
  collecting node takes the minimum over its own vector only and deletes what
  peers still need. They get a truncation error and need a new seed.
- `SeedStale`: a delta that is applied while the snapshot is loading is overwritten
  by an older chunk; the cursor covers it, so it is never sent again.
- `ReplicaLocal`: triggers store no field version, so at the node that wrote, an
  older remote write finds nothing to lose against.
- `MembershipRetire`: a retired node that still runs announces itself under every
  newer epoch; where that is heard first the retirement is ignored from then on.

*Observations met while modelling that have no run of their own.*

- Sync: `sendRanges` runs inside the read loop, so when both halves have more to
  send than the stream window holds, both block in a write, without a deadline
  (`SessionsEnd` fails in `Mesh` with `ChanCap` 1 and two writers). A truncated
  range ends the session in both directions, so the ranges behind it in the Need
  are never served while it stays truncated; `CatchUp` states how far that goes.
  A broadcast is applied without comparing schema versions.
- Apply: the DELETE branch of `applyRow` compares with the tombstone only, so a
  delete older than the row removes it if it arrives later, and does not if it
  arrives earlier. Of two apply transactions that overlap on a row, the last to
  commit wins, whatever its version: `NewestWins` and `DeletesStick` are false
  without the word "alone", a newer write is lost, and an insert with an older
  snapshot that commits after a delete brings the row back. The sentence this
  contradicts is the one `ReplicaLocal` already refutes. JSON numbers pass
  through float64, so integers above 2^53 change on the way.
- Clock: two triggers that overlap stamp from the same reading, so sequence order
  is not timestamp order between them, and the UPDATE of the later one can take
  back what an apply transaction has stored in between. `SaveHLC` sets the
  counter to 0 when the millisecond advances, whatever counter the in-memory
  clock has reached, so the next local write may be older than an observed or
  seeded event of that millisecond: `finish` does not restore the clock "past all
  seeded writes" (`target.go:248`), only to their millisecond.
- Membership: a merge that had read the row before a retirement writes it back to
  what was gossiped, although `membership.go:5` and `README.md:78` of the
  repository call retirement irreversible. `UpsertNode` never changes the status
  of an existing row, so re-adding a retired node leaves RETIRED with the new
  incarnation. Heartbeats carry the same first 32 members every time.
- Seeding: `Source.Stream` interleaves table headers with content and
  `Target.Fetch` feeds all headers first, so the digests differ as soon as a
  table other than the last one has content (`OnlyLast`). `ActiveBootstrapPins`
  takes the minimum over the sessions that have a row for an origin, so a younger
  session's pin frees history of an origin that an older session's joiner has
  never heard of. A session left STARTED by a crash or a cancelled context stops
  collection for ever. The source's own writes have neither field version nor
  tombstone, so a snapshot carries none for them: after the seed an older delta
  overwrites such a row or brings it back after the source has deleted it, and
  the seeded clock does not count them (`Foreign`). The pin goes away with the
  ACK, before the joiner counts as a receiver. A failed seed leaves rows behind,
  and `requireEmpty` refuses the retry; after a seed whose snapshot had no row it
  lets a second one through. Since a session without pins counts as holding
  nothing, `PinnedKept` would survive without `seedMu`; `PinInv` would not.
- Lifecycle: a `Close` that overlaps with `Start` may return before the loops
  have ended and leaves the transport open, and `Start` then returns nil. A
  second `Close` returns while the first is still at work. `syncAll` returns on a
  done context without waiting for its workers. `drain` closes only tracked
  connections, and readers untrack first, so an inbound connection with a session
  blocked in a read stays open. `Connect` and `BeginSeed` during `Start` use a
  transport that is not there yet. A call that is past `requireStarted` may dial
  after `Close`. A reconnect closes a healthy connection that other callers
  share.

## 4. The theorems

All are proved by TLAPS for every value of the constants that satisfies the
`ASSUME`s: any set of nodes, links and sessions, any bounds, any number of faults.

- `TypeCorrect` (`MeshProofs`): `Spec => []TypeOK`. One lemma per group of
  actions.
- `CursorsNeverMoveBack`, `Soundness`, `CursorsSound`, `AcksSound`
  (`MeshProofs`). `CursorSound` and `AckSound` are not inductive: a cursor is
  computed from a snapshot, an ACK carries a vector computed earlier. `SoundInv`
  adds that everything under way tells the truth: an open snapshot is below the
  present tables, a vector about to be sent or on a stream is below its sender's
  present vector, pending and travelling events are held by someone. The
  argument: tables and vectors only grow (`StepGrows`), so what was true when it
  was read is true when it is used (`InFlightSuffices`); each action then only
  has to justify what it newly puts under way, and the commit that
  `AdvanceContiguous` stops at the first gap (`FirstGapSound`, `AdvanceSound`).
- `Refinement` (`MeshProofs`): `Mesh` implements `ReplicatedLog` with `written <-
  seq`, `held <- applied`, `known <- progress`. A commit is a receipt
  (`ApplyIsReceive`), a recorded ACK is learning (`AckIsLearn`), every other step
  is a write or a stutter. It uses `SoundInv`.
- `PinsTyped`, `PinInvariant`, `PinsHold`, `MarksOnlyRise` (`PinsProofs`), from
  `PinInv`. Neither `PinnedKept` nor `MarkMonotone` is inductive: a cycle deletes
  by watermarks it read earlier, and a session pins a snapshot it took earlier.
  The invariant closes the triangle. `CollectedInv`: what is gone or marked lies
  below the source's own cursor. `SessionInv`: written pins equal the snapshot
  vector, and the vector covers what is gone from the moment it is read, because
  the cursors it consists of do. `CycleInv`: while a cycle runs nobody prepares,
  so the pins it read can only go away and stay bounds to its end, and each
  positive watermark is at least the persisted one. `seedMu` enters in one place,
  the first conjunct of `CycleInv`.
- `ClockInvariant`, `LocalOrder`, `RemoteOrder` (`ClockProofs`): `StampsIncrease`
  and `CausalMillisecond` for any number of connections. Neither is inductive: a
  stamp is computed from a reading, which may be stale when it is written.
  `ClockInv` adds that the stored clock is not older than the last local event
  nor in an earlier millisecond than a known remote one, and that the same held
  of each open trigger's reading at the time it was made.
- `RowInvariant`, `NewestWriteWins`, `NewestDeleteSticks`, `ReceiversConverge`
  (`ReplicaProofs`), for any number of workers on every node, from `RowInv`. A
  stored version is that of some applied write and as new as those applied alone,
  a tombstone that of some delete, and of the newest event if that is a delete
  applied alone (`StoredInv`); an open snapshot tells the same of what had been
  applied when it was taken, and is current as long as nothing has committed
  since (`TxInv`). A commit with a current snapshot resolves correctly; one with
  a stale snapshot puts everything it may have overwritten into `overlapped`. The
  proof rests on `Wins` being a strict total order on versions.
- `MemberInvariant`, `MembersTyped`, `ActivationStaysLocal`, `RetirementPersists`
  (`MembershipProofs`), from `MemberInv`. `ActivationLocal` is not inductive: a
  merge writes what it has read earlier, so `BeatInv` adds that no handler holds
  an ACTIVE reading or a record about its own node; `AdminInv` adds that a node
  stays JOINING while it activates itself, which is why an activation cannot undo
  a retirement. `TypeOK` bounds every epoch by the calls made so far.

- `VectorHonest` (`SeedProofs`): `Spec => []CursorTrue`, with no hypothesis on
  who writes. The joiner's vector is taken from a snapshot and combined with
  cursors that deltas moved, so `CursorInv` says of all three sets of tables
  (source, snapshot, joiner) that their cursors cover only what they hold
  (`Covers`), and that an origin's sequence numbers count its events
  (`Numbered`). A cursor that stops at the first gap keeps this (`AdvanceSound`,
  `ApplyCovers`); the larger of two cursors that do covers no more than both
  (`FinishStep`).
- `SeedInvariant`, `SeededRowsNewest`, `SeededDeletesStay` (`SeedProofs`), from
  `SeedInv`, whoever writes. The invariant is that versions and tombstones tell
  of the history of a node on the rows the source has not written itself
  (`Tells`, `Foreign`), which `applyRow` preserves in any order of delivery
  (`ApplyTells`); that while a load is undisturbed each column of the joiner
  agrees with the snapshot or waits for an item still in the stream (`LoadInv`);
  and that a later snapshot has everything an earlier one had (`Growing`), as
  `requireEmpty` may let a second load pass. Where a delivery fell into the load
  only the vector is claimed; `SeedStale` shows that the rows cannot be.
- `LastTableSeeds` (`SeedProofs`): `Spec => SeedActivates`. For any number of
  tables the digests agree when only the last one has content (`DigestsAgree`),
  so such a call never ends with a mismatch. It assumes that the tables are
  numbered from one (`TablesAssumption`).
- `LifeInvariant`, `ConnectionsKept`, `CloseIsComplete`, `NoSessionAfterServe`
  (`LifecycleProofs`), from `LifeInv`, for any sets of workers, application
  calls, closers and inbound connections and any bounds. `NoneLost` needs
  `DialInv`: a dial in progress holds the mutex of its slot, and the slot has no
  connection, so what the dial stores replaces nothing. `CloseComplete` speaks of
  the end of `Close`; `OrderlyInv` says what each of its stages has achieved by
  then, and that no later step undoes it: the wait group is empty only after the
  context is done, so nobody but the application's own calls, and a dial into a
  slot `RemovePeer` had dropped, can bring up a connection after the cache was
  emptied. That takes `StartInv` (the fields a `Close` copies are set once
  `Start` has returned), `CloserInv` (one caller does the work) and `CacheInv`
  (until the cache is emptied a slot is in the map or was dropped). `InboundInv`
  is what `drain` leaves behind.

Only model-checked: liveness (`SessionsEnd`, `Convergence`, `CatchUp`,
`EpochsAgree`, `CleanupResumes`, `SeedReturns`, `EventuallyQuiet`,
`CloseReturns`), which needs fairness and `ENABLED`. Every other property of a
passing run is a theorem.

## 5. Not modelled, and why

Framing, JSON, SQL text, certificates, quoting, value normalisation and encoding,
logging and status reports: no property is about them. The byte budget of
`FetchRange`: it only shortens a batch, as `BatchMaxEvents` does. `last_seen`,
health and RTT: derived at read time. `Clock.Tick`: used by tests only. The address
book (`AddPeer`, `learnPeer`): it only chooses which addresses the loops try.
Configuration defaults, table registration and UUID derivation: sequential,
without state of their own. Concurrent administrative calls on one node: one
transaction at a time is open in `Membership`. Heartbeats on one connection are
handled one after the other; overtaking needs two connections. The transaction
in which `Seed` applies a delta is one step; overlapping transactions are in
`Replica` and `Mesh`.

## 6. Plan

1. Done: `Store`, `Mesh`, `ReplicatedLog`, `Version`, `Clock`, `Replica`,
   `Membership`, `Pins`, `Seed`, `Lifecycle`, their runs and the proofs of their
   safety and action properties.
2. Next, proofs: the abstract counterpart of `Pins`, what a joiner may rely on.
3. An abstract specification of a replicated row that `Replica` implements on its
   receivers; composition of `Membership` with `Mesh` (`CheckPeer` and
   `CheckIncarnation` in sessions and apply); concurrent administrative calls
   of one node; two connections of a pair in `Membership`.
