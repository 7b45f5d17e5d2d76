----------------------------- MODULE Membership -----------------------------
(***************************************************************************)
(* Cluster membership: the replication_node table and the membership epoch *)
(* of every node, administrative changes (AddNode, RetireNode, Activate)   *)
(* and heartbeat gossip (Heartbeat, HandleHeartbeat, mergeMember).         *)
(*                                                                         *)
(* A node handles the heartbeats of different connections concurrently,    *)
(* and next to its administration.  The merge of a member is a SELECT and  *)
(* a later write outside any transaction; an administrative change is a    *)
(* transaction that reads a snapshot and writes the latest rows; the epoch *)
(* is kept in memory and in the database, written one after the other.     *)
(***************************************************************************)
EXTENDS Integers, FiniteSets, FiniteSetsExt

CONSTANTS
    Node,      \* the nodes; natural numbers, as members are walked in order
    Conn,      \* <<p, n, k>>: the k-th connection p sends heartbeats to n on
    Admins,    \* the nodes whose application adds and retires members
    Subjects,  \* the members they add and retire
    Running,   \* Running[n]: the incarnation that runs as n
    Listed,    \* <<n, m>>: n has discovered m before we look
    Joiners,   \* the nodes that activate themselves (Join, first start)
    MaxMembers,\* maxMembers, the records of others a heartbeat carries at most
    MaxInc,    \* bound: incarnations of a node
    MaxOps,    \* bound: administrative calls, on all nodes together
    MaxFaults  \* bound: losses, failed statements and crashes

ASSUME MemberAssumption ==
    /\ Node \subseteq Nat
    /\ \A c \in Conn : c[1] \in Node /\ c[2] \in Node /\ c[1] # c[2]
    /\ Admins \subseteq Node /\ Subjects \subseteq Node /\ Joiners \subseteq Node
    /\ Listed \subseteq Node \X Node
    /\ Running \in [Node -> 1 .. MaxInc]
    /\ MaxMembers \in Nat /\ MaxInc \in Nat \ {0} /\ MaxOps \in Nat /\ MaxFaults \in Nat

VARIABLES
    row,       \* row[n][m]: what the replication_node table of n says of m
    dbEpoch,   \* dbEpoch[n]: membership_epoch in replication_meta
    memEpoch,  \* memEpoch[n]: Manager.epoch
    beat,      \* beat[c]: the heartbeat under way on connection c
    admin,     \* admin[n]: the administrative transaction open at n
    ops,       \* the administrative calls so far
    faults     \* the faults so far

vars == <<row, dbEpoch, memEpoch, beat, admin, ops, faults>>

Incs == 1 .. MaxInc
\* Epochs count administrative calls.
Epoch == 0 .. ops
Status == {"JOINING", "ACTIVE", "RETIRED"}
Member == [status : Status, inc : Incs, epoch : Epoch]
NoMember == [status |-> "none", inc |-> 0, epoch |-> 0]

\* A gossiped member record (protocol.MemberInfo).
Info == [node : Node, status : Status, inc : Incs, epoch : Epoch]

\* A heartbeat is built by its sender, sent, and merged by its receiver record
\* by record.  One at a time is under way on a connection.
NoBeat == [pc |-> "none", epoch |-> 0, todo |-> {}, stored |-> NoMember]
BeatState ==
    [pc : {"none", "built", "sent", "save", "read", "write"}, epoch : Epoch,
     todo : SUBSET Info, stored : Member \cup {NoMember}]

NoOp == [pc |-> "none", op |-> "none", node |-> 0, inc |-> 0,
         stored |-> NoMember, epoch |-> 0]
AdminState ==
    [pc : {"begun", "bumped"}, op : {"add", "retire", "activate"}, node : Node,
     inc : Incs, stored : Member \cup {NoMember}, epoch : 0 .. ops - 1] \cup {NoOp}

\* The row EnsureSelf inserts on a fresh database, and the row the first
\* heartbeat of a member leaves before any administrative change.
Newcomer(m) == [status |-> "JOINING", inc |-> Running[m], epoch |-> 0]

Init ==
    /\ row = [n \in Node |-> [m \in Node |->
                IF m = n \/ <<n, m>> \in Listed THEN Newcomer(m) ELSE NoMember]]
    /\ dbEpoch = [n \in Node |-> 0]
    /\ memEpoch = [n \in Node |-> 0]
    /\ beat = [c \in Conn |-> NoBeat]
    /\ admin = [n \in Node |-> NoOp]
    /\ ops = 0
    /\ faults = 0

-----------------------------------------------------------------------------
(* The statements on a replication_node row (internal/store/nodes.go).     *)

Larger(a, b) == IF a >= b THEN a ELSE b

\* INSERT ... ON DUPLICATE KEY UPDATE: an existing row keeps its status.
UpsertNode(cur, status, i, epoch) ==
    IF cur = NoMember THEN [status |-> status, inc |-> i, epoch |-> epoch]
    ELSE [cur EXCEPT !.inc = i, !.epoch = Larger(@, epoch)]

\* UPDATE: a row that is not there stays away.
MutantSetNodeStatus(cur, status, epoch) ==    \* the epoch is bumped once more
    [cur EXCEPT !.status = status, !.epoch = epoch + 1]
SetNodeStatus(cur, status, epoch) ==
    IF cur = NoMember THEN NoMember
    ELSE [cur EXCEPT !.status = status, !.epoch = epoch]

-----------------------------------------------------------------------------
(* Administration.  A call that returns before it writes changes nothing   *)
(* and is no step.                                                         *)

\* GetNode and GetEpoch read the transaction's snapshot.
Begin(n, op, m, i) ==
    /\ ops < MaxOps
    /\ admin[n] = NoOp
    /\ ops' = ops + 1
    /\ admin' = [admin EXCEPT ![n] =
                    [pc |-> "begun", op |-> op, node |-> m, inc |-> i,
                     stored |-> row[n][m], epoch |-> dbEpoch[n]]]
    /\ UNCHANGED <<row, dbEpoch, memEpoch, beat, faults>>

\* AddNode refuses the incarnation it has retired.
AddNode(n, m, i) ==
    ~(row[n][m].status = "RETIRED" /\ row[n][m].inc = i) /\ Begin(n, "add", m, i)

RetireNode(n, m) ==
    row[n][m] # NoMember /\ Begin(n, "retire", m, row[n][m].inc)

MutantActivate(n) ==    \* whatever the status
    Begin(n, "activate", n, Running[n])
Activate(n) ==
    row[n][n].status = "JOINING" /\ Begin(n, "activate", n, Running[n])

\* bumpEpoch: the new epoch is in memory before the transaction commits, and
\* the transaction locks the row of the persisted one.
bumpEpoch(n) ==
    /\ admin[n].pc = "begun"
    /\ memEpoch' = [memEpoch EXCEPT ![n] = admin[n].epoch + 1]
    /\ admin' = [admin EXCEPT ![n].pc = "bumped"]
    /\ UNCHANGED <<row, dbEpoch, beat, ops, faults>>

\* AddNode of a node that is known and not retired fails only now.
AlreadyKnown(a) == a.op = "add" /\ a.stored.status \in {"JOINING", "ACTIVE"}

Changed(a, cur) ==
    CASE a.op = "add"      -> UpsertNode(cur, "JOINING", a.inc, a.epoch + 1)
      [] a.op = "retire"   -> SetNodeStatus(cur, "RETIRED", a.epoch + 1)
      [] a.op = "activate" -> SetNodeStatus(cur, "ACTIVE", a.epoch + 1)

Commit(n) ==
    LET a == admin[n]
    IN  /\ a.pc = "bumped" /\ ~AlreadyKnown(a)
        /\ row' = [row EXCEPT ![n][a.node] = Changed(a, @)]
        /\ dbEpoch' = [dbEpoch EXCEPT ![n] = a.epoch + 1]
        /\ admin' = [admin EXCEPT ![n] = NoOp]
        /\ UNCHANGED <<memEpoch, beat, ops, faults>>

Rollback(n) ==
    /\ admin[n].pc = "bumped" /\ AlreadyKnown(admin[n])
    /\ admin' = [admin EXCEPT ![n] = NoOp]
    /\ UNCHANGED <<row, dbEpoch, memEpoch, beat, ops, faults>>

-----------------------------------------------------------------------------
(* Heartbeats.                                                             *)

From(c) == c[1]
To(c) == c[2]

InfoOf(n, m) ==
    [node |-> m, status |-> row[n][m].status, epoch |-> row[n][m].epoch,
     inc |-> IF m = n THEN Running[n] ELSE row[n][m].inc]

\* The first MaxMembers others in the order of their identifiers.
Members(p) ==
    LET others == {m \in Node \ {p} : row[p][m] # NoMember}
    IN  {m \in others : Cardinality({k \in others : k <= m}) <= MaxMembers}

\* Heartbeat reads the sender's status and its members ...
Heartbeat(c) ==
    LET p == From(c)
    IN  /\ beat[c] = NoBeat
        /\ beat' = [beat EXCEPT ![c] =
                      [NoBeat EXCEPT !.pc = "built",
                         !.todo = {InfoOf(p, m) : m \in {p} \cup Members(p)}]]
        /\ UNCHANGED <<row, dbEpoch, memEpoch, admin, ops, faults>>

\* ... and then the epoch, which also stands for the sender's own record.  The
\* receiver skips what is said of itself.
SendBeat(c) ==
    LET now == memEpoch[From(c)]
    IN  /\ beat[c].pc = "built"
        /\ beat' = [beat EXCEPT
                      ![c].pc = "sent", ![c].epoch = now,
                      ![c].todo = {IF e.node = From(c) THEN [e EXCEPT !.epoch = now] ELSE e :
                                      e \in {x \in @ : x.node # To(c)}}]
        /\ UNCHANGED <<row, dbEpoch, memEpoch, admin, ops, faults>>

\* setEpoch's loop on the in-memory epoch: only a higher one is taken.
MutantAdopted(cur, epoch) == epoch
Adopted(cur, epoch) == Larger(cur, epoch)

\* HandleHeartbeat up to the compare-and-swap of setEpoch.
HandleHeartbeat(c) ==
    LET n == To(c)
    IN  /\ beat[c].pc = "sent"
        /\ memEpoch' = [memEpoch EXCEPT ![n] = Adopted(@, beat[c].epoch)]
        /\ beat' = [beat EXCEPT ![c].pc = IF beat[c].epoch > memEpoch[n] THEN "save"
                                          ELSE "read"]
        /\ UNCHANGED <<row, dbEpoch, admin, ops, faults>>

\* The second half of setEpoch: the database is overwritten, once the row is
\* not locked.
setEpoch(c) ==
    /\ beat[c].pc = "save" /\ admin[To(c)].pc # "bumped"
    /\ dbEpoch' = [dbEpoch EXCEPT ![To(c)] = beat[c].epoch]
    /\ beat' = [beat EXCEPT ![c].pc = "read"]
    /\ UNCHANGED <<row, memEpoch, admin, ops, faults>>

\* The record to merge next: the sender's own, then the members in order.
NextInfo(c) ==
    CHOOSE e \in beat[c].todo :
        \A x \in beat[c].todo : e.node = From(c) \/ (x.node # From(c) /\ e.node <= x.node)

ReadMember(c) ==
    /\ beat[c].pc = "read"
    /\ beat' = [beat EXCEPT ![c].pc = "write", ![c].stored = row[To(c)][NextInfo(c).node]]
    /\ UNCHANGED <<row, dbEpoch, memEpoch, admin, ops, faults>>

\* A stranger is never taken for ACTIVE.
MutantDiscovered(status) == status
Discovered(status) == IF status = "RETIRED" THEN "RETIRED" ELSE "JOINING"

MutantIgnored(e, stored) ==    \* gossip overwrites a retired record
    stored.inc # e.inc /\ e.status = "RETIRED"
Ignored(e, stored) ==
    \/ stored.status = "RETIRED"
    \/ stored.inc # e.inc /\ e.status = "RETIRED"

\* mergeMember: the rows it may leave, given the latest row, the one it has
\* read and the record e.  An older record only refreshes the address, when
\* that has changed.
Merged(cur, stored, e) ==
    IF stored = NoMember THEN {UpsertNode(cur, Discovered(e.status), e.inc, e.epoch)}
    ELSE IF Ignored(e, stored) THEN {cur}
    ELSE IF e.epoch > stored.epoch /\ e.status = "ACTIVE"
         THEN {UpsertNode(cur, stored.status, e.inc, e.epoch)}
    ELSE IF e.epoch > stored.epoch \/ (e.epoch = stored.epoch /\ e.status = "RETIRED")
         THEN {SetNodeStatus(cur, e.status, e.epoch)}
    ELSE {cur, UpsertNode(cur, stored.status, stored.inc, stored.epoch)}

WriteMember(c) ==
    LET n == To(c)
        e == NextInfo(c)
        rest == beat[c].todo \ {e}
    IN  /\ beat[c].pc = "write"
        /\ \E r \in Merged(row[n][e.node], beat[c].stored, e) :
              row' = [row EXCEPT ![n][e.node] = r]
        /\ beat' = [beat EXCEPT ![c] =
                      IF rest = {} THEN NoBeat
                      ELSE [@ EXCEPT !.pc = "read", !.todo = rest, !.stored = NoMember]]
        /\ UNCHANGED <<dbEpoch, memEpoch, admin, ops, faults>>

-----------------------------------------------------------------------------
(* Faults.                                                                 *)

Fault == faults < MaxFaults /\ faults' = faults + 1

\* The datagram is lost, or a statement of its sender or its handler fails.
LoseBeat(c) ==
    /\ Fault
    /\ beat[c] # NoBeat
    /\ beat' = [beat EXCEPT ![c] = NoBeat]
    /\ UNCHANGED <<row, dbEpoch, memEpoch, admin, ops>>

\* A statement of the transaction fails, or its commit.
FailAdmin(n) ==
    /\ Fault
    /\ admin[n] # NoOp
    /\ admin' = [admin EXCEPT ![n] = NoOp]
    /\ UNCHANGED <<row, dbEpoch, memEpoch, beat, ops>>

\* What n was building or handling is gone, and so are the datagrams lost with
\* its connections; a handler already running at the other end goes on with the
\* datagram it has read.
Interrupted(n, lost) ==
    [c \in Conn |->
        IF To(c) = n \/ c \in lost \/ (From(c) = n /\ beat[c].pc = "built")
        THEN NoBeat ELSE beat[c]]

\* The process dies and starts again: LoadEpoch. A datagram on the wire may
\* still arrive or be lost.
Crash(n) ==
    /\ Fault
    /\ memEpoch' = [memEpoch EXCEPT ![n] = dbEpoch[n]]
    /\ \E lost \in SUBSET {c \in Conn : From(c) = n /\ beat[c].pc = "sent"} :
          beat' = Interrupted(n, lost)
    /\ admin' = [admin EXCEPT ![n] = NoOp]
    /\ UNCHANGED <<row, dbEpoch, ops>>

-----------------------------------------------------------------------------
AdminCall(n) ==
    \/ n \in Admins /\ \E m \in Subjects, i \in Incs : AddNode(n, m, i)
    \/ n \in Admins /\ \E m \in Subjects : RetireNode(n, m)
    \/ n \in Joiners /\ Activate(n)

AdminStep(n) == bumpEpoch(n) \/ Commit(n) \/ Rollback(n)

BeatStep(c) ==
    \/ Heartbeat(c) \/ SendBeat(c) \/ HandleHeartbeat(c) \/ setEpoch(c)
    \/ ReadMember(c) \/ WriteMember(c)

FaultStep ==
    \/ \E c \in Conn : LoseBeat(c)
    \/ \E n \in Node : FailAdmin(n) \/ Crash(n)

Next ==
    \/ \E n \in Node : AdminCall(n) \/ AdminStep(n)
    \/ \E c \in Conn : BeatStep(c)
    \/ FaultStep

Spec == Init /\ [][Next]_vars

\* Heartbeat loops keep beating (their ticker), handlers and transactions go on.
Fairness ==
    /\ \A c \in Conn : WF_vars(BeatStep(c))
    /\ \A n \in Node : WF_vars(AdminStep(n))

FairSpec == Spec /\ Fairness

-----------------------------------------------------------------------------
(* Properties.                                                             *)

\* Every variable keeps to the shape of the table, message or field it models,
\* and no epoch is higher than the administrative calls account for (bumpEpoch).
TypeOK ==
    /\ row \in [Node -> [Node -> Member \cup {NoMember}]]
    /\ dbEpoch \in [Node -> Epoch] /\ memEpoch \in [Node -> Epoch]
    /\ beat \in [Conn -> BeatState]
    /\ admin \in [Node -> AdminState]
    /\ ops \in 0 .. MaxOps /\ faults \in 0 .. MaxFaults

Retired(n, m) == row[n][m].status = "RETIRED"

\* "Strangers are auto-added as JOINING but never auto-activated" (mergeMember):
\* whatever is gossiped and however merges overlap, a node lists nobody but
\* itself as ACTIVE, so collection counts no receiver but the node itself.
ActivationLocal == \A n, m \in Node : row[n][m].status = "ACTIVE" => m = n

\* Some handler at n is about to write m on the strength of an older reading.
StaleReader(n, m) ==
    \E c \in Conn : /\ To(c) = n /\ beat[c].pc = "write"
                    /\ NextInfo(c).node = m /\ beat[c].stored.status # "RETIRED"

\* "Retirement is irreversible" (mergeMember): no gossip, no administrative
\* change and no restart takes a retirement back, except a merge that had read
\* the row before it was retired.
RetirementSticks ==
    [][\A n, m \in Node : Retired(n, m) /\ ~StaleReader(n, m)
          => Retired(n, m)']_vars

\* What a handler and a transaction hold on to: a handler never merges what is
\* said of its own node, has not read an ACTIVE row, and has something to
\* merge; a node lists itself, and is JOINING while it activates (Activate).
BeatInv ==
    \A c \in Conn :
        /\ beat[c].stored.status # "ACTIVE"
        /\ beat[c].pc \in {"sent", "save", "read", "write"} =>
              beat[c].todo # {} /\ \A e \in beat[c].todo : e.node # To(c)
        /\ beat[c].pc = "built" => \E e \in beat[c].todo : e.node # To(c)

AdminInv ==
    \A n \in Node :
        /\ row[n][n] # NoMember
        /\ admin[n].op = "activate" =>
              admin[n].node = n /\ row[n][n].status = "JOINING"

\* The inductive invariant behind ActivationLocal and RetirementSticks
\* (HandleHeartbeat, mergeMember, Activate).
MemberInv == TypeOK /\ ActivationLocal /\ BeatInv /\ AdminInv

\* "A higher membership epoch always wins" (setEpoch, bumpEpoch): once the
\* administration stops, all nodes agree on the epoch, although memory and
\* database are written apart and crashes fall back to the database.
EpochsAgree == <>[](\A m, n \in Node : memEpoch[m] = memEpoch[n])

\* "Retirement always wins" (HandleHeartbeat): the retirement of an incarnation
\* prevails over every other node's record of it when it gets there, so none is
\* of a higher epoch while a changes nothing itself (mergeMember).
RetirementWins ==
    \A a, n, m \in Node :
        /\ Retired(a, m) /\ admin[a] = NoOp /\ n # m
        /\ row[n][m].status \in {"JOINING", "ACTIVE"} /\ row[n][m].inc = row[a][m].inc
        => row[n][m].epoch <= row[a][m].epoch
=============================================================================
